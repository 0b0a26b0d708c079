---------------------------- MODULE SignalClient ----------------------------
(***************************************************************************)
(* The signal client of signalclient.go: the shell's goroutine, which runs *)
(* one command at a time; the goroutine of Start, which dials, runs        *)
(* (Run's write loop) and reconnects; and a reader goroutine for each link *)
(* that was ever dialled.  They share the network status, the online flag, *)
(* the request queue ch_send, the pending map and one channel ch_exit, on  *)
(* which both a reader's error and Close's nil end "the" Run.              *)
(*                                                                         *)
(* The server and the network are outside: a link may break, and a server  *)
(* answers the requests of a link in order and sends events to a link that *)
(* is logged in; what has been sent on a link arrives in order, also after *)
(* the link is down.  An event is handled by the reader itself, and for    *)
(* ice-open and ice-close it sends an acknowledgement with SendRequest     *)
(* (Endpoint.OnRemoteEvent); other events change nothing here.             *)
(*                                                                         *)
(* The map pending is read and written by Run and the readers without a    *)
(* lock.  Go's runtime may abort the process when it notices; the other    *)
(* outcomes are those of the map operations in some order, which is what   *)
(* the actions give.  An abort is a behaviour that stops.                  *)
(*                                                                         *)
(* A definition marked "Faulty" is no part of the client: it is what the   *)
(* definition after it would be with a plausible mistake.                  *)
(***************************************************************************)
EXTENDS Integers, Sequences

CONSTANTS
  Links,         \* websocket connections; one is used again when it is done
  Reqs,          \* requests in use at a time; one is used again when forgotten
  None,          \* no link, no request
  Shell,         \* the shell as a caller of SendRequest
  QueueSize,     \* capacity of ch_send
  Disconnects,   \* does the user disconnect?
  LinkMayBreak,  \* may an open link break?
  WriteNotices   \* may a write on a broken link fail before the reader does?

ASSUME NoneAssumption == None \notin Links \cup Reqs
ASSUME ShellAssumption == Shell \notin Links
ASSUME QueueAssumption == QueueSize \in Nat \ {0}
ASSUME SwitchAssumption == {Disconnects, LinkMayBreak, WriteNotices} \subseteq BOOLEAN

Callers == Links \cup {Shell}

Kinds == {"login", "logout", "other"}

VARIABLES
  network,   \* SignalClient.network
  online,    \* SignalClient.online
  closing,   \* the shell is blocked in Close
  runner,    \* where the goroutine of Start is
  link,      \* the link of the present Run
  taken,     \* the request that Run has written and not yet made pending
  queue,     \* ch_send
  pending,   \* the keys of SignalClient.pending
  call,      \* what a caller's SendRequest is doing, and with which request
  kind,      \* what a request asks
  response,  \* what was put into a request's ch_resp
  reader,    \* the reader goroutine of a link
  open,      \* the link is neither broken nor closed
  asked,     \* requests on their way to the server
  answers,   \* responses and events on their way from the server
  loggedIn   \* the server's view of a link

runVars == <<runner, link, taken, network>>
linkVars == <<reader, open, asked, answers, loggedIn>>
callVars == <<call, kind, response>>
vars == <<runVars, linkVars, callVars, online, closing, queue, pending>>

Event == <<None, "event">>

Messages == (Reqs \X {"ok", "error"}) \cup {Event}

TypeOK ==
  /\ network \in {"unknown", "connecting", "connected", "disconnected"}
  /\ online \in BOOLEAN
  /\ closing \in BOOLEAN
  /\ runner \in {"off", "starting", "dialing", "cleaning", "selecting", "written",
                 "failing", "leaving", "sleeping"}
  /\ link \in Links \cup {None}
  /\ taken \in Reqs \cup {None}
  /\ queue \in Seq(Reqs)
  /\ Len(queue) <= QueueSize
  /\ pending \subseteq Reqs
  /\ call \in [Callers -> [stage : {"none", "sending", "waiting", "answered"},
                           req   : Reqs \cup {None}]]
  /\ kind \in [Reqs -> Kinds]
  /\ response \in [Reqs -> {"none", "ok", "error"}]
  /\ reader \in [Links -> {"none", "reading", "exiting"}]
  /\ open \in [Links -> BOOLEAN]
  /\ asked \in [Links -> Seq(Reqs)]
  /\ answers \in [Links -> Seq(Messages)]
  /\ loggedIn \in [Links -> BOOLEAN]

NoCall == [stage |-> "none", req |-> None]

Init ==
  /\ network = "unknown" /\ online = FALSE /\ closing = FALSE
  /\ runner = "off" /\ link = None /\ taken = None
  /\ queue = <<>> /\ pending = {}
  /\ call = [c \in Callers |-> NoCall]
  /\ kind = [r \in Reqs |-> "other"]
  /\ response = [r \in Reqs |-> "none"]
  /\ reader = [l \in Links |-> "none"]
  /\ open = [l \in Links |-> FALSE]
  /\ asked = [l \in Links |-> <<>>]
  /\ answers = [l \in Links |-> <<>>]
  /\ loggedIn = [l \in Links |-> FALSE]

-----------------------------------------------------------------------------
(* SendRequest, called by the shell or by a reader that handles an event.  *)

InSeq(s) == {s[k] : k \in DOMAIN s}

\* Nothing refers to r: a new request, under a new random Sequence, may be r.
Unused(r) ==
  /\ r \notin pending \cup InSeq(queue) \cup {taken}
  /\ \A c \in Callers : call[c].req # r
  /\ \A l \in Links : /\ r \notin InSeq(asked[l])
                      /\ \A a \in InSeq(answers[l]) : a[1] # r

Call(c, k) ==
  /\ call[c] = NoCall
  /\ \E r \in Reqs : /\ Unused(r)
                     /\ call' = [call EXCEPT ![c] = [stage |-> "sending", req |-> r]]
                     /\ kind' = [kind EXCEPT ![r] = k]
                     /\ response' = [response EXCEPT ![r] = "none"]

\* Faulty: ch_send has no bound.
PushOver(c) ==
  /\ call[c].stage = "sending"
  /\ queue' = Append(queue, call[c].req)
  /\ call' = [call EXCEPT ![c].stage = "waiting"]
  /\ UNCHANGED <<runVars, linkVars, kind, response, online, closing, pending>>

\* `sc.ch_send <- req` blocks while the queue is full; the timeout is not yet
\* looked at.
Push(c) ==
  /\ call[c].stage = "sending"
  /\ Len(queue) < QueueSize
  /\ queue' = Append(queue, call[c].req)
  /\ call' = [call EXCEPT ![c].stage = "waiting"]
  /\ UNCHANGED <<runVars, linkVars, kind, response, online, closing, pending>>

Answered(c) ==
  /\ call[c].stage = "waiting"
  /\ response[call[c].req] # "none"
  /\ call' = [call EXCEPT ![c].stage = "answered"]
  /\ UNCHANGED <<runVars, linkVars, kind, response, online, closing, queue, pending>>

\* Faulty: a request expires with its entry in the pending map.
TimesOutPending(c) ==
  /\ call[c].stage = "waiting"
  /\ call[c].req \in pending
  /\ call' = [call EXCEPT ![c] = NoCall]
  /\ UNCHANGED <<runVars, linkVars, kind, response, online, closing, queue, pending>>

\* After 3 s; the request stays wherever it is.
TimesOut(c) ==
  /\ call[c].stage = "waiting"
  /\ call' = [call EXCEPT ![c] = NoCall]
  /\ UNCHANGED <<runVars, linkVars, kind, response, online, closing, queue, pending>>

\* The caller goes on with the response.  Login and Logout set the flag only
\* now; the connection they set it for may be gone.
Return(c) ==
  /\ call[c].stage = "answered"
  /\ call' = [call EXCEPT ![c] = NoCall]
  /\ LET r == call[c].req IN
       online' = IF response[r] = "ok" /\ kind[r] # "other"
                   THEN kind[r] = "login" ELSE online
  /\ UNCHANGED <<runVars, linkVars, kind, response, closing, queue, pending>>

-----------------------------------------------------------------------------
(* The user's commands. *)

Idle == call[Shell] = NoCall /\ ~closing

\* The goroutine that Start creates sets the status before the user can type
\* the next command, so there is one such goroutine at a time.
Connect ==
  /\ Idle
  /\ network \in {"unknown", "disconnected"}
  /\ runner = "off"
  /\ runner' = "starting"
  /\ UNCHANGED <<link, taken, network, linkVars, callVars, online, closing, queue, pending>>

\* Close blocks until somebody receives from ch_exit.
Disconnect ==
  /\ Disconnects
  /\ Idle
  /\ network \in {"connecting", "connected"}
  /\ closing' = TRUE
  /\ UNCHANGED <<runVars, linkVars, callVars, online, queue, pending>>

\* Of the other requests register is made only while offline, the service and
\* ice requests only while online.
Command(k) ==
  /\ Idle
  /\ network = "connected"
  /\ (k = "login" => ~online) /\ (k = "logout" => online)
  /\ Call(Shell, k)
  /\ UNCHANGED <<runVars, linkVars, online, closing, queue, pending>>

-----------------------------------------------------------------------------
(* Start and Run. *)

Begin ==
  /\ runner \in {"starting", "sleeping"}
  /\ runner' = "dialing"
  /\ network' = "connecting"
  /\ UNCHANGED <<link, taken, linkVars, callVars, online, closing, queue, pending>>

DialFails ==
  /\ runner = "dialing"
  /\ runner' = "sleeping"
  /\ UNCHANGED <<link, taken, network, linkVars, callVars, online, closing, queue, pending>>

Dial(l) ==
  /\ runner = "dialing"
  /\ reader[l] = "none"
  /\ runner' = "cleaning"
  /\ network' = "connected"
  /\ link' = l
  /\ reader' = [reader EXCEPT ![l] = "reading"]
  /\ open' = [open EXCEPT ![l] = TRUE]
  /\ UNCHANGED <<taken, asked, answers, loggedIn, callVars, online, closing, queue, pending>>

\* "clean queue": the requests of callers that still wait go as well.
CleanQueue ==
  /\ runner = "cleaning"
  /\ runner' = "selecting"
  /\ queue' = <<>>
  /\ UNCHANGED <<link, taken, network, linkVars, callVars, online, closing, pending>>

\* A write on a broken link may also succeed, into a buffer.
WriteRequest ==
  /\ runner = "selecting"
  /\ queue # <<>>
  /\ runner' = "written"
  /\ taken' = Head(queue)
  /\ queue' = Tail(queue)
  /\ asked' = [asked EXCEPT ![link] = IF open[link] THEN Append(@, Head(queue)) ELSE @]
  /\ UNCHANGED <<link, network, reader, open, answers, loggedIn, callVars, online,
                 closing, pending>>

WriteFails ==
  /\ WriteNotices
  /\ runner = "selecting"
  /\ queue # <<>>
  /\ ~open[link]
  /\ queue' = Tail(queue)
  /\ runner' = "failing"
  /\ UNCHANGED <<link, taken, network, linkVars, callVars, online, closing, pending>>

\* Only now can the reader find the request.
MakePending ==
  /\ runner = "written"
  /\ pending' = pending \cup {taken}
  /\ taken' = None
  /\ runner' = "selecting"
  /\ UNCHANGED <<link, network, linkVars, callVars, online, closing, queue>>

\* The ticker: entries older than 5 s, so nobody waits for them any more.
CleanPending(r) ==
  /\ runner = "selecting"
  /\ r \in pending
  /\ \A c \in Callers : call[c].req # r
  /\ pending' = pending \ {r}
  /\ UNCHANGED <<runVars, linkVars, callVars, online, closing, queue>>

\* ch_exit delivers the error of a reader, whichever link it is of.  Then the
\* link is done; what it still held is lost.
TakeError(l) ==
  /\ runner = "selecting"
  /\ reader[l] = "exiting"
  /\ reader' = [reader EXCEPT ![l] = "none"]
  /\ runner' = "failing"
  /\ asked' = [asked EXCEPT ![l] = <<>>]
  /\ answers' = [answers EXCEPT ![l] = <<>>]
  /\ loggedIn' = [loggedIn EXCEPT ![l] = FALSE]
  /\ UNCHANGED <<link, taken, network, open, callVars, online, closing, queue, pending>>

TakeClose ==
  /\ runner = "selecting"
  /\ closing
  /\ closing' = FALSE
  /\ runner' = "leaving"
  /\ UNCHANGED <<link, taken, network, linkVars, callVars, online, queue, pending>>

\* Faulty: Run returns without closing its socket.
RunEndsOpen ==
  /\ runner \in {"failing", "leaving"}
  /\ runner' = IF runner = "failing" THEN "sleeping" ELSE "off"
  /\ network' = IF runner = "failing" THEN network ELSE "disconnected"
  /\ online' = FALSE
  /\ link' = None
  /\ UNCHANGED <<taken, linkVars, callVars, closing, queue, pending>>

\* Faulty: Start does not try again.
RunEndsForGood ==
  /\ runner \in {"failing", "leaving"}
  /\ runner' = "off"
  /\ network' = "disconnected"
  /\ online' = FALSE
  /\ open' = [open EXCEPT ![link] = FALSE]
  /\ link' = None
  /\ UNCHANGED <<taken, reader, asked, answers, loggedIn, callVars, closing, queue, pending>>

\* Run's deferred function; then Start sleeps, still "connected", or ends.
RunEnds ==
  /\ runner \in {"failing", "leaving"}
  /\ runner' = IF runner = "failing" THEN "sleeping" ELSE "off"
  /\ network' = IF runner = "failing" THEN network ELSE "disconnected"
  /\ online' = FALSE
  /\ open' = [open EXCEPT ![link] = FALSE]
  /\ link' = None
  /\ UNCHANGED <<taken, reader, asked, answers, loggedIn, callVars, closing, queue, pending>>

-----------------------------------------------------------------------------
(* The reader of a link. *)

Reading(l) == reader[l] = "reading" /\ call[l] = NoCall

NextIsAnswer(l) == answers[l] # <<>> /\ Head(answers[l]) # Event

\* Faulty: the entry stays in the map.
ReadAnswerAgain(l) ==
  /\ Reading(l)
  /\ NextIsAnswer(l)
  /\ LET a == Head(answers[l]) IN
       response' = IF a[1] \in pending THEN [response EXCEPT ![a[1]] = a[2]] ELSE response
  /\ answers' = [answers EXCEPT ![l] = Tail(@)]
  /\ UNCHANGED <<runVars, reader, open, asked, loggedIn, call, kind, online, closing,
                 queue, pending>>

\* A response to a request that is not pending is dropped.  What has arrived on
\* a link can still be read when the link is broken or closed, or be lost.
ReadAnswer(l) ==
  /\ Reading(l)
  /\ NextIsAnswer(l)
  /\ LET a == Head(answers[l]) IN
       /\ response' = IF a[1] \in pending THEN [response EXCEPT ![a[1]] = a[2]] ELSE response
       /\ pending' = pending \ {a[1]}
  /\ answers' = [answers EXCEPT ![l] = Tail(@)]
  /\ UNCHANGED <<runVars, reader, open, asked, loggedIn, call, kind, online, closing, queue>>

\* An event that is acknowledged, on whatever link is now open: the reader does
\* not read until it has an answer or gives up.
ReadEvent(l) ==
  /\ Reading(l)
  /\ answers[l] # <<>> /\ Head(answers[l]) = Event
  /\ answers' = [answers EXCEPT ![l] = Tail(@)]
  /\ Call(l, "other")
  /\ UNCHANGED <<runVars, reader, open, asked, loggedIn, online, closing, queue, pending>>

\* Faulty: a message that cannot be decoded ends the reader.
ReadFailsAnyway(l) ==
  /\ Reading(l)
  /\ reader' = [reader EXCEPT ![l] = "exiting"]
  /\ UNCHANGED <<runVars, open, asked, answers, loggedIn, callVars, online, closing,
                 queue, pending>>

\* The reader's `ch_exit <- err` blocks until a Run receives it.
ReadFails(l) ==
  /\ Reading(l)
  /\ ~open[l]
  /\ reader' = [reader EXCEPT ![l] = "exiting"]
  /\ UNCHANGED <<runVars, open, asked, answers, loggedIn, callVars, online, closing,
                 queue, pending>>

-----------------------------------------------------------------------------
(* The network and the server. *)

Break(l) ==
  /\ LinkMayBreak
  /\ open[l]
  /\ open' = [open EXCEPT ![l] = FALSE]
  /\ UNCHANGED <<runVars, reader, asked, answers, loggedIn, callVars, online, closing,
                 queue, pending>>

ServerAnswers(l) ==
  /\ open[l]
  /\ asked[l] # <<>>
  /\ \E result \in {"ok", "error"} :
       LET r == Head(asked[l]) IN
         /\ answers' = [answers EXCEPT ![l] = Append(@, <<r, result>>)]
         /\ loggedIn' = [loggedIn EXCEPT ![l] =
                           IF result = "ok" /\ kind[r] # "other" THEN kind[r] = "login" ELSE @]
  /\ asked' = [asked EXCEPT ![l] = Tail(@)]
  /\ UNCHANGED <<runVars, reader, open, callVars, online, closing, queue, pending>>

\* Bound: one event of a link that is not yet read.
ServerNotifies(l) ==
  /\ open[l]
  /\ loggedIn[l]
  /\ Event \notin InSeq(answers[l])
  /\ answers' = [answers EXCEPT ![l] = Append(@, Event)]
  /\ UNCHANGED <<runVars, reader, open, asked, loggedIn, callVars, online, closing,
                 queue, pending>>

-----------------------------------------------------------------------------

Next ==
  \/ Connect \/ Disconnect \/ \E k \in Kinds : Command(k)
  \/ \E c \in Callers : Push(c) \/ Answered(c) \/ TimesOut(c) \/ Return(c)
  \/ Begin \/ DialFails \/ CleanQueue \/ WriteRequest \/ WriteFails \/ MakePending
  \/ TakeClose \/ RunEnds
  \/ \E r \in Reqs : CleanPending(r)
  \/ \E l \in Links : \/ Dial(l) \/ TakeError(l)
                      \/ ReadAnswer(l) \/ ReadEvent(l) \/ ReadFails(l)
                      \/ Break(l) \/ ServerAnswers(l) \/ ServerNotifies(l)

Spec == Init /\ [][Next]_vars

\* A goroutine that can step does, select does not forever neglect what is
\* ready, senders blocked on ch_send are served in turn, and a dial that is
\* tried again and again succeeds once.  Nothing is assumed of the user, of a
\* link staying up, or of the server answering.
Fairness ==
  /\ WF_vars(Begin \/ CleanQueue \/ WriteRequest \/ MakePending \/ RunEnds)
  /\ SF_vars(\E l \in Links : Dial(l))
  /\ SF_vars(TakeClose)
  /\ SF_vars(\E l \in Links : TakeError(l))
  /\ \A c \in Callers : SF_vars(Push(c)) /\ WF_vars(Answered(c) \/ TimesOut(c) \/ Return(c))
  /\ \A l \in Links : WF_vars(ReadAnswer(l) \/ ReadEvent(l) \/ ReadFails(l))

FairSpec == Spec /\ Fairness

-----------------------------------------------------------------------------
(* Properties. *)

\* What is pending has no response: a reader puts one response into a ch_resp
\* (of capacity 2), so it never blocks on a caller that gave up.
AnsweredOnce == \A r \in pending : response[r] = "none"

\* The only socket that is open is the present Run's, after any number of
\* failures and reconnects.
OnlyOwnSocketOpen == \A l \in Links : open[l] => l = link

\* A Run ends by an error only when its own link is down, or when it is given the
\* error of a reader that an earlier Run has left behind, and that reader ends:
\* whatever is lost, late or repeated, nothing else takes a live connection down.
RunsEndWithALink ==
  [][runner = "selecting" /\ runner' = "failing" =>
       \/ ~open[link]
       \/ \E l \in Links \ {link} : reader[l] = "exiting" /\ reader'[l] = "none"]_vars

\* If the user does not disconnect and a write never notices a break first, Start
\* gets from any failure to a Run again,
Reconnects == runner # "off" ~> runner = "selecting"

\* and every command returns to the shell, whatever the queue, the links and
\* the readers do meanwhile.
CommandsReturn == call[Shell] # NoCall ~> call[Shell] = NoCall

\* The bound Links is not in the way of a dial.
DialsFindALink == runner = "dialing" => \E l \in Links : reader[l] = "none"

\* When links do not break, and from some time on the user leaves the client
\* connected, it stays connected.
ConnectionSettles ==
  []DialsFindALink /\ <>[](runner # "off" /\ ~closing)
    => <>[](runner \in {"selecting", "written"})

=============================================================================
