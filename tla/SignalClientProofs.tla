------------------------- MODULE SignalClientProofs -------------------------
(***************************************************************************)
(* Theorems about SignalClient for any links, requests and queue size, and *)
(* whatever the user, the network and the server do.                       *)
(***************************************************************************)
EXTENDS SignalClient, TLAPS

Calls == [stage : {"none", "sending", "waiting", "answered"}, req : Reqs \cup {None}]

-----------------------------------------------------------------------------
(* Types.  What is pushed and what becomes pending must be a request, so a  *)
(* caller that is in SendRequest has one, and so has a Run that has written. *)

CallsHoldRequests == \A c \in Callers : call[c].stage = "none" <=> call[c].req = None

TakenIsWritten == runner = "written" <=> taken # None

TypeInv == TypeOK /\ CallsHoldRequests /\ TakenIsWritten

LEMMA InitTyped == Init => TypeInv
<1> SUFFICES ASSUME Init PROVE TypeInv
  OBVIOUS
<1>1. call \in [Callers -> Calls] /\ CallsHoldRequests
  BY DEF Init, NoCall, Calls, CallsHoldRequests
<1>2. queue \in Seq(Reqs) /\ Len(queue) <= QueueSize
  BY QueueAssumption DEF Init
<1>3. asked \in [Links -> Seq(Reqs)] /\ answers \in [Links -> Seq(Messages)]
  BY DEF Init
<1>4. TypeOK
  BY <1>1, <1>2, <1>3 DEF Init, TypeOK, Kinds, Calls
<1>5. QED
  BY <1>1, <1>4 DEF Init, TypeInv, TakenIsWritten

LEMMA CallTyped ==
  ASSUME TypeInv, NEW c \in Callers, NEW k \in Kinds, Call(c, k)
  PROVE  /\ call' \in [Callers -> Calls]
         /\ kind' \in [Reqs -> Kinds]
         /\ response' \in [Reqs -> {"none", "ok", "error"}]
         /\ CallsHoldRequests'
<1>1. PICK r \in Reqs : /\ call' = [call EXCEPT ![c] = [stage |-> "sending", req |-> r]]
                        /\ kind' = [kind EXCEPT ![r] = k]
                        /\ response' = [response EXCEPT ![r] = "none"]
  BY DEF Call
<1>2. call \in [Callers -> Calls] /\ r # None
  BY NoneAssumption DEF TypeInv, TypeOK, Calls
<1>3. call' \in [Callers -> Calls]
  BY <1>1, <1>2 DEF Calls
<1>4. CallsHoldRequests'
  BY <1>1, <1>2 DEF TypeInv, CallsHoldRequests
<1>5. QED
  BY <1>1, <1>3, <1>4 DEF TypeInv, TypeOK

\* The steps of a caller.
LEMMA CallerTyped ==
  ASSUME TypeInv, NEW c \in Callers, Push(c) \/ Answered(c) \/ TimesOut(c) \/ Return(c)
  PROVE  TypeInv'
<1> USE DEF runVars, linkVars
<1> DEFINE Rest == /\ network' = network /\ closing' = closing /\ runner' = runner
                   /\ link' = link /\ taken' = taken /\ pending' = pending
                   /\ kind' = kind /\ response' = response /\ reader' = reader
                   /\ open' = open /\ asked' = asked /\ answers' = answers
                   /\ loggedIn' = loggedIn
<1>1. Rest
  BY DEF Push, Answered, TimesOut, Return
<1>2. call \in [Callers -> Calls] /\ call[c] \in Calls
  BY DEF TypeInv, TypeOK, Calls
<1>3. call' \in [Callers -> Calls] /\ CallsHoldRequests'
  <2>1. CASE call' = [call EXCEPT ![c] = NoCall]
    BY <1>2, <2>1 DEF NoCall, Calls, TypeInv, CallsHoldRequests
  <2>2. ASSUME NEW s \in {"waiting", "answered"}, call[c].stage # "none",
               call' = [call EXCEPT ![c].stage = s]
        PROVE  call' \in [Callers -> Calls] /\ CallsHoldRequests'
    BY <1>2, <2>2 DEF Calls, TypeInv, CallsHoldRequests
  <2>3. QED
    BY <2>1, <2>2 DEF Push, Answered, TimesOut, Return
<1>4. queue' \in Seq(Reqs) /\ Len(queue') <= QueueSize
  <2>1. CASE Push(c)
    <3>1. call[c].req \in Reqs
      BY <1>2, <2>1 DEF Push, TypeInv, CallsHoldRequests, Calls
    <3>2. QED
      BY <2>1, <3>1, QueueAssumption DEF Push, TypeInv, TypeOK
  <2>2. CASE queue' = queue
    BY <2>2 DEF TypeInv, TypeOK
  <2>3. QED
    BY <2>1, <2>2 DEF Answered, TimesOut, Return
<1>5. online' \in BOOLEAN
  BY DEF Push, Answered, TimesOut, Return, TypeInv, TypeOK
<1>6. QED
  BY <1>1, <1>3, <1>4, <1>5 DEF TypeInv, TypeOK, TakenIsWritten, Calls

\* The steps of the shell and of the goroutine of Start.
LEMMA RunTyped ==
  ASSUME TypeInv,
         \/ Connect \/ Disconnect \/ Begin \/ DialFails \/ CleanQueue
         \/ WriteRequest \/ WriteFails \/ MakePending \/ TakeClose \/ RunEnds
  PROVE  TypeInv'
<1> USE DEF runVars, linkVars, callVars, TypeInv, TypeOK, CallsHoldRequests, TakenIsWritten
<1>1. CASE Connect
  BY <1>1 DEF Connect
<1>2. CASE Disconnect
  BY <1>2 DEF Disconnect
<1>3. CASE Begin
  BY <1>3 DEF Begin
<1>4. CASE DialFails
  BY <1>4 DEF DialFails
<1>5. CASE CleanQueue
  BY <1>5, QueueAssumption DEF CleanQueue
<1>6. CASE WriteRequest
  <2>1. Head(queue) \in Reqs /\ Tail(queue) \in Seq(Reqs) /\ Len(Tail(queue)) <= QueueSize
    BY <1>6, QueueAssumption DEF WriteRequest
  <2>2. asked' \in [Links -> Seq(Reqs)]
    <3>1. ASSUME NEW l \in Links PROVE asked'[l] \in Seq(Reqs)
      <4>1. asked[l] \in Seq(Reqs)
        OBVIOUS
      <4>2. Append(asked[l], Head(queue)) \in Seq(Reqs)
        BY <2>1, <4>1
      <4>3. asked'[l] \in {asked[l], Append(asked[l], Head(queue))}
        BY <1>6 DEF WriteRequest
      <4>4. QED
        BY <4>1, <4>2, <4>3
    <3>2. asked' = [l \in Links |-> asked'[l]]
      BY <1>6 DEF WriteRequest
    <3>3. QED
      BY <3>1, <3>2
  <2>3. taken' # None
    BY <1>6, <2>1, NoneAssumption DEF WriteRequest
  <2>4. QED
    BY <1>6, <2>1, <2>2, <2>3 DEF WriteRequest
<1>7. CASE WriteFails
  <2>1. Tail(queue) \in Seq(Reqs) /\ Len(Tail(queue)) <= QueueSize
    BY <1>7, QueueAssumption DEF WriteFails
  <2>2. QED
    BY <1>7, <2>1 DEF WriteFails
<1>8. CASE MakePending
  BY <1>8 DEF MakePending
<1>9. CASE TakeClose
  BY <1>9 DEF TakeClose
<1>10. CASE RunEnds
  BY <1>10 DEF RunEnds
<1>11. QED
  BY <1>1, <1>2, <1>3, <1>4, <1>5, <1>6, <1>7, <1>8, <1>9, <1>10

\* The steps of a link, of its reader and of the server.
LEMMA LinkTyped ==
  ASSUME TypeInv, NEW l \in Links,
         \/ Dial(l) \/ TakeError(l) \/ ReadAnswer(l) \/ ReadFails(l)
         \/ Break(l) \/ ServerAnswers(l) \/ ServerNotifies(l)
  PROVE  TypeInv'
<1> USE DEF runVars, linkVars, callVars, TypeInv, TypeOK, CallsHoldRequests, TakenIsWritten
<1>1. CASE Dial(l)
  BY <1>1 DEF Dial
<1>2. CASE TakeError(l)
  BY <1>2 DEF TakeError
<1>3. CASE ReadAnswer(l)
  <2> DEFINE a == Head(answers[l])
  <2>1. a \in Reqs \X {"ok", "error"} /\ Tail(answers[l]) \in Seq(Messages)
    BY <1>3 DEF ReadAnswer, NextIsAnswer, Messages
  <2>2. a[1] \in Reqs /\ a[2] \in {"ok", "error"}
    BY <2>1
  <2>3. response' \in [Reqs -> {"none", "ok", "error"}] /\ pending' \subseteq Reqs
    BY <1>3, <2>2 DEF ReadAnswer
  <2>4. answers' \in [Links -> Seq(Messages)]
    BY <1>3, <2>1 DEF ReadAnswer
  <2>5. QED
    BY <1>3, <2>3, <2>4 DEF ReadAnswer
<1>4. CASE ReadFails(l)
  BY <1>4 DEF ReadFails
<1>5. CASE Break(l)
  BY <1>5 DEF Break
<1>6. CASE ServerAnswers(l)
  <2> DEFINE r == Head(asked[l])
  <2>1. r \in Reqs /\ Tail(asked[l]) \in Seq(Reqs)
    BY <1>6 DEF ServerAnswers
  <2>2. PICK result \in {"ok", "error"} :
          /\ answers' = [answers EXCEPT ![l] = Append(@, <<r, result>>)]
          /\ loggedIn' = [loggedIn EXCEPT ![l] =
                            IF result = "ok" /\ kind[r] # "other" THEN kind[r] = "login" ELSE @]
    BY <1>6 DEF ServerAnswers
  <2>3. answers' \in [Links -> Seq(Messages)]
    <3>1. <<r, result>> \in Messages
      BY <2>1 DEF Messages
    <3>2. answers[l] \in Seq(Messages)
      OBVIOUS
    <3>3. Append(answers[l], <<r, result>>) \in Seq(Messages)
      BY <3>1, <3>2
    <3>4. QED
      BY <2>2, <3>3
  <2>4. loggedIn' \in [Links -> BOOLEAN]
    BY <2>2
  <2>5. asked' \in [Links -> Seq(Reqs)]
    BY <1>6, <2>1 DEF ServerAnswers
  <2>6. QED
    BY <1>6, <2>3, <2>4, <2>5 DEF ServerAnswers
<1>7. CASE ServerNotifies(l)
  <2>1. answers' = [answers EXCEPT ![l] = Append(@, Event)]
    BY <1>7 DEF ServerNotifies
  <2>2. Append(answers[l], Event) \in Seq(Messages)
    <3>1. Event \in Messages /\ answers[l] \in Seq(Messages)
      BY DEF Messages
    <3>2. QED
      BY <3>1
  <2>3. answers' \in [Links -> Seq(Messages)]
    BY <2>1, <2>2
  <2>4. QED
    BY <1>7, <2>3 DEF ServerNotifies
<1>8. QED
  BY <1>1, <1>2, <1>3, <1>4, <1>5, <1>6, <1>7

LEMMA AskTyped ==
  ASSUME TypeInv, NEW c \in Callers, NEW k \in Kinds, Call(c, k),
         answers' \in [Links -> Seq(Messages)],
         UNCHANGED <<runVars, reader, open, asked, loggedIn, online, closing, queue, pending>>
  PROVE  TypeInv'
BY CallTyped DEF runVars, TypeInv, TypeOK, TakenIsWritten, Calls

LEMMA TypesAlways == Spec => []TypeInv
<1>1. ASSUME TypeInv, [Next]_vars
      PROVE  TypeInv'
  <2>1. CASE UNCHANGED vars
    BY <1>1, <2>1 DEF TypeInv, TypeOK, CallsHoldRequests, TakenIsWritten,
                      vars, runVars, linkVars, callVars
  <2>2. ASSUME NEW k \in Kinds, Command(k) PROVE TypeInv'
    <3>1. answers' \in [Links -> Seq(Messages)]
      BY <1>1, <2>2 DEF Command, linkVars, TypeInv, TypeOK
    <3>2. QED
      BY <1>1, <2>2, <3>1, AskTyped DEF Command, Callers, linkVars
  <2>3. ASSUME NEW l \in Links, ReadEvent(l) PROVE TypeInv'
    <3>1. answers[l] \in Seq(Messages) /\ answers[l] # <<>>
      BY <1>1, <2>3 DEF ReadEvent, TypeInv, TypeOK
    <3>2. Tail(answers[l]) \in Seq(Messages)
      BY <3>1
    <3>3. answers' \in [Links -> Seq(Messages)]
      BY <1>1, <2>3, <3>2 DEF ReadEvent, TypeInv, TypeOK
    <3>4. QED
      BY <1>1, <2>3, <3>3, AskTyped DEF ReadEvent, Callers, Kinds
  <2>4. ASSUME NEW r \in Reqs, CleanPending(r) PROVE TypeInv'
    BY <1>1, <2>4 DEF CleanPending, TypeInv, TypeOK, CallsHoldRequests, TakenIsWritten,
                      runVars, linkVars, callVars
  <2>5. QED
    BY <1>1, <2>1, <2>2, <2>3, <2>4, CallerTyped, RunTyped, LinkTyped DEF Next
<1>2. QED
  BY <1>1, InitTyped, PTL DEF Spec

\* Every step keeps every variable in its type: the queue keeps its bound, and
\* only requests are pushed, written, made pending and answered.
THEOREM TypeCorrect == Spec => []TypeOK
  BY TypesAlways, PTL DEF TypeInv

-----------------------------------------------------------------------------
(* Sockets and readers. *)

LinkInv ==
  /\ link = None <=> runner \in {"off", "starting", "dialing", "sleeping"}
  /\ OnlyOwnSocketOpen

LEMMA LinkStep ==
  ASSUME TypeInv, LinkInv, [Next]_vars
  PROVE  LinkInv'
<1> USE NoneAssumption DEF LinkInv, OnlyOwnSocketOpen, runVars, linkVars, callVars
<1>1. CASE UNCHANGED vars
  BY <1>1 DEF vars
<1>2. CASE Connect \/ Disconnect \/ Begin \/ DialFails \/ TakeClose
  BY <1>2 DEF Connect, Disconnect, Begin, DialFails, TakeClose
<1>3. CASE CleanQueue \/ WriteRequest \/ WriteFails \/ MakePending
  BY <1>3 DEF CleanQueue, WriteRequest, WriteFails, MakePending
<1>4. CASE RunEnds
  <2>1. ASSUME NEW l \in Links PROVE ~open'[l]
    BY <1>4 DEF RunEnds, TypeInv, TypeOK
  <2>2. QED
    BY <1>4, <2>1 DEF RunEnds
<1>5. ASSUME NEW k \in Kinds, Command(k) PROVE LinkInv'
  BY <1>5 DEF Command
<1>6. ASSUME NEW c \in Callers, Push(c) \/ Answered(c) \/ TimesOut(c) \/ Return(c)
      PROVE  LinkInv'
  BY <1>6 DEF Push, Answered, TimesOut, Return
<1>7. ASSUME NEW r \in Reqs, CleanPending(r) PROVE LinkInv'
  BY <1>7 DEF CleanPending
<1>8. ASSUME NEW l \in Links, Dial(l) PROVE LinkInv'
  <2>1. ASSUME NEW m \in Links, open'[m] PROVE m = l
    BY <1>8, <2>1 DEF Dial, TypeInv, TypeOK
  <2>2. QED
    BY <1>8, <2>1 DEF Dial
<1>9. ASSUME NEW l \in Links, Break(l) PROVE LinkInv'
  <2>1. ASSUME NEW m \in Links, open'[m] PROVE open[m]
    BY <1>9, <2>1 DEF Break, TypeInv, TypeOK
  <2>2. QED
    BY <1>9, <2>1 DEF Break
<1>10. ASSUME NEW l \in Links, TakeError(l) \/ ReadAnswer(l) \/ ReadEvent(l)
       PROVE  LinkInv'
  BY <1>10 DEF TakeError, ReadAnswer, ReadEvent
<1>11. ASSUME NEW l \in Links, ReadFails(l) \/ ServerAnswers(l) \/ ServerNotifies(l)
       PROVE  LinkInv'
  BY <1>11 DEF ReadFails, ServerAnswers, ServerNotifies
<1>12. QED
  BY <1>1, <1>2, <1>3, <1>4, <1>5, <1>6, <1>7, <1>8, <1>9, <1>10, <1>11 DEF Next

\* However often Runs fail, are closed and are started again, each closes its
\* own socket before the next one dials.
THEOREM NoSocketLeaks == Spec => []OnlyOwnSocketOpen
<1>1. Init => LinkInv
  BY DEF Init, LinkInv, OnlyOwnSocketOpen
<1>2. QED
  BY <1>1, LinkStep, TypesAlways, PTL DEF Spec, LinkInv

-----------------------------------------------------------------------------
(* Readers.  One gives up only when its own socket is no longer open, and    *)
(* its link is not dialled again before a Run has received its error.       *)

ReaderInv == \A l \in Links : reader[l] = "exiting" => ~open[l]

LEMMA ReaderStep ==
  ASSUME TypeInv, ReaderInv, [Next]_vars
  PROVE  ReaderInv'
<1> USE DEF ReaderInv, runVars, linkVars, callVars
<1>1. CASE UNCHANGED <<reader, open>>
  BY <1>1
<1>2. CASE UNCHANGED vars
  BY <1>2 DEF vars
<1>3. CASE RunEnds
  BY <1>3 DEF RunEnds, TypeInv, TypeOK
<1>4. ASSUME NEW l \in Links, Dial(l) \/ TakeError(l)
      PROVE  ReaderInv'
  BY <1>4 DEF Dial, TakeError, TypeInv, TypeOK
<1>5. ASSUME NEW l \in Links, ReadFails(l) \/ Break(l)
      PROVE  ReaderInv'
  BY <1>5 DEF ReadFails, Reading, Break, TypeInv, TypeOK
<1>6. CASE \/ Connect \/ Disconnect \/ \E k \in Kinds : Command(k)
           \/ \E c \in Callers : Push(c) \/ Answered(c) \/ TimesOut(c) \/ Return(c)
           \/ Begin \/ DialFails \/ CleanQueue \/ WriteRequest \/ WriteFails
           \/ MakePending \/ TakeClose
           \/ \E r \in Reqs : CleanPending(r)
           \/ \E l \in Links : ReadAnswer(l) \/ ReadEvent(l) \/ ServerAnswers(l)
                                \/ ServerNotifies(l)
  BY <1>1, <1>6
     DEF Connect, Disconnect, Command, Push, Answered, TimesOut, Return, Begin,
         DialFails, CleanQueue, WriteRequest, WriteFails, MakePending, TakeClose,
         CleanPending, ReadAnswer, ReadEvent, ServerAnswers, ServerNotifies
<1>7. QED
  BY <1>2, <1>3, <1>4, <1>5, <1>6 DEF Next

\* No step takes a Run whose link is open to its end by an error, except that of
\* receiving the error that a reader of another link has been holding: also when
\* the user disconnects, writes fail first and readers are left over.
THEOREM RunsEndOnlyWithALink == Spec => RunsEndWithALink
<1>1. Init => ReaderInv
  BY DEF Init, ReaderInv
<1>2. ASSUME TypeInv, ReaderInv, [Next]_vars
      PROVE  [runner = "selecting" /\ runner' = "failing" =>
                \/ ~open[link]
                \/ \E l \in Links \ {link} : reader[l] = "exiting" /\ reader'[l] = "none"]_vars
  <2> SUFFICES ASSUME Next, runner = "selecting", runner' = "failing"
               PROVE  \/ ~open[link]
                      \/ \E l \in Links \ {link} : reader[l] = "exiting" /\ reader'[l] = "none"
    BY <1>2
  <2>1. CASE WriteFails
    BY <2>1 DEF WriteFails
  <2>2. ASSUME NEW l \in Links, TakeError(l)
        PROVE  \/ ~open[link]
               \/ l # link /\ reader[l] = "exiting" /\ reader'[l] = "none"
    BY <1>2, <2>2 DEF TakeError, ReaderInv, TypeInv, TypeOK
  <2>3. \/ WriteFails
        \/ \E l \in Links : TakeError(l)
    BY DEF Next, Connect, Disconnect, Command, Push, Answered, TimesOut, Return,
           Begin, DialFails, CleanQueue, WriteRequest, MakePending, TakeClose,
           RunEnds, CleanPending, Dial, ReadAnswer, ReadEvent, ReadFails, Break,
           ServerAnswers, ServerNotifies, runVars
  <2>4. QED
    BY <2>1, <2>2, <2>3
<1>3. QED
  BY <1>1, <1>2, TypesAlways, ReaderStep, PTL DEF Spec, RunsEndWithALink

-----------------------------------------------------------------------------
(* Requests.  One that is being pushed, queued, written or pending is in one *)
(* of these places only, and has no response yet.                          *)

PlaceInv ==
  /\ \A j, k \in DOMAIN queue : queue[j] = queue[k] => j = k
  /\ \A k \in DOMAIN queue : /\ queue[k] # taken /\ queue[k] \notin pending
                             /\ response[queue[k]] = "none"
  /\ taken # None => taken \notin pending /\ response[taken] = "none"
  /\ \A c \in Callers : call[c].stage = "sending" =>
       /\ call[c].req # taken /\ call[c].req \notin pending
       /\ response[call[c].req] = "none"
       /\ \A k \in DOMAIN queue : queue[k] # call[c].req
  /\ \A c, d \in Callers : call[c].req # None /\ call[c].req = call[d].req => c = d
  /\ AnsweredOnce

LEMMA AskKeepsPlaces ==
  ASSUME TypeInv, PlaceInv, NEW c \in Callers, NEW k \in Kinds, Call(c, k),
         UNCHANGED <<queue, taken, pending>>
  PROVE  PlaceInv'
<1>1. PICK r \in Reqs : /\ Unused(r)
                        /\ call' = [call EXCEPT ![c] = [stage |-> "sending", req |-> r]]
                        /\ response' = [response EXCEPT ![r] = "none"]
  BY DEF Call
<1>2. /\ r \notin pending /\ r # taken
      /\ \A j \in DOMAIN queue : queue[j] # r
      /\ \A d \in Callers : call[d].req # r
  BY <1>1 DEF Unused, InSeq
<1>3. \A q \in Reqs : response[q] = "none" => response'[q] = "none"
  BY <1>1 DEF TypeInv, TypeOK
<1>4. response'[r] = "none"
  BY <1>1 DEF TypeInv, TypeOK
<1>5. call'[c] = [stage |-> "sending", req |-> r]
  BY <1>1 DEF TypeInv, TypeOK
<1>6. \A d \in Callers : d # c => call'[d] = call[d]
  BY <1>1 DEF TypeInv, TypeOK
<1>7. \A j \in DOMAIN queue : queue[j] \in Reqs
  BY DEF TypeInv, TypeOK
<1>8. \A d \in Callers : call[d].req \in Reqs \cup {None}
  BY DEF TypeInv, TypeOK
<1>9. \A d \in Callers : call[d].stage = "sending" => call[d].req \in Reqs
  BY <1>8 DEF TypeInv, CallsHoldRequests
<1>10. taken \in Reqs \cup {None} /\ pending \subseteq Reqs
  BY DEF TypeInv, TypeOK
<1>11. QED
  BY <1>2, <1>3, <1>4, <1>5, <1>6, <1>7, <1>8, <1>9, <1>10 DEF PlaceInv, AnsweredOnce

LEMMA PushKeepsPlaces ==
  ASSUME TypeInv, PlaceInv, NEW c \in Callers, Push(c)
  PROVE  PlaceInv'
<1>1. /\ queue' = Append(queue, call[c].req)
      /\ call' = [call EXCEPT ![c].stage = "waiting"]
      /\ UNCHANGED <<taken, pending, response>>
      /\ call[c].stage = "sending"
  BY DEF Push, runVars
<1>2. call[c].req \in Reqs
  BY <1>1 DEF TypeInv, TypeOK, CallsHoldRequests
<1>3. /\ \A k \in DOMAIN queue : queue'[k] = queue[k]
      /\ queue'[Len(queue) + 1] = call[c].req
      /\ DOMAIN queue' = DOMAIN queue \cup {Len(queue) + 1}
      /\ Len(queue) + 1 \notin DOMAIN queue
  BY <1>1, <1>2 DEF TypeInv, TypeOK
<1>4. /\ \A d \in Callers : call'[d].req = call[d].req
      /\ \A d \in Callers : call'[d].stage = "sending" => d # c /\ call[d].stage = "sending"
  BY <1>1 DEF TypeInv, TypeOK
<1>5. \A d \in Callers : call[d].req = call[c].req => d = c
  BY <1>1, <1>2, NoneAssumption DEF PlaceInv
<1>6. QED
  BY <1>1, <1>3, <1>4, <1>5 DEF PlaceInv, AnsweredOnce

LEMMA PlaceStep ==
  ASSUME TypeInv, PlaceInv, [Next]_vars
  PROVE  PlaceInv'
<1> USE DEF runVars, linkVars, callVars
<1>1. CASE UNCHANGED <<queue, taken, pending, call, response>>
  BY <1>1 DEF PlaceInv, AnsweredOnce
<1>2. CASE UNCHANGED vars
  BY <1>1, <1>2 DEF vars
<1>3. CASE Connect \/ Disconnect \/ Begin \/ DialFails \/ TakeClose \/ RunEnds
  BY <1>1, <1>3 DEF Connect, Disconnect, Begin, DialFails, TakeClose, RunEnds
<1>4. CASE CleanQueue
  <2>1. DOMAIN queue' = {}
    BY <1>4 DEF CleanQueue
  <2>2. QED
    BY <1>4, <2>1 DEF CleanQueue, PlaceInv, AnsweredOnce
<1>5. CASE WriteRequest \/ WriteFails
  <2>1. /\ queue # <<>> /\ queue' = Tail(queue)
        /\ taken' = taken \/ taken' = Head(queue)
        /\ UNCHANGED <<pending, call, response>>
    BY <1>5 DEF WriteRequest, WriteFails
  <2>2. /\ 1 \in DOMAIN queue /\ Head(queue) = queue[1]
        /\ \A k \in DOMAIN queue' : /\ k + 1 \in DOMAIN queue
                                    /\ queue'[k] = queue[k + 1]
                                    /\ k + 1 # 1
        /\ \A k \in DOMAIN queue' : k \in Nat
    BY <2>1 DEF TypeInv, TypeOK
  <2>3. \A j, k \in DOMAIN queue' : j + 1 = k + 1 => j = k
    BY <2>2
  <2>4. QED
    BY <2>1, <2>2, <2>3 DEF PlaceInv, AnsweredOnce
<1>6. CASE MakePending
  <2>1. /\ taken # None /\ taken' = None /\ pending' = pending \cup {taken}
        /\ UNCHANGED <<queue, call, response>>
    BY <1>6 DEF MakePending, TypeInv, TakenIsWritten
  <2>2. \A k \in DOMAIN queue : queue[k] # None
    BY NoneAssumption DEF TypeInv, TypeOK
  <2>3. \A c \in Callers : call[c].stage = "sending" => call[c].req # None
    BY DEF TypeInv, CallsHoldRequests
  <2>4. QED
    BY <2>1, <2>2, <2>3 DEF PlaceInv, AnsweredOnce
<1>7. ASSUME NEW k \in Kinds, Command(k) PROVE PlaceInv'
  BY <1>7, AskKeepsPlaces DEF Command, Callers
<1>8. ASSUME NEW c \in Callers, Answered(c) \/ TimesOut(c) \/ Return(c)
      PROVE  PlaceInv'
  <2>1. /\ UNCHANGED <<queue, taken, pending, response>>
        /\ \A d \in Callers : /\ call'[d].req \in {call[d].req, None}
                              /\ call'[d].stage = "sending" => call'[d] = call[d]
    BY <1>8 DEF Answered, TimesOut, Return, NoCall, TypeInv, TypeOK
  <2>2. QED
    BY <2>1 DEF PlaceInv, AnsweredOnce
<1>9. ASSUME NEW c \in Callers, Push(c) PROVE PlaceInv'
  BY <1>9, PushKeepsPlaces
<1>10. ASSUME NEW r \in Reqs, CleanPending(r) PROVE PlaceInv'
  BY <1>10 DEF CleanPending, PlaceInv, AnsweredOnce
<1>11. ASSUME NEW l \in Links, ReadAnswer(l) PROVE PlaceInv'
  <2> DEFINE a == Head(answers[l])
  <2>1. /\ UNCHANGED <<queue, taken, call>>
        /\ pending' = pending \ {a[1]}
        /\ \A q \in Reqs : q # a[1] \/ q \notin pending => response'[q] = response[q]
    BY <1>11 DEF ReadAnswer, TypeInv, TypeOK
  <2>2. /\ \A k \in DOMAIN queue : queue[k] \in Reqs
        /\ taken \in Reqs \cup {None} /\ pending \subseteq Reqs
        /\ \A d \in Callers : call[d].stage = "sending" => call[d].req \in Reqs
    BY DEF TypeInv, TypeOK, CallsHoldRequests
  <2>3. QED
    BY <2>1, <2>2 DEF PlaceInv, AnsweredOnce
<1>12. ASSUME NEW l \in Links, ReadEvent(l) PROVE PlaceInv'
  BY <1>12, AskKeepsPlaces DEF ReadEvent, Callers, Kinds
<1>13. ASSUME NEW l \in Links,
              \/ Dial(l) \/ TakeError(l) \/ ReadFails(l) \/ Break(l)
              \/ ServerAnswers(l) \/ ServerNotifies(l)
       PROVE  PlaceInv'
  BY <1>1, <1>13 DEF Dial, TakeError, ReadFails, Break, ServerAnswers, ServerNotifies
<1>14. QED
  BY <1>2, <1>3, <1>4, <1>5, <1>6, <1>7, <1>8, <1>9, <1>10, <1>11, <1>12, <1>13 DEF Next

\* A reader puts at most one response into a ch_resp, through any timeouts,
\* reconnects, late answers and answers of earlier links.
THEOREM RequestsAnsweredOnce == Spec => []AnsweredOnce
<1>1. Init => PlaceInv
  BY DEF Init, PlaceInv, AnsweredOnce, NoCall
<1>2. QED
  BY <1>1, PlaceStep, TypesAlways, PTL DEF Spec, PlaceInv

=============================================================================
