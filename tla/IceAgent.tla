------------------------------ MODULE IceAgent ------------------------------
(***************************************************************************)
(* The ICE agent of iceagent.go under a local service (localservice.go).   *)
(* Start dials the peer and leaves a writer goroutine, which sends what it *)
(* gets on ch_send, and a reader goroutine, which hands what it reads to   *)
(* ch_recv; a stop and the reader's error both end the writer through      *)
(* ch_err.  All three channels are unbuffered.                             *)
(*                                                                         *)
(* The starter is the goroutine that handles the peer's ice-auth event,    *)
(* the stopper the one that uninits the service: the shell.  The users of  *)
(* ch_send and ch_recv, the library's agent and its connection are         *)
(* outside.  The agent can be started once.                                *)
(*                                                                         *)
(* What the packets contain is left out: the reader passes on a slice of   *)
(* the one buffer that it reads into, so what a taker sees depends on when *)
(* it looks, and src/ has no taker.                                        *)
(*                                                                         *)
(* A definition marked "Faulty" is no part of the agent: it is what the    *)
(* definition after it would be with a plausible mistake.                  *)
(***************************************************************************)

CONSTANT PeerMayFail  \* may dialling, reading or writing fail while the agent is open?

ASSUME SwitchAssumption == PeerMayFail \in BOOLEAN

VARIABLES
  process,   \* runs, or has died: no stack left, or a nil pointer
  held,      \* is LocalService.agent set?
  agent,     \* IceAgent.agent, the library's agent
  starter,   \* in OnIceAuth
  stopper,   \* in Uninit: in Stop, blocked on ch_err, or before agent.Close
  conn,      \* the connection that Start got
  writer,    \* Start's goroutines
  reader,
  sender     \* a user of ch_send

ends == <<starter, stopper>>
pumps == <<conn, writer, reader>>
vars == <<process, held, agent, ends, pumps, sender>>

TypeOK ==
  /\ process \in {"running", "overflown", "panicked"}
  /\ held \in BOOLEAN
  /\ agent \in {"nil", "open", "closed"}
  /\ starter \in {"idle", "dialing"}
  /\ stopper \in {"idle", "stopping", "closing"}
  /\ conn \in {"none", "open", "closed"}
  /\ writer \in {"none", "selecting", "writing", "done"}
  /\ reader \in {"none", "reading", "delivering", "failing", "done"}
  /\ sender \in {"idle", "sending"}
  /\ starter = "dialing" \/ stopper # "idle" => agent # "nil"

Init ==
  /\ process = "running"
  /\ held = FALSE /\ agent = "nil"
  /\ starter = "idle" /\ stopper = "idle"
  /\ conn = "none" /\ writer = "none" /\ reader = "none"
  /\ sender = "idle"

-----------------------------------------------------------------------------
(* LocalService.InitIce, OnIceAuth and Uninit. *)

\* InitIce ignores the error that Init returns: before there is an agent, or
\* after, when a listener or the credentials are refused.
InitFails(result) ==
  /\ ~held
  /\ agent = "nil"
  /\ held' = TRUE
  /\ agent' = result
  /\ UNCHANGED <<process, ends, pumps, sender>>

\* When nothing is refused, GatherCandidates calls itself until the stack is full.
InitGathers ==
  /\ ~held
  /\ agent = "nil"
  /\ held' = TRUE
  /\ agent' = "open"
  /\ process' = "overflown"
  /\ UNCHANGED <<ends, pumps, sender>>

\* Dial or Accept, until the peer answers.
BeginStart ==
  /\ starter = "idle"
  /\ held
  /\ agent # "nil"
  /\ starter' = "dialing"
  /\ UNCHANGED <<process, held, agent, stopper, pumps, sender>>

\* The service has no agent, or never had the library's.
StartPanics ==
  /\ starter = "idle"
  /\ ~held \/ agent = "nil"
  /\ process' = "panicked"
  /\ UNCHANGED <<held, agent, ends, pumps, sender>>

DialFails ==
  /\ starter = "dialing"
  /\ PeerMayFail \/ agent = "closed" \/ conn # "none"
  /\ starter' = "idle"
  /\ UNCHANGED <<process, held, agent, stopper, pumps, sender>>

DialSucceeds ==
  /\ starter = "dialing"
  /\ agent = "open"
  /\ conn = "none"
  /\ starter' = "idle"
  /\ conn' = "open"
  /\ writer' = "selecting"
  /\ reader' = "reading"
  /\ UNCHANGED <<process, held, agent, stopper, sender>>

\* Faulty: the library's agent is not looked at.
BeginUninitAnyway ==
  /\ stopper = "idle"
  /\ held
  /\ stopper' = "stopping"
  /\ UNCHANGED <<process, held, agent, starter, pumps, sender>>

\* Stop blocks on ch_err at once, whatever the agent is doing.
BeginUninit ==
  /\ stopper = "idle"
  /\ held
  /\ IF agent = "nil" THEN held' = FALSE /\ UNCHANGED stopper
                      ELSE stopper' = "stopping" /\ UNCHANGED held
  /\ UNCHANGED <<process, agent, starter, pumps, sender>>

\* agent.Close, and the service forgets its agent.
EndUninit ==
  /\ stopper = "closing"
  /\ stopper' = "idle"
  /\ agent' = "closed"
  /\ held' = FALSE
  /\ UNCHANGED <<process, starter, pumps, sender>>

-----------------------------------------------------------------------------
(* The writer. *)

Send ==
  /\ sender = "idle"
  /\ sender' = "sending"
  /\ UNCHANGED <<process, held, agent, ends, pumps>>

TakeData ==
  /\ writer = "selecting"
  /\ sender = "sending"
  /\ writer' = "writing"
  /\ sender' = "idle"
  /\ UNCHANGED <<process, held, agent, ends, conn, reader>>

WriteSucceeds ==
  /\ writer = "writing"
  /\ writer' = "selecting"
  /\ UNCHANGED <<process, held, agent, ends, conn, reader, sender>>

\* Faulty: the connection is closed only on a stop.
WriteFailsOpen ==
  /\ writer = "writing"
  /\ PeerMayFail
  /\ writer' = "done"
  /\ UNCHANGED <<process, held, agent, ends, conn, reader, sender>>

\* The deferred conn.Close.
WriterReturns == writer' = "done" /\ conn' = "closed"

WriteFails ==
  /\ writer = "writing"
  /\ PeerMayFail
  /\ WriterReturns
  /\ UNCHANGED <<process, held, agent, ends, reader, sender>>

\* Faulty: data that wait are sent before a stop.
TakeStopLast ==
  /\ writer = "selecting"
  /\ stopper = "stopping"
  /\ sender = "idle"
  /\ stopper' = "closing"
  /\ WriterReturns
  /\ UNCHANGED <<process, held, agent, starter, reader, sender>>

TakeStop ==
  /\ writer = "selecting"
  /\ stopper = "stopping"
  /\ stopper' = "closing"
  /\ WriterReturns
  /\ UNCHANGED <<process, held, agent, starter, reader, sender>>

\* A stop that waits as well waits for ever from now on.
TakeReadError ==
  /\ writer = "selecting"
  /\ reader = "failing"
  /\ reader' = "done"
  /\ WriterReturns
  /\ UNCHANGED <<process, held, agent, ends, sender>>

-----------------------------------------------------------------------------
(* The reader. *)

Read ==
  /\ reader = "reading"
  /\ conn = "open"
  /\ reader' = "delivering"
  /\ UNCHANGED <<process, held, agent, ends, conn, writer, sender>>

\* Whoever takes from ch_recv may do so at any time, or never.
Deliver ==
  /\ reader = "delivering"
  /\ reader' = "reading"
  /\ UNCHANGED <<process, held, agent, ends, conn, writer, sender>>

\* Faulty: nobody is told.
ReadFailsQuietly ==
  /\ reader = "reading"
  /\ PeerMayFail \/ conn = "closed"
  /\ reader' = "done"
  /\ UNCHANGED <<process, held, agent, ends, conn, writer, sender>>

\* The reader then blocks on ch_err, for ever if the writer has returned.
ReadFails ==
  /\ reader = "reading"
  /\ PeerMayFail \/ conn = "closed"
  /\ reader' = "failing"
  /\ UNCHANGED <<process, held, agent, ends, conn, writer, sender>>

-----------------------------------------------------------------------------

Writer == WriteSucceeds \/ WriteFails

Step ==
  \/ \E result \in {"nil", "open"} : InitFails(result)
  \/ InitGathers
  \/ BeginStart \/ StartPanics \/ DialFails \/ DialSucceeds
  \/ BeginUninit \/ EndUninit
  \/ Send \/ TakeData \/ Writer \/ TakeStop \/ TakeReadError
  \/ Read \/ Deliver \/ ReadFails

Next == process = "running" /\ Step

Spec == Init /\ [][Next]_vars

\* Goroutines go on, and select takes each ready case some time.  Nobody needs
\* to send or receive data or to answer a dial.
Fairness ==
  /\ WF_vars(process = "running" /\ EndUninit)
  /\ WF_vars(process = "running" /\ Writer)
  /\ SF_vars(process = "running" /\ TakeStop)
  /\ SF_vars(process = "running" /\ TakeReadError)

FairSpec == Spec /\ Fairness

-----------------------------------------------------------------------------
(* Properties. *)

\* The connection is open exactly as long as its writer lives, however the
\* writer ends: by a stop, by a failed write or by the reader's error.  And when
\* Uninit has closed the agent no writer is left (iceagent.go:112-117, 135-155).
WriterHoldsConn ==
  /\ conn = "open" <=> writer \in {"selecting", "writing"}
  /\ agent = "closed" => writer = "done"

\* Once reading has failed the connection is closed, though the reader cannot
\* close it itself and a stop, a failed write and data that wait for the writer
\* may come first (iceagent.go:134-166).
ReadErrorCloses ==
  process = "running" /\ reader \in {"failing", "done"} ~>
    conn = "closed" \/ process # "running"

\* A stop that has a writer to take it gets Uninit to its end, even if data are
\* always waiting.  It blocks for good exactly if the writer has returned before
\* the stop was taken, or never starts (iceagent.go:174-176).
StopIsLost == stopper = "stopping" /\ writer \in {"none", "done"}

UninitReturns ==
  process = "running" /\ stopper = "stopping" ~>
    stopper = "idle" \/ StopIsLost \/ process # "running"

=============================================================================
