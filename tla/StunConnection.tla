--------------------------- MODULE StunConnection ---------------------------
(***************************************************************************)
(* A Connection of connection.go: the STUN state of one remote address.    *)
(* The gateway hands it the packets of that address; a binding request     *)
(* that it answers also makes it send requests of its own, again and again *)
(* from a goroutine, until the peer has answered or has been silent for    *)
(* GiveUpAfter.                                                            *)
(*                                                                         *)
(* Time is a number of units since something happened.  The code's unit is *)
(* a millisecond, with 500, 5000 and 15000 for the three constants.  A     *)
(* goroutine whose timer is due runs before the next unit passes.          *)
(***************************************************************************)
EXTENDS Integers

CONSTANTS
  Retriers,     \* goroutines of checkStunBindingRequest; one is used again
  RetryAfter,   \* the first interval, and that of a peer that is heard
  AdjustAfter,  \* after this much silence the interval grows with it
  GiveUpAfter   \* after this much silence the goroutine ends

ASSUME DurationsAssumption ==
  /\ {RetryAfter, AdjustAfter, GiveUpAfter} \subseteq Nat \ {0}
  /\ RetryAfter <= AdjustAfter
  /\ 2 * RetryAfter < GiveUpAfter

VARIABLES
  ready,     \* the peer has sent data or a binding response
  response,  \* hadStunBindingResponse
  checking,  \* hadStunChecking
  interval,  \* stunRequesting
  age,       \* since utime; GiveUpAfter stands for all longer times
  retry,     \* each goroutine, and the time to its next timer
  quiet      \* since sendStunBindingRequest last tried; LongestPause + 1: longer

flags == <<ready, response>>
vars == <<flags, checking, interval, age, retry, quiet>>

LongestPause == (GiveUpAfter - 1) \div 2

Off == [at |-> "off", timer |-> 0]
Waiting(t) == [at |-> "waiting", timer |-> t]

RetryStates == [at : {"off", "waiting", "sent"}, timer : 0..LongestPause]

TypeOK ==
  /\ ready \in BOOLEAN /\ response \in BOOLEAN /\ checking \in BOOLEAN
  /\ interval \in 0..LongestPause
  /\ age \in 0..GiveUpAfter
  /\ retry \in [Retriers -> RetryStates]
  /\ quiet \in 0..LongestPause + 1

Init ==
  /\ ready = FALSE /\ response = FALSE /\ checking = FALSE
  /\ interval = 0
  /\ age = 0
  /\ retry = [g \in Retriers |-> Off]
  /\ quiet = LongestPause + 1

-----------------------------------------------------------------------------
(* Packets of the peer.  Each resets the age, whatever it is. *)

\* Data that is no STUN packet: DTLS, which the peer sends when it is up.
ReceiveData ==
  /\ age' = 0
  /\ ready' = TRUE
  /\ UNCHANGED <<response, checking, interval, retry, quiet>>

\* A second response does not make the connection ready again, but it is.
ReceiveResponse ==
  /\ age' = 0
  /\ ready' = TRUE
  /\ response' = TRUE
  /\ UNCHANGED <<checking, interval, retry, quiet>>

\* A STUN packet that cannot be read, is no request or response, is a request
\* without a user name, or is one that cannot be answered: the connection is
\* not ready, or no answer could be made.
ReceiveOther ==
  /\ age' = 0
  /\ UNCHANGED <<flags, checking, interval, retry, quiet>>

\* Faulty: every request starts a goroutine.
StartAnother(g) ==
  /\ retry[g] = Off
  /\ checking' = TRUE
  /\ interval' = RetryAfter
  /\ retry' = [retry EXCEPT ![g] = Waiting(RetryAfter)]

\* The goroutine sets the interval when it starts; only such goroutines use it.
StartRetrier(g) ==
  /\ ~checking
  /\ retry[g] = Off
  /\ checking' = TRUE
  /\ interval' = RetryAfter
  /\ retry' = [retry EXCEPT ![g] = Waiting(RetryAfter)]

\* A request is answered, and unless the peer has answered one of ours it is
\* asked in turn, now and by a goroutine later.
ReceiveRequest ==
  /\ ready
  /\ age' = 0
  /\ \/ response /\ UNCHANGED <<checking, interval, retry, quiet>>
     \/ /\ ~response
        /\ quiet' = 0
        /\ \/ checking /\ UNCHANGED <<checking, interval, retry>>
           \/ \E g \in Retriers : StartRetrier(g)
  /\ UNCHANGED flags

-----------------------------------------------------------------------------
(* The goroutine. *)

\* Faulty: hadStunChecking stays set.
QuitChecking(g) ==
  /\ retry[g] = Waiting(0)
  /\ response
  /\ retry' = [retry EXCEPT ![g] = Off]
  /\ UNCHANGED <<flags, checking, interval, age, quiet>>

\* The timer fires, and there is nothing to ask any more.
Quit(g) ==
  /\ retry[g] = Waiting(0)
  /\ response
  /\ retry' = [retry EXCEPT ![g] = Off]
  /\ checking' = FALSE
  /\ UNCHANGED <<flags, interval, age, quiet>>

SendAgain(g) ==
  /\ retry[g] = Waiting(0)
  /\ ~response
  /\ quiet' = 0
  /\ retry' = [retry EXCEPT ![g].at = "sent"]
  /\ UNCHANGED <<flags, checking, interval, age>>

\* Faulty: the interval is the silence, not half of it.
WholeSilence(delta) ==
  IF delta > AdjustAfter THEN delta
  ELSE IF delta < RetryAfter THEN RetryAfter
  ELSE interval

\* Between RetryAfter and AdjustAfter it stays what it was.
NextInterval(delta) ==
  IF delta > AdjustAfter THEN delta \div 2
  ELSE IF delta < RetryAfter THEN RetryAfter
  ELSE interval

\* A packet may have come since the request was sent.
WaitAgain(g) ==
  /\ retry[g].at = "sent"
  /\ age < GiveUpAfter
  /\ interval' = NextInterval(age)
  /\ retry' = [retry EXCEPT ![g] = Waiting(NextInterval(age))]
  /\ UNCHANGED <<flags, checking, age, quiet>>

\* Faulty: the goroutine asks a silent peer for ever.
NeverGiveUp(g) ==
  /\ retry[g].at = "sent"
  /\ age = GiveUpAfter
  /\ retry' = [retry EXCEPT ![g] = Waiting(interval)]
  /\ UNCHANGED <<flags, checking, interval, age, quiet>>

\* checking stays set: no later request starts a goroutine.
GiveUp(g) ==
  /\ retry[g].at = "sent"
  /\ age = GiveUpAfter
  /\ retry' = [retry EXCEPT ![g] = Off]
  /\ UNCHANGED <<flags, checking, interval, age, quiet>>

Retrier(g) == Quit(g) \/ SendAgain(g) \/ WaitAgain(g) \/ GiveUp(g)

-----------------------------------------------------------------------------

Tick ==
  /\ \A g \in Retriers : retry[g] = Off \/ retry[g].timer > 0
  /\ \A g \in Retriers : retry[g].at # "sent"
  /\ age' = IF age < GiveUpAfter THEN age + 1 ELSE age
  /\ quiet' = IF quiet <= LongestPause THEN quiet + 1 ELSE quiet
  /\ retry' = [g \in Retriers |-> IF retry[g] = Off THEN Off
                                  ELSE Waiting(retry[g].timer - 1)]
  /\ UNCHANGED <<flags, checking, interval>>

Next ==
  \/ ReceiveData \/ ReceiveResponse \/ ReceiveOther \/ ReceiveRequest
  \/ Tick
  \/ \E g \in Retriers : Retrier(g)

Spec == Init /\ [][Next]_vars

\* Time passes and goroutines run; nothing is assumed of the peer.
Fairness == WF_vars(Tick) /\ \A g \in Retriers : WF_vars(Retrier(g))

FairSpec == Spec /\ Fairness

-----------------------------------------------------------------------------
(* Properties. *)

Retrying(g) == retry[g].at # "off"

\* However requests, responses and timers follow each other, there is at most
\* one goroutine (hadStunChecking, connection.go:144-148).
OneRetrier == \A g, h \in Retriers : Retrying(g) /\ Retrying(h) => g = h

\* While the goroutine lives the peer gets a request at least every
\* LongestPause, though the interval follows the silence, which follows the
\* packets (connection.go:150-168).
RequestsKeepComing == \A g \in Retriers : Retrying(g) => quiet <= LongestPause

\* The goroutine ends in two ways only.  Either the peer has answered: then the
\* next request may start another.  Or the peer has not answered and has just
\* been silent for GiveUpAfter: no packet that comes between the goroutine's last
\* request and its look at the age is missed, an answer least of all
\* (connection.go:151-170).
EndsWithAnswerOrSilence ==
  [][\A g \in Retriers : Retrying(g) /\ ~Retrying(g)' =>
       \/ response /\ ~checking'
       \/ ~response /\ age = GiveUpAfter]_vars

\* The goroutine ends when the peer has answered, and when it stays silent.
RetriesEnd ==
  \A g \in Retriers :
    /\ Retrying(g) /\ response ~> ~Retrying(g)
    /\ <>[](age = GiveUpAfter) => <>[]~Retrying(g)

=============================================================================
