--------------------------- MODULE IceAgentProofs ---------------------------
(***************************************************************************)
(* The safety properties of IceAgent, whether or not the peer may fail.    *)
(***************************************************************************)
EXTENDS IceAgent, TLAPS

\* The goroutines come with the connection, and a stop that was taken ended the
\* writer.
PumpsInv ==
  /\ conn = "none" <=> writer = "none"
  /\ reader = "none" <=> writer = "none"
  /\ stopper = "closing" => writer = "done"

IceInv == TypeOK /\ WriterHoldsConn /\ PumpsInv

-----------------------------------------------------------------------------

LEMMA IceInit == Init => IceInv
<1>1. Init => TypeOK
  BY DEF Init, TypeOK
<1>2. Init => WriterHoldsConn /\ PumpsInv
  BY DEF Init, WriterHoldsConn, PumpsInv
<1> QED BY <1>1, <1>2 DEF IceInv

\* Steps of LocalService and the sender leave the goroutines alone.
LEMMA ServiceKeeps ==
  ASSUME IceInv,
         \/ \E result \in {"nil", "open"} : InitFails(result)
         \/ InitGathers \/ BeginStart \/ StartPanics \/ DialFails \/ BeginUninit \/ Send
  PROVE  IceInv'
<1> USE DEF IceInv, ends, pumps
<1>1. UNCHANGED <<conn, writer, reader>>
  BY DEF InitFails, InitGathers, BeginStart, StartPanics, DialFails, BeginUninit, Send
<1>2. TypeOK'
  BY DEF TypeOK, InitFails, InitGathers, BeginStart, StartPanics, DialFails, BeginUninit, Send
<1>3. WriterHoldsConn' /\ PumpsInv'
  BY <1>1 DEF WriterHoldsConn, PumpsInv, InitFails, InitGathers, BeginStart,
     StartPanics, DialFails, BeginUninit, Send
<1> QED BY <1>2, <1>3

LEMMA DialKeeps == IceInv /\ DialSucceeds => IceInv'
BY DEF IceInv, DialSucceeds, TypeOK, WriterHoldsConn, PumpsInv

LEMMA EndUninitKeeps == IceInv /\ EndUninit => IceInv'
BY DEF IceInv, EndUninit, TypeOK, WriterHoldsConn, PumpsInv, pumps

LEMMA WriterKeeps ==
  ASSUME IceInv, TakeData \/ WriteSucceeds \/ WriteFails \/ TakeStop \/ TakeReadError
  PROVE  IceInv'
<1> USE DEF IceInv, TakeData, WriteSucceeds, WriteFails, TakeStop, TakeReadError, WriterReturns,
            ends
<1>1. TypeOK'
  BY DEF TypeOK
<1>2. WriterHoldsConn' /\ PumpsInv'
  BY DEF TypeOK, WriterHoldsConn, PumpsInv
<1> QED BY <1>1, <1>2

LEMMA ReaderKeeps ==
  ASSUME IceInv, Read \/ Deliver \/ ReadFails
  PROVE  IceInv'
<1> USE DEF IceInv, Read, Deliver, ReadFails, ends
<1>1. TypeOK'
  BY DEF TypeOK
<1>2. WriterHoldsConn' /\ PumpsInv'
  BY DEF TypeOK, WriterHoldsConn, PumpsInv
<1> QED BY <1>1, <1>2

LEMMA IceStep == IceInv /\ [Next]_vars => IceInv'
<1> SUFFICES ASSUME IceInv, [Next]_vars PROVE IceInv'
  OBVIOUS
<1>1. CASE Step
  BY <1>1, ServiceKeeps, DialKeeps, EndUninitKeeps, WriterKeeps, ReaderKeeps DEF Step, Writer
<1>2. CASE UNCHANGED vars
  BY <1>2 DEF vars, ends, pumps, IceInv, TypeOK, WriterHoldsConn, PumpsInv
<1> QED BY <1>1, <1>2 DEF Next

LEMMA IceAlways == Spec => []IceInv
BY IceInit, IceStep, PTL DEF Spec

-----------------------------------------------------------------------------

\* Among others: nothing is dialled and nothing is stopped without an agent.
THEOREM TypeCorrect == Spec => []TypeOK
<1>1. IceInv => TypeOK
  BY DEF IceInv
<1> QED BY <1>1, IceAlways, PTL

\* The connection lives as long as its writer, whoever ends that, and a closed
\* agent has none (iceagent.go:112-117, 135-155).
THEOREM WriterAlwaysHoldsConn == Spec => []WriterHoldsConn
<1>1. IceInv => WriterHoldsConn
  BY DEF IceInv
<1> QED BY <1>1, IceAlways, PTL

=============================================================================
