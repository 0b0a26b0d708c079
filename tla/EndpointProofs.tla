--------------------------- MODULE EndpointProofs ---------------------------
(***************************************************************************)
(* The safety properties of Endpoint, for any lines, commands, services,   *)
(* users and readers.  The hook, the table and the events do not depend on *)
(* what the parser makes of a line; what the shell does with a line rests  *)
(* on CommandLineProofs.                                                   *)
(***************************************************************************)
EXTENDS Endpoint, CommandLineProofs, TLAPS

(* The hook. *)

\* A command that has succeeded had as many parameters as it takes.
CountedInv == stage = "ran" /\ ~failed => Counted(parts)

LEMMA ServiceIsGiven ==
  ASSUME parts[1] \in {EnableService, DisableService}, Counted(parts)
  PROVE  ~(Len(parts) < 2)
<1>1. Arity[parts[1]] = 2
  BY CountsAssumption
<1>2. Len(parts) = 1 + 2
  BY <1>1 DEF Counted
<1>3. Len(parts) = 3
  BY <1>2
<1> QED BY <1>3

\* The readers and the end of a link do not touch the shell.
LEMMA OthersLeaveShell ==
  ASSUME GoOffline \/ \E r \in Readers : Reader(r)
  PROVE  UNCHANGED shell /\ UNCHANGED owned /\ UNCHANGED enabled
BY DEF GoOffline, Reader, Arrive, Check, Put, Acknowledge, session

LEMMA HookStep ==
  ASSUME CountedInv, HookFindsService, [Next]_vars
  PROVE  CountedInv' /\ HookFindsService'
<1> USE DEF CountedInv, HookFindsService
<1>1. CASE Type \/ Dismiss \/ Leave \/ ExecutorPanics
  BY <1>1 DEF Type, Dismiss, ToPrompt, Leave, ExecutorPanics, shell, Counted
<1>2. CASE GoRun
  BY <1>2 DEF GoRun, Counted
<1>3. CASE PostRun
  BY <1>3 DEF PostRun, ToPrompt
<1>4. CASE HookPanics
  <2>1. parts[1] \in {EnableService, DisableService} /\ Counted(parts) /\ Len(parts) < 2
    BY <1>4 DEF HookPanics, Hooks
  <2> QED BY <2>1, ServiceIsGiven
<1>5. CASE GoOffline \/ \E r \in Readers : Reader(r)
  <2>1. process' \in {process, "nil service", "nil agent"}
    BY <1>5 DEF GoOffline, Reader, Arrive, Check, Put, Acknowledge
  <2> QED BY <1>5, <2>1, OthersLeaveShell DEF shell, Counted
<1>6. CASE UNCHANGED vars
  BY <1>6 DEF vars, shell, Counted
<1> QED BY <1>1, <1>2, <1>3, <1>4, <1>5, <1>6 DEF Next, Shell

\* PostRunSignal reads params[1] of every enable and disable that succeeded: it is
\* there, whatever was typed (server.go:33-39).
THEOREM HookAlwaysFindsService == Spec => []HookFindsService
<1>1. Init => CountedInv /\ HookFindsService
  BY DEF Init, CountedInv, HookFindsService
<1> QED BY <1>1, HookStep, PTL DEF Spec

-----------------------------------------------------------------------------
(* What the shell reads. *)

LEMMA MinMaxExist ==
  \A n \in Nat : \A S \in SUBSET (1..n) : S # {} =>
    /\ \E x \in S : \A y \in S : x <= y
    /\ \E x \in S : \A y \in S : x >= y
<1> DEFINE T == {n \in Nat : \A S \in SUBSET (1..n) : S # {} =>
                   /\ \E x \in S : \A y \in S : x <= y
                   /\ \E x \in S : \A y \in S : x >= y}
<1>1. 0 \in T
  <2>1. \A S \in SUBSET (1..0) : S = {}
    <3>1. 1..0 = {}
      OBVIOUS
    <3> QED BY <3>1
  <2> QED BY <2>1
<1>2. ASSUME NEW n \in Nat, n \in T PROVE n + 1 \in T
  <2> SUFFICES ASSUME NEW S \in SUBSET (1..n + 1), S # {}
               PROVE  /\ \E x \in S : \A y \in S : x <= y
                      /\ \E x \in S : \A y \in S : x >= y
    OBVIOUS
  <2> DEFINE R == S \ {n + 1}
  <2>1. R \in SUBSET (1..n)
    OBVIOUS
  <2>2. CASE R = {}
    <3>1. S = {n + 1}
      BY <2>2
    <3> QED BY <3>1
  <2>3. CASE R # {}
    <3>1. PICK a \in R : \A y \in R : a <= y
      BY <1>2, <2>1, <2>3
    <3>2. PICK b \in R : \A y \in R : b >= y
      BY <1>2, <2>1, <2>3
    <3>3. \A y \in S : y \in R \/ y = n + 1
      OBVIOUS
    <3>4. a \in S /\ \A y \in S : a <= y
      BY <2>1, <3>1, <3>3
    <3>5. CASE n + 1 \in S
      <4>1. \A y \in S : n + 1 >= y
        OBVIOUS
      <4> QED BY <3>4, <3>5, <4>1
    <3>6. CASE n + 1 \notin S
      <4>1. b \in S /\ \A y \in S : b >= y
        BY <3>2, <3>3, <3>6
      <4> QED BY <3>4, <4>1
    <3> QED BY <3>5, <3>6
  <2> QED BY <2>2, <2>3
<1>3. \A n \in Nat : n \in T
  <2> HIDE DEF T
  <2> QED BY <1>1, <1>2, NatsFromZero
<1> QED BY <1>3

\* What TrimSpace leaves is empty or ends in a character that is no space.
EndsVisibly(l) == l = <<>> \/ \E s \in Word, ch \in Char \ {Space} : l = Append(s, ch)

LEMMA TrimmedEnds ==
  ASSUME NEW l \in Word
  PROVE  Trimmed(l) \in Word /\ EndsVisibly(Trimmed(l))
<1> DEFINE kept == {k \in DOMAIN l : l[k] # Space}
           a == Min(kept)
           b == Max(kept)
<1>1. Len(l) \in Nat /\ DOMAIN l = 1..Len(l) /\ \A k \in 1..Len(l) : l[k] \in Char
  BY LenProperties, ElementOfSeq DEF Word
<1>2. CASE kept = {}
  BY <1>2, WordOfOne DEF Trimmed, EndsVisibly
<1>3. CASE kept # {}
  <2>1. kept \in SUBSET (1..Len(l))
    BY <1>1
  <2>2. a \in kept /\ b \in kept /\ \A y \in kept : a <= y
    <3> HIDE DEF kept
    <3>1. \E x \in kept : \A y \in kept : x <= y
      BY <1>1, <1>3, <2>1, MinMaxExist
    <3>2. \E x \in kept : \A y \in kept : x >= y
      BY <1>1, <1>3, <2>1, MinMaxExist
    <3> QED BY <3>1, <3>2 DEF Min, Max
  <2>3. Trimmed(l) = SubSeq(l, a, b)
    BY <1>3 DEF Trimmed
  <2>4. l[b] \in Char \ {Space} /\ a \in 1..Len(l) /\ b \in a..Len(l)
    <3>1. b \in 1..Len(l) /\ l[b] # Space /\ a \in 1..Len(l)
      BY <1>1, <2>2
    <3>2. a <= b
      BY <2>2
    <3> HIDE DEF a, b
    <3> QED BY <1>1, <3>1, <3>2
  <2> HIDE DEF a, b, kept
  <2>5. SubSeq(l, a, b) = SubSeq(l, a, b - 1) \o <<l[b]>>
    BY <2>4, SubSeqRecursiveSecond DEF Word
  <2>6. SubSeq(l, a, b - 1) \in Seq(Char)
    <3>1. a \in Int /\ b - 1 \in Int /\ \A i \in a..b - 1 : l[i] \in Char
      BY <1>1, <2>4
    <3> QED BY <3>1, SubSeqProperties
  <2>7. SubSeq(l, a, b) = Append(SubSeq(l, a, b - 1), l[b])
    BY <2>4, <2>5, <2>6, AppendIsConcat
  <2> QED BY <2>3, <2>4, <2>6, <2>7, WordsAppend DEF EndsVisibly, Word
<1> QED BY <1>2, <1>3

LEMMA ParsedType == line \in Word => Parsed.ok \in BOOLEAN /\ Parsed.parts \in Seq(Word)
<1> SUFFICES ASSUME line \in Word PROVE Parsed.ok \in BOOLEAN /\ Parsed.parts \in Seq(Word)
  OBVIOUS
<1>1. Parsed \in [ok : BOOLEAN, parts : Seq(Word)]
  BY ParseType DEF Parsed
<1> QED BY <1>1

-----------------------------------------------------------------------------
(* The session and the table. *)

SessionTypes ==
  /\ id \in Ids
  /\ online \in BOOLEAN
  /\ online => id \in Users
  /\ owned \in [Users -> SUBSET Word]

\* No service at the server is nameless, and none in the table or about to be put
\* there by the shell's hook.
NoNameless ==
  /\ \A u \in Users : <<>> \notin owned[u]
  /\ <<>> \notin enabled
  /\ stage = "ran" /\ ~failed /\ parts[1] = EnableService => parts[2] # <<>>

\* The responses have no service name.
Unaddressed == \A r \in Readers : readers[r].at = "fired" => readers[r].resp.serviceName = <<>>

\* What the readers hold and the local services.
ReaderTypes ==
  /\ items \subseteq Item
  /\ readers \in [Readers -> [at : {"idle", "fired", "checked", "answering", "acking"},
                            resp : Response \cup {NoResponse},
                            new : SUBSET Item]]

LEMMA NoResponseType ==
  NoResponse.serviceName \in Word /\ NoResponse.fromId \in Ids
BY WordOfOne DEF NoResponse, Ids

LEMMA IdleType ==
  /\ Idle.at = "idle" /\ Idle.resp = NoResponse /\ Idle.new = {}
  /\ [Idle EXCEPT !.at = "acking"] = [at |-> "acking", resp |-> NoResponse, new |-> {}]
BY DEF Idle

PanicInv == SessionTypes /\ NoNameless /\ ReaderTypes /\ Unaddressed /\ NoEventPanics

LEMMA PanicInit ==
  ASSUME Init
  PROVE  PanicInv
<1>1. SessionTypes
  BY DEF Init, Ids, SessionTypes
<1>2. NoNameless
  BY DEF Init, NoNameless
<1>3. ReaderTypes
  BY IdleType DEF Init, Idle, ReaderTypes
<1>4. Unaddressed /\ NoEventPanics
  BY DEF Init, Idle, Unaddressed, NoEventPanics
<1> QED BY <1>1, <1>2, <1>3, <1>4 DEF PanicInv

LEMMA ReaderTypesOfReader ==
  ASSUME SessionTypes, ReaderTypes, NEW r \in Readers, Reader(r)
  PROVE  ReaderTypes'
<1> DEFINE At == {"idle", "fired", "checked", "answering", "acking"}
           Holds == [at : At, resp : Response \cup {NoResponse}, new : SUBSET Item]
<1>1. CASE \E event \in Events : Arrive(r, event)
  <2>1. PICK event \in Events : Arrive(r, event)
    BY <1>1
  <2>2. PICK n, u : readers' = [readers EXCEPT ![r].at = "fired", ![r].resp = ForwardServiceData(event, n, u)]
    BY <2>1 DEF Arrive
  <2>3. ForwardServiceData(event, n, u) \in Response
    BY WordOfOne DEF ForwardServiceData, Response, Ids
  <2>4. readers' \in [Readers -> Holds]
    BY <2>2, <2>3 DEF ReaderTypes
  <2> QED BY <2>1, <2>4 DEF ReaderTypes, Arrive
<1>2. CASE Check(r)
  <2> DEFINE resp == readers[r].resp
  <2>1. resp \in Response \cup {NoResponse}
    BY DEF ReaderTypes
  <2>2. resp.serviceName \in Word /\ resp.fromId \in Ids
    BY <2>1, NoResponseType DEF Response
  <2> HIDE DEF resp
  <2>3. NewService(resp) \in Item
    BY <2>2 DEF NewService, Item, SessionTypes
  <2>4. PICK new \in {{NewService(resp)}, {}}, at \in {"answering", "checked"} :
          readers' = [readers EXCEPT ![r] = [at |-> at, resp |-> NoResponse, new |-> new]]
    BY <1>2 DEF Check, resp
  <2>5. new \in SUBSET Item
    BY <2>3
  <2>6. readers' \in [Readers -> Holds]
    BY <2>4, <2>5 DEF ReaderTypes
  <2> QED BY <1>2, <2>6 DEF ReaderTypes, Check
<1>3. CASE Put(r)
  <2>1. items' \subseteq items \cup readers[r].new
    BY <1>3 DEF Put
  <2>2. PICK at \in {"idle", "acking"} :
          readers' = [readers EXCEPT ![r] = [at |-> at, resp |-> NoResponse, new |-> {}]]
    BY <1>3, IdleType DEF Put, Idle
  <2>3. readers' \in [Readers -> Holds]
    BY <2>2 DEF ReaderTypes
  <2> QED BY <2>1, <2>3 DEF ReaderTypes
<1>4. CASE Acknowledge(r)
  BY <1>4 DEF Acknowledge, Idle, ReaderTypes
<1> QED BY <1>1, <1>2, <1>3, <1>4 DEF Reader

LEMMA DropKeepsReaders ==
  ASSUME ReaderTypes, NEW n, DropTable(n)
  PROVE  /\ ReaderTypes'
         /\ \A r \in Readers : readers'[r].at = readers[r].at /\ readers'[r].resp = readers[r].resp
<1>1. items' \subseteq items
  BY DEF DropTable
<1>2. ASSUME NEW r \in Readers
      PROVE  /\ readers'[r] \in [at : {"idle", "fired", "checked", "answering", "acking"},
                                resp : Response \cup {NoResponse}, new : SUBSET Item]
             /\ readers'[r].at = readers[r].at /\ readers'[r].resp = readers[r].resp
  <2>1. PICK a, b, c : readers[r] = [at |-> a, resp |-> b, new |-> c] /\ c \subseteq Item
                       /\ a \in {"idle", "fired", "checked", "answering", "acking"}
                       /\ b \in Response \cup {NoResponse}
    BY DEF ReaderTypes
  <2>2. readers'[r] = [at |-> a, resp |-> b, new |-> {i \in c : i.name # n}]
    <3>1. readers'[r] = [readers[r] EXCEPT !.new = {i \in readers[r].new : i.name # n}]
      BY DEF DropTable
    <3>2. readers[r].new = c
      BY <2>1
    <3> QED BY <2>1, <3>1, <3>2
  <2>3. {i \in c : i.name # n} \in SUBSET Item
    BY <2>1
  <2>4. readers'[r].at = a /\ readers'[r].resp = b
    BY <2>2
  <2> QED BY <2>1, <2>2, <2>3, <2>4
<1>3. readers' \in [Readers -> [at : {"idle", "fired", "checked", "answering", "acking"},
                               resp : Response \cup {NoResponse}, new : SUBSET Item]]
  BY <1>2 DEF DropTable
<1> QED BY <1>1, <1>2, <1>3 DEF ReaderTypes

LEMMA SucceedKeeps ==
  ASSUME SessionTypes, NoNameless, Parsed.parts \in Seq(Word), Counted(Parsed.parts),
         Parsed.parts[1] \in DOMAIN Arity, Succeed(Parsed.parts)
  PROVE  /\ SessionTypes'
         /\ \A u \in Users : <<>> \notin owned'[u]
         /\ Parsed.parts[1] = EnableService => Parsed.parts[2] # <<>>
<1> DEFINE words == Parsed.parts
<1>1. ASSUME words[1] \in {CreateService, RemoveService, EnableService, DisableService}
      PROVE  words[2] \in Word
  <2>1. Arity[words[1]] \in {2, 3}
    BY <1>1, CountsAssumption
  <2>2. Len(words) = 1 + Arity[words[1]]
    BY DEF Counted
  <2>3. 2 \in 1..Len(words)
    BY <2>1, <2>2
  <2> HIDE DEF words
  <2>4. words \in Seq(Word)
    BY DEF words
  <2> QED BY <2>3, <2>4, ElementOfSeq
<1> HIDE DEF words
<1>2. Succeed(words) /\ SessionTypes /\ NoNameless
  BY DEF words
<1>3. CASE words[1] = Login /\ ~online /\ id' \in Users /\ online' = TRUE /\ UNCHANGED owned
  BY <1>2, <1>3, WordsAssumption DEF SessionTypes, NoNameless, Ids, words
<1>4. CASE words[1] = Logout /\ online /\ id' = Nobody /\ online' = FALSE /\ UNCHANGED owned
  BY <1>2, <1>4, WordsAssumption DEF SessionTypes, NoNameless, Ids, words
<1>5. CASE /\ words[1] = CreateService /\ online /\ ValidName(words[2])
           /\ owned' = [owned EXCEPT ![id] = @ \cup {words[2]}]
           /\ UNCHANGED <<id, online>>
  <2>1. words[2] \in Word /\ words[2] # <<>> /\ id \in Users
    BY <1>1, <1>2, <1>5 DEF ValidName, SessionTypes
  <2>2. SessionTypes'
    BY <1>2, <1>5, <2>1 DEF SessionTypes
  <2>3. \A u \in Users : <<>> \notin owned'[u]
    BY <1>2, <1>5, <2>1 DEF SessionTypes, NoNameless
  <2> QED BY <1>5, <2>2, <2>3, WordsAssumption DEF words
<1>6. CASE /\ words[1] = RemoveService /\ online
           /\ owned' = [owned EXCEPT ![id] = @ \ {words[2]}]
           /\ UNCHANGED <<id, online>>
  <2>1. SessionTypes'
    BY <1>2, <1>6 DEF SessionTypes
  <2>2. \A u \in Users : <<>> \notin owned'[u]
    BY <1>2, <1>6 DEF SessionTypes, NoNameless
  <2> QED BY <1>6, <2>1, <2>2, WordsAssumption DEF words
<1>7. CASE words[1] \in {EnableService, DisableService} /\ online /\ words[2] \in owned[id] /\ UNCHANGED session
  BY <1>2, <1>7 DEF SessionTypes, NoNameless, session, words
<1>8. CASE /\ words[1] \notin {CreateService, RemoveService, EnableService, DisableService, Login, Logout}
           /\ UNCHANGED session
  BY <1>2, <1>8 DEF SessionTypes, NoNameless, session, words
<1> QED BY <1>2, <1>3, <1>4, <1>5, <1>6, <1>7, <1>8 DEF Succeed

LEMMA GoRunKeeps ==
  ASSUME PanicInv, line \in Word, GoRun
  PROVE  PanicInv'
<1>1. Parsed.parts \in Seq(Word)
  BY ParsedType
<1>2. /\ SessionTypes'
      /\ \A u \in Users : <<>> \notin owned'[u]
      /\ ~failed' => (Parsed.parts[1] = EnableService => Parsed.parts[2] # <<>>)
  <2>1. CASE failed' = TRUE /\ UNCHANGED session
    BY <2>1 DEF session, PanicInv, SessionTypes, NoNameless
  <2>2. CASE Counted(Parsed.parts) /\ Succeed(Parsed.parts)
    BY <1>1, <2>2, SucceedKeeps DEF PanicInv, GoRun
  <2> QED BY <2>1, <2>2 DEF GoRun
<1>3. UNCHANGED <<process, enabled, items, readers>> /\ parts' = Parsed.parts
  BY DEF GoRun
<1>4. NoNameless'
  BY <1>2, <1>3 DEF PanicInv, NoNameless
<1>5. ReaderTypes' /\ Unaddressed' /\ NoEventPanics'
  BY <1>3 DEF PanicInv, ReaderTypes, Unaddressed, NoEventPanics
<1> QED BY <1>2, <1>4, <1>5 DEF PanicInv

LEMMA PostRunKeeps ==
  ASSUME PanicInv, PostRun
  PROVE  PanicInv'
<1>1. SessionTypes' /\ NoEventPanics' /\ stage' = "prompt" /\ UNCHANGED owned
  BY DEF PostRun, ToPrompt, session, PanicInv, SessionTypes, NoEventPanics
<1>2. <<>> \notin enabled'
  BY DEF PostRun, Hooks, AddTable, DropTable, PanicInv, NoNameless
<1>3. UNCHANGED <<items, readers>> \/ DropTable(parts[2])
  BY DEF PostRun, AddTable
<1>4. ReaderTypes' /\ Unaddressed'
  <2>1. CASE UNCHANGED <<items, readers>>
    BY <2>1 DEF PanicInv, ReaderTypes, Unaddressed
  <2>2. CASE DropTable(parts[2])
    BY <2>2, DropKeepsReaders DEF PanicInv, Unaddressed
  <2> QED BY <1>3, <2>1, <2>2
<1> QED BY <1>1, <1>2, <1>4 DEF PanicInv, NoNameless

LEMMA ReaderKeepsPanic ==
  ASSUME PanicInv, NEW r \in Readers, Reader(r)
  PROVE  PanicInv'
<1>1. SessionTypes' /\ NoNameless'
  <2>1. UNCHANGED session
    BY DEF Reader, Arrive, Check, Put, Acknowledge
  <2>2. UNCHANGED <<stage, failed, parts, enabled>>
    BY OthersLeaveShell DEF shell
  <2> QED BY <2>1, <2>2 DEF session, PanicInv, SessionTypes, NoNameless
<1>2. ReaderTypes' /\ \A o \in Readers : o # r => readers'[o] = readers[o]
  <2>1. \A o \in Readers : o # r => readers'[o] = readers[o]
    BY DEF Reader, Arrive, Check, Put, Acknowledge, PanicInv, ReaderTypes
  <2> QED BY <2>1, ReaderTypesOfReader DEF PanicInv
<1>3. readers'[r].at = "fired" => readers'[r].resp.serviceName = <<>>
  <2>1. ASSUME NEW event \in Events, Arrive(r, event)
        PROVE  readers'[r].resp.serviceName = <<>>
    BY <2>1 DEF Arrive, ForwardServiceData, PanicInv, ReaderTypes
  <2>2. CASE Check(r)
    BY <2>2 DEF Check, PanicInv, ReaderTypes
  <2>3. CASE Put(r) \/ Acknowledge(r)
    BY <2>3 DEF Put, Acknowledge, Idle, PanicInv, ReaderTypes
  <2> QED BY <2>1, <2>2, <2>3 DEF Reader
<1>4. NoEventPanics'
  <2>1. CASE Check(r)
    <3>1. ~Found(readers[r].resp)
      BY <2>1 DEF Check, Found, PanicInv, Unaddressed, NoNameless
    <3> QED BY <2>1, <3>1 DEF Check, PanicInv, NoEventPanics
  <2>2. CASE ~Check(r)
    BY <2>2 DEF Reader, Arrive, Put, Acknowledge, PanicInv, NoEventPanics
  <2> QED BY <2>1, <2>2
<1> QED BY <1>1, <1>2, <1>3, <1>4 DEF PanicInv, Unaddressed

LEMMA PanicStep ==
  ASSUME line \in Word, PanicInv, [Next]_vars
  PROVE  PanicInv'
<1> DEFINE Same == /\ UNCHANGED <<owned, enabled, items, readers>>
                   /\ process' \in {process, "exited", "no word", "no parameter"}
                   /\ UNCHANGED <<stage, failed, parts>> \/ stage' # "ran"
<1>0. ASSUME Same, SessionTypes'
      PROVE  PanicInv'
  <2>1. NoNameless'
    <3>1. (\A u \in Users : <<>> \notin owned'[u]) /\ <<>> \notin enabled'
      BY <1>0 DEF PanicInv, NoNameless
    <3>2. CASE UNCHANGED <<stage, failed, parts>>
      BY <3>1, <3>2 DEF PanicInv, NoNameless
    <3>3. CASE stage' # "ran"
      BY <3>1, <3>3 DEF NoNameless
    <3> QED BY <1>0, <3>2, <3>3
  <2>2. ReaderTypes' /\ Unaddressed' /\ NoEventPanics'
    BY <1>0 DEF PanicInv, ReaderTypes, Unaddressed, NoEventPanics
  <2> QED BY <1>0, <2>1, <2>2 DEF PanicInv
<1>1. CASE Type \/ Dismiss \/ Leave \/ ExecutorPanics \/ HookPanics
  <2>1. Same /\ UNCHANGED session
    BY <1>1 DEF Type, Dismiss, ToPrompt, Leave, ExecutorPanics, HookPanics, shell, session
  <2>2. SessionTypes'
    BY <2>1 DEF session, PanicInv, SessionTypes
  <2> QED BY <1>0, <2>1, <2>2
<1>2. CASE GoRun
  BY <1>2, GoRunKeeps
<1>3. CASE PostRun
  BY <1>3, PostRunKeeps
<1>4. CASE GoOffline
  <2>1. Same /\ SessionTypes'
    BY <1>4 DEF GoOffline, shell, PanicInv, SessionTypes
  <2> QED BY <1>0, <2>1
<1>5. CASE \E r \in Readers : Reader(r)
  BY <1>5, ReaderKeepsPanic
<1>6. CASE UNCHANGED vars
  <2>1. Same /\ SessionTypes'
    BY <1>6 DEF vars, shell, session, PanicInv, SessionTypes
  <2> QED BY <1>0, <2>1
<1> QED BY <1>1, <1>2, <1>3, <1>4, <1>5, <1>6 DEF Next, Shell

-----------------------------------------------------------------------------
(* Types. *)

LEMMA LineStep ==
  ASSUME line \in Word, [Next]_vars
  PROVE  line' \in Word
<1>1. CASE Type
  BY <1>1, WordsAssumption, TrimmedEnds DEF Type
<1>2. CASE line' = <<>>
  BY <1>2, WordOfOne
<1>3. CASE GoOffline \/ \E r \in Readers : Reader(r)
  BY <1>3, OthersLeaveShell DEF shell
<1>4. CASE UNCHANGED line
  BY <1>4
<1> QED BY <1>1, <1>2, <1>3, <1>4 DEF Next, Shell, vars, shell, Dismiss, ToPrompt, Leave, ExecutorPanics,
           GoRun, PostRun, HookPanics

LineTyped == line \in Word

LEMMA LineAlways == Spec => []LineTyped
<1>1. Init => LineTyped
  BY WordOfOne DEF Init, LineTyped
<1>2. LineTyped /\ [Next]_vars => LineTyped'
  BY LineStep DEF LineTyped
<1> QED BY <1>1, <1>2, PTL DEF Spec

LEMMA PanicAlways == Spec => []PanicInv
<1>1. LineTyped /\ PanicInv /\ [Next]_vars => PanicInv'
  BY PanicStep DEF LineTyped
<1> QED BY <1>1, PanicInit, LineAlways, PTL DEF Spec

\* No event of a peer kills the process, whatever the user types and whenever links
\* break, with any number of readers: none finds a service (endpoint.go:65-95,
\* 128-147), since the server forwards no name and accepts no empty one.
THEOREM NoEventEverPanics == Spec => []NoEventPanics
<1>1. PanicInv => NoEventPanics
  BY DEF PanicInv
<1> QED BY <1>1, PanicAlways, PTL

ShellTypes ==
  /\ process \in {"running", "exited", "no word", "no parameter", "nil service", "nil agent"}
  /\ stage \in {"prompt", "typed", "ran"}
  /\ line \in Word
  /\ parts \in Seq(Word)
  /\ failed \in BOOLEAN
  /\ enabled \subseteq Word
  /\ stage = "ran" => parts # <<>> /\ parts[1] \in DOMAIN Arity
  /\ stage = "ran" /\ ~failed => Len(parts) = 1 + Arity[parts[1]]

LEMMA ShellTypesStep ==
  ASSUME ShellTypes, [Next]_vars
  PROVE  ShellTypes'
<1>1. process' \in {"running", "exited", "no word", "no parameter", "nil service", "nil agent"}
  BY DEF ShellTypes, Next, Shell, Reader, vars, Type, Dismiss, Leave, ExecutorPanics, GoRun, GoOffline,
     PostRun, HookPanics, Arrive, Check, Put, Acknowledge
<1>2. CASE UNCHANGED <<shell, enabled>>
  BY <1>1, <1>2 DEF ShellTypes, shell
<1>3. CASE Type
  <2>1. line' \in Word
    BY <1>3, WordsAssumption, TrimmedEnds DEF Type
  <2> QED BY <1>1, <1>3, <2>1 DEF Type, ShellTypes
<1>4. CASE GoRun
  <2>1. parts' = Parsed.parts /\ parts' \in Seq(Word)
    BY <1>4, ParsedType DEF GoRun, ShellTypes
  <2>2. stage' = "ran" /\ line' = <<>> /\ failed' \in BOOLEAN
        /\ parts' # <<>> /\ parts'[1] \in DOMAIN Arity /\ enabled' = enabled
    BY <1>4 DEF GoRun
  <2>3. ~failed' => Len(parts') = 1 + Arity[parts'[1]]
    BY <1>4 DEF GoRun, Counted
  <2> QED BY <1>1, <2>1, <2>2, <2>3, WordOfOne DEF ShellTypes
<1>5. CASE ToPrompt /\ UNCHANGED enabled
  BY <1>1, <1>5, WordOfOne, EmptySeq DEF ToPrompt, ShellTypes
<1>6. CASE PostRun
  <2>1. CASE Hooks
    <3>1. Len(parts) = 3 /\ parts \in Seq(Word)
      <4>1. stage = "ran" /\ ~failed /\ parts[1] \in {EnableService, DisableService}
        BY <1>6, <2>1 DEF Hooks, PostRun
      <4>2. Arity[parts[1]] = 2
        BY <4>1, CountsAssumption
      <4>3. Len(parts) = 1 + Arity[parts[1]]
        BY <4>1 DEF ShellTypes
      <4>4. Len(parts) = 1 + 2
        BY <4>2, <4>3
      <4>5. Len(parts) = 3
        BY <4>4
      <4> QED BY <4>5 DEF ShellTypes
    <3>2. 2 \in 1..Len(parts)
      BY <3>1
    <3>3. parts[2] \in Word
      BY <3>1, <3>2, ElementOfSeq
    <3>4. enabled' \subseteq Word
      BY <1>6, <2>1, <3>3 DEF PostRun, AddTable, DropTable, ShellTypes
    <3> QED BY <1>1, <1>6, <3>4, WordOfOne, EmptySeq DEF PostRun, ToPrompt, ShellTypes
  <2>2. CASE ~Hooks
    BY <1>5, <1>6, <2>2 DEF PostRun
  <2> QED BY <2>1, <2>2
<1>7. CASE GoOffline \/ \E r \in Readers : Reader(r)
  BY <1>2, <1>7, OthersLeaveShell
<1> QED BY <1>2, <1>3, <1>4, <1>5, <1>6, <1>7 DEF Next, Shell, vars, Dismiss, Leave, ExecutorPanics, HookPanics

LEMMA TypeParts == ShellTypes /\ SessionTypes /\ ReaderTypes => TypeOK
BY IdsAssumption DEF ShellTypes, SessionTypes, ReaderTypes, TypeOK

\* The types; a command that runs is one of the table and, if it has succeeded, had
\* as many parameters as it takes (endpoint.go:191-226, signalclient.go:333-336); who
\* is online has an id (signalclient.go:287-313).
THEOREM TypeCorrect == Spec => []TypeOK
<1>1. Init => ShellTypes
  BY WordOfOne, EmptySeq DEF Init, ShellTypes
<1>2. ShellTypes /\ PanicInv => TypeOK
  BY TypeParts DEF PanicInv
<1> QED BY <1>1, <1>2, ShellTypesStep, PanicAlways, PTL DEF Spec

-----------------------------------------------------------------------------
(* The line. *)

LEMMA LineIsWord == TypeOK => line \in Word
BY DEF TypeOK

\* Each split of the line in two is two words that can be typed and are read again
\* (utils.go:49-117); QuotedWordsAreRead says it of any words.
THEOREM QuotingAlwaysWorks == Spec => []QuotingWorks
<1>1. ASSUME line \in Word PROVE QuotingWorks
  <2> SUFFICES ASSUME NEW k \in 0..Len(line)
               PROVE  LET words == <<SubSeq(line, 1, k), SubSeq(line, k + 1, Len(line))>>
                      IN  ParseCommandLine(LineOf(words)) = [ok |-> TRUE, parts |-> words]
    BY DEF QuotingWorks
  <2> DEFINE words == <<SubSeq(line, 1, k), SubSeq(line, k + 1, Len(line))>>
  <2>1. Len(line) \in Nat /\ \A i \in 1..Len(line) : line[i] \in Char
    BY <1>1, LenProperties, ElementOfSeq DEF Word
  <2>2. SubSeq(line, 1, k) \in Word
    <3>1. k \in Int /\ \A i \in 1..k : line[i] \in Char
      BY <2>1
    <3> QED BY <3>1, SubSeqProperties DEF Word
  <2>3. SubSeq(line, k + 1, Len(line)) \in Word
    <3>1. k + 1 \in Int /\ Len(line) \in Int /\ \A i \in k + 1..Len(line) : line[i] \in Char
      BY <2>1
    <3> QED BY <3>1, SubSeqProperties DEF Word
  <2>4. words \in Seq(Word)
    BY <2>2, <2>3
  <2> HIDE DEF words
  <2>5. ParseCommandLine(LineOf(words)) = [ok |-> TRUE, parts |-> words]
    BY <2>4, QuotedWordsAreRead
  <2> QED BY <2>5 DEF words
<1> QED BY <1>1, LineIsWord, TypeCorrect, PTL

\* A line without quotes is its words between spaces (utils.go:71-79).
THEOREM SpacesAlwaysSeparate == Spec => []SpacesSeparate
<1>1. line \in Word => SpacesSeparate
  BY SpacesSeparateWords DEF SpacesSeparate, Parsed, IsPlain
<1> QED BY <1>1, LineIsWord, TypeCorrect, PTL

\* The words of a line that is not refused have what was typed (utils.go:96-107).
THEOREM NothingTypedIsEverLost == Spec => []NothingTypedIsLost
<1>1. line \in Word => NothingTypedIsLost
  BY NothingIsLost DEF NothingTypedIsLost, Parsed
<1> QED BY <1>1, LineIsWord, TypeCorrect, PTL

\* A line that the shell has read does not end in a space: TrimSpace has seen to it.
FoundInv == EndsVisibly(line) /\ ShellFindsCommand

LEMMA LastWord ==
  ASSUME line \in Word, EndsVisibly(line), EndNoticed(line), Parsed.ok
  PROVE  Parsed.parts # <<>>
<1>1. PICK s \in Word, ch \in Char \ {Space} : line = Append(s, ch)
  BY DEF EndsVisibly, EndNoticed
<1>2. Last(line) = ch
  BY <1>1, LineAppend DEF Last
<1>3. ch \in Char \ Wides /\ ch # Space
  BY <1>1, <1>2 DEF EndNoticed
<1> QED BY <1>1, <1>3, AWordIsFound DEF Parsed

LEMMA FoundStep ==
  ASSUME TypeOK, FoundInv, [Next]_vars
  PROVE  FoundInv'
<1>1. CASE UNCHANGED <<line, process>>
  BY <1>1 DEF FoundInv, ShellFindsCommand
<1>2. CASE ExecutorPanics
  <2>1. ~EndNoticed(line)
    BY <1>2, LineIsWord, LastWord DEF FoundInv, ExecutorPanics
  <2>2. line' = line
    BY <1>2 DEF ExecutorPanics, shell
  <2> QED BY <2>1, <2>2 DEF FoundInv, ShellFindsCommand
<1>3. CASE process' # "no word" /\ EndsVisibly(line')
  BY <1>3 DEF FoundInv, ShellFindsCommand
<1>4. EndsVisibly(<<>>)
  BY DEF EndsVisibly
<1>5. Type => EndsVisibly(line')
  BY WordsAssumption, TrimmedEnds DEF Type
<1>6. EndsVisibly(line)
  BY DEF FoundInv
<1> QED BY <1>1, <1>2, <1>3, <1>4, <1>5, <1>6
        DEF Next, Shell, Reader, vars, shell, Type, Dismiss, ToPrompt, Leave, GoRun, PostRun, HookPanics,
            Reader, GoOffline, Arrive, Check, Put, Acknowledge

\* Executor reads parts[0] only of a line that has a word, but after a last character
\* of several bytes (endpoint.go:174-193).
THEOREM ShellAlwaysFindsCommand == Spec => []ShellFindsCommand
<1>1. Init => FoundInv
  BY DEF Init, FoundInv, ShellFindsCommand, EndsVisibly
<1>2. FoundInv => ShellFindsCommand
  BY DEF FoundInv
<1> QED BY <1>1, <1>2, FoundStep, TypeCorrect, PTL DEF Spec

=============================================================================
