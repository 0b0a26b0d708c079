-------------------------- MODULE SignalStoreProofs --------------------------
(***************************************************************************)
(* Theorems about SignalStore for any number of users and services, any    *)
(* bound on the file and any faults.                                       *)
(***************************************************************************)
EXTENDS SignalStore, SignalDatabaseProofs

-----------------------------------------------------------------------------
(* Types and consistency. *)

\* A handler leaves a database, and a consistent one if it is given one.
LEMMA HandleKeeps ==
  ASSUME TypeOK, Handle
  PROVE  /\ db' \in Databases
         /\ Consistent(db) => Consistent(db')
<1> DEFINE Goal == db' \in Databases /\ (Consistent(db) => Consistent(db'))
<1>1. db \in Databases
  BY DEF TypeOK
<1>2. ASSUME NEW i \in Ids, db' = AddPeer(db, i)
      PROVE  Goal
  BY <1>1, <1>2, AddPeerKeeps
<1>3. ASSUME NEW i \in Ids, i \in db.peers, NEW n \in Names,
             ~ServiceExists(db, n), db' = AddService(db, n, i)
      PROVE  Goal
  BY <1>1, <1>3, AddServiceKeeps
<1>4. ASSUME NEW n \in Names, db' = RemoveServiceOf(db, n)
      PROVE  Goal
  BY <1>1, <1>4, RemoveServiceKeeps
<1>5. ASSUME NEW n \in Names, NEW flag \in BOOLEAN, db' = SetEnabled(db, n, flag)
      PROVE  Goal
  BY <1>1, <1>5, SetEnabledKeeps
<1>6. ASSUME NEW i \in Ids, i \in db.peers, NEW n \in Names,
             ServiceExists(db, n), db.owner[n] # i, db' = Join(db, i, n)
      PROVE  Goal
  BY <1>1, <1>6, JoinKeeps
<1>7. ASSUME NEW i \in Ids, NEW n \in Names, db' = Leave(db, i, n)
      PROVE  Goal
  BY <1>1, <1>7, LeaveKeeps
<1>8. ASSUME NEW n \in Names, NEW on \in BOOLEAN, db' = Refresh(db, n, on)
      PROVE  Goal
  BY <1>1, <1>8, RefreshKeeps
<1>9. QED
  BY <1>2, <1>3, <1>4, <1>5, <1>6, <1>7, <1>8 DEF Handle

StoreInv == TypeOK /\ StoreConsistent

LEMMA LoadedKeeps ==
  ASSUME NEW f \in Files, Consistent(f.data)
  PROVE  Loaded(f) \in Databases /\ Consistent(Loaded(f))
  BY EmptyIsConsistent DEF Loaded, Files

LEMMA StoreStep ==
  ASSUME StoreInv, [Next]_vars
  PROVE  StoreInv'
<1>1. TypeOK /\ StoreConsistent
  BY DEF StoreInv
<1>2. CASE UNCHANGED vars
  BY <1>1, <1>2 DEF StoreInv, TypeOK, StoreConsistent, vars
<1>3. CASE Handle
  <2>1. db' \in Databases /\ Consistent(db')
    BY <1>1, <1>3, HandleKeeps DEF StoreConsistent
  <2>2. UNCHANGED <<file, process>>
    BY <1>3 DEF Handle
  <2>3. QED
    BY <1>1, <2>1, <2>2 DEF StoreInv, TypeOK, StoreConsistent
<1>4. CASE Truncate
  BY <1>1, <1>4, EmptyIsConsistent
     DEF StoreInv, TypeOK, StoreConsistent, Truncate, NoContents, Files
<1>5. CASE Write
  BY <1>1, <1>5 DEF StoreInv, TypeOK, StoreConsistent, Write, Encoded, Files
<1>6. CASE WriteFails
  BY <1>1, <1>6 DEF StoreInv, TypeOK, StoreConsistent, WriteFails
<1>7. CASE Crash
  BY <1>1, <1>7, EmptyIsConsistent DEF StoreInv, TypeOK, StoreConsistent, Crash
<1>8. CASE Restart
  <2>1. Loaded(file) \in Databases /\ Consistent(Loaded(file))
    BY <1>1, LoadedKeeps DEF TypeOK, StoreConsistent
  <2>2. QED
    BY <1>1, <1>8, <2>1 DEF StoreInv, TypeOK, StoreConsistent, Restart
<1>9. QED
  BY <1>2, <1>3, <1>4, <1>5, <1>6, <1>7, <1>8 DEF Next

LEMMA StoreAlways == Spec => []StoreInv
<1>1. Init => StoreInv
  <2> SUFFICES ASSUME Init PROVE StoreInv
    OBVIOUS
  <2>1. db \in Databases /\ Consistent(db)
    BY EmptyIsConsistent DEF Init
  <2>2. file \in Files /\ Consistent(file.data)
    BY EmptyIsConsistent DEF Init, NoContents, Files
  <2>3. QED
    BY <2>1, <2>2 DEF Init, StoreInv, TypeOK, StoreConsistent
<1>2. QED
  BY <1>1, StoreStep, PTL DEF Spec

\* Memory and file hold databases, whatever was saved, cut off or lost
\* (signalserver.go:129-152).
THEOREM StoreTypeCorrect == Spec => []TypeOK
  BY StoreAlways, PTL DEF StoreInv

\* The database stays consistent in memory and in the file through any
\* sequence of requests, saves, failed writes, crashes and restarts.
THEOREM StoreStaysConsistent == Spec => []StoreConsistent
  BY StoreAlways, PTL DEF StoreInv

-----------------------------------------------------------------------------
(* What a restart finds. *)

LEMMA NothingLoadsEmpty == Loaded(NoContents) = EmptyDatabase
  BY DEF Loaded, NoContents

LEMMA EncodedLoads ==
  ASSUME NEW d
  PROVE  Loaded(Encoded(d)) = IF Size(d) <= MaxSize THEN d ELSE EmptyDatabase
  BY DEF Loaded, Encoded

\* Whatever fails, a restart finds the database that the last save had in
\* memory, or an empty one; never a part or an older one.
THEOREM StoreIsLossyCheckpoint == Spec => ImplementsCheckpoint
<1>1. Init => CheckpointView!Init
  BY NothingLoadsEmpty DEF Init, CheckpointView!Init
<1>2. ASSUME [Next]_vars
      PROVE  [CheckpointView!Next]_CheckpointView!vars
  <2>1. CASE UNCHANGED vars
    BY <2>1 DEF vars, CheckpointView!vars
  <2>2. CASE Handle
    BY <2>2 DEF Handle, CheckpointView!vars, CheckpointView!Next, CheckpointView!Work
  <2>3. CASE Truncate
    BY <2>3, NothingLoadsEmpty DEF Truncate, CheckpointView!Next, CheckpointView!Save
  <2>4. CASE Write
    BY <2>4, EncodedLoads DEF Write, CheckpointView!Next, CheckpointView!Save
  <2>5. CASE WriteFails
    BY <2>5 DEF WriteFails, CheckpointView!vars
  <2>6. CASE Crash
    BY <2>6 DEF Crash, CheckpointView!Next, CheckpointView!Crash
  <2>7. CASE Restart
    BY <2>7 DEF Restart, CheckpointView!Next, CheckpointView!Restart
  <2>8. QED
    BY <1>2, <2>1, <2>2, <2>3, <2>4, <2>5, <2>6, <2>7 DEF Next
<1>3. QED
  BY <1>1, <1>2, PTL DEF Spec, ImplementsCheckpoint, CheckpointView!Spec

=============================================================================
