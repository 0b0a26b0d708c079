------------------------ MODULE SignalDatabaseProofs ------------------------
(***************************************************************************)
(* What each database update returns: a database, and a consistent one if  *)
(* it starts from a consistent one under the checks its handler makes.     *)
(* The state machines that hold a database cite these lemmas by name.      *)
(***************************************************************************)
EXTENDS SignalDatabase, TLAPS

\* NewSignalServer starts from a consistent database.
LEMMA EmptyIsConsistent == EmptyDatabase \in Databases /\ Consistent(EmptyDatabase)
  BY DEF EmptyDatabase, Databases, Membership, Consistent, EntriesConsistent,
         OwnersRegistered, HasEntry, ServiceExists

\* Register: a new peer has no entries.
LEMMA AddPeerKeeps ==
  ASSUME NEW d \in Databases, NEW i \in Ids
  PROVE  /\ AddPeer(d, i) \in Databases
         /\ Consistent(d) => Consistent(AddPeer(d, i))
  BY DEF AddPeer, Databases, Membership, Consistent, EntriesConsistent,
         OwnersRegistered, HasEntry, ServiceExists

\* CreateService: a free name has no entries that could name its new owner.
LEMMA AddServiceKeeps ==
  ASSUME NEW d \in Databases, NEW i \in Ids, NEW n \in Names
  PROVE  /\ AddService(d, n, i) \in Databases
         /\ Consistent(d) /\ i \in d.peers /\ ~ServiceExists(d, n)
              => Consistent(AddService(d, n, i))
  BY NobodyAssumption
     DEF AddService, Databases, Membership, Consistent, EntriesConsistent,
         OwnersRegistered, HasEntry, ServiceExists

\* RemoveService: only registered peers are swept, and only they have entries.
LEMMA RemoveServiceKeeps ==
  ASSUME NEW d \in Databases, NEW n \in Names
  PROVE  /\ RemoveServiceOf(d, n) \in Databases
         /\ Consistent(d) => Consistent(RemoveServiceOf(d, n))
<1> DEFINE e == RemoveServiceOf(d, n)
<1>1. e \in Databases
  <2> DEFINE swept == [i \in Ids |->
                         [m \in Names |-> IF i \in d.peers /\ m = n
                                            THEN "absent" ELSE d.inServices[i][m]]]
  <2>1. d.inServices \in [Ids -> [Names -> Membership]] /\ "absent" \in Membership
    BY DEF Databases, Membership
  <2>2. swept \in [Ids -> [Names -> Membership]]
    BY <2>1
  <2>3. e = [d EXCEPT !.owner[n] = Nobody, !.enabled[n] = FALSE,
                      !.active[n] = FALSE, !.inServices = swept]
    BY DEF RemoveServiceOf
  <2> HIDE DEF swept, e
  <2>4. QED
    BY <2>2, <2>3 DEF Databases
<1>2. /\ e.peers = d.peers
      /\ \A m \in Names : e.owner[m] = IF m = n THEN Nobody ELSE d.owner[m]
      /\ \A i \in Ids, m \in Names :
           e.inServices[i][m] = IF i \in d.peers /\ m = n
                                  THEN "absent" ELSE d.inServices[i][m]
  BY DEF RemoveServiceOf, Databases
<1>3. ASSUME Consistent(d)
      PROVE  Consistent(e)
  <2> HIDE DEF e
  <2>1. EntriesConsistent(e)
    BY <1>2, <1>3 DEF Consistent, EntriesConsistent, HasEntry, ServiceExists
  <2>2. OwnersRegistered(e)
    BY <1>2, <1>3 DEF Consistent, OwnersRegistered, ServiceExists
  <2>3. QED
    BY <2>1, <2>2 DEF Consistent
<1>4. QED
  BY <1>1, <1>3

\* CheckJoinService, joining.
LEMMA JoinKeeps ==
  ASSUME NEW d \in Databases, NEW i \in Ids, NEW n \in Names
  PROVE  /\ Join(d, i, n) \in Databases
         /\ Consistent(d) /\ i \in d.peers /\ ServiceExists(d, n) /\ d.owner[n] # i
              => Consistent(Join(d, i, n))
  BY DEF Join, Databases, Membership, Consistent, EntriesConsistent,
         OwnersRegistered, HasEntry, ServiceExists

\* CheckJoinService, leaving.
LEMMA LeaveKeeps ==
  ASSUME NEW d \in Databases, NEW i \in Ids, NEW n \in Names
  PROVE  /\ Leave(d, i, n) \in Databases
         /\ Consistent(d) => Consistent(Leave(d, i, n))
  BY DEF Leave, Databases, Membership, Consistent, EntriesConsistent,
         OwnersRegistered, HasEntry, ServiceExists

\* CheckEnableService.
LEMMA SetEnabledKeeps ==
  ASSUME NEW d \in Databases, NEW n \in Names, NEW flag \in BOOLEAN
  PROVE  /\ SetEnabled(d, n, flag) \in Databases
         /\ Consistent(d) => Consistent(SetEnabled(d, n, flag))
  BY DEF SetEnabled, Databases, Membership, Consistent, EntriesConsistent,
         OwnersRegistered, HasEntry, ServiceExists

\* ShowService.
LEMMA RefreshKeeps ==
  ASSUME NEW d \in Databases, NEW n \in Names, NEW flag \in BOOLEAN
  PROVE  /\ Refresh(d, n, flag) \in Databases
         /\ Consistent(d) => Consistent(Refresh(d, n, flag))
  BY DEF Refresh, Databases, Membership, Consistent, EntriesConsistent,
         OwnersRegistered, HasEntry, ServiceExists

=============================================================================
