--------------------------- MODULE SignalDatabase ---------------------------
(***************************************************************************)
(* The data the signal server keeps: registered peers, the membership each *)
(* peer records for each service name (SignalPeer.InServices), and the     *)
(* services with their owner and flags.  Only the updates and the reads    *)
(* are here, as operators on a database value; the state machines that     *)
(* hold a database (SignalServer) use them.                                *)
(*                                                                         *)
(* The Go maps are total functions here: a key that is not in a map has a  *)
(* default.  Passwords, salts, descriptions and creation times are left    *)
(* out; whether a digest matches is a choice of the actions that check it. *)
(***************************************************************************)

CONSTANTS Ids,     \* client ids (SignalRequest.FromId)
          Names,   \* service names
          Nobody   \* "no id": the owner of a name without a service

ASSUME NobodyAssumption == Nobody \notin Ids

\* InServices[name]: no such key, true, or false.
Membership == {"absent", "joined", "left"}

Databases == [peers      : SUBSET Ids,
              inServices : [Ids -> [Names -> Membership]],
              owner      : [Names -> Ids \cup {Nobody}],
              enabled    : [Names -> BOOLEAN],
              active     : [Names -> BOOLEAN]]

EmptyDatabase == [peers      |-> {},
                  inServices |-> [i \in Ids |-> [n \in Names |-> "absent"]],
                  owner      |-> [n \in Names |-> Nobody],
                  enabled    |-> [n \in Names |-> FALSE],
                  active     |-> [n \in Names |-> FALSE]]

-----------------------------------------------------------------------------
(* Reads. *)

ServiceExists(db, n) == db.owner[n] # Nobody

\* `if isIn, ok := peer.InServices[name]; !ok || !isIn` lets only these pass.
IsJoined(db, i, n) == db.inServices[i][n] = "joined"

\* `_, ok := peer.InServices[name]`: members and former members alike.
HasEntry(db, i, n) == db.inServices[i][n] # "absent"

Members(db) == [n \in Names |-> {i \in Ids : IsJoined(db, i, n)}]

-----------------------------------------------------------------------------
(* Updates, one for each handler that changes the database.                *)

AddPeer(db, i) ==
  [db EXCEPT !.peers = db.peers \cup {i},
             !.inServices[i] = [n \in Names |-> "absent"]]

\* Faulty: NewSignalService(name, id) called with its arguments swapped.
AddServiceSwapped(db, n, i) ==
  [db EXCEPT !.owner[n] = n, !.enabled[n] = FALSE, !.active[n] = FALSE]

AddService(db, n, i) ==
  [db EXCEPT !.owner[n] = i, !.enabled[n] = FALSE, !.active[n] = FALSE]

\* Faulty: the memberships of the service outlive it.
RemoveServiceOnly(db, n) ==
  [db EXCEPT !.owner[n] = Nobody, !.enabled[n] = FALSE, !.active[n] = FALSE]

\* The service goes, and every registered peer's entry for its name with it.
RemoveServiceOf(db, n) ==
  [db EXCEPT !.owner[n] = Nobody, !.enabled[n] = FALSE, !.active[n] = FALSE,
             !.inServices = [i \in Ids |->
                               [m \in Names |-> IF i \in db.peers /\ m = n
                                                  THEN "absent"
                                                  ELSE db.inServices[i][m]]]]

Join(db, i, n) == [db EXCEPT !.inServices[i][n] = "joined"]

\* Leaving keeps the key and makes it false; leaving without a key does nothing.
Leave(db, i, n) ==
  IF HasEntry(db, i, n) THEN [db EXCEPT !.inServices[i][n] = "left"] ELSE db

SetEnabled(db, n, flag) == [db EXCEPT !.enabled[n] = flag]

\* ShowService refreshes Active, but only of an enabled service.
Refresh(db, n, ownerOnline) ==
  IF db.enabled[n] THEN [db EXCEPT !.active[n] = ownerOnline] ELSE db

-----------------------------------------------------------------------------
(* What the handlers keep true of the database, whatever their order.      *)

\* A membership entry belongs to a registered peer that is not the owner,
\* and names a service that exists.
EntriesConsistent(db) ==
  \A i \in Ids, n \in Names :
    HasEntry(db, i, n) => /\ i \in db.peers
                          /\ ServiceExists(db, n)
                          /\ db.owner[n] # i

\* Whoever owns a service is registered.
OwnersRegistered(db) ==
  \A n \in Names : ServiceExists(db, n) => db.owner[n] \in db.peers

Consistent(db) == EntriesConsistent(db) /\ OwnersRegistered(db)

=============================================================================
