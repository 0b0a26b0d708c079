------------------------------ MODULE Catalogue ------------------------------
(***************************************************************************)
(* What the signal server promises about services, without connections,    *)
(* sessions or the layout of its maps: a name is free or owned by one      *)
(* client, an owned name has a set of members that never holds the owner,  *)
(* a service ends with all its memberships, and a new service starts       *)
(* disabled and without members.                                           *)
(***************************************************************************)

CONSTANTS Ids, Names, Nobody

VARIABLES owner,    \* [Names -> Ids \cup {Nobody}]
          members,  \* [Names -> SUBSET Ids]
          enabled   \* [Names -> BOOLEAN]

vars == <<owner, members, enabled>>

Init == /\ owner   = [n \in Names |-> Nobody]
        /\ members = [n \in Names |-> {}]
        /\ enabled = [n \in Names |-> FALSE]

\* Only a free name can be taken.  Its members and its flag are not written:
\* whatever ended the last service of that name must have cleared them.
Create(n, i) == /\ owner[n] = Nobody
                /\ members[n] = {}
                /\ ~enabled[n]
                /\ owner' = [owner EXCEPT ![n] = i]
                /\ UNCHANGED <<members, enabled>>

Remove(n) == /\ owner[n] # Nobody
             /\ owner'   = [owner EXCEPT ![n] = Nobody]
             /\ members' = [members EXCEPT ![n] = {}]
             /\ enabled' = [enabled EXCEPT ![n] = FALSE]

Join(n, i) == /\ owner[n] \notin {Nobody, i}
              /\ members' = [members EXCEPT ![n] = @ \cup {i}]
              /\ UNCHANGED <<owner, enabled>>

Leave(n, i) == /\ owner[n] # Nobody
               /\ members' = [members EXCEPT ![n] = @ \ {i}]
               /\ UNCHANGED <<owner, enabled>>

SetEnabled(n, flag) == /\ owner[n] # Nobody
                       /\ enabled' = [enabled EXCEPT ![n] = flag]
                       /\ UNCHANGED <<owner, members>>

Next == \E n \in Names :
          \/ Remove(n)
          \/ \E i \in Ids : Create(n, i) \/ Join(n, i) \/ Leave(n, i)
          \/ \E flag \in BOOLEAN : SetEnabled(n, flag)

Spec == Init /\ [][Next]_vars

=============================================================================
