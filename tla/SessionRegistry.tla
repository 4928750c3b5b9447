-------------------------- MODULE SessionRegistry ---------------------------
(***************************************************************************)
(* What SessionManager promises the embedding program about sessions: who   *)
(* is listed has an id and an ip nobody else has, leaves once, and is       *)
(* reported gone in the step it leaves.  A command is refused only if       *)
(* no session of its id takes commands.  Once closing, the registry admits  *)
(* nobody.  What it is served through may be lost with members listed; it   *)
(* is shut only when it is empty and nothing was lost.                      *)
(***************************************************************************)
EXTENDS Sequences

CONSTANTS Ips, Ids

VARIABLES
  members,  \* who is listed: id, ip, and whether flagged to leave
  notices,  \* what the embedding program was told
  closing,  \* nobody is admitted any more
  closed    \* shut, or lost

regVars == <<members, notices, closing, closed>>

Member == [id: Ids, ip: Ips, flagged: BOOLEAN]

Init == members = {} /\ notices = <<>> /\ closing = FALSE /\ closed = FALSE

Tell(kind, id) == notices' = Append(notices, [kind |-> kind, id |-> id])

Enter(id, ip) ==
  /\ ~closing
  /\ \A m \in members : m.id # id /\ m.ip # ip
  /\ members' = members \cup {[id |-> id, ip |-> ip, flagged |-> FALSE]}
  /\ UNCHANGED <<notices, closing, closed>>

Flag(m) ==
  /\ members' = (members \ {m}) \cup {[id |-> m.id, ip |-> m.ip, flagged |-> TRUE]}
  /\ UNCHANGED <<notices, closing, closed>>

Leave(m) ==
  /\ members' = members \ {m}
  /\ Tell("CLOSE_SESSION", m.id)
  /\ UNCHANGED <<closing, closed>>

Refuse(id) ==
  /\ \A m \in members : m.id = id => m.flagged
  /\ Tell("INVALID_SESSION", id)
  /\ UNCHANGED <<members, closing, closed>>

Shut ==
  /\ members = {} /\ ~closed
  /\ closing' = TRUE /\ closed' = TRUE
  /\ UNCHANGED <<members, notices>>

Lose == ~closed /\ closed' = TRUE /\ UNCHANGED <<members, notices, closing>>

Abandon == closing' = TRUE /\ UNCHANGED <<members, notices, closed>>

Next ==
  \/ \E id \in Ids, ip \in Ips : Enter(id, ip)
  \/ \E m \in members : Flag(m) \/ Leave(m)
  \/ \E id \in Ids : Refuse(id)
  \/ Shut \/ Lose \/ Abandon

Spec == Init /\ [][Next]_regVars

=============================================================================
