--------------------------- MODULE MCRecertification ---------------------------
(***************************************************************************)
(* A small instance of Recertification: the administrator and the owner of *)
(* the warehouse data review each other, and the owner may be given two     *)
(* Role Studio roles of the same scope in turn.                             *)
(***************************************************************************)
EXTENDS Recertification

CONSTANTS dana, hugo

AdminPersona == [id |-> "admin", actions |-> {"administer", "audit"}, ceiling |-> 0]
OwnerPersona == [id |-> "data-owner", actions |-> {"view", "audit"}, ceiling |-> 3]

BaseCapsuleOf(id, purpose, products) ==
  [id |-> id, parent |-> "none", purpose |-> purpose, products |-> products, managed |-> FALSE]

ControlCapsule    == BaseCapsuleOf("control-plane", "governance", {})
GovernanceCapsule ==
  BaseCapsuleOf("data-governance-owner", "data-governance", {"s4_master", "transactions"})

Member(p, c, x, n) == [principal |-> p, capsule |-> c, persona |-> x, assignment |-> n]

RoleDraft(ceiling) ==
  [purpose |-> "operations", products |-> {"s4_master"}, verbs |-> {"view"},
   ceiling |-> ceiling, denyFields |-> {}]

People   == {dana, hugo}
Owners   == {dana}
Home     == [p \in People |-> IF p = dana THEN OwnerPersona ELSE AdminPersona]
Personas == {AdminPersona, OwnerPersona}
Capsules == {ControlCapsule, GovernanceCapsule}
Members  == {Member(hugo, ControlCapsule, AdminPersona, 1),
             Member(dana, GovernanceCapsule, OwnerPersona, 2)}
Drafts   == {RoleDraft(1), RoleDraft(2)}
Levels   == [d \in {"warehouse"} |-> 2]

\* A third campaign may be asked for, as a second renewal of the first or one of
\* the second, and is checked; what follows it is not explored.
TwoExplored == Len(campaigns) <= 2
===============================================================================
