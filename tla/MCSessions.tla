------------------------------- MODULE MCSessions -------------------------------
(***************************************************************************)
(* A small instance of Sessions: two administrators, of whom the second is *)
(* one of the seats a demo puts back.                                      *)
(***************************************************************************)
EXTENDS Sessions

CONSTANTS hugo, iris

AdminPersona == [id |-> "admin", actions |-> {"administer", "audit"}, ceiling |-> 0]

BaseCapsuleOf(id, purpose) ==
  [id |-> id, parent |-> "none", purpose |-> purpose, products |-> {}, managed |-> FALSE]

ControlCapsule    == BaseCapsuleOf("control-plane", "governance")
GovernanceCapsule == BaseCapsuleOf("data-governance-owner", "data-governance")

Member(p, c, x, n) == [principal |-> p, capsule |-> c, persona |-> x, assignment |-> n]

People   == {hugo, iris}
Home     == [p \in People |-> AdminPersona]
Personas == {AdminPersona}
Capsules == {ControlCapsule}
Seats    == {Member(iris, ControlCapsule, AdminPersona, 2)}
Members  == Seats \cup {Member(hugo, ControlCapsule, AdminPersona, 1)}
Levels   == [d \in {"warehouse"} |-> 2]
=============================================================================
