---------------------------- MODULE MCRoleRequests ----------------------------
(***************************************************************************)
(* A small instance of RoleRequests: dana owns the warehouse, hugo and     *)
(* iris administer, emma asks.  An administrator may leave the control     *)
(* plane between two approvals, and then ask for a role as well.           *)
(***************************************************************************)
EXTENDS RoleRequests

CONSTANTS emma, dana, hugo, iris

AdminPersona    == [id |-> "admin", actions |-> {"administer", "audit"}, ceiling |-> 0]
OwnerPersona    == [id |-> "data-owner", actions |-> {"view", "audit"}, ceiling |-> 3]
ConsumerPersona == [id |-> "consumer", actions |-> {"view"}, ceiling |-> 2]

BaseCapsuleOf(id, purpose, products) ==
  [id |-> id, parent |-> "none", purpose |-> purpose, products |-> products, managed |-> FALSE]

ControlCapsule    == BaseCapsuleOf("control-plane", "governance", {})
GovernanceCapsule ==
  BaseCapsuleOf("data-governance-owner", "data-governance", {"s4_master", "transactions"})

OwnerContract ==
  [id |-> "wh.data-owner", dataset |-> "warehouse", purpose |-> "data-governance",
   personas |-> {OwnerPersona}, actions |-> {"view"}, ceiling |-> 2, scope |-> {},
   denyFields |-> {}, approvalRequired |-> FALSE]

Member(p, c, x, n) == [principal |-> p, capsule |-> c, persona |-> x, assignment |-> n]

RoleDraft(verbs) ==
  [purpose |-> "operations", products |-> {"s4_master"}, verbs |-> verbs, ceiling |-> 2,
   denyFields |-> {}]

People    == {emma, dana, hugo, iris}
Owners    == {dana}
Home      == [p \in People |->
                IF p = emma THEN ConsumerPersona
                ELSE IF p = dana THEN OwnerPersona ELSE AdminPersona]
Personas  == {AdminPersona, OwnerPersona, ConsumerPersona}
Capsules  == {ControlCapsule, GovernanceCapsule}
Contracts == {OwnerContract}
Members   == {Member(hugo, ControlCapsule, AdminPersona, 1),
              Member(iris, ControlCapsule, AdminPersona, 2),
              Member(dana, GovernanceCapsule, OwnerPersona, 3)}
Bindings  == {<<GovernanceCapsule, OwnerContract>>}
Drafts    == {RoleDraft({"view"}), RoleDraft({"operate"})}
Levels    == [d \in {"warehouse"} |-> 2]
===============================================================================
