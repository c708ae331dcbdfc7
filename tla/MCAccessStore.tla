---------------------------- MODULE MCAccessStore ----------------------------
(***************************************************************************)
(* Small instances of AccessStore.  The objects are cut out of the seed    *)
(* (packages/cca-core/src/seed.ts): the control plane, the data-governance *)
(* capsule, one vendor hierarchy with its JIT contract, one support        *)
(* capsule, and a few role drafts.                                         *)
(***************************************************************************)
EXTENDS AccessStore

CONSTANTS emma, dana, hugo, iris

AdminPersona    == [id |-> "admin", actions |-> {"administer", "audit"}, ceiling |-> 0]
OwnerPersona    == [id |-> "data-owner", actions |-> {"view", "audit"}, ceiling |-> 3]
ConsumerPersona == [id |-> "consumer", actions |-> {"view", "operate"}, ceiling |-> 2]

ControlCapsule ==
  [id |-> "control-plane", parent |-> "none", purpose |-> "governance",
   products |-> {}, managed |-> FALSE]
GovernanceCapsule ==
  [id |-> "data-governance-owner", parent |-> "none", purpose |-> "data-governance",
   products |-> {"s4_master", "transactions"}, managed |-> FALSE]
VendorDomain ==
  [id |-> "vendor-domain", parent |-> "none", purpose |-> "vendor-governance",
   products |-> {}, managed |-> FALSE]
VendorAcme ==
  [id |-> "vendor-acme", parent |-> "vendor-domain", purpose |-> "vendor-performance",
   products |-> {"customers"}, managed |-> FALSE]
SupportCapsule ==
  [id |-> "support", parent |-> "none", purpose |-> "support",
   products |-> {"transactions"}, managed |-> FALSE]

BaseContractOf(id, dataset, purpose, personas, actions, approval) ==
  [id |-> id, dataset |-> dataset, purpose |-> purpose, personas |-> personas,
   actions |-> actions, ceiling |-> 2, scope |-> {}, denyFields |-> {},
   approvalRequired |-> approval]

JitContract ==
  BaseContractOf("jit.vendor.bw-export", "bw_vendor", "vendor-performance",
                 {ConsumerPersona}, {"view"}, TRUE)
OwnerContract ==
  BaseContractOf("wh.data-owner", "warehouse", "data-governance", {OwnerPersona}, {"view"}, FALSE)
SupportContract ==
  BaseContractOf("wh.support", "warehouse", "support", {ConsumerPersona}, {"operate"}, FALSE)

\* Members by the number of their seed assignment.
Member(p, c, x, n) == [principal |-> p, capsule |-> c, persona |-> x, assignment |-> n]

Levels == [d \in {"warehouse", "bw_vendor"} |-> 2]

-----------------------------------------------------------------------------
\* The JIT instance: two administrators, of whom hugo also has business access.
\* The control plane is the one capsule whose seats are granted again
\* (addMembership).  A snapshot may give the admin persona a clearance and bind a
\* contract to the control plane; here one does, so that either administrator's
\* seat can carry requests while the other one takes it away and gives it back.

BreakGlassAdmin ==
  [id |-> "admin", actions |-> {"view", "administer", "audit"}, ceiling |-> 2]
BreakGlassContract ==
  BaseContractOf("jit.break-glass", "bw_vendor", "governance",
                 {BreakGlassAdmin}, {"view"}, TRUE)

JitPrincipal   == {hugo, iris}
JitHome        == [p \in JitPrincipal |-> BreakGlassAdmin]
JitPersonas    == {BreakGlassAdmin, ConsumerPersona}
JitCapsules    == {ControlCapsule, VendorDomain, VendorAcme}
JitContracts   == {JitContract, BreakGlassContract}
JitMembers     == {Member(hugo, ControlCapsule, BreakGlassAdmin, 1),
                   Member(iris, ControlCapsule, BreakGlassAdmin, 2),
                   Member(hugo, VendorAcme, ConsumerPersona, 3)}
JitBindings    == {<<VendorAcme, JitContract>>, <<ControlCapsule, BreakGlassContract>>}

\* Checked, but not explored further: the offboarding of the domain with what is
\* below it, after which it goes on as after the offboarding of the capsule below;
\* and what follows once no grant is open and none can be requested any more.
DomainStands == Active(VendorDomain)
SomeGrantOpen == \E i \in DOMAIN jit : jit[i].status \in OpenStatus
Explored == DomainStands /\ (SomeGrantOpen \/ Len(jit) < MaxGrants)

-----------------------------------------------------------------------------
\* The role instance: emma operates support data, dana owns the warehouse,
\* hugo and iris administer; iris may be out of the control plane for a while.

RoleDraft(purpose, products, verbs, denyFields) ==
  [purpose |-> purpose, products |-> products, verbs |-> verbs, ceiling |-> 2,
   denyFields |-> denyFields]

OperateMaster  == RoleDraft("operations", {"s4_master"}, {"operate"}, {})
ViewMaster     == RoleDraft("operations", {"s4_master"}, {"view"}, {})
ViewAudit      == RoleDraft("audit", {"transactions"}, {"view"}, {})

RolePrincipal  == {emma, dana, hugo, iris}
Owners         == {dana}
RoleHome       == [p \in RolePrincipal |->
                     IF p = emma THEN ConsumerPersona
                     ELSE IF p = dana THEN OwnerPersona ELSE AdminPersona]
RolePersonas   == {AdminPersona, OwnerPersona, ConsumerPersona}
RoleCapsules   == {ControlCapsule, GovernanceCapsule, SupportCapsule}
RoleContracts  == {OwnerContract, SupportContract}
RoleMembers    == {Member(hugo, ControlCapsule, AdminPersona, 1),
                   Member(iris, ControlCapsule, AdminPersona, 2),
                   Member(dana, GovernanceCapsule, OwnerPersona, 3),
                   Member(emma, SupportCapsule, ConsumerPersona, 4)}
RoleBindings   == {<<GovernanceCapsule, OwnerContract>>, <<SupportCapsule, SupportContract>>}
RoleDrafts     == {OperateMaster, ViewMaster, ViewAudit}
===============================================================================
