------------------------------ MODULE AccessStore ------------------------------
(***************************************************************************)
(* The control-plane store (packages/cca-core/src/store.ts) and the        *)
(* lifecycle operations on it (packages/cca-core/src/lifecycle.ts):        *)
(* membership changes, offboarding, just-in-time grants and the            *)
(* application of a role draft.  Every exported function that changes the  *)
(* store is one action; an action is enabled when the function returns     *)
(* without throwing and without returning early.                           *)
(*                                                                         *)
(* Handlers are synchronous from their first check to their last write, so *)
(* an action is atomic.  Saving and restoring the whole store around a     *)
(* handler is the business of module ControlPlaneRepository; the append-only audit     *)
(* trail every operation writes is not read back by any of them.           *)
(***************************************************************************)
EXTENDS PolicyObjects, SeparationOfDuties, Sequences

CONSTANTS
  Principal,        \* store.principals
  Human,            \* those of kind "human"
  Disabled,         \* those with the disabled flag
  WarehouseOwner,   \* ownerPrincipalIds of the dataset "warehouse"
  HomePersona,      \* principal.personaId
  ControlPlane,     \* the capsule "control-plane"
  OwnerCapsule,     \* the capsule "data-governance-owner"
  SeedMembership,   \* memberships at the start, assignments 1 .. n
  SeedBinding,      \* capsule-contract pairs at the start
  NoOne,            \* an absent principal
  MinTtl, MaxTtl,   \* MIN_JIT_TTL_MS and MAX_JIT_TTL_MS
  MaxTime,          \* bound on the wall clock
  MaxGrants,        \* bound on the number of JIT requests
  MaxAssignment     \* bound on the number of assignments ever made

VARIABLES
  now,              \* Date.now()
  capsuleState,     \* "absent", "active" or "inactive" for each capsule
  memberships,      \* store.memberships
  bindings,         \* store.bindings
  jit,              \* store.jit, oldest first
  nextAssignment    \* the next fresh assignment id

vars == <<now, capsuleState, memberships, bindings, jit, nextAssignment>>

Time == 0 .. MaxTime
NoTime == -1

GrantStatus == {"pending", "approved", "denied", "expired", "revoked"}
OpenStatus  == {"pending", "approved"}

Membership ==
  [principal : Principal, capsule : Capsule, persona : Persona, assignment : Nat]

\* The frozen scope of a grant is its persona, capsule and contract.  The
\* field assignment is no field of the code's JitGrant: it remembers the
\* membership the request was made under, for the properties below.
Grant ==
  [status : GrantStatus, principal : Principal, capsule : Capsule,
   persona : Persona, contract : Contract, actions : SUBSET Action,
   requestedTtl : Nat, createdAt : Nat, expiresAt : Nat \cup {NoTime},
   approver : Principal \cup {NoOne}, approvedAt : Nat \cup {NoTime},
   assignment : Nat]

-----------------------------------------------------------------------------
\* Who is who.

Active(c) == capsuleState[c] = "active"

Enabled(p) == p \notin Disabled

MembershipsOf(p) == {m \in memberships : m.principal = p}

LiveMemberships(p) ==
  {m \in MembershipsOf(p) : Enabled(p) /\ Active(m.capsule)}

IsControlPlaneAdmin(p) ==
  /\ Enabled(p)
  /\ HomePersona[p].id = "admin"
  /\ \E m \in MembershipsOf(p) : m.capsule = ControlPlane /\ Active(ControlPlane)

\* A named owner of the warehouse with a live seat among the data owners.
HoldsOwnerSeat(p) ==
  /\ p \in WarehouseOwner
  /\ \E m \in LiveMemberships(p) :
       m.capsule = OwnerCapsule /\ m.persona.id = "data-owner"

IsWarehouseDataOwner(p) == p \in Human /\ HoldsOwnerSeat(p)

\* governanceReviewerRoleFor: an administrator is never treated as an owner.
ReviewerRole(p) ==
  IF IsControlPlaneAdmin(p) THEN "governance-admin"
  ELSE IF IsWarehouseDataOwner(p) THEN "data-owner" ELSE "none"

\* recertificationReviewerRolesFor, for a membership that exists.
RecertificationRoles(m) ==
  IF m.principal \notin Human THEN {}
  ELSE IF m.capsule = ControlPlane \/ m.persona.id = "admin" THEN {"data-owner"}
  ELSE IF m.persona.id = "data-owner" THEN {"governance-admin"}
  ELSE {"data-owner", "governance-admin"}

-----------------------------------------------------------------------------
\* Separation of duties over standing warehouse access.

ScopedProducts(c) == IF c.products = {} THEN {EveryProduct} ELSE c.products

\* The facts of the memberships ms under the bindings bs.
SodFacts(ms, bs) ==
  {[purpose  |-> held[2][2].purpose,
    actions  |-> held[2][2].actions \cap held[1].persona.actions,
    products |-> ScopedProducts(held[1].capsule)] :
      held \in {x \in ms \X bs :
                  /\ x[2][1] = x[1].capsule
                  /\ x[2][2].dataset = "warehouse"
                  /\ x[2][2].actions \cap x[1].persona.actions # {}}}

WarehouseSodFacts(p) == SodFacts(LiveMemberships(p), bindings)

\* Mutation: the candidate is judged without the principal's standing access.
CandidateFactAlone(p, d) ==
  {[purpose |-> d.purpose, actions |-> d.verbs, products |-> d.products]}

\* The candidate replaces every role-studio capability, so those are left out.
DraftSodFacts(p, d) ==
  SodFacts({m \in LiveMemberships(p) : ~ m.capsule.managed}, bindings)
    \cup {[purpose |-> d.purpose, actions |-> d.verbs, products |-> d.products]}

-----------------------------------------------------------------------------
\* Expiring grants when the relationship they rest on goes away.

\* Mutation: requests nobody has decided are left alone.
ExpireApprovedOnly(grants) ==
  [i \in DOMAIN jit |->
     IF i \in grants /\ jit[i].status = "approved"
     THEN [jit[i] EXCEPT !.status = "expired", !.expiresAt = now]
     ELSE jit[i]]

\* Mutation: grants are left alone.
ExpireNothing(grants) == jit

ExpireOpen(grants) ==
  [i \in DOMAIN jit |->
     IF i \in grants /\ jit[i].status \in OpenStatus
     THEN [jit[i] EXCEPT !.status = "expired", !.expiresAt = now]
     ELSE jit[i]]

GrantsOn(capsules) == {i \in DOMAIN jit : jit[i].capsule \in capsules}

GrantsOf(p) == {i \in DOMAIN jit : jit[i].principal = p}

-----------------------------------------------------------------------------
(***************************************************************************)
(* Memberships and capsules.                                               *)
(***************************************************************************)

AddMembership(actor, p) ==
  /\ IsControlPlaneAdmin(actor)
  /\ Active(ControlPlane)
  /\ Enabled(p)
  /\ HomePersona[p].id = "admin"
  /\ ~ \E m \in MembershipsOf(p) : m.capsule = ControlPlane
  /\ nextAssignment <= MaxAssignment
  /\ memberships' = memberships \cup
       {[principal |-> p, capsule |-> ControlPlane, persona |-> HomePersona[p],
         assignment |-> nextAssignment]}
  /\ nextAssignment' = nextAssignment + 1
  /\ UNCHANGED <<now, capsuleState, bindings, jit>>

\* Mutation: the guard counts the administrator who is leaving.
SomeAdminRemains(m) == \E other \in Principal : IsControlPlaneAdmin(other)

\* The last active control-plane administrator cannot be removed.
LastAdminStays(m) ==
  \/ m.capsule # ControlPlane
  \/ ~ IsControlPlaneAdmin(m.principal)
  \/ \E other \in Principal \ {m.principal} : IsControlPlaneAdmin(other)

RemoveMembershipUnchecked(m) ==
  /\ LastAdminStays(m)
  /\ memberships' =
       {x \in memberships : ~(x.principal = m.principal /\ x.capsule = m.capsule)}
  /\ jit' = ExpireOpen(GrantsOf(m.principal) \cap GrantsOn({m.capsule}))
  /\ UNCHANGED <<now, capsuleState, bindings, nextAssignment>>

RemoveMembership(actor, m) ==
  /\ IsControlPlaneAdmin(actor)
  /\ RemoveMembershipUnchecked(m)

RevokeMembershipForRecertification(reviewer, m) ==
  /\ reviewer # m.principal
  /\ ReviewerRole(reviewer) \in RecertificationRoles(m)
  /\ RemoveMembershipUnchecked(m)

OffboardCapsule(actor, c, cascade) ==
  LET targets == IF cascade THEN Descendants(c) ELSE {c}
  IN  /\ IsControlPlaneAdmin(actor)
      /\ c # ControlPlane /\ ControlPlane \notin targets
      /\ capsuleState[c] # "absent"
      /\ capsuleState' = [k \in Capsule |-> IF k \in targets THEN "inactive" ELSE capsuleState[k]]
      /\ memberships' = {m \in memberships : m.capsule \notin targets}
      /\ bindings' = {b \in bindings : b[1] \notin targets}
      /\ jit' = ExpireOpen(GrantsOn(targets))
      /\ UNCHANGED <<now, nextAssignment>>

-----------------------------------------------------------------------------
(***************************************************************************)
(* Just-in-time grants.                                                    *)
(***************************************************************************)

\* What requestJit and approveJit both ask of the contract.
JitContractOk(persona, c, k, actions) ==
  /\ <<c, k>> \in bindings
  /\ k.approvalRequired
  /\ PersonaMatchesContract(persona, k)
  /\ actions \subseteq persona.actions \cap k.actions
  /\ persona.ceiling # 0

\* A request that omits contractId is accepted only when one contract is
\* eligible, so it is a request for that contract.
RequestJit(m, k, actions, ttl) ==
  /\ Len(jit) < MaxGrants
  /\ Enabled(m.principal) /\ Active(m.capsule)
  /\ actions # {}
  /\ JitContractOk(m.persona, m.capsule, k, actions)
  /\ k.purpose = m.capsule.purpose
  /\ DatasetLevel[k.dataset] <= ClassificationMax(m.persona, k)
  /\ jit' = Append(jit,
       [status |-> "pending", principal |-> m.principal, capsule |-> m.capsule,
        persona |-> m.persona, contract |-> k, actions |-> actions,
        requestedTtl |-> ttl, createdAt |-> now, expiresAt |-> NoTime,
        approver |-> NoOne, approvedAt |-> NoTime, assignment |-> m.assignment])
  /\ UNCHANGED <<now, capsuleState, memberships, bindings, nextAssignment>>

\* Mutation: the approver may choose any admissible duration.
TtlAdmissible(i, ttl) == ttl \in MinTtl .. MaxTtl

TtlWithinRequest(i, ttl) == ttl <= jit[i].requestedTtl

\* The policyVersion comparison is the identity of the frozen objects: no
\* operation changes a contract, a persona or a capsule's attributes.
ApproveJit(approver, i, ttl) ==
  /\ jit[i].status = "pending"
  /\ now >= jit[i].createdAt
  /\ approver # jit[i].principal
  /\ IsControlPlaneAdmin(approver)
  /\ Enabled(jit[i].principal) /\ Active(jit[i].capsule)
  /\ \E m \in MembershipsOf(jit[i].principal) :
       m.capsule = jit[i].capsule /\ m.persona = jit[i].persona
  /\ JitContractOk(jit[i].persona, jit[i].capsule, jit[i].contract, jit[i].actions)
  /\ TtlWithinRequest(i, ttl)
  /\ jit' = [jit EXCEPT ![i] =
               [jit[i] EXCEPT !.status = "approved", !.approver = approver,
                              !.approvedAt = now, !.expiresAt = now + ttl]]
  /\ UNCHANGED <<now, capsuleState, memberships, bindings, nextAssignment>>

DenyJit(denier, i) ==
  /\ jit[i].status = "pending"
  /\ now >= jit[i].createdAt
  /\ denier # jit[i].principal
  /\ IsControlPlaneAdmin(denier)
  /\ jit' = [jit EXCEPT ![i] = [jit[i] EXCEPT !.status = "denied"]]
  /\ UNCHANGED <<now, capsuleState, memberships, bindings, nextAssignment>>

\* Mutation: Math.min without the default for a grant never approved.
Smaller(t, u) == IF t <= u THEN t ELSE u

\* Math.min(grant.expiresAt ?? now, now)
EarlierOf(t, u) == IF t # NoTime /\ t <= u THEN t ELSE u

\* Mutation: anything not denied or revoked can be revoked.
NotYetRevoked(i) == jit[i].status \notin {"denied", "revoked"}

Revocable(i) == jit[i].status \in OpenStatus

RevokeJit(actor, i) ==
  /\ actor = jit[i].principal \/ IsControlPlaneAdmin(actor)
  /\ Revocable(i)
  /\ jit' = [jit EXCEPT ![i] =
               [jit[i] EXCEPT !.status = "revoked",
                              !.expiresAt = EarlierOf(jit[i].expiresAt, now)]]
  /\ UNCHANGED <<now, capsuleState, memberships, bindings, nextAssignment>>

-----------------------------------------------------------------------------
(***************************************************************************)
(* Applying an approved role draft: the draft's objects are created or     *)
(* reused, the principal's other role-studio memberships are retired with  *)
(* their grants, and the principal joins the draft's capsule.              *)
(***************************************************************************)

\* Mutation: a new role is added beside the old ones.
RetireNothing(p, d) == {}

RetiredCapsules(p, d) ==
  {m.capsule : m \in {x \in MembershipsOf(p) :
                        x.capsule.managed /\ x.capsule # ScopeCapsule(d)}}

\* The memberships left once p has been retired from its other roles.
Retained(p, d) ==
  {m \in memberships : ~(m.principal = p /\ m.capsule \in RetiredCapsules(p, d))}

\* Mutation: a retired capsule is closed although others still use it.
RetiredCapsulesAll(p, d) == RetiredCapsules(p, d)

Emptied(p, d) ==
  {c \in RetiredCapsules(p, d) : ~ \E m \in Retained(p, d) : m.capsule = c}

\* Mutation: the principal always joins anew.
JoinAfresh(p, d) ==
  /\ nextAssignment <= MaxAssignment
  /\ memberships' = Retained(p, d) \cup
       {[principal |-> p, capsule |-> ScopeCapsule(d),
         persona |-> CapabilityPersona(d), assignment |-> nextAssignment]}
  /\ nextAssignment' = nextAssignment + 1

JoinScope(p, d) ==
  LET current == {m \in Retained(p, d) : m.principal = p /\ m.capsule = ScopeCapsule(d)}
  IN  IF current # {}
      THEN /\ memberships' = (Retained(p, d) \ current)
                 \cup {[m EXCEPT !.persona = CapabilityPersona(d)] : m \in current}
           /\ UNCHANGED nextAssignment
      ELSE /\ nextAssignment <= MaxAssignment
           /\ memberships' = Retained(p, d) \cup
                {[principal |-> p, capsule |-> ScopeCapsule(d),
                  persona |-> CapabilityPersona(d), assignment |-> nextAssignment]}
           /\ nextAssignment' = nextAssignment + 1

ApplyRoleDraft(actor, p, d) ==
  /\ IsControlPlaneAdmin(actor)
  /\ Enabled(p)
  /\ ~ IsControlPlaneAdmin(p)
  /\ ~ SodViolated(DraftSodFacts(p, d))
  /\ capsuleState' = [c \in Capsule |->
       IF c = ScopeCapsule(d) THEN "active"
       ELSE IF c \in Emptied(p, d) THEN "inactive" ELSE capsuleState[c]]
  /\ bindings' = bindings \cup {<<ScopeCapsule(d), RoleContract(d)>>}
  /\ jit' = ExpireOpen(GrantsOf(p) \cap GrantsOn(RetiredCapsules(p, d)))
  /\ JoinScope(p, d)
  /\ UNCHANGED now

-----------------------------------------------------------------------------
\* The wall clock is not monotone: it may be set forward or back.
AdjustClock(t) ==
  /\ now' = t
  /\ UNCHANGED <<capsuleState, memberships, bindings, jit, nextAssignment>>

Init ==
  /\ now = 0
  /\ capsuleState = [c \in Capsule |-> IF c \in BaseCapsule THEN "active" ELSE "absent"]
  /\ memberships = SeedMembership
  /\ bindings = SeedBinding
  /\ jit = <<>>
  /\ nextAssignment = Cardinality(SeedMembership) + 1

MembershipStep ==
  \/ \E actor, p \in Principal : AddMembership(actor, p)
  \/ \E actor \in Principal, m \in memberships : RemoveMembership(actor, m)
  \/ \E reviewer \in Principal, m \in memberships :
       RevokeMembershipForRecertification(reviewer, m)
  \/ \E actor \in Principal, c \in Capsule, cascade \in BOOLEAN :
       OffboardCapsule(actor, c, cascade)

JitStep ==
  \/ \E m \in memberships, k \in Contract, actions \in SUBSET WarehouseAction,
        ttl \in MinTtl .. MaxTtl : RequestJit(m, k, actions, ttl)
  \/ \E approver \in Principal, i \in DOMAIN jit, ttl \in MinTtl .. MaxTtl :
       ApproveJit(approver, i, ttl)
  \/ \E denier \in Principal, i \in DOMAIN jit : DenyJit(denier, i)
  \/ \E actor \in Principal, i \in DOMAIN jit : RevokeJit(actor, i)

RoleStep == \E actor, p \in Principal, d \in Draft : ApplyRoleDraft(actor, p, d)

ClockStep == \E t \in Time : AdjustClock(t)

Next == MembershipStep \/ JitStep \/ RoleStep \/ ClockStep

Spec == Init /\ [][Next]_vars

-----------------------------------------------------------------------------
(***************************************************************************)
(* Assumptions on the constants, met by the seed.  A restored snapshot is  *)
(* checked for the owners, the unique memberships and assignment ids and   *)
(* the persona of the control plane (store.ts: assertStoreRelationships);  *)
(* the rest - somebody enabled administers, the control plane grants no    *)
(* warehouse access, nobody starts in conflict - is taken of the state the *)
(* service starts from.                                                    *)
(***************************************************************************)

ASSUME PrincipalAssumption ==
  /\ Human \subseteq Principal /\ Disabled \subseteq Principal
  /\ WarehouseOwner \subseteq Human
  /\ HomePersona \in [Principal -> BasePersona]
  /\ NoOne \notin Principal

ASSUME BoundAssumption ==
  /\ MinTtl \in Nat \ {0} /\ MaxTtl \in Nat
  /\ MaxTime \in Nat /\ MaxGrants \in Nat /\ MaxAssignment \in Nat

\* The shape of the seed's policy objects; none of them is made by Role Studio.
ASSUME ObjectAssumption ==
  /\ ControlPlane \in BaseCapsule
  /\ \A c \in BaseCapsule : c.managed = FALSE
  /\ \A x \in BasePersona : x.actions \subseteq Action /\ x.ceiling \in Ceiling
  /\ \A d \in Draft : d.verbs \subseteq WarehouseAction /\ d.ceiling \in Ceiling \ {0}
  /\ \A d \in Draft : d.verbs # {} /\ d.products # {}

\* One membership per principal and capsule, one assignment id each, only
\* the admin persona in the control plane, and somebody enabled is in it.
ASSUME SeedMembershipAssumption ==
  /\ IsFiniteSet(SeedMembership)
  /\ \A m \in SeedMembership :
       /\ m \in [principal : Principal, capsule : BaseCapsule, persona : BasePersona,
                 assignment : 1 .. Cardinality(SeedMembership)]
       /\ m.capsule = ControlPlane => m.persona.id = "admin"
  /\ \A m, n \in SeedMembership :
       \/ m = n
       \/ /\ m.assignment # n.assignment
          /\ m.principal # n.principal \/ m.capsule # n.capsule
  /\ \E m \in SeedMembership :
       /\ m.capsule = ControlPlane
       /\ Enabled(m.principal) /\ HomePersona[m.principal].id = "admin"

ASSUME SeedBindingAssumption ==
  /\ IsFiniteSet(SeedBinding)
  /\ SeedBinding \subseteq BaseCapsule \X BaseContract

\* The control plane gives an administrator nothing to do in the warehouse.
ASSUME ControlPlaneAssumption ==
  \A p \in Principal, b \in SeedBinding :
    b[1] = ControlPlane /\ b[2].dataset = "warehouse" =>
      b[2].actions \cap HomePersona[p].actions = {}

\* Nobody starts with a combination of duties the policy forbids.
ASSUME SeedSodAssumption ==
  \A p \in Principal :
    ~ SodViolated(SodFacts({m \in SeedMembership : m.principal = p /\ Enabled(p)}, SeedBinding))

-----------------------------------------------------------------------------
(***************************************************************************)
(* Properties.                                                             *)
(***************************************************************************)

\* Every variable has its type, and a grant that was ever in force or was
\* cut short has an expiry (lifecycle.ts: approveJit, revokeJit, the expiry
\* loops).
TypeOK ==
  /\ now \in Time
  /\ capsuleState \in [Capsule -> {"absent", "active", "inactive"}]
  /\ memberships \subseteq Membership
  /\ bindings \subseteq Capsule \X Contract
  /\ jit \in Seq(Grant)
  /\ \A i \in DOMAIN jit :
       jit[i].status \in {"approved", "expired", "revoked"} => jit[i].expiresAt # NoTime
  /\ nextAssignment \in Nat

UniqueMembership ==
  \A m, n \in memberships :
    m.principal = n.principal /\ m.capsule = n.capsule => m = n

UniqueAssignment ==
  \A m, n \in memberships : m.assignment = n.assignment => m = n

AdminSeats ==
  \A m \in memberships : m.capsule = ControlPlane => m.persona.id = "admin"

\* The relationship a grant rests on: assertStoreRelationships, "live jit".
Anchored(g) ==
  /\ Enabled(g.principal) /\ Active(g.capsule)
  /\ \E m \in MembershipsOf(g.principal) : m.capsule = g.capsule /\ m.persona = g.persona
  /\ <<g.capsule, g.contract>> \in bindings

OpenGrantsAnchored ==
  \A i \in DOMAIN jit : jit[i].status \in OpenStatus => Anchored(jit[i])

ApprovedGrantsExpire ==
  \A i \in DOMAIN jit : jit[i].status = "approved" => jit[i].expiresAt > jit[i].createdAt

\* Whatever sequence of operations ran, and however the clock jumped, the
\* store passes the checks a restart makes of it (store.ts:
\* assertStoreRelationships): save() does not make them, so a state that
\* fails them is found only when the service can no longer start.
Restorable ==
  /\ UniqueMembership /\ UniqueAssignment /\ AdminSeats
  /\ OpenGrantsAnchored /\ ApprovedGrantsExpire

\* Removing a member and granting the same capsule again never revives an
\* older request or grant: if the principal holds the capsule of an open one,
\* it holds it by the very assignment the request was made under.  A grant
\* records the capsule and not the assignment, so nothing but its expiry on
\* every way out of a capsule separates the two (lifecycle.ts:
\* removeMembershipUnchecked, offboardCapsule, applyRoleDraft; addMembership
\* is the way back in).
OpenGrantsFollowAssignment ==
  \A i \in DOMAIN jit :
    jit[i].status \in OpenStatus =>
      \A m \in MembershipsOf(jit[i].principal) :
        m.capsule = jit[i].capsule => m.assignment = jit[i].assignment

\* Somebody can always administer the control plane, whichever mixture of
\* removals, recertification revocations and offboarding ran (lifecycle.ts:
\* "refusing to remove the last active control-plane administrator" and the
\* two refusals of offboardCapsule).
AdminSurvives == \E p \in Principal : IsControlPlaneAdmin(p)

\* An approved grant was approved by somebody else, not before it was asked
\* for, and lasts no longer than was asked for (lifecycle.ts: approveJit).
DualControl ==
  \A i \in DOMAIN jit :
    jit[i].status = "approved" =>
      /\ jit[i].approver \in Principal \ {jit[i].principal}
      /\ jit[i].approvedAt >= jit[i].createdAt
      /\ jit[i].expiresAt <= jit[i].approvedAt + jit[i].requestedTtl

\* Decisions are final: no later operation touches a denied, expired or
\* revoked grant, and a grant in force can only be cut short.
DecisionsAreFinal ==
  [][\A i \in DOMAIN jit :
       /\ i \in DOMAIN jit'
       /\ jit[i].status \notin OpenStatus => jit'[i] = jit[i]
       /\ jit[i].status = "approved" =>
            jit'[i] = jit[i] \/ jit'[i].status \in {"expired", "revoked"}]_vars

\* No principal ever holds warehouse duties the policy forbids together,
\* although the policy is evaluated only when a draft is applied
\* (governance.ts: evaluatePrincipalSod; lifecycle.ts: applyRoleDraft).
NoSodConflict == \A p \in Principal : ~ SodViolated(WarehouseSodFacts(p))

\* A principal holds at most one Role Studio role: a new one replaces the
\* old one, whatever became of either capsule in between.
OneManagedRole ==
  \A m, n \in memberships :
    m.principal = n.principal /\ m.capsule.managed /\ n.capsule.managed => m = n

\* Only an active capsule has members.  applyRoleDraft re-activates a scope
\* that was retired or offboarded, which therefore brings back nobody.
InactiveCapsulesEmpty == \A m \in memberships : Active(m.capsule)

-----------------------------------------------------------------------------
(***************************************************************************)
(* What makes Restorable and OpenGrantsFollowAssignment inductive: ids are *)
(* never reused, and no open grant rests on a role-studio capsule, whose   *)
(* members may change persona in place.                                    *)
(***************************************************************************)

AssignmentsFresh == \A m \in memberships : m.assignment < nextAssignment

RoleBindingsStanding == \A b \in bindings : b[1].managed => ~ b[2].approvalRequired

GrantsNeedApproval == \A i \in DOMAIN jit : jit[i].contract.approvalRequired

\* An open grant rests on the assignment it was requested under.
OpenGrantsHeld ==
  \A i \in DOMAIN jit :
    jit[i].status \in OpenStatus =>
      \E m \in MembershipsOf(jit[i].principal) :
        m.capsule = jit[i].capsule /\ m.assignment = jit[i].assignment

StoreInv ==
  /\ TypeOK
  /\ Restorable
  /\ OpenGrantsHeld
  /\ AssignmentsFresh /\ RoleBindingsStanding /\ GrantsNeedApproval

(***************************************************************************)
(* What makes the properties about roles inductive: a Role Studio member   *)
(* holds the persona of a draft whose contract is bound to the capsule, so *)
(* another draft of the same scope adds no duty the member did not have.   *)
(***************************************************************************)

RolesBound ==
  \A m \in memberships : m.capsule.managed =>
    \E d \in Draft : /\ m.capsule = ScopeCapsule(d) /\ m.persona = CapabilityPersona(d)
                     /\ <<m.capsule, RoleContract(d)>> \in bindings

RoleBindingsFromDrafts ==
  \A b \in bindings :
    IF b[1].managed THEN \E d \in Draft : b = <<ScopeCapsule(d), RoleContract(d)>>
    ELSE b \in SeedBinding

PolicyInv ==
  /\ AdminSurvives /\ NoSodConflict /\ OneManagedRole /\ InactiveCapsulesEmpty
  /\ RolesBound /\ RoleBindingsFromDrafts

-----------------------------------------------------------------------------
\* lifecycle.ts:640 says of administrators that their roles "cannot be
\* replaced or extended with warehouse access".
AdminsHoldNoRole ==
  \A m \in memberships : IsControlPlaneAdmin(m.principal) => ~ m.capsule.managed
===============================================================================
