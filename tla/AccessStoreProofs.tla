--------------------------- MODULE AccessStoreProofs ---------------------------
(***************************************************************************)
(* Proofs about AccessStore, for every seed, every set of drafts and every *)
(* bound that satisfies the module's assumptions: types, the inductive     *)
(* invariant that keeps the store restorable, and how grants may move.     *)
(***************************************************************************)
EXTENDS AccessStore, SequenceTheorems, FiniteSetTheorems, TLAPS

-----------------------------------------------------------------------------
(***************************************************************************)
(* The objects a draft creates belong to the catalogue.                    *)
(***************************************************************************)

\* applyRoleDraft only ever stores objects of the catalogue.
LEMMA DraftObjects ==
  ASSUME NEW d \in Draft
  PROVE  /\ ScopeCapsule(d) \in Capsule
         /\ CapabilityPersona(d) \in Persona
         /\ RoleContract(d) \in Contract
BY DEF Capsule, Persona, Contract

\* Expiring grants keeps their number and, grant by grant, either changes
\* nothing or closes an open grant at the present time.
LEMMA ExpireOpenFacts ==
  ASSUME TypeOK, NEW S
  PROVE  /\ ExpireOpen(S) \in Seq(Grant)
         /\ DOMAIN ExpireOpen(S) = DOMAIN jit
         /\ \A i \in DOMAIN jit :
              \/ ExpireOpen(S)[i] = jit[i] /\ ~(i \in S /\ jit[i].status \in OpenStatus)
              \/ /\ i \in S /\ jit[i].status \in OpenStatus
                 /\ ExpireOpen(S)[i].status = "expired"
                 /\ ExpireOpen(S)[i].expiresAt = now
                 /\ ExpireOpen(S)[i].capsule = jit[i].capsule
                 /\ ExpireOpen(S)[i].contract = jit[i].contract
<1>1. jit \in Seq(Grant) /\ now \in Nat
  BY BoundAssumption DEF TypeOK, Time
<1>2. DOMAIN jit = 1 .. Len(jit) /\ Len(jit) \in Nat /\ \A i \in DOMAIN jit : jit[i] \in Grant
  BY <1>1
<1>3. \A i \in DOMAIN jit :
        [jit[i] EXCEPT !.status = "expired", !.expiresAt = now] \in Grant
  BY <1>1, <1>2 DEF Grant, GrantStatus
<1>4. \A i \in DOMAIN jit : ExpireOpen(S)[i] \in Grant
  BY <1>2, <1>3 DEF ExpireOpen
<1>5. ExpireOpen(S) \in [1 .. Len(jit) -> Grant]
  BY <1>2, <1>4 DEF ExpireOpen
<1>6. ExpireOpen(S) \in Seq(Grant)
  BY <1>2, <1>5
<1>7. ASSUME NEW i \in DOMAIN jit, i \in S, jit[i].status \in OpenStatus
      PROVE  /\ ExpireOpen(S)[i].status = "expired"
             /\ ExpireOpen(S)[i].expiresAt = now
             /\ ExpireOpen(S)[i].capsule = jit[i].capsule
             /\ ExpireOpen(S)[i].contract = jit[i].contract
  BY <1>2, <1>7 DEF ExpireOpen, Grant
<1>8. ASSUME NEW i \in DOMAIN jit, ~(i \in S /\ jit[i].status \in OpenStatus)
      PROVE  ExpireOpen(S)[i] = jit[i]
  BY <1>8 DEF ExpireOpen
<1> QED BY <1>2, <1>5, <1>6, <1>7, <1>8 DEF ExpireOpen

\* Replacing one grant of the list.
LEMMA UpdateGrant ==
  ASSUME jit \in Seq(Grant), NEW i \in DOMAIN jit, NEW g \in Grant
  PROVE  /\ [jit EXCEPT ![i] = g] \in Seq(Grant)
         /\ DOMAIN [jit EXCEPT ![i] = g] = DOMAIN jit
         /\ [jit EXCEPT ![i] = g][i] = g
         /\ \A j \in DOMAIN jit : j # i => [jit EXCEPT ![i] = g][j] = jit[j]
OBVIOUS

\* The three records approveJit, denyJit and revokeJit write are grants.
LEMMA DecidedGrant ==
  ASSUME TypeOK, NEW i \in DOMAIN jit
  PROVE  /\ jit[i] \in Grant
         /\ \A a \in Principal, t \in Nat :
              [jit[i] EXCEPT !.status = "approved", !.approver = a,
                             !.approvedAt = now, !.expiresAt = now + t] \in Grant
         /\ [jit[i] EXCEPT !.status = "denied"] \in Grant
         /\ [jit[i] EXCEPT !.status = "revoked", !.expiresAt = EarlierOf(jit[i].expiresAt, now)] \in Grant
         /\ EarlierOf(jit[i].expiresAt, now) # NoTime
<1>1. jit[i] \in Grant /\ now \in Nat
  BY BoundAssumption DEF TypeOK, Time
<1>2. EarlierOf(jit[i].expiresAt, now) \in Nat
  BY <1>1 DEF EarlierOf, Grant, NoTime
<1>3. ASSUME NEW a \in Principal, NEW t \in Nat
      PROVE  [jit[i] EXCEPT !.status = "approved", !.approver = a,
                            !.approvedAt = now, !.expiresAt = now + t] \in Grant
  <2>1. \A g \in Grant : [g EXCEPT !.status = "approved"] \in Grant
    BY DEF Grant, GrantStatus
  <2>2. \A g \in Grant : [g EXCEPT !.approver = a] \in Grant
    BY DEF Grant
  <2>3. \A g \in Grant : [g EXCEPT !.approvedAt = now] \in Grant
    BY <1>1 DEF Grant
  <2>4. \A g \in Grant : [g EXCEPT !.expiresAt = now + t] \in Grant
    BY <1>1 DEF Grant
  <2> DEFINE g1 == [jit[i] EXCEPT !.status = "approved"]
             g2 == [g1 EXCEPT !.approver = a]
             g3 == [g2 EXCEPT !.approvedAt = now]
             g4 == [g3 EXCEPT !.expiresAt = now + t]
  <2>5. g1 \in Grant
    BY <1>1, <2>1
  <2>6. g2 \in Grant
    BY <2>5, <2>2
  <2>7. g3 \in Grant
    BY <2>6, <2>3
  <2>8. g4 \in Grant
    BY <2>7, <2>4
  <2>9. g4 = [jit[i] EXCEPT !.status = "approved", !.approver = a,
                            !.approvedAt = now, !.expiresAt = now + t]
    OBVIOUS
  <2> QED BY <2>8, <2>9
<1>4. [jit[i] EXCEPT !.status = "denied"] \in Grant
  BY <1>1 DEF Grant, GrantStatus
<1>5. [jit[i] EXCEPT !.status = "revoked", !.expiresAt = EarlierOf(jit[i].expiresAt, now)] \in Grant
  BY <1>1, <1>2 DEF Grant, GrantStatus
<1>6. EarlierOf(jit[i].expiresAt, now) # NoTime
  BY <1>2 DEF NoTime
<1> QED BY <1>1, <1>3, <1>4, <1>5, <1>6

-----------------------------------------------------------------------------
(***************************************************************************)
(* Type correctness.                                                       *)
(***************************************************************************)

LEMMA InitTypeOK == Init => TypeOK
<1> SUFFICES ASSUME Init PROVE TypeOK
  OBVIOUS
<1>1. now \in Time
  BY BoundAssumption DEF Init, Time
<1>2. capsuleState \in [Capsule -> {"absent", "active", "inactive"}]
  BY DEF Init
<1>3. memberships \subseteq Membership
  BY SeedMembershipAssumption DEF Init, Membership, Capsule, Persona
<1>4. bindings \subseteq Capsule \X Contract
  BY SeedBindingAssumption DEF Init, Capsule, Contract
<1>5. jit \in Seq(Grant) /\ DOMAIN jit = {}
  BY DEF Init
<1>6. nextAssignment \in Nat
  BY SeedMembershipAssumption, FS_CardinalityType DEF Init
<1> QED BY <1>1, <1>2, <1>3, <1>4, <1>5, <1>6 DEF TypeOK

\* The part of TypeOK a step can only disturb by writing to the grants.
LEMMA ExpireKeepsDates ==
  ASSUME TypeOK, NEW S, jit' = ExpireOpen(S)
  PROVE  /\ jit' \in Seq(Grant)
         /\ \A i \in DOMAIN jit' :
              jit'[i].status \in {"approved", "expired", "revoked"} => jit'[i].expiresAt # NoTime
BY ExpireOpenFacts, BoundAssumption DEF TypeOK, Time, NoTime, OpenStatus

LEMMA NextTypeOK == TypeOK /\ [Next]_vars => TypeOK'
<1> SUFFICES ASSUME TypeOK, [Next]_vars PROVE TypeOK'
  OBVIOUS
<1>1. ASSUME NEW actor \in Principal, NEW p \in Principal, AddMembership(actor, p)
      PROVE  TypeOK'
  <2>1. [principal |-> p, capsule |-> ControlPlane, persona |-> HomePersona[p],
         assignment |-> nextAssignment] \in Membership
    BY ObjectAssumption, PrincipalAssumption DEF TypeOK, Membership, Capsule, Persona
  <2> QED BY <1>1, <2>1 DEF AddMembership, TypeOK
<1>2. ASSUME NEW m \in memberships, RemoveMembershipUnchecked(m)
      PROVE  TypeOK'
  BY <1>2, ExpireKeepsDates DEF RemoveMembershipUnchecked, TypeOK
<1>3. ASSUME NEW actor \in Principal, NEW c \in Capsule, NEW cascade \in BOOLEAN,
             OffboardCapsule(actor, c, cascade)
      PROVE  TypeOK'
  BY <1>3, ExpireKeepsDates DEF OffboardCapsule, TypeOK
<1>4. ASSUME NEW m \in memberships, NEW k \in Contract, NEW actions \in SUBSET WarehouseAction,
             NEW ttl \in MinTtl .. MaxTtl, RequestJit(m, k, actions, ttl)
      PROVE  TypeOK'
  <2> DEFINE g == [status |-> "pending", principal |-> m.principal, capsule |-> m.capsule,
        persona |-> m.persona, contract |-> k, actions |-> actions,
        requestedTtl |-> ttl, createdAt |-> now, expiresAt |-> NoTime,
        approver |-> NoOne, approvedAt |-> NoTime, assignment |-> m.assignment]
  <2>1. g \in Grant
    BY BoundAssumption
    DEF TypeOK, Grant, GrantStatus, Membership, Action, WarehouseAction, Time
  <2>2. g.status = "pending" /\ jit' = Append(jit, g)
    BY <1>4 DEF RequestJit
  <2> HIDE DEF g
  <2>3. /\ jit' \in Seq(Grant)
        /\ \A i \in DOMAIN jit' : (i \in DOMAIN jit /\ jit'[i] = jit[i]) \/ jit'[i] = g
    BY <2>1, <2>2 DEF TypeOK
  <2> QED BY <1>4, <2>2, <2>3 DEF RequestJit, TypeOK
<1>5. ASSUME NEW approver \in Principal, NEW i \in DOMAIN jit, NEW ttl \in MinTtl .. MaxTtl,
             ApproveJit(approver, i, ttl)
      PROVE  TypeOK'
  <2> DEFINE g == [jit[i] EXCEPT !.status = "approved", !.approver = approver,
                                 !.approvedAt = now, !.expiresAt = now + ttl]
  <2>1. ttl \in Nat /\ now \in Nat
    BY BoundAssumption DEF TypeOK, Time
  <2>2. g \in Grant
    BY <2>1, DecidedGrant
  <2>3. jit' = [jit EXCEPT ![i] = g]
    BY <1>5 DEF ApproveJit
  <2>4. g.expiresAt = now + ttl
    BY DecidedGrant DEF Grant
  <2> HIDE DEF g
  <2>5. /\ jit' \in Seq(Grant) /\ DOMAIN jit' = DOMAIN jit /\ jit'[i] = g
        /\ \A j \in DOMAIN jit : j # i => jit'[j] = jit[j]
    BY <2>2, <2>3, UpdateGrant DEF TypeOK
  <2> QED BY <1>5, <2>1, <2>4, <2>5 DEF ApproveJit, TypeOK, NoTime
<1>6. ASSUME NEW denier \in Principal, NEW i \in DOMAIN jit, DenyJit(denier, i)
      PROVE  TypeOK'
  <2> DEFINE g == [jit[i] EXCEPT !.status = "denied"]
  <2>1. g \in Grant /\ g.status = "denied"
    BY DecidedGrant DEF Grant
  <2>2. jit' = [jit EXCEPT ![i] = g]
    BY <1>6 DEF DenyJit
  <2> HIDE DEF g
  <2>3. /\ jit' \in Seq(Grant) /\ DOMAIN jit' = DOMAIN jit /\ jit'[i] = g
        /\ \A j \in DOMAIN jit : j # i => jit'[j] = jit[j]
    BY <2>1, <2>2, UpdateGrant DEF TypeOK
  <2> QED BY <1>6, <2>1, <2>3 DEF DenyJit, TypeOK
<1>7. ASSUME NEW actor \in Principal, NEW i \in DOMAIN jit, RevokeJit(actor, i)
      PROVE  TypeOK'
  <2> DEFINE g == [jit[i] EXCEPT !.status = "revoked", !.expiresAt = EarlierOf(jit[i].expiresAt, now)]
  <2>1. g \in Grant /\ g.expiresAt = EarlierOf(jit[i].expiresAt, now)
    BY DecidedGrant DEF Grant
  <2>2. jit' = [jit EXCEPT ![i] = g]
    BY <1>7 DEF RevokeJit
  <2> HIDE DEF g
  <2>3. /\ jit' \in Seq(Grant) /\ DOMAIN jit' = DOMAIN jit /\ jit'[i] = g
        /\ \A j \in DOMAIN jit : j # i => jit'[j] = jit[j]
    BY <2>1, <2>2, UpdateGrant DEF TypeOK
  <2> QED BY <1>7, <2>1, <2>3, DecidedGrant DEF RevokeJit, TypeOK
<1>8. ASSUME NEW actor \in Principal, NEW p \in Principal, NEW d \in Draft,
             ApplyRoleDraft(actor, p, d)
      PROVE  TypeOK'
  <2>1. capsuleState' \in [Capsule -> {"absent", "active", "inactive"}]
    BY <1>8 DEF ApplyRoleDraft, TypeOK
  <2>2. bindings' \subseteq Capsule \X Contract
    BY <1>8, DraftObjects DEF ApplyRoleDraft, TypeOK
  <2>3. Retained(p, d) \subseteq Membership
    BY DEF Retained, TypeOK
  <2>4. memberships' \subseteq Membership /\ nextAssignment' \in Nat
    <3>1. \A m \in Membership : [m EXCEPT !.persona = CapabilityPersona(d)] \in Membership
      BY DraftObjects DEF Membership
    <3>2. [principal |-> p, capsule |-> ScopeCapsule(d), persona |-> CapabilityPersona(d),
           assignment |-> nextAssignment] \in Membership
      BY DraftObjects DEF Membership, TypeOK
    <3> QED BY <1>8, <2>3, <3>1, <3>2 DEF ApplyRoleDraft, JoinScope, TypeOK
  <2> QED BY <1>8, <2>1, <2>2, <2>4, ExpireKeepsDates DEF ApplyRoleDraft, TypeOK
<1>9. ASSUME NEW t \in Time, AdjustClock(t)
      PROVE  TypeOK'
  BY <1>9 DEF AdjustClock, TypeOK
<1>10. CASE UNCHANGED vars
  BY <1>10 DEF vars, TypeOK
<1> QED
  BY <1>1, <1>2, <1>3, <1>4, <1>5, <1>6, <1>7, <1>8, <1>9, <1>10
  DEF Next, MembershipStep, JitStep, RoleStep, ClockStep, RemoveMembership,
      RevokeMembershipForRecertification

\* In every reachable state the variables have their types and every grant
\* that was in force or was cut short carries an expiry.
THEOREM TypeCorrect == Spec => []TypeOK
BY InitTypeOK, NextTypeOK, PTL DEF Spec

-----------------------------------------------------------------------------
(***************************************************************************)
(* The store stays restorable: StoreInv is inductive.  The memberships and *)
(* the grants are treated apart, because most operations change only one   *)
(* of the two or close every grant they take the ground from.              *)
(***************************************************************************)

MembershipPart ==
  UniqueMembership /\ UniqueAssignment /\ AdminSeats /\ AssignmentsFresh /\ RoleBindingsStanding

GrantPart ==
  OpenGrantsAnchored /\ OpenGrantsHeld /\ ApprovedGrantsExpire /\ GrantsNeedApproval

LEMMA StoreInvParts == StoreInv <=> TypeOK /\ MembershipPart /\ GrantPart
BY DEF StoreInv, Restorable, MembershipPart, GrantPart

LEMMA InitStoreInv == Init => StoreInv
<1> SUFFICES ASSUME Init PROVE StoreInv
  OBVIOUS
<1>1. TypeOK
  BY InitTypeOK
<1>2. /\ memberships = SeedMembership /\ bindings = SeedBinding /\ jit = <<>>
      /\ nextAssignment = Cardinality(SeedMembership) + 1
  BY DEF Init
<1>3. Cardinality(SeedMembership) \in Nat
  BY SeedMembershipAssumption, FS_CardinalityType
<1>4. UniqueMembership /\ UniqueAssignment /\ AdminSeats
  BY <1>2, SeedMembershipAssumption DEF UniqueMembership, UniqueAssignment, AdminSeats
<1>5. AssignmentsFresh
  BY <1>2, <1>3, SeedMembershipAssumption DEF AssignmentsFresh
<1>6. RoleBindingsStanding
  BY <1>2, SeedBindingAssumption, ObjectAssumption DEF RoleBindingsStanding
<1>7. GrantPart
  BY <1>2 DEF GrantPart, OpenGrantsAnchored, OpenGrantsHeld, ApprovedGrantsExpire,
              GrantsNeedApproval
<1> QED BY <1>1, <1>4, <1>5, <1>6, <1>7, StoreInvParts DEF MembershipPart

-----------------------------------------------------------------------------
(***************************************************************************)
(* Memberships and bindings.                                               *)
(***************************************************************************)

\* A step that only drops memberships and bindings keeps their part.
LEMMA FewerMembers ==
  ASSUME MembershipPart, memberships' \subseteq memberships, bindings' \subseteq bindings,
         UNCHANGED nextAssignment
  PROVE  MembershipPart'
BY DEF MembershipPart, UniqueMembership, UniqueAssignment, AdminSeats, AssignmentsFresh,
       RoleBindingsStanding

\* So does a step that adds one member with a fresh assignment.
LEMMA OneMoreMember ==
  ASSUME TypeOK, MembershipPart, NEW ms, ms \subseteq memberships, NEW new \in Membership,
         memberships' = ms \cup {new},
         new.assignment = nextAssignment, nextAssignment' = nextAssignment + 1,
         \A m \in ms : ~(m.principal = new.principal /\ m.capsule = new.capsule),
         new.capsule = ControlPlane => new.persona.id = "admin"
  PROVE  UniqueMembership' /\ UniqueAssignment' /\ AdminSeats' /\ AssignmentsFresh'
<1>1. \A m \in ms : m.assignment \in Nat /\ m.assignment < nextAssignment
  BY DEF TypeOK, MembershipPart, AssignmentsFresh, Membership
<1>2. nextAssignment \in Nat
  BY DEF TypeOK
<1>3. UniqueMembership'
  BY DEF MembershipPart, UniqueMembership
<1>4. UniqueAssignment'
  BY <1>1, <1>2 DEF MembershipPart, UniqueAssignment
<1>5. AdminSeats'
  BY DEF MembershipPart, AdminSeats
<1>6. AssignmentsFresh'
  BY <1>1, <1>2 DEF AssignmentsFresh
<1> QED BY <1>3, <1>4, <1>5, <1>6

LEMMA AddMembershipPart ==
  ASSUME StoreInv, NEW actor \in Principal, NEW p \in Principal, AddMembership(actor, p)
  PROVE  MembershipPart'
<1> DEFINE new == [principal |-> p, capsule |-> ControlPlane, persona |-> HomePersona[p],
                   assignment |-> nextAssignment]
<1>1. new \in Membership /\ HomePersona[p].id = "admin"
  BY ObjectAssumption, PrincipalAssumption
  DEF AddMembership, StoreInv, TypeOK, Membership, Capsule, Persona
<1>2. \A m \in memberships : ~(m.principal = p /\ m.capsule = ControlPlane)
  BY DEF AddMembership, MembershipsOf
<1>3. TypeOK /\ MembershipPart
  BY StoreInvParts
<1>4. UniqueMembership' /\ UniqueAssignment' /\ AdminSeats' /\ AssignmentsFresh'
  <2>1. memberships' = memberships \cup {new} /\ nextAssignment' = nextAssignment + 1
    BY DEF AddMembership
  <2>2. /\ new.assignment = nextAssignment /\ new.principal = p
        /\ new.capsule = ControlPlane /\ new.persona.id = "admin"
    BY <1>1
  <2> HIDE DEF new
  <2> QED BY <1>1, <1>2, <1>3, <2>1, <2>2, OneMoreMember
<1>5. RoleBindingsStanding'
  BY <1>3 DEF AddMembership, MembershipPart, RoleBindingsStanding
<1> QED BY <1>4, <1>5 DEF MembershipPart

LEMMA ApplyRoleDraftMembers ==
  ASSUME StoreInv, NEW actor \in Principal, NEW p \in Principal, NEW d \in Draft,
         ApplyRoleDraft(actor, p, d)
  PROVE  MembershipPart'
<1> DEFINE current == {m \in Retained(p, d) : m.principal = p /\ m.capsule = ScopeCapsule(d)}
<1>1. TypeOK /\ MembershipPart
  BY StoreInvParts
<1>2. Retained(p, d) \subseteq memberships
  BY DEF Retained
<1>3. ScopeCapsule(d).managed = TRUE /\ ScopeCapsule(d) # ControlPlane
  BY ObjectAssumption DEF ScopeCapsule
<1>4. RoleBindingsStanding'
  <2>1. RoleContract(d).approvalRequired = FALSE
    BY DEF RoleContract
  <2> QED BY <1>1, <2>1 DEF ApplyRoleDraft, MembershipPart, RoleBindingsStanding
<1>5. CASE current # {}
  <2>1. PICK m \in Retained(p, d) : m.principal = p /\ m.capsule = ScopeCapsule(d)
    BY <1>5
  <2>2. m \in memberships /\ m \in Membership
    BY <1>1, <1>2, <2>1 DEF TypeOK
  <2>3. current = {m}
    BY <1>1, <1>2, <2>1 DEF MembershipPart, UniqueMembership
  <2> DEFINE new == [m EXCEPT !.persona = CapabilityPersona(d)]
  <2>4. /\ new.principal = m.principal /\ new.capsule = m.capsule
        /\ new.assignment = m.assignment
    BY <2>2 DEF Membership
  <2>5. memberships' = (Retained(p, d) \ {m}) \cup {new} /\ nextAssignment' = nextAssignment
    BY <1>5, <2>3 DEF ApplyRoleDraft, JoinScope
  <2> HIDE DEF new, current
  <2>6. \A x \in memberships' :
          \E y \in memberships :
            /\ x.principal = y.principal /\ x.capsule = y.capsule /\ x.assignment = y.assignment
            /\ (x = y /\ y # m) \/ (x = new /\ y = m)
    BY <1>2, <2>2, <2>4, <2>5
  <2>7. UniqueMembership'
    BY <1>1, <2>6 DEF MembershipPart, UniqueMembership
  <2>8. UniqueAssignment'
    BY <1>1, <2>6 DEF MembershipPart, UniqueAssignment
  <2>9. AdminSeats'
    BY <1>1, <1>3, <2>1, <2>4, <2>6 DEF MembershipPart, AdminSeats
  <2>10. AssignmentsFresh'
    BY <1>1, <2>5, <2>6 DEF MembershipPart, AssignmentsFresh
  <2> QED BY <1>4, <2>7, <2>8, <2>9, <2>10 DEF MembershipPart
<1>6. CASE current = {}
  <2> DEFINE new == [principal |-> p, capsule |-> ScopeCapsule(d),
                     persona |-> CapabilityPersona(d), assignment |-> nextAssignment]
  <2>1. new \in Membership
    BY <1>1, DraftObjects DEF TypeOK, Membership
  <2>2. memberships' = Retained(p, d) \cup {new} /\ nextAssignment' = nextAssignment + 1
    BY <1>6 DEF ApplyRoleDraft, JoinScope
  <2>3. \A m \in Retained(p, d) : ~(m.principal = p /\ m.capsule = ScopeCapsule(d))
    BY <1>6
  <2>4. /\ new.assignment = nextAssignment /\ new.principal = p
        /\ new.capsule = ScopeCapsule(d)
    OBVIOUS
  <2> HIDE DEF new, current
  <2>5. UniqueMembership' /\ UniqueAssignment' /\ AdminSeats' /\ AssignmentsFresh'
    BY <1>1, <1>2, <1>3, <2>1, <2>2, <2>3, <2>4, OneMoreMember
  <2> QED BY <1>4, <2>5 DEF MembershipPart
<1> QED BY <1>5, <1>6

-----------------------------------------------------------------------------
(***************************************************************************)
(* Grants.                                                                 *)
(***************************************************************************)

\* What an open grant rests on, with the assignment it was requested under.
LEMMA Ground ==
  ASSUME StoreInv, NEW i \in DOMAIN jit, jit[i].status \in OpenStatus
  PROVE  /\ Enabled(jit[i].principal)
         /\ capsuleState[jit[i].capsule] = "active"
         /\ <<jit[i].capsule, jit[i].contract>> \in bindings
         /\ jit[i].contract.approvalRequired
         /\ ~ jit[i].capsule.managed
         /\ \E m \in memberships :
              /\ m.principal = jit[i].principal /\ m.capsule = jit[i].capsule
              /\ m.persona = jit[i].persona /\ m.assignment = jit[i].assignment
<1>1. Anchored(jit[i])
  BY DEF StoreInv, Restorable, OpenGrantsAnchored
<1>2. jit[i].contract.approvalRequired
  BY DEF StoreInv, GrantsNeedApproval
<1>3. <<jit[i].capsule, jit[i].contract>> \in bindings
  BY <1>1 DEF Anchored
<1>4. ~ jit[i].capsule.managed
  BY <1>2, <1>3 DEF StoreInv, RoleBindingsStanding
<1>5. PICK m \in memberships :
        m.principal = jit[i].principal /\ m.capsule = jit[i].capsule /\ m.persona = jit[i].persona
  BY <1>1 DEF Anchored, MembershipsOf
<1>6. PICK n \in memberships :
        /\ n.principal = jit[i].principal /\ n.capsule = jit[i].capsule
        /\ n.assignment = jit[i].assignment
  BY DEF StoreInv, OpenGrantsHeld, MembershipsOf
<1>7. m = n
  BY <1>5, <1>6 DEF StoreInv, Restorable, UniqueMembership
<1> QED BY <1>1, <1>2, <1>3, <1>4, <1>5, <1>6, <1>7 DEF Anchored, Active

\* A step that expires every open grant whose ground it takes away.
LEMMA ExpiryIsEnough ==
  ASSUME StoreInv, NEW S, jit' = ExpireOpen(S),
         \A i \in DOMAIN jit : jit[i].status \in OpenStatus /\ i \notin S =>
           /\ \A m \in memberships :
                m.principal = jit[i].principal /\ m.capsule = jit[i].capsule => m \in memberships'
           /\ capsuleState'[jit[i].capsule] = capsuleState[jit[i].capsule]
           /\ <<jit[i].capsule, jit[i].contract>> \in bindings'
  PROVE  GrantPart'
<1>1. TypeOK
  BY StoreInvParts
<1>2. DOMAIN jit' = DOMAIN jit
  BY <1>1, ExpireOpenFacts
<1>3. ASSUME NEW i \in DOMAIN jit', jit'[i].status \in OpenStatus
      PROVE  jit'[i] = jit[i] /\ i \notin S
  BY <1>1, <1>2, <1>3, ExpireOpenFacts DEF OpenStatus
<1>4. OpenGrantsAnchored'
  BY <1>2, <1>3, Ground DEF OpenGrantsAnchored, Anchored, MembershipsOf, Active
<1>5. OpenGrantsHeld'
  <2> SUFFICES ASSUME NEW i \in DOMAIN jit', jit'[i].status \in OpenStatus
               PROVE  \E m \in memberships' :
                        /\ m.principal = jit'[i].principal
                        /\ m.capsule = jit'[i].capsule /\ m.assignment = jit'[i].assignment
    BY DEF OpenGrantsHeld, MembershipsOf
  <2>1. jit'[i] = jit[i] /\ i \in DOMAIN jit /\ i \notin S
    BY <1>2, <1>3
  <2>2. PICK m \in memberships :
          /\ m.principal = jit[i].principal /\ m.capsule = jit[i].capsule
          /\ m.assignment = jit[i].assignment
    BY <2>1, Ground
  <2> QED BY <2>1, <2>2
<1>6. ApprovedGrantsExpire'
  BY <1>2, <1>3 DEF OpenStatus, StoreInv, Restorable, ApprovedGrantsExpire
<1>7. GrantsNeedApproval'
  BY <1>1, <1>2, ExpireOpenFacts DEF StoreInv, GrantsNeedApproval
<1> QED BY <1>4, <1>5, <1>6, <1>7 DEF GrantPart

\* A decision that replaces one open grant by g, which keeps its scope.
LEMMA DecisionIsEnough ==
  ASSUME StoreInv, NEW i \in DOMAIN jit, NEW g \in Grant, jit' = [jit EXCEPT ![i] = g],
         UNCHANGED <<memberships, capsuleState, bindings>>,
         jit[i].status \in OpenStatus,
         g.principal = jit[i].principal, g.capsule = jit[i].capsule,
         g.persona = jit[i].persona, g.contract = jit[i].contract,
         g.assignment = jit[i].assignment,
         g.status = "approved" => g.expiresAt > g.createdAt
  PROVE  GrantPart'
<1>1. /\ DOMAIN jit' = DOMAIN jit /\ jit'[i] = g
      /\ \A j \in DOMAIN jit : j # i => jit'[j] = jit[j]
  BY UpdateGrant DEF StoreInv, TypeOK
<1>2. ASSUME NEW j \in DOMAIN jit, jit'[j].status \in OpenStatus
      PROVE  /\ jit[j].status \in OpenStatus
             /\ jit'[j].principal = jit[j].principal /\ jit'[j].capsule = jit[j].capsule
             /\ jit'[j].persona = jit[j].persona /\ jit'[j].contract = jit[j].contract
             /\ jit'[j].assignment = jit[j].assignment
  BY <1>1, <1>2
<1>3. OpenGrantsAnchored'
  BY <1>1, <1>2, Ground DEF OpenGrantsAnchored, Anchored, MembershipsOf, Active
<1>4. OpenGrantsHeld'
  <2> SUFFICES ASSUME NEW j \in DOMAIN jit', jit'[j].status \in OpenStatus
               PROVE  \E m \in memberships' :
                        /\ m.principal = jit'[j].principal
                        /\ m.capsule = jit'[j].capsule /\ m.assignment = jit'[j].assignment
    BY DEF OpenGrantsHeld, MembershipsOf
  <2>1. j \in DOMAIN jit
    BY <1>1
  <2>2. PICK m \in memberships :
          /\ m.principal = jit[j].principal /\ m.capsule = jit[j].capsule
          /\ m.assignment = jit[j].assignment
    BY <1>2, <2>1, Ground
  <2> QED BY <1>2, <2>1, <2>2
<1>5. ApprovedGrantsExpire'
  BY <1>1 DEF StoreInv, Restorable, ApprovedGrantsExpire
<1>6. GrantsNeedApproval'
  <2>1. ASSUME NEW j \in DOMAIN jit PROVE jit'[j].contract = jit[j].contract
    BY <1>1
  <2> QED BY <1>1, <2>1 DEF StoreInv, GrantsNeedApproval
<1> QED BY <1>3, <1>4, <1>5, <1>6 DEF GrantPart

\* Nothing the grants rest on changes and no grant does.
LEMMA SameGrants ==
  ASSUME StoreInv, UNCHANGED <<jit, capsuleState, bindings>>, memberships \subseteq memberships'
  PROVE  GrantPart'
<1>1. OpenGrantsAnchored'
  BY DEF StoreInv, Restorable, OpenGrantsAnchored, Anchored, MembershipsOf, Active
<1>2. OpenGrantsHeld'
  BY DEF StoreInv, OpenGrantsHeld, MembershipsOf
<1> QED
  BY <1>1, <1>2 DEF GrantPart, StoreInv, Restorable, ApprovedGrantsExpire, GrantsNeedApproval

LEMMA RequestJitGrants ==
  ASSUME StoreInv, NEW m \in memberships, NEW k \in Contract,
         NEW actions \in SUBSET WarehouseAction, NEW ttl \in MinTtl .. MaxTtl,
         RequestJit(m, k, actions, ttl)
  PROVE  GrantPart'
<1> DEFINE g == [status |-> "pending", principal |-> m.principal, capsule |-> m.capsule,
        persona |-> m.persona, contract |-> k, actions |-> actions,
        requestedTtl |-> ttl, createdAt |-> now, expiresAt |-> NoTime,
        approver |-> NoOne, approvedAt |-> NoTime, assignment |-> m.assignment]
<1>1. /\ g.status = "pending" /\ g.principal = m.principal /\ g.capsule = m.capsule
      /\ g.persona = m.persona /\ g.contract = k /\ g.assignment = m.assignment
  OBVIOUS
<1>2. jit' = Append(jit, g) /\ UNCHANGED <<memberships, capsuleState, bindings>>
  BY DEF RequestJit
<1>3. /\ Enabled(m.principal) /\ Active(m.capsule)
      /\ <<m.capsule, k>> \in bindings /\ k.approvalRequired
  BY DEF RequestJit, JitContractOk
<1> HIDE DEF g
<1>4. jit \in Seq(Grant)
  BY DEF StoreInv, TypeOK
<1>5. \A i \in DOMAIN jit' : (i \in DOMAIN jit /\ jit'[i] = jit[i]) \/ jit'[i] = g
  BY <1>2, <1>4
<1>6. OpenGrantsAnchored'
  BY <1>1, <1>2, <1>3, <1>5
  DEF StoreInv, Restorable, OpenGrantsAnchored, Anchored, MembershipsOf, Active
<1>7. OpenGrantsHeld'
  BY <1>1, <1>2, <1>5 DEF StoreInv, OpenGrantsHeld, MembershipsOf
<1>8. ApprovedGrantsExpire'
  BY <1>1, <1>5 DEF StoreInv, Restorable, ApprovedGrantsExpire
<1>9. GrantsNeedApproval'
  BY <1>1, <1>3, <1>5 DEF StoreInv, GrantsNeedApproval
<1> QED BY <1>6, <1>7, <1>8, <1>9 DEF GrantPart

LEMMA ApproveJitGrants ==
  ASSUME StoreInv, NEW approver \in Principal, NEW i \in DOMAIN jit,
         NEW ttl \in MinTtl .. MaxTtl, ApproveJit(approver, i, ttl)
  PROVE  GrantPart'
<1> DEFINE g == [jit[i] EXCEPT !.status = "approved", !.approver = approver,
                               !.approvedAt = now, !.expiresAt = now + ttl]
<1>1. TypeOK
  BY StoreInvParts
<1>2. ttl \in Nat /\ ttl > 0 /\ now \in Nat
  BY <1>1, BoundAssumption DEF TypeOK, Time
<1>3. jit[i] \in Grant /\ g \in Grant
  BY <1>1, <1>2, DecidedGrant
<1>4. /\ g.principal = jit[i].principal /\ g.capsule = jit[i].capsule
      /\ g.persona = jit[i].persona /\ g.contract = jit[i].contract
      /\ g.assignment = jit[i].assignment
      /\ g.expiresAt = now + ttl /\ g.createdAt = jit[i].createdAt
  BY <1>3 DEF Grant
<1>5. /\ jit[i].status = "pending" /\ now >= jit[i].createdAt
      /\ jit' = [jit EXCEPT ![i] = g] /\ UNCHANGED <<memberships, capsuleState, bindings>>
  BY DEF ApproveJit
<1>6. g.expiresAt > g.createdAt
  BY <1>2, <1>3, <1>4, <1>5 DEF Grant
<1> HIDE DEF g
<1> QED BY <1>3, <1>4, <1>5, <1>6, DecisionIsEnough DEF OpenStatus

LEMMA DenyJitGrants ==
  ASSUME StoreInv, NEW denier \in Principal, NEW i \in DOMAIN jit, DenyJit(denier, i)
  PROVE  GrantPart'
<1> DEFINE g == [jit[i] EXCEPT !.status = "denied"]
<1>1. jit[i] \in Grant /\ g \in Grant
  BY StoreInvParts, DecidedGrant
<1>2. /\ g.principal = jit[i].principal /\ g.capsule = jit[i].capsule
      /\ g.persona = jit[i].persona /\ g.contract = jit[i].contract
      /\ g.assignment = jit[i].assignment /\ g.status = "denied"
  BY <1>1 DEF Grant
<1>3. /\ jit[i].status = "pending"
      /\ jit' = [jit EXCEPT ![i] = g] /\ UNCHANGED <<memberships, capsuleState, bindings>>
  BY DEF DenyJit
<1> HIDE DEF g
<1> QED BY <1>1, <1>2, <1>3, DecisionIsEnough DEF OpenStatus

LEMMA RevokeJitGrants ==
  ASSUME StoreInv, NEW actor \in Principal, NEW i \in DOMAIN jit, RevokeJit(actor, i)
  PROVE  GrantPart'
<1> DEFINE g == [jit[i] EXCEPT !.status = "revoked", !.expiresAt = EarlierOf(jit[i].expiresAt, now)]
<1>1. jit[i] \in Grant /\ g \in Grant
  BY StoreInvParts, DecidedGrant
<1>2. /\ g.principal = jit[i].principal /\ g.capsule = jit[i].capsule
      /\ g.persona = jit[i].persona /\ g.contract = jit[i].contract
      /\ g.assignment = jit[i].assignment /\ g.status = "revoked"
  BY <1>1 DEF Grant
<1>3. /\ jit[i].status \in OpenStatus
      /\ jit' = [jit EXCEPT ![i] = g] /\ UNCHANGED <<memberships, capsuleState, bindings>>
  BY DEF RevokeJit, Revocable
<1> HIDE DEF g
<1> QED BY <1>1, <1>2, <1>3, DecisionIsEnough

-----------------------------------------------------------------------------
(***************************************************************************)
(* The steps that close grants.                                            *)
(***************************************************************************)

LEMMA RemoveMembershipInv ==
  ASSUME StoreInv, NEW m \in memberships, RemoveMembershipUnchecked(m)
  PROVE  MembershipPart' /\ GrantPart'
<1>1. MembershipPart'
  <2>1. memberships' \subseteq memberships /\ UNCHANGED <<bindings, nextAssignment>>
    BY DEF RemoveMembershipUnchecked
  <2> QED BY <2>1, FewerMembers, StoreInvParts
<1>2. GrantPart'
  <2> DEFINE S == GrantsOf(m.principal) \cap GrantsOn({m.capsule})
  <2>1. jit' = ExpireOpen(S) /\ UNCHANGED <<capsuleState, bindings>>
    BY DEF RemoveMembershipUnchecked
  <2>2. ASSUME NEW i \in DOMAIN jit, jit[i].status \in OpenStatus, i \notin S
        PROVE  /\ \A x \in memberships :
                    x.principal = jit[i].principal /\ x.capsule = jit[i].capsule
                      => x \in memberships'
               /\ <<jit[i].capsule, jit[i].contract>> \in bindings
    <3>1. ~(m.principal = jit[i].principal /\ m.capsule = jit[i].capsule)
      BY <2>2 DEF GrantsOf, GrantsOn
    <3> QED BY <2>2, <3>1, Ground DEF RemoveMembershipUnchecked
  <2> HIDE DEF S
  <2> QED BY <2>1, <2>2, ExpiryIsEnough
<1> QED BY <1>1, <1>2

LEMMA OffboardInv ==
  ASSUME StoreInv, NEW actor \in Principal, NEW c \in Capsule, NEW cascade \in BOOLEAN,
         OffboardCapsule(actor, c, cascade)
  PROVE  MembershipPart' /\ GrantPart'
<1> DEFINE targets == IF cascade THEN Descendants(c) ELSE {c}
<1>1. /\ capsuleState' = [k \in Capsule |-> IF k \in targets THEN "inactive" ELSE capsuleState[k]]
      /\ memberships' = {m \in memberships : m.capsule \notin targets}
      /\ bindings' = {b \in bindings : b[1] \notin targets}
      /\ jit' = ExpireOpen(GrantsOn(targets))
      /\ UNCHANGED nextAssignment
  BY DEF OffboardCapsule
<1>2. MembershipPart'
  BY <1>1, FewerMembers, StoreInvParts
<1> HIDE DEF targets
<1>3. ASSUME NEW i \in DOMAIN jit, jit[i].status \in OpenStatus, i \notin GrantsOn(targets)
      PROVE  /\ \A x \in memberships :
                  x.principal = jit[i].principal /\ x.capsule = jit[i].capsule
                    => x \in memberships'
             /\ capsuleState'[jit[i].capsule] = capsuleState[jit[i].capsule]
             /\ <<jit[i].capsule, jit[i].contract>> \in bindings'
  <2>1. jit[i].capsule \notin targets
    BY <1>3 DEF GrantsOn
  <2>2. jit[i].capsule \in Capsule
    BY DecidedGrant, StoreInvParts DEF Grant
  <2>3. <<jit[i].capsule, jit[i].contract>> \in bindings
    BY <1>3, Ground
  <2> QED BY <1>1, <2>1, <2>2, <2>3
<1>4. GrantPart'
  BY <1>1, <1>3, ExpiryIsEnough
<1> QED BY <1>2, <1>4

LEMMA ApplyRoleDraftGrants ==
  ASSUME StoreInv, NEW actor \in Principal, NEW p \in Principal, NEW d \in Draft,
         ApplyRoleDraft(actor, p, d)
  PROVE  GrantPart'
<1> DEFINE S == GrantsOf(p) \cap GrantsOn(RetiredCapsules(p, d))
<1>1. /\ jit' = ExpireOpen(S) /\ bindings \subseteq bindings'
      /\ capsuleState' = [c \in Capsule |->
           IF c = ScopeCapsule(d) THEN "active"
           ELSE IF c \in Emptied(p, d) THEN "inactive" ELSE capsuleState[c]]
  BY DEF ApplyRoleDraft
<1>2. ScopeCapsule(d).managed
  BY DEF ScopeCapsule
<1>3. \A c \in RetiredCapsules(p, d) : c.managed
  BY DEF RetiredCapsules
<1>4. \A m \in memberships : ~ m.capsule.managed => m \in memberships'
  <2>1. \A m \in memberships : ~ m.capsule.managed => m \in Retained(p, d)
    BY <1>3 DEF Retained
  <2> QED BY <1>2, <2>1 DEF ApplyRoleDraft, JoinScope
<1>5. ASSUME NEW i \in DOMAIN jit, jit[i].status \in OpenStatus
      PROVE  /\ \A x \in memberships :
                  x.principal = jit[i].principal /\ x.capsule = jit[i].capsule
                    => x \in memberships'
             /\ capsuleState'[jit[i].capsule] = capsuleState[jit[i].capsule]
             /\ <<jit[i].capsule, jit[i].contract>> \in bindings'
  <2>1. ~ jit[i].capsule.managed /\ <<jit[i].capsule, jit[i].contract>> \in bindings
    BY <1>5, Ground
  <2>2. jit[i].capsule \in Capsule
    BY DecidedGrant, StoreInvParts DEF Grant
  <2>3. jit[i].capsule # ScopeCapsule(d) /\ jit[i].capsule \notin Emptied(p, d)
    BY <1>2, <1>3, <2>1 DEF Emptied
  <2> QED BY <1>1, <1>4, <2>1, <2>2, <2>3
<1> HIDE DEF S
<1> QED BY <1>1, <1>5, ExpiryIsEnough

-----------------------------------------------------------------------------
LEMMA NextStoreInv == StoreInv /\ [Next]_vars => StoreInv'
<1> SUFFICES ASSUME StoreInv, [Next]_vars PROVE StoreInv'
  OBVIOUS
<1>1. TypeOK'
  BY NextTypeOK, StoreInvParts
<1>2. MembershipPart' /\ GrantPart'
  <2>1. ASSUME NEW actor \in Principal, NEW p \in Principal, AddMembership(actor, p)
        PROVE  MembershipPart' /\ GrantPart'
    <3>1. UNCHANGED <<jit, capsuleState, bindings>> /\ memberships \subseteq memberships'
      BY <2>1 DEF AddMembership
    <3> QED BY <2>1, <3>1, AddMembershipPart, SameGrants
  <2>2. ASSUME NEW m \in memberships, RemoveMembershipUnchecked(m)
        PROVE  MembershipPart' /\ GrantPart'
    BY <2>2, RemoveMembershipInv
  <2>3. ASSUME NEW actor \in Principal, NEW c \in Capsule, NEW cascade \in BOOLEAN,
               OffboardCapsule(actor, c, cascade)
        PROVE  MembershipPart' /\ GrantPart'
    BY <2>3, OffboardInv
  <2>4. CASE JitStep
    <3>1. MembershipPart'
      <4>1. UNCHANGED <<memberships, bindings, nextAssignment>>
        BY <2>4 DEF JitStep, RequestJit, ApproveJit, DenyJit, RevokeJit
      <4> QED BY <4>1, FewerMembers, StoreInvParts
    <3>2. GrantPart'
      BY <2>4, RequestJitGrants, ApproveJitGrants, DenyJitGrants, RevokeJitGrants DEF JitStep
    <3> QED BY <3>1, <3>2
  <2>5. ASSUME NEW actor \in Principal, NEW p \in Principal, NEW d \in Draft,
               ApplyRoleDraft(actor, p, d)
        PROVE  MembershipPart' /\ GrantPart'
    BY <2>5, ApplyRoleDraftMembers, ApplyRoleDraftGrants
  <2>6. CASE ClockStep \/ UNCHANGED vars
    <3>1. UNCHANGED <<capsuleState, memberships, bindings, jit, nextAssignment>>
      BY <2>6 DEF ClockStep, AdjustClock, vars
    <3> QED BY <3>1, FewerMembers, SameGrants, StoreInvParts
  <2>7. CASE MembershipStep
    <3>1. ASSUME NEW actor \in Principal, NEW m \in memberships, RemoveMembership(actor, m)
          PROVE  MembershipPart' /\ GrantPart'
      BY <2>2, <3>1 DEF RemoveMembership
    <3>2. ASSUME NEW reviewer \in Principal, NEW m \in memberships,
                 RevokeMembershipForRecertification(reviewer, m)
          PROVE  MembershipPart' /\ GrantPart'
      BY <2>2, <3>2 DEF RevokeMembershipForRecertification
    <3> QED BY <2>1, <2>3, <2>7, <3>1, <3>2 DEF MembershipStep
  <2>8. CASE RoleStep
    BY <2>5, <2>8 DEF RoleStep
  <2> QED BY <2>4, <2>6, <2>7, <2>8 DEF Next
<1> QED BY <1>1, <1>2 DEF StoreInv, Restorable, MembershipPart, GrantPart

\* The strengthened invariant holds in every reachable state: nothing the
\* operations of lifecycle.ts do together can break it.
THEOREM StoreInvariant == Spec => []StoreInv
BY InitStoreInv, NextStoreInv, PTL DEF Spec

\* The service can always restart from what its operations left: every
\* reachable store passes assertStoreRelationships.
THEOREM AlwaysRestorable == Spec => []Restorable
<1>1. StoreInv => Restorable
  BY DEF StoreInv
<1> QED BY <1>1, StoreInvariant, PTL

\* A capsule granted again never revives an older request or grant: an open
\* one belongs to the assignment its principal holds now (lifecycle.ts: the
\* expiry in removeMembershipUnchecked, offboardCapsule and applyRoleDraft).
THEOREM GrantsFollowAssignment == Spec => []OpenGrantsFollowAssignment
<1>1. StoreInv => OpenGrantsFollowAssignment
  BY DEF StoreInv, Restorable, UniqueMembership, OpenGrantsHeld, OpenGrantsFollowAssignment,
         MembershipsOf
<1> QED BY <1>1, StoreInvariant, PTL

-----------------------------------------------------------------------------
(***************************************************************************)
(* How a grant may move: approved by somebody else, closed, or left alone. *)
(***************************************************************************)

ApprovedProperly(g) ==
  /\ g.approver \in Principal \ {g.principal}
  /\ g.approvedAt >= g.createdAt
  /\ g.expiresAt <= g.approvedAt + g.requestedTtl

\* The move of the grant that was g and is h.
GrantMove(g, h) ==
  \/ h = g
  \/ g.status = "pending" /\ h.status = "approved" /\ ApprovedProperly(h)
  \/ g.status \in OpenStatus /\ h.status \in {"expired", "revoked"}
  \/ g.status = "pending" /\ h.status = "denied"

GrantsMove ==
  /\ \A i \in DOMAIN jit : i \in DOMAIN jit' /\ GrantMove(jit[i], jit'[i])
  /\ \A i \in DOMAIN jit' \ DOMAIN jit : jit'[i].status = "pending"

LEMMA ApproveMove ==
  ASSUME TypeOK, NEW approver \in Principal, NEW i \in DOMAIN jit,
         NEW ttl \in MinTtl .. MaxTtl, ApproveJit(approver, i, ttl)
  PROVE  GrantsMove
<1> DEFINE g == [jit[i] EXCEPT !.status = "approved", !.approver = approver,
                               !.approvedAt = now, !.expiresAt = now + ttl]
<1>1. ttl \in Nat /\ now \in Nat
  BY BoundAssumption DEF TypeOK, Time
<1>2. jit[i] \in Grant /\ g \in Grant
  BY <1>1, DecidedGrant
<1>3. /\ g.status = "approved" /\ g.approver = approver /\ g.approvedAt = now
      /\ g.expiresAt = now + ttl /\ g.principal = jit[i].principal
      /\ g.createdAt = jit[i].createdAt /\ g.requestedTtl = jit[i].requestedTtl
  BY <1>2 DEF Grant
<1>4. /\ jit[i].status = "pending" /\ now >= jit[i].createdAt
      /\ approver # jit[i].principal /\ ttl <= jit[i].requestedTtl
      /\ jit' = [jit EXCEPT ![i] = g]
  BY DEF ApproveJit, TtlWithinRequest
<1> HIDE DEF g
<1>5. jit[i].requestedTtl \in Nat
  BY <1>2 DEF Grant
<1>6. ApprovedProperly(g)
  BY <1>1, <1>3, <1>4, <1>5 DEF ApprovedProperly
<1>7. /\ DOMAIN jit' = DOMAIN jit /\ jit'[i] = g
      /\ \A j \in DOMAIN jit : j # i => jit'[j] = jit[j]
  BY <1>2, <1>4, UpdateGrant DEF TypeOK
<1> QED BY <1>3, <1>4, <1>6, <1>7 DEF GrantsMove, GrantMove

LEMMA CloseMove ==
  ASSUME TypeOK, NEW i \in DOMAIN jit, NEW actor \in Principal,
         DenyJit(actor, i) \/ RevokeJit(actor, i)
  PROVE  GrantsMove
<1>1. jit[i] \in Grant /\ jit \in Seq(Grant)
  BY DecidedGrant DEF TypeOK
<1>2. CASE DenyJit(actor, i)
  <2> DEFINE g == [jit[i] EXCEPT !.status = "denied"]
  <2>1. g \in Grant /\ g.status = "denied"
    BY <1>1, DecidedGrant DEF Grant
  <2>2. jit[i].status = "pending" /\ jit' = [jit EXCEPT ![i] = g]
    BY <1>2 DEF DenyJit
  <2> HIDE DEF g
  <2> QED BY <1>1, <2>1, <2>2, UpdateGrant DEF GrantsMove, GrantMove
<1>3. CASE RevokeJit(actor, i)
  <2> DEFINE g == [jit[i] EXCEPT !.status = "revoked", !.expiresAt = EarlierOf(jit[i].expiresAt, now)]
  <2>1. g \in Grant /\ g.status = "revoked"
    BY <1>1, DecidedGrant DEF Grant
  <2>2. jit[i].status \in OpenStatus /\ jit' = [jit EXCEPT ![i] = g]
    BY <1>3 DEF RevokeJit, Revocable
  <2> HIDE DEF g
  <2> QED BY <1>1, <2>1, <2>2, UpdateGrant DEF GrantsMove, GrantMove
<1> QED BY <1>2, <1>3

LEMMA ExpiryMove ==
  ASSUME TypeOK, NEW S, jit' = ExpireOpen(S)
  PROVE  GrantsMove
BY ExpireOpenFacts DEF GrantsMove, GrantMove

LEMMA RequestMove ==
  ASSUME TypeOK, NEW m \in memberships, NEW k \in Contract,
         NEW actions \in SUBSET WarehouseAction, NEW ttl \in MinTtl .. MaxTtl,
         RequestJit(m, k, actions, ttl)
  PROVE  GrantsMove
<1>1. PICK g : jit' = Append(jit, g) /\ g.status = "pending"
  BY DEF RequestJit
<1>2. jit \in Seq(Grant)
  BY DEF TypeOK
<1>3. /\ \A i \in DOMAIN jit : i \in DOMAIN jit' /\ jit'[i] = jit[i]
      /\ \A i \in DOMAIN jit' \ DOMAIN jit : jit'[i] = g
  BY <1>1, <1>2
<1> QED BY <1>1, <1>3 DEF GrantsMove, GrantMove

LEMMA NextMove == TypeOK /\ [Next]_vars => GrantsMove
<1> SUFFICES ASSUME TypeOK, [Next]_vars PROVE GrantsMove
  OBVIOUS
<1>1. CASE JitStep
  BY <1>1, RequestMove, ApproveMove, CloseMove DEF JitStep
<1>2. CASE MembershipStep
  <2>1. UNCHANGED jit \/ \E S : jit' = ExpireOpen(S)
    BY <1>2 DEF MembershipStep, AddMembership, RemoveMembership, RemoveMembershipUnchecked,
                RevokeMembershipForRecertification, OffboardCapsule
  <2> QED BY <2>1, ExpiryMove DEF GrantsMove, GrantMove
<1>3. CASE RoleStep
  BY <1>3, ExpiryMove DEF RoleStep, ApplyRoleDraft
<1>4. CASE ClockStep \/ UNCHANGED vars
  BY <1>4 DEF ClockStep, AdjustClock, vars, GrantsMove, GrantMove
<1> QED BY <1>1, <1>2, <1>3, <1>4 DEF Next

\* A grant in force always has a second person behind it and never lasts
\* longer than was asked for, however the clock jumped in between.
THEOREM AlwaysDualControl == Spec => []DualControl
<1>1. Init => DualControl
  BY DEF Init, DualControl
<1>2. DualControl /\ GrantsMove => DualControl'
  BY DEF DualControl, GrantsMove, GrantMove, ApprovedProperly
<1>3. DualControl /\ TypeOK /\ [Next]_vars => DualControl'
  BY <1>2, NextMove
<1> QED BY <1>1, <1>3, TypeCorrect, PTL DEF Spec

\* No sequence of operations reopens a closed grant or prolongs one in force.
THEOREM DecisionsStayFinal == Spec => DecisionsAreFinal
<1> DEFINE Final(i) ==
      /\ i \in DOMAIN jit'
      /\ jit[i].status \notin OpenStatus => jit'[i] = jit[i]
      /\ jit[i].status = "approved" =>
           jit'[i] = jit[i] \/ jit'[i].status \in {"expired", "revoked"}
<1>1. TypeOK /\ [Next]_vars => [\A i \in DOMAIN jit : Final(i)]_vars
  BY NextMove DEF GrantsMove, GrantMove, OpenStatus
<1> QED BY <1>1, TypeCorrect, PTL DEF Spec, DecisionsAreFinal

-----------------------------------------------------------------------------
(***************************************************************************)
(* What the operations guarantee about people: an administrator remains,   *)
(* nobody holds conflicting duties or two roles of Role Studio, and only   *)
(* active capsules have members.  PolicyInv, on top of StoreInv, is        *)
(* inductive.                                                              *)
(***************************************************************************)

-----------------------------------------------------------------------------
(***************************************************************************)
(* Duties.  The policy is monotone: fewer or weaker facts violate less.    *)
(***************************************************************************)

Weaker(f, g) ==
  f.purpose = g.purpose /\ f.products = g.products /\ f.actions \subseteq g.actions

\* evaluateSodFacts finds no more in facts that other facts cover.
LEMMA SodMonotone ==
  ASSUME NEW F, NEW G, ~ SodViolated(G), \A f \in F : \E g \in G : Weaker(f, g)
  PROVE  ~ SodViolated(F)
<1>1. ASSUME NEW f \in F, NEW h \in F,
             MasterDataRule(f, h) \/ AuditRule(f, h) \/ GovernanceRule(f, h)
      PROVE  FALSE
  <2>1. PICK g \in G : Weaker(f, g)
    OBVIOUS
  <2>2. PICK k \in G : Weaker(h, k)
    OBVIOUS
  <2> QED BY <1>1, <2>1, <2>2
          DEF Weaker, SodViolated, MasterDataRule, AuditRule, GovernanceRule, Spans, Operates
<1> QED BY <1>1 DEF SodViolated

\* The duty a membership has by a binding.
Duty(m, b) ==
  [purpose |-> b[2].purpose, actions |-> b[2].actions \cap m.persona.actions,
   products |-> ScopedProducts(m.capsule)]

GivesDuty(m, b) ==
  /\ b[1] = m.capsule /\ b[2].dataset = "warehouse"
  /\ b[2].actions \cap m.persona.actions # {}

LEMMA SodFactsAreDuties ==
  ASSUME NEW ms, NEW bs
  PROVE  SodFacts(ms, bs) = {Duty(x[1], x[2]) : x \in {y \in ms \X bs : GivesDuty(y[1], y[2])}}
BY DEF SodFacts, Duty, GivesDuty

LEMMA DutyIsFact ==
  ASSUME NEW ms, NEW bs, NEW m \in ms, NEW b \in bs, GivesDuty(m, b)
  PROVE  Duty(m, b) \in SodFacts(ms, bs)
<1>1. <<m, b>> \in {y \in ms \X bs : GivesDuty(y[1], y[2])}
  OBVIOUS
<1> HIDE DEF GivesDuty, Duty
<1> QED BY <1>1, SodFactsAreDuties

LEMMA FactIsDuty ==
  ASSUME NEW ms, NEW bs, NEW f \in SodFacts(ms, bs)
  PROVE  \E m \in ms, b \in bs : GivesDuty(m, b) /\ f = Duty(m, b)
BY SodFactsAreDuties

\* Judging one set of duties by another that covers it.
LEMMA CoveredDuties ==
  ASSUME NEW ms, NEW bs, NEW G, ~ SodViolated(G),
         \A m \in ms, b \in bs : GivesDuty(m, b) => \E g \in G : Weaker(Duty(m, b), g)
  PROVE  ~ SodViolated(SodFacts(ms, bs))
BY SodMonotone, FactIsDuty

LEMMA WeakerSame == \A f : Weaker(f, f)
BY DEF Weaker

-----------------------------------------------------------------------------
(***************************************************************************)
(* Steps that only take away.                                              *)
(***************************************************************************)

LEMMA BaseUnmanaged ==
  /\ ~ ControlPlane.managed /\ ControlPlane \in Capsule
  /\ \A c \in Capsule : c.managed \in BOOLEAN
  /\ \A d \in Draft : ScopeCapsule(d).managed
<1>1. \A d \in Draft : ScopeCapsule(d).managed = TRUE
  BY DEF ScopeCapsule
<1>2. ControlPlane \in BaseCapsule /\ \A c \in BaseCapsule : c.managed = FALSE
  BY ObjectAssumption
<1>3. \A c \in Capsule : c.managed = TRUE \/ c.managed = FALSE
  BY <1>1, <1>2 DEF Capsule
<1>4. ControlPlane.managed = FALSE /\ ControlPlane \in Capsule
  BY <1>2 DEF Capsule
<1> QED BY <1>1, <1>3, <1>4

\* Live members are all members: inactive capsules have none.
LEMMA LiveIsMember ==
  ASSUME InactiveCapsulesEmpty, NEW p
  PROVE  LiveMemberships(p) = {m \in memberships : m.principal = p /\ Enabled(p)}
BY DEF InactiveCapsulesEmpty, LiveMemberships, MembershipsOf

LEMMA FewerRoles ==
  ASSUME PolicyInv, memberships' \subseteq memberships, bindings' \subseteq bindings,
         \A m \in memberships' : capsuleState'[m.capsule] = "active",
         \A m \in memberships', b \in bindings : b[1] = m.capsule => b \in bindings'
  PROVE  /\ NoSodConflict' /\ OneManagedRole' /\ InactiveCapsulesEmpty'
         /\ RolesBound' /\ RoleBindingsFromDrafts'
<1>1. InactiveCapsulesEmpty'
  BY DEF InactiveCapsulesEmpty, Active
<1>2. OneManagedRole'
  BY DEF PolicyInv, OneManagedRole
<1>3. RolesBound'
  BY DEF PolicyInv, RolesBound
<1>4. RoleBindingsFromDrafts'
  BY DEF PolicyInv, RoleBindingsFromDrafts
<1>5. ASSUME NEW p \in Principal PROVE ~ SodViolated(WarehouseSodFacts(p))'
  <2>1. LiveMemberships(p)' \subseteq LiveMemberships(p)
    BY LiveIsMember DEF PolicyInv, LiveMemberships, MembershipsOf
  <2>2. ~ SodViolated(SodFacts(LiveMemberships(p), bindings))
    BY DEF PolicyInv, NoSodConflict, WarehouseSodFacts
  <2>3. \A m \in LiveMemberships(p)', b \in bindings' : GivesDuty(m, b) =>
          \E g \in SodFacts(LiveMemberships(p), bindings) : Weaker(Duty(m, b), g)
    BY <2>1, DutyIsFact, WeakerSame
  <2>4. ~ SodViolated(SodFacts(LiveMemberships(p)', bindings'))
    BY <2>2, <2>3, CoveredDuties
  <2>5. SodFacts(LiveMemberships(p), bindings)' = SodFacts(LiveMemberships(p)', bindings')
    BY DEF SodFacts
  <2> QED BY <2>4, <2>5 DEF WarehouseSodFacts
<1> QED BY <1>1, <1>2, <1>3, <1>4, <1>5 DEF NoSodConflict

\* Somebody administers after a step that keeps the seat of one administrator.
LEMMA SeatKept ==
  ASSUME NEW p \in Principal, IsControlPlaneAdmin(p),
         capsuleState'[ControlPlane] = capsuleState[ControlPlane],
         \A m \in memberships : m.principal = p /\ m.capsule = ControlPlane => m \in memberships'
  PROVE  AdminSurvives'
<1>1. IsControlPlaneAdmin(p)'
  BY DEF IsControlPlaneAdmin, MembershipsOf, Active
<1> QED BY <1>1 DEF AdminSurvives

LEMMA SomeAdmin ==
  ASSUME PolicyInv
  PROVE  \E p \in Principal : IsControlPlaneAdmin(p)
BY DEF PolicyInv, AdminSurvives

-----------------------------------------------------------------------------
(***************************************************************************)
(* One lemma per operation.                                                *)
(***************************************************************************)

LEMMA AddMembershipPolicy ==
  ASSUME StoreInv, PolicyInv, NEW actor \in Principal, NEW p \in Principal,
         AddMembership(actor, p)
  PROVE  PolicyInv'
<1> DEFINE new == [principal |-> p, capsule |-> ControlPlane, persona |-> HomePersona[p],
                   assignment |-> nextAssignment]
<1>1. /\ memberships' = memberships \cup {new}
      /\ UNCHANGED <<capsuleState, bindings>> /\ Active(ControlPlane)
  BY DEF AddMembership
<1>2. new.capsule = ControlPlane /\ new.principal = p /\ new.persona = HomePersona[p]
  OBVIOUS
<1> HIDE DEF new
<1>3. ~ new.capsule.managed
  BY <1>2, BaseUnmanaged
<1>4. AdminSurvives'
  BY <1>1, SomeAdmin, SeatKept
<1>5. OneManagedRole' /\ RolesBound' /\ RoleBindingsFromDrafts'
  BY <1>1, <1>3 DEF PolicyInv, OneManagedRole, RolesBound, RoleBindingsFromDrafts
<1>6. InactiveCapsulesEmpty'
  BY <1>1, <1>2 DEF PolicyInv, InactiveCapsulesEmpty, Active
<1>7. ASSUME NEW b \in bindings PROVE ~ GivesDuty(new, b)
  BY <1>2, <1>3, ControlPlaneAssumption DEF PolicyInv, RoleBindingsFromDrafts, GivesDuty
<1>8. ASSUME NEW q \in Principal PROVE ~ SodViolated(WarehouseSodFacts(q))'
  <2>1. LiveMemberships(q)' \subseteq LiveMemberships(q) \cup {new}
    BY <1>1 DEF LiveMemberships, MembershipsOf, Active
  <2>2. ~ SodViolated(SodFacts(LiveMemberships(q), bindings))
    BY DEF PolicyInv, NoSodConflict, WarehouseSodFacts
  <2>3. \A m \in LiveMemberships(q)', b \in bindings : GivesDuty(m, b) =>
          \E g \in SodFacts(LiveMemberships(q), bindings) : Weaker(Duty(m, b), g)
    BY <1>7, <2>1, DutyIsFact, WeakerSame
  <2>4. ~ SodViolated(SodFacts(LiveMemberships(q)', bindings))
    BY <2>2, <2>3, CoveredDuties
  <2>5. SodFacts(LiveMemberships(q), bindings)' = SodFacts(LiveMemberships(q)', bindings)
    BY <1>1 DEF SodFacts
  <2> QED BY <2>4, <2>5 DEF WarehouseSodFacts
<1> QED BY <1>4, <1>5, <1>6, <1>8 DEF PolicyInv, NoSodConflict

LEMMA RemoveMembershipPolicy ==
  ASSUME StoreInv, PolicyInv, NEW m \in memberships, RemoveMembershipUnchecked(m)
  PROVE  PolicyInv'
<1>1. /\ memberships' = {x \in memberships : ~(x.principal = m.principal /\ x.capsule = m.capsule)}
      /\ UNCHANGED <<capsuleState, bindings>> /\ LastAdminStays(m)
  BY DEF RemoveMembershipUnchecked
<1>2. NoSodConflict' /\ OneManagedRole' /\ InactiveCapsulesEmpty' /\ RolesBound' /\ RoleBindingsFromDrafts'
  BY <1>1, FewerRoles DEF PolicyInv, InactiveCapsulesEmpty, Active
<1>3. PICK p \in Principal :
        IsControlPlaneAdmin(p) /\ (m.capsule # ControlPlane \/ p # m.principal)
  BY <1>1, SomeAdmin DEF LastAdminStays
<1>4. AdminSurvives'
  BY <1>1, <1>3, SeatKept
<1> QED BY <1>2, <1>4 DEF PolicyInv

LEMMA OffboardPolicy ==
  ASSUME StoreInv, PolicyInv, NEW actor \in Principal, NEW c \in Capsule,
         NEW cascade \in BOOLEAN, OffboardCapsule(actor, c, cascade)
  PROVE  PolicyInv'
<1>1. PICK targets :
        /\ ControlPlane \notin targets
        /\ capsuleState' = [k \in Capsule |-> IF k \in targets THEN "inactive" ELSE capsuleState[k]]
        /\ memberships' = {m \in memberships : m.capsule \notin targets}
        /\ bindings' = {b \in bindings : b[1] \notin targets}
  BY DEF OffboardCapsule
<1>2. memberships \subseteq Membership
  BY DEF StoreInv, TypeOK
<1>3. NoSodConflict' /\ OneManagedRole' /\ InactiveCapsulesEmpty' /\ RolesBound' /\ RoleBindingsFromDrafts'
  <2>1. \A m \in memberships' : capsuleState'[m.capsule] = "active"
    BY <1>1, <1>2 DEF PolicyInv, InactiveCapsulesEmpty, Active, Membership
  <2> QED BY <1>1, <2>1, FewerRoles
<1>4. AdminSurvives'
  BY <1>1, SomeAdmin, SeatKept, BaseUnmanaged
<1> QED BY <1>3, <1>4 DEF PolicyInv

-----------------------------------------------------------------------------
(***************************************************************************)
(* Applying a role draft.                                                  *)
(***************************************************************************)

\* Who is a member afterwards: everybody else as before, and the principal
\* with what is not of Role Studio and the one new role.
LEMMA MembersAfterApply ==
  ASSUME TypeOK, NEW actor, NEW p, NEW d \in Draft, ApplyRoleDraft(actor, p, d)
  PROVE  /\ \A m \in memberships' :
              \/ m \in memberships /\ m.principal # p
              \/ m \in memberships /\ m.principal = p /\ ~ m.capsule.managed
              \/ /\ m.principal = p /\ m.capsule = ScopeCapsule(d)
                 /\ m.persona = CapabilityPersona(d)
         /\ \A m \in memberships : ~ m.capsule.managed => m \in memberships'
<1>1. Retained(p, d) \subseteq memberships /\ memberships \subseteq Membership
  BY DEF Retained, TypeOK
<1>2. \A m \in memberships : m.capsule \in Capsule
  BY <1>1 DEF Membership
<1>3. ASSUME NEW m \in Retained(p, d), m.principal = p, m.capsule.managed
      PROVE  m.capsule = ScopeCapsule(d)
  BY <1>3 DEF Retained, RetiredCapsules, MembershipsOf
<1>4. \A m \in memberships : ~ m.capsule.managed => m \in Retained(p, d)
  BY <1>2, BaseUnmanaged DEF Retained, RetiredCapsules
<1> DEFINE current == {m \in Retained(p, d) : m.principal = p /\ m.capsule = ScopeCapsule(d)}
<1>5. \A m \in current : m.capsule.managed
  BY BaseUnmanaged
<1>6. CASE current # {}
  <2>1. memberships' = (Retained(p, d) \ current)
          \cup {[m EXCEPT !.persona = CapabilityPersona(d)] : m \in current}
    BY <1>6 DEF ApplyRoleDraft, JoinScope
  <2>2. \A m \in current :
          LET n == [m EXCEPT !.persona = CapabilityPersona(d)]
          IN  n.principal = p /\ n.capsule = ScopeCapsule(d) /\ n.persona = CapabilityPersona(d)
    BY <1>1 DEF Membership
  <2> QED BY <1>1, <1>3, <1>4, <1>5, <2>1, <2>2
<1>7. CASE current = {}
  <2>1. memberships' = Retained(p, d) \cup
          {[principal |-> p, capsule |-> ScopeCapsule(d),
            persona |-> CapabilityPersona(d), assignment |-> nextAssignment]}
    BY <1>7 DEF ApplyRoleDraft, JoinScope
  <2> QED BY <1>1, <1>3, <1>4, <1>7, <2>1
<1> QED BY <1>6, <1>7

\* The duties a role of the draft's scope gives its member by any binding of
\* Role Studio are at most those of the candidate.
LEMMA ScopeDuty ==
  ASSUME NEW d \in Draft, NEW e \in Draft, ScopeCapsule(e) = ScopeCapsule(d),
         NEW m, m.capsule = ScopeCapsule(d), m.persona = CapabilityPersona(d)
  PROVE  /\ Weaker(Duty(m, <<ScopeCapsule(e), RoleContract(e)>>),
                   [purpose |-> d.purpose, actions |-> d.verbs, products |-> d.products])
         /\ GivesDuty(m, <<ScopeCapsule(d), RoleContract(d)>>)
         /\ Duty(m, <<ScopeCapsule(d), RoleContract(d)>>) =
              [purpose |-> d.purpose, actions |-> d.verbs, products |-> d.products]
<1>1. ScopeCapsule(e).purpose = e.purpose /\ ScopeCapsule(d).purpose = d.purpose
  BY DEF ScopeCapsule
<1>2. ScopeCapsule(d).products = d.products /\ d.products # {} /\ d.verbs # {}
  BY ObjectAssumption DEF ScopeCapsule
<1>3. ScopedProducts(m.capsule) = d.products
  BY <1>2 DEF ScopedProducts
<1>4. /\ RoleContract(e).purpose = e.purpose /\ RoleContract(e).actions = e.verbs
      /\ RoleContract(d).purpose = d.purpose /\ RoleContract(d).actions = d.verbs
      /\ RoleContract(d).dataset = "warehouse" /\ m.persona.actions = d.verbs
  BY DEF RoleContract, CapabilityPersona
<1> QED BY <1>1, <1>2, <1>3, <1>4 DEF Duty, GivesDuty, Weaker

LEMMA ApplyRoleDraftDuties ==
  ASSUME StoreInv, PolicyInv, NEW actor, NEW p \in Principal, NEW d \in Draft,
         ApplyRoleDraft(actor, p, d), RoleBindingsFromDrafts'
  PROVE  NoSodConflict'
<1>1. /\ bindings' = bindings \cup {<<ScopeCapsule(d), RoleContract(d)>>}
      /\ Enabled(p) /\ ~ SodViolated(DraftSodFacts(p, d))
  BY DEF ApplyRoleDraft
<1>2. TypeOK /\ memberships \subseteq Membership
  BY DEF StoreInv, TypeOK
<1>3. ScopeCapsule(d).managed
  BY BaseUnmanaged
<1>4. ASSUME NEW q \in Principal, q # p PROVE ~ SodViolated(WarehouseSodFacts(q))'
  <2> DEFINE G == SodFacts(LiveMemberships(q), bindings)
  <2>1. LiveMemberships(q)' \subseteq LiveMemberships(q)
    BY <1>2, <1>4, MembersAfterApply, LiveIsMember DEF PolicyInv, LiveMemberships, MembershipsOf
  <2>2. ~ SodViolated(G)
    BY DEF PolicyInv, NoSodConflict, WarehouseSodFacts
  <2>3. ASSUME NEW m \in LiveMemberships(q), NEW b \in bindings', GivesDuty(m, b)
        PROVE  \E g \in G : Weaker(Duty(m, b), g)
    <3>1. CASE b \in bindings
      BY <2>3, <3>1, DutyIsFact, WeakerSame
    <3>2. CASE b = <<ScopeCapsule(d), RoleContract(d)>>
      <4>1. m \in memberships /\ m.capsule = ScopeCapsule(d)
        BY <2>3, <3>2 DEF LiveMemberships, MembershipsOf, GivesDuty
      <4>2. PICK e \in Draft : /\ m.capsule = ScopeCapsule(e) /\ m.persona = CapabilityPersona(e)
                               /\ <<m.capsule, RoleContract(e)>> \in bindings
        BY <1>3, <4>1 DEF PolicyInv, RolesBound
      <4>3. Duty(m, <<ScopeCapsule(e), RoleContract(e)>>) \in G
        BY <4>2, ScopeDuty, DutyIsFact
      <4>4. Weaker(Duty(m, b), Duty(m, <<ScopeCapsule(e), RoleContract(e)>>))
        BY <3>2, <4>1, <4>2, ScopeDuty
      <4> QED BY <4>3, <4>4
    <3> QED BY <1>1, <3>1, <3>2
  <2>4. ~ SodViolated(SodFacts(LiveMemberships(q)', bindings'))
    <3> HIDE DEF G
    <3> QED BY <2>1, <2>2, <2>3, CoveredDuties
  <2>5. SodFacts(LiveMemberships(q), bindings)' = SodFacts(LiveMemberships(q)', bindings')
    BY DEF SodFacts
  <2> QED BY <2>4, <2>5 DEF WarehouseSodFacts
<1>5. ~ SodViolated(WarehouseSodFacts(p))'
  <2> DEFINE standing == {m \in LiveMemberships(p) : ~ m.capsule.managed}
             candidate == [purpose |-> d.purpose, actions |-> d.verbs, products |-> d.products]
             G == SodFacts(standing, bindings) \cup {candidate}
  <2>1. ~ SodViolated(G)
    BY <1>1 DEF DraftSodFacts
  <2>2. ASSUME NEW m \in LiveMemberships(p)', NEW b \in bindings', GivesDuty(m, b)
        PROVE  \E g \in G : Weaker(Duty(m, b), g)
    <3>1. m \in memberships' /\ m.principal = p
      BY DEF LiveMemberships, MembershipsOf
    <3>2. CASE m \in memberships /\ ~ m.capsule.managed
      <4>1. m \in standing
        BY <1>1, <3>1, <3>2, LiveIsMember DEF PolicyInv
      <4>2. b \in bindings
        BY <1>1, <1>3, <2>2, <3>2 DEF GivesDuty
      <4> HIDE DEF standing, candidate
      <4> QED BY <2>2, <4>1, <4>2, DutyIsFact, WeakerSame
    <3>3. CASE m.capsule = ScopeCapsule(d) /\ m.persona = CapabilityPersona(d)
      <4>1. PICK e \in Draft : b = <<ScopeCapsule(e), RoleContract(e)>>
        BY <1>3, <2>2, <3>3 DEF GivesDuty, RoleBindingsFromDrafts
      <4>2. ScopeCapsule(e) = ScopeCapsule(d)
        BY <2>2, <3>3, <4>1 DEF GivesDuty
      <4>3. Weaker(Duty(m, b), candidate)
        BY <3>3, <4>1, <4>2, ScopeDuty
      <4> HIDE DEF standing, candidate
      <4> QED BY <4>3
    <3> QED BY <1>2, <3>1, <3>2, <3>3, MembersAfterApply
  <2>3. ~ SodViolated(SodFacts(LiveMemberships(p)', bindings'))
    <3> HIDE DEF G
    <3> QED BY <2>1, <2>2, CoveredDuties
  <2>4. SodFacts(LiveMemberships(p), bindings)' = SodFacts(LiveMemberships(p)', bindings')
    BY DEF SodFacts
  <2> QED BY <2>3, <2>4 DEF WarehouseSodFacts
<1> QED BY <1>4, <1>5 DEF NoSodConflict

LEMMA ApplyRoleDraftPolicy ==
  ASSUME StoreInv, PolicyInv, NEW actor \in Principal, NEW p \in Principal, NEW d \in Draft,
         ApplyRoleDraft(actor, p, d)
  PROVE  PolicyInv'
<1>1. /\ bindings' = bindings \cup {<<ScopeCapsule(d), RoleContract(d)>>}
      /\ capsuleState' = [c \in Capsule |->
           IF c = ScopeCapsule(d) THEN "active"
           ELSE IF c \in Emptied(p, d) THEN "inactive" ELSE capsuleState[c]]
  BY DEF ApplyRoleDraft
<1>2. TypeOK /\ memberships \subseteq Membership /\ memberships' \subseteq Membership
  BY NextTypeOK DEF StoreInv, TypeOK, Next, RoleStep
<1>3. ScopeCapsule(d).managed /\ ~ ControlPlane.managed /\ ControlPlane \in Capsule
  BY BaseUnmanaged
<1>4. /\ \A m \in memberships' :
           \/ m \in memberships /\ m.principal # p
           \/ m \in memberships /\ m.principal = p /\ ~ m.capsule.managed
           \/ m.principal = p /\ m.capsule = ScopeCapsule(d) /\ m.persona = CapabilityPersona(d)
      /\ \A m \in memberships : ~ m.capsule.managed => m \in memberships'
  BY <1>2, MembersAfterApply
<1>5. \A c \in Emptied(p, d) : c.managed /\ c # ScopeCapsule(d)
  BY DEF Emptied, RetiredCapsules
<1>6. \A m \in memberships' : m.capsule \notin Emptied(p, d)
  <2>1. \A m \in Retained(p, d) : m.capsule \notin Emptied(p, d)
    BY DEF Emptied
  <2>2. \A m \in memberships' : m \in Retained(p, d) \/ m.capsule = ScopeCapsule(d)
    BY <1>4 DEF Retained, RetiredCapsules
  <2> QED BY <1>5, <2>1, <2>2
<1>7. InactiveCapsulesEmpty'
  <2> SUFFICES ASSUME NEW m \in memberships' PROVE capsuleState'[m.capsule] = "active"
    BY DEF InactiveCapsulesEmpty, Active
  <2>1. m.capsule \in Capsule
    BY <1>2 DEF Membership
  <2>2. m.capsule = ScopeCapsule(d) \/ capsuleState[m.capsule] = "active"
    BY <1>4 DEF PolicyInv, InactiveCapsulesEmpty, Active
  <2> QED BY <1>1, <1>6, <2>1, <2>2
<1>8. OneManagedRole'
  <2> SUFFICES ASSUME NEW m \in memberships', NEW n \in memberships',
                      m.principal = n.principal, m.capsule.managed, n.capsule.managed
               PROVE  m = n
    BY DEF OneManagedRole
  <2>1. CASE m.principal # p
    BY <1>4, <2>1 DEF PolicyInv, OneManagedRole
  <2>2. CASE m.principal = p
    <3>1. m.capsule = n.capsule
      BY <1>4, <2>2
    <3>2. UniqueMembership'
      BY NextStoreInv DEF StoreInv, Restorable, Next, RoleStep
    <3> QED BY <3>1, <3>2 DEF UniqueMembership
  <2> QED BY <2>1, <2>2
<1>9. RolesBound'
  <2> SUFFICES ASSUME NEW m \in memberships', m.capsule.managed
               PROVE  \E e \in Draft :
                        /\ m.capsule = ScopeCapsule(e) /\ m.persona = CapabilityPersona(e)
                        /\ <<m.capsule, RoleContract(e)>> \in bindings'
    BY DEF RolesBound
  <2>1. CASE m \in memberships
    BY <1>1, <2>1 DEF PolicyInv, RolesBound
  <2>2. CASE m.capsule = ScopeCapsule(d) /\ m.persona = CapabilityPersona(d)
    BY <1>1, <2>2
  <2> QED BY <1>4, <2>1, <2>2
<1>10. RoleBindingsFromDrafts'
  <2>1. \A b \in bindings :
          IF b[1].managed THEN \E e \in Draft : b = <<ScopeCapsule(e), RoleContract(e)>>
          ELSE b \in SeedBinding
    BY DEF PolicyInv, RoleBindingsFromDrafts
  <2> QED BY <1>1, <1>3, <2>1 DEF RoleBindingsFromDrafts
<1>11. NoSodConflict'
  BY <1>10, ApplyRoleDraftDuties
<1>12. AdminSurvives'
  <2>1. ControlPlane # ScopeCapsule(d) /\ ControlPlane \notin Emptied(p, d)
    BY <1>3, <1>5
  <2>2. capsuleState'[ControlPlane] = capsuleState[ControlPlane]
    BY <1>1, <1>3, <2>1
  <2>3. \A m \in memberships : m.capsule = ControlPlane => m \in memberships'
    BY <1>3, <1>4
  <2> QED BY <2>2, <2>3, SomeAdmin, SeatKept
<1> QED BY <1>7, <1>8, <1>9, <1>10, <1>11, <1>12 DEF PolicyInv

-----------------------------------------------------------------------------
LEMMA InitPolicyInv == Init => PolicyInv
<1> SUFFICES ASSUME Init PROVE PolicyInv
  OBVIOUS
<1>1. /\ memberships = SeedMembership /\ bindings = SeedBinding
      /\ capsuleState = [c \in Capsule |-> IF c \in BaseCapsule THEN "active" ELSE "absent"]
  BY DEF Init
<1>2. \A m \in memberships : /\ m.principal \in Principal /\ m.capsule \in BaseCapsule
                              /\ m.capsule \in Capsule /\ ~ m.capsule.managed
  BY <1>1, SeedMembershipAssumption, ObjectAssumption DEF Capsule
<1>3. InactiveCapsulesEmpty
  BY <1>1, <1>2 DEF InactiveCapsulesEmpty, Active
<1>4. OneManagedRole /\ RolesBound
  BY <1>2 DEF OneManagedRole, RolesBound
<1>5. RoleBindingsFromDrafts
  BY <1>1, SeedBindingAssumption, ObjectAssumption DEF RoleBindingsFromDrafts
<1>6. AdminSurvives
  <2>1. PICK m \in memberships :
          /\ m.capsule = ControlPlane
          /\ Enabled(m.principal) /\ HomePersona[m.principal].id = "admin"
    BY <1>1, SeedMembershipAssumption
  <2>2. IsControlPlaneAdmin(m.principal)
    BY <1>3, <2>1 DEF IsControlPlaneAdmin, MembershipsOf, InactiveCapsulesEmpty
  <2> QED BY <1>2, <2>2 DEF AdminSurvives
<1>7. NoSodConflict
  <2>1. ASSUME NEW p \in Principal PROVE ~ SodViolated(WarehouseSodFacts(p))
    <3>1. LiveMemberships(p) = {m \in SeedMembership : m.principal = p /\ Enabled(p)}
      BY <1>1, <1>3, LiveIsMember
    <3> QED BY <1>1, <3>1, SeedSodAssumption DEF WarehouseSodFacts
  <2> QED BY <2>1 DEF NoSodConflict
<1> QED BY <1>3, <1>4, <1>5, <1>6, <1>7 DEF PolicyInv

LEMMA NextPolicyInv == StoreInv /\ PolicyInv /\ [Next]_vars => PolicyInv'
<1> SUFFICES ASSUME StoreInv, PolicyInv, [Next]_vars PROVE PolicyInv'
  OBVIOUS
<1>1. CASE JitStep \/ ClockStep \/ UNCHANGED vars
  <2>1. UNCHANGED <<capsuleState, memberships, bindings>>
    BY <1>1 DEF JitStep, ClockStep, vars, RequestJit, ApproveJit, DenyJit, RevokeJit, AdjustClock
  <2>2. NoSodConflict' /\ OneManagedRole' /\ InactiveCapsulesEmpty' /\ RolesBound' /\ RoleBindingsFromDrafts'
    BY <2>1, FewerRoles DEF PolicyInv, InactiveCapsulesEmpty, Active
  <2>3. AdminSurvives'
    BY <2>1, SomeAdmin, SeatKept
  <2> QED BY <2>2, <2>3 DEF PolicyInv
<1>2. CASE MembershipStep
  BY <1>2, AddMembershipPolicy, RemoveMembershipPolicy, OffboardPolicy
  DEF MembershipStep, RemoveMembership, RevokeMembershipForRecertification
<1>3. CASE RoleStep
  BY <1>3, ApplyRoleDraftPolicy DEF RoleStep
<1> QED BY <1>1, <1>2, <1>3 DEF Next

\* The invariant about roles, duties and administrators holds in every
\* reachable state of the store.
THEOREM PolicyInvariant == Spec => []PolicyInv
BY InitPolicyInv, NextPolicyInv, StoreInvariant, PTL DEF Spec

\* No sequence of operations leaves the control plane without an active
\* administrator.
THEOREM AlwaysAnAdmin == Spec => []AdminSurvives
<1>1. PolicyInv => AdminSurvives
  BY DEF PolicyInv
<1> QED BY <1>1, PolicyInvariant, PTL

\* No sequence of operations leaves anybody with duties the policy of
\* governance.ts forbids together.
THEOREM NeverConflictingDuties == Spec => []NoSodConflict
<1>1. PolicyInv => NoSodConflict
  BY DEF PolicyInv
<1> QED BY <1>1, PolicyInvariant, PTL

\* Nobody ever holds two roles of Role Studio.
THEOREM AtMostOneRole == Spec => []OneManagedRole
<1>1. PolicyInv => OneManagedRole
  BY DEF PolicyInv
<1> QED BY <1>1, PolicyInvariant, PTL

\* An inactive capsule has no members, so making it active again brings
\* nobody back.
THEOREM InactiveMeansEmpty == Spec => []InactiveCapsulesEmpty
<1>1. PolicyInv => InactiveCapsulesEmpty
  BY DEF PolicyInv
<1> QED BY <1>1, PolicyInvariant, PTL
===============================================================================
