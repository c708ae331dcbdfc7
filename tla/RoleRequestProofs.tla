--------------------------- MODULE RoleRequestProofs ---------------------------
(***************************************************************************)
(* The role-request workflow is a client of the store: every behaviour of  *)
(* RequestSpec is one of Spec, so what is proved of the store holds for    *)
(* it.  The evidence it keeps can always be loaded again, dates aside.     *)
(***************************************************************************)
EXTENDS RoleRequests, AccessStoreProofs

\* What one request must satisfy for EvidenceRestorable.
SoundEvidence(r) ==
  /\ \A a, b \in r.approvals : a.role = b.role \/ a.reviewer = b.reviewer => a = b
  /\ \A a \in r.approvals : a.reviewer \notin {r.requester, r.principal}
  /\ r.status = "pending" =>
       /\ r.reviewedAt = NoTime /\ r.reviewer = NoOne
       /\ \A a \in r.approvals : a.decision = "approved"
  /\ r.status # "pending" => r.reviewedAt # NoTime /\ r.reviewer # NoOne
  /\ r.status = "approved" => Complete(r.approvals)
  /\ r.status = "denied" => \E a \in r.approvals : a.decision = "denied"

RequestInv == StoreInv /\ RequestTypeOK /\ EvidenceRestorable

LEMMA EvidenceParts == EvidenceRestorable <=> \A i \in DOMAIN requests : SoundEvidence(requests[i])
BY DEF EvidenceRestorable, SoundEvidence

\* Every request in the list has its type.
LEMMA RequestTypes ==
  ASSUME RequestTypeOK
  PROVE  /\ DOMAIN requests = 1 .. Len(requests) /\ Len(requests) \in Nat
         /\ \A i \in DOMAIN requests : requests[i] \in RoleRequest
BY DEF RequestTypeOK

\* Replacing one request of the list.
LEMMA UpdateRequest ==
  ASSUME RequestTypeOK, NEW i \in DOMAIN requests, NEW r \in RoleRequest,
         requests' = [requests EXCEPT ![i] = r]
  PROVE  /\ requests' \in Seq(RoleRequest)
         /\ DOMAIN requests' = DOMAIN requests
         /\ requests'[i] = r
         /\ \A j \in DOMAIN requests : j # i => requests'[j] = requests[j]
BY DEF RequestTypeOK

\* The decision a reviewer records has its type, and it is the only one of
\* that reviewer and of that role.
LEMMA NewDecision ==
  ASSUME TypeOK, RequestTypeOK, NEW actor \in Principal, NEW i \in DOMAIN requests,
         MayReview(actor, i), SoundEvidence(requests[i]), NEW decision \in {"approved", "denied"}
  PROVE  /\ Decision(actor, decision) \in Approval
         /\ Decision(actor, decision).decision = decision
         /\ requests[i].approvals \cup {Decision(actor, decision)} \subseteq Approval
         /\ \A a, b \in requests[i].approvals \cup {Decision(actor, decision)} :
              a.role = b.role \/ a.reviewer = b.reviewer => a = b
         /\ \A a \in requests[i].approvals \cup {Decision(actor, decision)} :
              a.reviewer \notin {requests[i].requester, requests[i].principal}
<1>1. now \in Nat
  BY BoundAssumption DEF TypeOK, Time
<1>2. requests[i] \in RoleRequest
  BY RequestTypes
<1>3. Decision(actor, decision) \in Approval
  BY <1>1 DEF Decision, Approval, MayReview
<1>4. /\ Decision(actor, decision).reviewer = actor
      /\ Decision(actor, decision).role = ReviewerRole(actor)
      /\ Decision(actor, decision).decision = decision
  BY DEF Decision
<1>5. \A a \in requests[i].approvals : a.reviewer # actor /\ a.role # ReviewerRole(actor)
  BY DEF MayReview, NotYetReviewedBy
<1>6. actor \notin {requests[i].requester, requests[i].principal}
  BY DEF MayReview, IndependentReviewer
<1> HIDE DEF Decision
<1> QED BY <1>2, <1>3, <1>4, <1>5, <1>6 DEF SoundEvidence, RoleRequest

-----------------------------------------------------------------------------
\* The record Decided writes, and the one an incomplete approval writes.
ClosedBy(i, approvals, status, actor) ==
  [requests[i] EXCEPT !.approvals = approvals, !.status = status,
                      !.reviewedAt = now, !.reviewer = actor]

LEMMA ClosedRequest ==
  ASSUME TypeOK, RequestTypeOK, NEW i \in DOMAIN requests, NEW actor \in Principal,
         NEW approvals \in SUBSET Approval, NEW status \in {"approved", "denied"}
  PROVE  /\ ClosedBy(i, approvals, status, actor) \in RoleRequest
         /\ LET r == ClosedBy(i, approvals, status, actor)
            IN  /\ r.approvals = approvals /\ r.status = status
                /\ r.reviewedAt # NoTime /\ r.reviewer # NoOne
                /\ r.requester = requests[i].requester /\ r.principal = requests[i].principal
<1>1. now \in Nat /\ now # NoTime
  BY BoundAssumption DEF TypeOK, Time, NoTime
<1>2. requests[i] \in RoleRequest
  BY RequestTypes
<1>3. actor # NoOne
  BY PrincipalAssumption
<1>4. \A r \in RoleRequest :
        [r EXCEPT !.approvals = approvals, !.status = status] \in RoleRequest
  BY DEF RoleRequest
<1>5. \A r \in RoleRequest : [r EXCEPT !.reviewedAt = now, !.reviewer = actor] \in RoleRequest
  BY <1>1 DEF RoleRequest
<1>6. ClosedBy(i, approvals, status, actor) =
        [[requests[i] EXCEPT !.approvals = approvals, !.status = status]
           EXCEPT !.reviewedAt = now, !.reviewer = actor]
  BY DEF ClosedBy
<1>7. ClosedBy(i, approvals, status, actor) \in RoleRequest
  BY <1>2, <1>4, <1>5, <1>6
<1> QED BY <1>1, <1>2, <1>3, <1>7 DEF ClosedBy, RoleRequest

-----------------------------------------------------------------------------
(***************************************************************************)
(* One lemma per handler.                                                  *)
(***************************************************************************)

LEMMA RequestRoleStep ==
  ASSUME RequestInv, NEW actor \in Principal, NEW p \in Principal, NEW d \in Draft,
         NEW name \in RequestName, RequestRole(actor, p, d, name)
  PROVE  RequestTypeOK' /\ EvidenceRestorable'
<1> DEFINE r == [requester |-> actor, principal |-> p, draft |-> d, name |-> name,
        status |-> "pending", createdAt |-> now, approvals |-> {},
        reviewedAt |-> NoTime, reviewer |-> NoOne]
<1>1. r \in RoleRequest
  BY BoundAssumption DEF RequestInv, StoreInv, TypeOK, Time, RoleRequest
<1>2. SoundEvidence(r)
  BY DEF SoundEvidence
<1>3. requests' = Append(requests, r)
  BY DEF RequestRole
<1> HIDE DEF r
<1>4. /\ requests' \in Seq(RoleRequest)
      /\ \A i \in DOMAIN requests' : (i \in DOMAIN requests /\ requests'[i] = requests[i]) \/ requests'[i] = r
  BY <1>1, <1>3 DEF RequestInv, RequestTypeOK
<1>5. \A i \in DOMAIN requests' : SoundEvidence(requests'[i])
  BY <1>2, <1>4, EvidenceParts DEF RequestInv
<1> QED BY <1>4, <1>5 DEF RequestTypeOK, EvidenceRestorable, SoundEvidence

\* Closing a request with the evidence its status asks for.
LEMMA CloseRequest ==
  ASSUME RequestInv, NEW actor \in Principal, NEW i \in DOMAIN requests,
         NEW decision \in {"approved", "denied"}, MayReview(actor, i),
         LET after == requests[i].approvals \cup {Decision(actor, decision)}
         IN  /\ Decided(i, after, decision, actor)
             /\ decision = "approved" => Complete(after)
  PROVE  RequestTypeOK' /\ EvidenceRestorable'
<1> DEFINE after == requests[i].approvals \cup {Decision(actor, decision)}
           r == ClosedBy(i, after, decision, actor)
<1>1. TypeOK /\ RequestTypeOK /\ SoundEvidence(requests[i])
  BY EvidenceParts DEF RequestInv, StoreInv
<1>2. /\ after \subseteq Approval
      /\ \A a, b \in after : a.role = b.role \/ a.reviewer = b.reviewer => a = b
      /\ \A a \in after : a.reviewer \notin {requests[i].requester, requests[i].principal}
      /\ Decision(actor, decision).decision = decision
  BY <1>1, NewDecision
<1>3. r \in RoleRequest /\ r.approvals = after /\ r.status = decision
      /\ r.reviewedAt # NoTime /\ r.reviewer # NoOne
      /\ r.requester = requests[i].requester /\ r.principal = requests[i].principal
  BY <1>1, <1>2, ClosedRequest
<1>4. requests' = [requests EXCEPT ![i] = r]
  BY DEF Decided, ClosedBy
<1>5. decision = "denied" => \E a \in after : a.decision = "denied"
  BY <1>2
<1> HIDE DEF r, after
<1>6. SoundEvidence(r)
  BY <1>2, <1>3, <1>5 DEF SoundEvidence, after
<1>7. /\ requests' \in Seq(RoleRequest) /\ DOMAIN requests' = DOMAIN requests
      /\ requests'[i] = r /\ \A j \in DOMAIN requests : j # i => requests'[j] = requests[j]
  BY <1>1, <1>3, <1>4, UpdateRequest
<1>8. \A j \in DOMAIN requests' : SoundEvidence(requests'[j])
  BY <1>6, <1>7, EvidenceParts DEF RequestInv
<1> QED BY <1>7, <1>8 DEF RequestTypeOK, EvidenceRestorable, SoundEvidence

\* An approval that does not complete the pair.
LEMMA FirstApproval ==
  ASSUME RequestInv, NEW actor \in Principal, NEW i \in DOMAIN requests, MayReview(actor, i),
         requests' = [requests EXCEPT ![i] =
           [requests[i] EXCEPT !.approvals = requests[i].approvals \cup {Decision(actor, "approved")}]]
  PROVE  RequestTypeOK' /\ EvidenceRestorable'
<1> DEFINE after == requests[i].approvals \cup {Decision(actor, "approved")}
           r == [requests[i] EXCEPT !.approvals = after]
<1>1. TypeOK /\ RequestTypeOK /\ SoundEvidence(requests[i]) /\ requests[i] \in RoleRequest
  BY EvidenceParts, RequestTypes DEF RequestInv, StoreInv
<1>2. /\ after \subseteq Approval
      /\ \A a, b \in after : a.role = b.role \/ a.reviewer = b.reviewer => a = b
      /\ \A a \in after : a.reviewer \notin {requests[i].requester, requests[i].principal}
      /\ Decision(actor, "approved").decision = "approved"
  BY <1>1, NewDecision
<1>3. requests[i].status = "pending"
  BY DEF MayReview
<1>4. \A a \in after : a.decision = "approved"
  BY <1>1, <1>2, <1>3 DEF SoundEvidence
<1> HIDE DEF after
<1>5. /\ r \in RoleRequest /\ r.approvals = after /\ r.status = "pending"
      /\ r.reviewedAt = requests[i].reviewedAt /\ r.reviewer = requests[i].reviewer
      /\ r.requester = requests[i].requester /\ r.principal = requests[i].principal
  BY <1>1, <1>2, <1>3 DEF RoleRequest
<1>6. requests' = [requests EXCEPT ![i] = r]
  BY DEF after
<1> HIDE DEF r
<1>7. SoundEvidence(r)
  BY <1>1, <1>2, <1>3, <1>4, <1>5 DEF SoundEvidence
<1>8. /\ requests' \in Seq(RoleRequest) /\ DOMAIN requests' = DOMAIN requests
      /\ requests'[i] = r /\ \A j \in DOMAIN requests : j # i => requests'[j] = requests[j]
  BY <1>1, <1>5, <1>6, UpdateRequest
<1>9. \A j \in DOMAIN requests' : SoundEvidence(requests'[j])
  BY <1>7, <1>8, EvidenceParts DEF RequestInv
<1> QED BY <1>8, <1>9 DEF RequestTypeOK, EvidenceRestorable, SoundEvidence

-----------------------------------------------------------------------------
\* The approve handler changes the store only by applying the role of a
\* person and a draft of the request, in the name of one of its reviewers.
LEMMA ApprovalUsesStore ==
  ASSUME RequestInv, NEW actor \in Principal, NEW i \in DOMAIN requests, ApproveRequest(actor, i)
  PROVE  [Next]_vars
<1> DEFINE after == requests[i].approvals \cup {Decision(actor, "approved")}
<1>1. requests[i].principal \in Principal /\ requests[i].draft \in Draft
  BY RequestTypes DEF RequestInv, RoleRequest
<1>2. after \subseteq Approval
  <2>1. MayReview(actor, i)
    BY DEF ApproveRequest
  <2> QED BY <2>1, EvidenceParts, NewDecision DEF RequestInv, StoreInv
<1>3. CASE Complete(after)
  <2>1. PICK a \in after : ApplyRoleDraft(a.reviewer, requests[i].principal, requests[i].draft)
    BY <1>3 DEF ApproveRequest
  <2>2. a.reviewer \in Principal
    BY <1>2 DEF Approval
  <2>3. RoleStep
    BY <1>1, <2>1, <2>2 DEF RoleStep
  <2> QED BY <2>3 DEF Next
<1>4. CASE ~ Complete(after)
  BY <1>4 DEF ApproveRequest
<1> QED BY <1>3, <1>4

LEMMA StepUsesStore ==
  ASSUME RequestInv, [RequestNext]_requestVars
  PROVE  [Next]_vars
<1>1. CASE RequestStep
  <2>1. ASSUME NEW actor \in Principal, NEW p \in Principal, NEW d \in Draft,
               NEW name \in RequestName, RequestRole(actor, p, d, name)
        PROVE  UNCHANGED vars
    BY <2>1 DEF RequestRole
  <2>2. ASSUME NEW actor \in Principal, NEW i \in DOMAIN requests, DenyRequest(actor, i)
        PROVE  UNCHANGED vars
    BY <2>2 DEF DenyRequest
  <2> QED BY <1>1, <2>1, <2>2, ApprovalUsesStore DEF RequestStep
<1>2. CASE StoreStep
  BY <1>2 DEF StoreStep, Next
<1>3. CASE UNCHANGED requestVars
  BY <1>3 DEF requestVars, vars
<1> QED BY <1>1, <1>2, <1>3 DEF RequestNext

LEMMA NextRequestInv == RequestInv /\ [RequestNext]_requestVars => RequestInv'
<1> SUFFICES ASSUME RequestInv, [RequestNext]_requestVars PROVE RequestInv'
  OBVIOUS
<1>1. StoreInv'
  BY StepUsesStore, NextStoreInv DEF RequestInv
<1>2. CASE UNCHANGED requests
  BY <1>1, <1>2 DEF RequestInv, RequestTypeOK, EvidenceRestorable, Complete
<1>3. ASSUME NEW actor \in Principal, NEW i \in DOMAIN requests, ApproveRequest(actor, i)
      PROVE  RequestTypeOK' /\ EvidenceRestorable'
  <2>1. MayReview(actor, i)
    BY <1>3 DEF ApproveRequest
  <2>2. CASE Complete(requests[i].approvals \cup {Decision(actor, "approved")})
    BY <1>3, <2>1, <2>2, CloseRequest DEF ApproveRequest
  <2>3. CASE ~ Complete(requests[i].approvals \cup {Decision(actor, "approved")})
    BY <1>3, <2>1, <2>3, FirstApproval DEF ApproveRequest
  <2> QED BY <2>2, <2>3
<1>4. ASSUME NEW actor \in Principal, NEW i \in DOMAIN requests, DenyRequest(actor, i)
      PROVE  RequestTypeOK' /\ EvidenceRestorable'
  BY <1>4, CloseRequest DEF DenyRequest
<1>5. CASE RequestStep
  BY <1>1, <1>3, <1>4, <1>5, RequestRoleStep DEF RequestStep, RequestInv
<1> QED BY <1>2, <1>5 DEF RequestNext, StoreStep, requestVars

LEMMA InitRequestInv == RequestInit => RequestInv
BY InitStoreInv DEF RequestInit, RequestInv, RequestTypeOK, EvidenceRestorable

\* In every reachable state of the workflow the store satisfies its own
\* invariant, the requests have their type and their evidence is complete.
THEOREM RequestStoreInvariant == RequestSpec => []RequestInv
BY InitRequestInv, NextRequestInv, PTL DEF RequestSpec

\* The workflow never does to the store what the operations of lifecycle.ts
\* do not: it implements the specification of the store.
THEOREM RequestsUseStore == RequestSpec => Spec
<1>1. RequestInit => Init
  BY DEF RequestInit
<1>2. RequestInv /\ [RequestNext]_requestVars => [Next]_vars
  BY StepUsesStore
<1> QED BY <1>1, <1>2, RequestStoreInvariant, PTL DEF RequestSpec, Spec

\* A restart accepts the evidence of every request (control-plane.ts:
\* assertRoleRequest), the dates aside.
THEOREM EvidenceAlwaysRestorable == RequestSpec => []EvidenceRestorable
<1>1. RequestInv => EvidenceRestorable
  BY DEF RequestInv
<1> QED BY <1>1, RequestStoreInvariant, PTL

\* The requests have their type.
THEOREM RequestTypeCorrect == RequestSpec => []RequestTypeOK
<1>1. RequestInv => RequestTypeOK
  BY DEF RequestInv
<1> QED BY <1>1, RequestStoreInvariant, PTL

\* The store under the workflow can always be loaded again.
THEOREM RequestsKeepStoreRestorable == RequestSpec => []Restorable
BY RequestsUseStore, AlwaysRestorable

-----------------------------------------------------------------------------
(***************************************************************************)
(* What a step may do.                                                     *)
(***************************************************************************)

\* A handler that decides about request i only adds to its approvals, and
\* only while it is pending.
LEMMA OneRequestAdvances ==
  ASSUME RequestTypeOK, NEW i \in DOMAIN requests, requests[i].status = "pending",
         NEW r, requests' = [requests EXCEPT ![i] = r], requests[i].approvals \subseteq r.approvals
  PROVE  \A j \in DOMAIN requests :
           /\ j \in DOMAIN requests'
           /\ requests[j].status # "pending" => requests'[j] = requests[j]
           /\ requests[j].approvals \subseteq requests'[j].approvals
BY DEF RequestTypeOK

\* What the record an approval or denial writes has as its approvals.
LEMMA ApprovalsWritten ==
  ASSUME RequestTypeOK, NEW i \in DOMAIN requests, NEW approvals, NEW status, NEW actor
  PROVE  /\ [requests[i] EXCEPT !.approvals = approvals].approvals = approvals
         /\ ClosedBy(i, approvals, status, actor).approvals = approvals
         /\ ClosedBy(i, approvals, status, actor).status = status
         /\ Decided(i, approvals, status, actor)
              <=> requests' = [requests EXCEPT ![i] = ClosedBy(i, approvals, status, actor)]
<1>1. requests[i] \in RoleRequest
  BY RequestTypes
<1> QED BY <1>1 DEF RoleRequest, ClosedBy, Decided

\* In every step of the workflow decided requests stay and approvals only
\* accumulate.
THEOREM RequestsAdvance == RequestSpec => RequestsOnlyAdvance
<1> DEFINE Kept(i) ==
      /\ i \in DOMAIN requests'
      /\ requests[i].status # "pending" => requests'[i] = requests[i]
      /\ requests[i].approvals \subseteq requests'[i].approvals
    Advance == \A i \in DOMAIN requests : Kept(i)
<1>1. ASSUME RequestInv, RequestNext PROVE Advance
  <2>1. RequestTypeOK
    BY <1>1 DEF RequestInv
  <2>2. CASE UNCHANGED requests
    BY <2>2
  <2>3. ASSUME NEW r, requests' = Append(requests, r)
        PROVE  Advance
    BY <2>1, <2>3 DEF RequestTypeOK
  <2>4. ASSUME NEW actor \in Principal, NEW i \in DOMAIN requests, ApproveRequest(actor, i)
        PROVE  Advance
    <3> DEFINE after == requests[i].approvals \cup {Decision(actor, "approved")}
    <3>1. requests[i].status = "pending"
      BY <2>4 DEF ApproveRequest, MayReview
    <3>2. \/ requests' = [requests EXCEPT ![i] = ClosedBy(i, after, "approved", actor)]
          \/ requests' = [requests EXCEPT ![i] = [requests[i] EXCEPT !.approvals = after]]
      BY <2>1, <2>4, ApprovalsWritten DEF ApproveRequest
    <3>3. /\ ClosedBy(i, after, "approved", actor).approvals = after
          /\ [requests[i] EXCEPT !.approvals = after].approvals = after
      BY <2>1, ApprovalsWritten
    <3>4. requests[i].approvals \subseteq after
      OBVIOUS
    <3> HIDE DEF after
    <3> QED BY <2>1, <3>1, <3>2, <3>3, <3>4, OneRequestAdvances
  <2>5. ASSUME NEW actor \in Principal, NEW i \in DOMAIN requests, DenyRequest(actor, i)
        PROVE  Advance
    <3> DEFINE after == requests[i].approvals \cup {Decision(actor, "denied")}
    <3>1. requests[i].status = "pending"
      BY <2>5 DEF DenyRequest, MayReview
    <3>2. requests' = [requests EXCEPT ![i] = ClosedBy(i, after, "denied", actor)]
      BY <2>1, <2>5, ApprovalsWritten DEF DenyRequest
    <3>3. ClosedBy(i, after, "denied", actor).approvals = after
      BY <2>1, ApprovalsWritten
    <3>4. requests[i].approvals \subseteq after
      OBVIOUS
    <3> HIDE DEF after
    <3> QED BY <2>1, <3>1, <3>2, <3>3, <3>4, OneRequestAdvances
  <2> HIDE DEF Advance
  <2> QED BY <1>1, <2>2, <2>3, <2>4, <2>5 DEF RequestNext, RequestStep, StoreStep, RequestRole
<1>2. RequestInv /\ [RequestNext]_requestVars =>
        [\A i \in DOMAIN requests : Kept(i)]_requestVars
  BY <1>1
<1> QED BY <1>2, RequestStoreInvariant, PTL DEF RequestSpec, RequestsOnlyAdvance

\* Who joins a capsule of Role Studio does so by applyRoleDraft, in the
\* capsule and with the persona of the draft.
LEMMA NewRoleMembers ==
  ASSUME NEW actor, NEW p, NEW d, ApplyRoleDraft(actor, p, d), TypeOK,
         NEW m \in memberships' \ memberships
  PROVE  m.principal = p /\ m.capsule = ScopeCapsule(d) /\ m.persona = CapabilityPersona(d)
<1>1. Retained(p, d) \subseteq memberships /\ memberships \subseteq Membership
  BY DEF Retained, TypeOK
<1>2. CASE m = [principal |-> p, capsule |-> ScopeCapsule(d),
                persona |-> CapabilityPersona(d), assignment |-> nextAssignment]
  BY <1>2
<1>3. CASE \E old \in Retained(p, d) :
             /\ old.principal = p /\ old.capsule = ScopeCapsule(d)
             /\ m = [old EXCEPT !.persona = CapabilityPersona(d)]
  BY <1>1, <1>3 DEF Membership
<1> QED BY <1>1, <1>2, <1>3 DEF ApplyRoleDraft, JoinScope

\* No other operation makes anybody a member of a capsule of Role Studio.
LEMMA OtherStepsAddNoRole ==
  ASSUME MembershipStep \/ JitStep \/ ClockStep \/ UNCHANGED vars,
         NEW m \in memberships' \ memberships
  PROVE  ~ m.capsule.managed
<1>1. ASSUME NEW actor \in Principal, NEW p \in Principal, AddMembership(actor, p)
      PROVE  ~ m.capsule.managed
  BY <1>1, ObjectAssumption DEF AddMembership
<1>2. CASE memberships' \subseteq memberships
  BY <1>2
<1> QED BY <1>1, <1>2
        DEF MembershipStep, JitStep, ClockStep, vars, RemoveMembership, RemoveMembershipUnchecked,
            RevokeMembershipForRecertification, OffboardCapsule, RequestJit, ApproveJit, DenyJit,
            RevokeJit, AdjustClock

\* Nobody receives a role without the current approval of two other people,
\* one for each reviewer role.
THEOREM RolesNeedTwo == RequestSpec => RolesAreApprovedByTwo
<1> DEFINE Approved(m) ==
      \E i \in DOMAIN requests :
        /\ requests[i].status = "pending" /\ requests'[i].status = "approved"
        /\ requests[i].principal = m.principal
        /\ m.capsule = ScopeCapsule(requests[i].draft)
        /\ m.persona = CapabilityPersona(requests[i].draft)
        /\ \E a, b \in requests'[i].approvals :
             /\ a.reviewer # b.reviewer
             /\ {a.reviewer, b.reviewer} \cap {m.principal, requests[i].requester} = {}
             /\ HoldsOwnerSeat(a.reviewer) /\ IsControlPlaneAdmin(b.reviewer)
<1>1. ASSUME RequestInv, RequestNext, NEW m \in memberships' \ memberships, m.capsule.managed
      PROVE  Approved(m)
  <2>1. TypeOK /\ RequestTypeOK
    BY <1>1 DEF RequestInv, StoreInv
  <2>2. ~(MembershipStep \/ JitStep \/ ClockStep \/ UNCHANGED vars)
    BY <1>1, OtherStepsAddNoRole
  <2>3. PICK actor \in Principal, i \in DOMAIN requests : ApproveRequest(actor, i)
    BY <1>1, <2>2 DEF RequestNext, RequestStep, StoreStep, RequestRole, DenyRequest
  <2> DEFINE after == requests[i].approvals \cup {Decision(actor, "approved")}
  <2>4. /\ MayReview(actor, i) /\ NoStaleApproval(after)
        /\ requests[i].status = "pending"
    BY <2>3 DEF ApproveRequest, MayReview
  <2>5. Complete(after) /\ Decided(i, after, "approved", actor)
    BY <2>2, <2>3 DEF ApproveRequest
  <2>6. /\ \A a, b \in after : a.role = b.role \/ a.reviewer = b.reviewer => a = b
        /\ \A a \in after : a.reviewer \notin {requests[i].requester, requests[i].principal}
    BY <1>1, <2>1, <2>4, EvidenceParts, NewDecision DEF RequestInv
  <2>7. requests'[i].approvals = after /\ requests'[i].status = "approved"
    BY <2>1, <2>5, ApprovalsWritten DEF RequestTypeOK
  <2>8. /\ m.principal = requests[i].principal
        /\ m.capsule = ScopeCapsule(requests[i].draft)
        /\ m.persona = CapabilityPersona(requests[i].draft)
    <3>1. PICK a \in after : ApplyRoleDraft(a.reviewer, requests[i].principal, requests[i].draft)
      BY <2>3, <2>5 DEF ApproveRequest
    <3> QED BY <1>1, <2>1, <3>1, NewRoleMembers
  <2> HIDE DEF after
  <2>9. PICK a \in after : a.role = "data-owner"
    BY <2>5 DEF Complete, RequiredApprovals
  <2>10. PICK b \in after : b.role = "governance-admin"
    BY <2>5 DEF Complete, RequiredApprovals
  <2>11. HoldsOwnerSeat(a.reviewer) /\ IsControlPlaneAdmin(b.reviewer)
    BY <2>4, <2>9, <2>10 DEF NoStaleApproval, ReviewerHasRole
  <2>12. a.reviewer # b.reviewer
    BY <2>6, <2>9, <2>10
  <2> QED BY <2>4, <2>6, <2>7, <2>8, <2>9, <2>10, <2>11, <2>12
<1>2. RequestInv /\ [RequestNext]_requestVars =>
        [\A m \in memberships' \ memberships : m.capsule.managed => Approved(m)]_requestVars
  BY <1>1
<1> QED BY <1>2, RequestStoreInvariant, PTL DEF RequestSpec, RolesAreApprovedByTwo
===============================================================================
