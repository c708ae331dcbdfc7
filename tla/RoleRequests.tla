------------------------------ MODULE RoleRequests ------------------------------
(***************************************************************************)
(* The role-request workflow of apps/api/src/app.ts on top of the store: a *)
(* role is asked for, approved by one data owner and one governance        *)
(* administrator who are neither the requester nor the target, and applied *)
(* by the approval that completes the pair.  The API offers no other way   *)
(* to reach applyRoleDraft (POST /api/roles/apply answers 409), so the     *)
(* steps of this module are those of AccessStore without RoleStep.         *)
(*                                                                         *)
(* Each action is one handler from the first line after authenticate()     *)
(* returns: nothing in it awaits, so it is atomic.                         *)
(***************************************************************************)
EXTENDS AccessStore

CONSTANTS
  RequestName,   \* draft names, trimmed and in lower case
  MaxRequests    \* bound on the number of requests

VARIABLE requests   \* state.roleRequests, oldest first

requestVars == <<now, capsuleState, memberships, bindings, jit, nextAssignment, requests>>

ASSUME RequestBoundAssumption == MaxRequests \in Nat

RequiredApprovals == {"data-owner", "governance-admin"}

Approval ==
  [reviewer : Principal, role : RequiredApprovals,
   decision : {"approved", "denied"}, decidedAt : Nat]

\* The applied role is a function of the draft, so it is not a field here.
RoleRequest ==
  [requester : Principal, principal : Principal, draft : Draft, name : RequestName,
   status : {"pending", "approved", "denied"}, createdAt : Nat,
   approvals : SUBSET Approval, reviewedAt : Nat \cup {NoTime},
   reviewer : Principal \cup {NoOne}]

-----------------------------------------------------------------------------
\* reviewerHasRole: unlike ReviewerRole, it can give one person both roles.
ReviewerHasRole(p, role) ==
  IF role = "governance-admin" THEN IsControlPlaneAdmin(p) ELSE HoldsOwnerSeat(p)

\* ensureIndependentRoleReviewers
IndependentReviewersExist(requester, target) ==
  LET candidates(role) ==
        {p \in Human \ {requester, target} : Enabled(p) /\ ReviewerHasRole(p, role)}
  IN  \E owner \in candidates("data-owner") :
        \E admin \in candidates("governance-admin") : admin # owner

SodRefuses(p, d) == SodViolated(DraftSodFacts(p, d))

RequestRole(actor, p, d, name) ==
  /\ Len(requests) < MaxRequests
  /\ Enabled(actor) /\ Enabled(p)
  /\ p = actor \/ IsControlPlaneAdmin(actor)
  /\ ~ IsControlPlaneAdmin(p)
  /\ ~ SodRefuses(p, d)
  /\ IndependentReviewersExist(actor, p)
  /\ ~ \E i \in DOMAIN requests :
         requests[i].status = "pending" /\ requests[i].principal = p /\ requests[i].name = name
  /\ requests' = Append(requests,
       [requester |-> actor, principal |-> p, draft |-> d, name |-> name,
        status |-> "pending", createdAt |-> now, approvals |-> {},
        reviewedAt |-> NoTime, reviewer |-> NoOne])
  /\ UNCHANGED vars

\* Mutation: only the target is kept from reviewing.
NotTheTarget(actor, i) == actor # requests[i].principal

IndependentReviewer(actor, i) ==
  actor # requests[i].requester /\ actor # requests[i].principal

NotYetReviewedBy(actor, i) ==
  \A a \in requests[i].approvals : a.reviewer # actor /\ a.role # ReviewerRole(actor)

\* Mutation: anybody who is signed in may review.
ReviewByAnyone(actor, i) ==
  /\ requests[i].status = "pending"
  /\ IndependentReviewer(actor, i)
  /\ NotYetReviewedBy(actor, i)

\* What approving and denying ask alike.
MayReview(actor, i) ==
  /\ ReviewerRole(actor) \in RequiredApprovals
  /\ requests[i].status = "pending"
  /\ IndependentReviewer(actor, i)
  /\ NotYetReviewedBy(actor, i)

Decision(actor, decision) ==
  [reviewer |-> actor, role |-> ReviewerRole(actor), decision |-> decision, decidedAt |-> now]

\* Mutation: earlier approvals count whatever became of their reviewers.
AnyApproval(approvals) == TRUE

NoStaleApproval(approvals) == \A a \in approvals : ReviewerHasRole(a.reviewer, a.role)

Complete(approvals) ==
  \A role \in RequiredApprovals :
    \E a \in approvals : a.role = role /\ a.decision = "approved"

Decided(i, approvals, status, actor) ==
  requests' = [requests EXCEPT ![i] =
    [requests[i] EXCEPT !.approvals = approvals, !.status = status,
                        !.reviewedAt = now, !.reviewer = actor]]

ApproveRequest(actor, i) ==
  LET after == requests[i].approvals \cup {Decision(actor, "approved")}
  IN  /\ MayReview(actor, i)
      /\ ~ IsControlPlaneAdmin(requests[i].principal)
      /\ ~ SodRefuses(requests[i].principal, requests[i].draft)
      /\ NoStaleApproval(after)
      /\ IF Complete(after)
         THEN /\ \E a \in after :
                   /\ a.role = "governance-admin"
                   /\ ApplyRoleDraft(a.reviewer, requests[i].principal, requests[i].draft)
              /\ Decided(i, after, "approved", actor)
         ELSE /\ requests' = [requests EXCEPT ![i] = [requests[i] EXCEPT !.approvals = after]]
              /\ UNCHANGED vars

DenyRequest(actor, i) ==
  /\ MayReview(actor, i)
  /\ Decided(i, requests[i].approvals \cup {Decision(actor, "denied")}, "denied", actor)
  /\ UNCHANGED vars

-----------------------------------------------------------------------------
RequestInit == Init /\ requests = <<>>

RequestStep ==
  \/ \E actor, p \in Principal, d \in Draft, name \in RequestName :
       RequestRole(actor, p, d, name)
  \/ \E actor \in Principal, i \in DOMAIN requests : ApproveRequest(actor, i)
  \/ \E actor \in Principal, i \in DOMAIN requests : DenyRequest(actor, i)

StoreStep == (MembershipStep \/ JitStep \/ ClockStep) /\ UNCHANGED requests

RequestNext == RequestStep \/ StoreStep

RequestSpec == RequestInit /\ [][RequestNext]_requestVars

-----------------------------------------------------------------------------
(***************************************************************************)
(* Properties.                                                             *)
(***************************************************************************)

RequestTypeOK == requests \in Seq(RoleRequest)

\* The review evidence of every request passes the checks a restart makes of
\* it, its dates aside: one decision per reviewer and per role, none by the
\* requester or the target, none but approvals while it is pending, both
\* approvals once it is approved (control-plane.ts: assertRoleRequest).
EvidenceRestorable ==
  \A i \in DOMAIN requests :
    LET r == requests[i]
    IN  /\ \A a, b \in r.approvals : a.role = b.role \/ a.reviewer = b.reviewer => a = b
        /\ \A a \in r.approvals : a.reviewer \notin {r.requester, r.principal}
        /\ r.status = "pending" =>
             /\ r.reviewedAt = NoTime /\ r.reviewer = NoOne
             /\ \A a \in r.approvals : a.decision = "approved"
        /\ r.status # "pending" => r.reviewedAt # NoTime /\ r.reviewer # NoOne
        /\ r.status = "approved" => Complete(r.approvals)
        /\ r.status = "denied" => \E a \in r.approvals : a.decision = "denied"

\* Somebody joins a Role Studio capsule, or changes persona in one, only at
\* the step that completes a request for exactly that role, and at that
\* moment two different people, neither of whom asked for it or receives it,
\* hold the two reviewer roles they approved it with (app.ts: the approve
\* handler and ensureIndependentRoleReviewers).
RolesAreApprovedByTwo ==
  [][\A m \in memberships' \ memberships :
       m.capsule.managed =>
         \E i \in DOMAIN requests :
           /\ requests[i].status = "pending" /\ requests'[i].status = "approved"
           /\ requests[i].principal = m.principal
           /\ m.capsule = ScopeCapsule(requests[i].draft)
           /\ m.persona = CapabilityPersona(requests[i].draft)
           /\ \E a, b \in requests'[i].approvals :
                /\ a.reviewer # b.reviewer
                /\ {a.reviewer, b.reviewer} \cap {m.principal, requests[i].requester} = {}
                /\ HoldsOwnerSeat(a.reviewer) /\ IsControlPlaneAdmin(b.reviewer)]_requestVars

\* A decided request is closed and an undecided one only gathers approvals.
RequestsOnlyAdvance ==
  [][\A i \in DOMAIN requests :
       /\ i \in DOMAIN requests'
       /\ requests[i].status # "pending" => requests'[i] = requests[i]
       /\ requests[i].approvals \subseteq requests'[i].approvals]_requestVars

\* control-plane.ts refuses to load a request reviewed before it was created:
\* "role request review cannot predate creation", and likewise its approvals.
ReviewsFollowCreation ==
  \A i \in DOMAIN requests :
    /\ \A a \in requests[i].approvals : a.decidedAt >= requests[i].createdAt
    /\ requests[i].status # "pending" => requests[i].reviewedAt >= requests[i].createdAt
===============================================================================
