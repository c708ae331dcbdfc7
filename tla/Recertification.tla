---------------------------- MODULE Recertification ----------------------------
(***************************************************************************)
(* Access-recertification campaigns of apps/api/src/app.ts on top of the   *)
(* store.  A campaign takes a snapshot of every live human membership; a   *)
(* reviewer attests or revokes each of them before the due date.  Nothing  *)
(* runs in the background: every handler first calls                       *)
(* refreshRecertifications, which closes items whose membership is gone    *)
(* and campaigns that are finished or overdue, and saves the result before *)
(* it goes on.  The handler reads the clock again for the decision, so the *)
(* refresh may have seen an earlier time than the rest of the handler.     *)
(*                                                                         *)
(* A handler that fails after its refresh leaves the refresh behind, which *)
(* is the step Refresh.                                                    *)
(***************************************************************************)
EXTENDS AccessStore

CONSTANTS
  CampaignName,   \* campaign names, in lower case
  Cadence,        \* admissible cadenceDays, in units of the clock
  MaxCampaigns    \* bound on the number of campaigns

VARIABLE campaigns   \* state.recertifications, oldest first

recertVars == <<now, capsuleState, memberships, bindings, jit, nextAssignment, campaigns>>

ASSUME CampaignAssumption == Cadence \subseteq Nat \ {0} /\ MaxCampaigns \in Nat

\* NoOne decides what the refresh closes: decidedBy "system".
Item ==
  [status : {"pending", "attested", "revoked", "removed"}, decidedBy : Principal \cup {NoOne}]

\* An item is keyed by the membership it took a snapshot of.  Its reason and
\* the audit event it points to are written once and read by no handler.
Campaign ==
  [name : CampaignName, createdAt : Nat, dueAt : Nat, cadence : Cadence,
   status : {"active", "completed", "expired"}, previous : Nat,
   items : UNION {[ms -> Item] : ms \in SUBSET Membership}]

Pending(c) == {m \in DOMAIN c.items : c.items[m].status = "pending"}

-----------------------------------------------------------------------------
\* refreshRecertifications

Live(m) == m \in LiveMemberships(m.principal)

\* Mutation: items are left for the reviewers to find out.
ItemsAsTheyAre(c) == c.items

\* Mutation: an item is given the status of a campaign.
ItemsExpired(c) ==
  [m \in DOMAIN c.items |->
     IF m \in Pending(c) /\ ~ Live(m) THEN [c.items[m] EXCEPT !.status = "expired"] ELSE c.items[m]]

CurrentItems(c) ==
  [m \in DOMAIN c.items |->
     IF m \in Pending(c) /\ ~ Live(m) THEN [c.items[m] EXCEPT !.status = "removed"] ELSE c.items[m]]

RefreshedCampaign(c, t) ==
  LET current == [c EXCEPT !.items = CurrentItems(c)]
  IN  [current EXCEPT !.status =
         IF Pending(current) = {} THEN "completed"
         ELSE IF c.dueAt <= t THEN "expired" ELSE "active"]

\* Mutation: closed campaigns are brought up to date as well.
EveryCampaign(c) == TRUE

NeedsRefresh(c) == c.status = "active"

Refreshed(t) ==
  [i \in DOMAIN campaigns |->
     IF NeedsRefresh(campaigns[i]) THEN RefreshedCampaign(campaigns[i], t) ELSE campaigns[i]]

\* Any handler of a reviewer, up to and including the refresh.
Refresh(actor) ==
  /\ ReviewerRole(actor) # "none"
  /\ campaigns' = Refreshed(now)
  /\ UNCHANGED vars

\* What the refresh at the start of a handler read, when the clock is at now
\* for the rest of it.
FirstReading == {now - 1, now} \cap Time

-----------------------------------------------------------------------------
\* createRecertificationCampaign
NewCampaign(name, dueAt, cadence, previous) ==
  LET snapshot == {m \in memberships :
                     m.principal \in Human /\ Live(m) /\ RecertificationRoles(m) # {}}
  IN  [name |-> name, createdAt |-> now, dueAt |-> dueAt, cadence |-> cadence,
       status |-> IF snapshot = {} THEN "completed" ELSE "active", previous |-> previous,
       items |-> [m \in snapshot |-> [status |-> "pending", decidedBy |-> NoOne]]]

CreateCampaign(actor, name, dueAt, cadence) ==
  /\ Len(campaigns) < MaxCampaigns
  /\ IsControlPlaneAdmin(actor)
  /\ ~ \E i \in DOMAIN campaigns : campaigns[i].status = "active" /\ campaigns[i].name = name
  /\ dueAt > now
  /\ campaigns' = Append(campaigns, NewCampaign(name, dueAt, cadence, 0))
  /\ UNCHANGED vars

\* Mutation: whether a campaign was renewed before is not asked.
ClosedIsRenewable(i, refreshed) == refreshed[i].status # "active"

Renewable(i, refreshed) ==
  /\ refreshed[i].status # "active"
  /\ \A k \in DOMAIN campaigns : refreshed[k].previous # i

RenewCampaign(actor, i, before) ==
  LET refreshed == Refreshed(before)
      prior     == refreshed[i]
  IN  /\ Len(campaigns) < MaxCampaigns
      /\ IsControlPlaneAdmin(actor)
      /\ Renewable(i, refreshed)
      /\ campaigns' = Append(refreshed,
           NewCampaign(prior.name, now + prior.cadence, prior.cadence, i))
      /\ UNCHANGED vars

\* Mutation: the last decision does not close the campaign.
StatusUnchanged(c) == c.status

StatusAfterDecision(c) == IF Pending(c) = {} THEN "completed" ELSE c.status

DecideItem(reviewer, i, m, status, refreshed) ==
  LET decided == [refreshed[i] EXCEPT !.items[m] = [status |-> status, decidedBy |-> reviewer]]
  IN  campaigns' = [refreshed EXCEPT ![i] = [decided EXCEPT !.status = StatusAfterDecision(decided)]]

\* Mutation: reviewers may decide about themselves.
EligibleBySeat(reviewer, m) == ReviewerRole(reviewer) \in RecertificationRoles(m)

\* The reviewer roles of an item are those of the membership it copied.
Eligible(reviewer, m) ==
  /\ ReviewerRole(reviewer) \in RecertificationRoles(m)
  /\ reviewer # m.principal

\* What attesting and revoking ask alike, after the refresh.
MayDecide(reviewer, i, m, refreshed) ==
  /\ refreshed[i].status = "active"
  /\ m \in Pending(refreshed[i])
  /\ Eligible(reviewer, m)

AttestItem(reviewer, i, m, before) ==
  /\ MayDecide(reviewer, i, m, Refreshed(before))
  /\ DecideItem(reviewer, i, m, "attested", Refreshed(before))
  /\ UNCHANGED vars

\* Mutation: the decision is recorded although the removal was refused.
RecordRevocation(reviewer, i, m, before) ==
  /\ MayDecide(reviewer, i, m, Refreshed(before))
  /\ DecideItem(reviewer, i, m, "revoked", Refreshed(before))
  /\ UNCHANGED vars

\* revokeMembershipForRecertification finds the membership by principal and
\* capsule and asks for the assignment of the snapshot.
RevokeItem(reviewer, i, m, before) ==
  /\ MayDecide(reviewer, i, m, Refreshed(before))
  /\ \E current \in MembershipsOf(m.principal) :
       /\ current.capsule = m.capsule /\ current.assignment = m.assignment
       /\ RevokeMembershipForRecertification(reviewer, current)
  /\ DecideItem(reviewer, i, m, "revoked", Refreshed(before))

-----------------------------------------------------------------------------
RecertInit == Init /\ campaigns = <<>>

CampaignStep ==
  \/ \E actor \in Principal : Refresh(actor)
  \/ \E actor \in Principal, name \in CampaignName, dueAt \in Time, cadence \in Cadence :
       CreateCampaign(actor, name, dueAt, cadence)
  \/ \E actor \in Principal, i \in DOMAIN campaigns, before \in FirstReading :
       RenewCampaign(actor, i, before)
  \/ \E reviewer \in Principal, i \in DOMAIN campaigns, before \in FirstReading :
       \E m \in DOMAIN campaigns[i].items :
         \/ AttestItem(reviewer, i, m, before)
         \/ RevokeItem(reviewer, i, m, before)

\* Recertification is the only caller of RevokeMembershipForRecertification.
OtherStep ==
  /\ \/ \E actor, p \in Principal : AddMembership(actor, p)
     \/ \E actor \in Principal, m \in memberships : RemoveMembership(actor, m)
     \/ \E actor \in Principal, c \in Capsule, cascade \in BOOLEAN :
          OffboardCapsule(actor, c, cascade)
     \/ JitStep \/ RoleStep \/ ClockStep
  /\ UNCHANGED campaigns

RecertNext == CampaignStep \/ OtherStep

RecertSpec == RecertInit /\ [][RecertNext]_recertVars

-----------------------------------------------------------------------------
(***************************************************************************)
(* Properties.                                                             *)
(***************************************************************************)

\* The campaigns have their type.
RecertTypeOK ==
  /\ DOMAIN campaigns = 1 .. Len(campaigns)
  /\ \A i \in DOMAIN campaigns :
       /\ DOMAIN campaigns[i].items \subseteq Membership
       /\ \A m \in DOMAIN campaigns[i].items : campaigns[i].items[m] \in Item
       /\ campaigns[i].status \in {"active", "completed", "expired"}

\* Every campaign passes the checks a restart makes of it: it is due after it
\* was made, it is finished exactly when nothing is pending, and the campaign
\* it renews exists (control-plane.ts: assertRecertificationCampaign).
CampaignsRestorable ==
  \A i \in DOMAIN campaigns :
    LET c == campaigns[i]
    IN  /\ c.dueAt > c.createdAt
        /\ c.status = "completed" => Pending(c) = {}
        /\ c.status = "active" => Pending(c) # {}
        /\ c.previous \in {0} \cup 1 .. i - 1

\* A membership that was revoked in a campaign is gone for good: neither a
\* re-activated capsule nor a later role brings that assignment back.
RevokedStaysRevoked ==
  \A i \in DOMAIN campaigns : \A m \in DOMAIN campaigns[i].items :
    campaigns[i].items[m].status = "revoked" =>
      \A held \in memberships : held.assignment # m.assignment

\* Whoever attests or revokes an item is somebody else who holds an eligible
\* reviewer role, and the membership decided about is the one in force: not
\* one that was removed, granted anew or given another persona since the
\* snapshot (app.ts: refresh before every decision).
DecisionsAreInformed ==
  [][\A i \in DOMAIN campaigns : \A m \in DOMAIN campaigns[i].items :
       /\ campaigns[i].items[m].status = "pending"
       /\ campaigns'[i].items[m].status \in {"attested", "revoked"}
       => /\ m \in memberships /\ Active(m.capsule)
          /\ campaigns'[i].items[m].decidedBy # m.principal
          /\ ReviewerRole(campaigns'[i].items[m].decidedBy) \in RecertificationRoles(m)]_recertVars

\* A closed campaign is evidence: nothing changes it any more.  It is renewed
\* at most once, however many administrators press the button and whatever
\* became of the renewal, and only after it was closed (app.ts: the refresh
\* skips closed campaigns, and renewing looks for a campaign that already
\* names this one).
ClosedCampaignsStay ==
  [][\A i \in DOMAIN campaigns :
       /\ i \in DOMAIN campaigns'
       /\ campaigns[i].status # "active" => campaigns'[i] = campaigns[i]
       /\ \A j, k \in DOMAIN campaigns' :
            campaigns'[j].previous = i /\ campaigns'[k].previous = i =>
              j = k /\ campaigns'[i].status # "active"]_recertVars

\* The campaign summary says overdueDecisionPolicy: "blocked" (app.ts:471):
\* no item is attested or revoked when the campaign is overdue.
OverdueDecisionsBlocked ==
  [][\A i \in DOMAIN campaigns : \A m \in DOMAIN campaigns[i].items :
       /\ campaigns[i].items[m].status = "pending"
       /\ campaigns'[i].items[m].status \in {"attested", "revoked"}
       => now < campaigns[i].dueAt]_recertVars
===============================================================================
