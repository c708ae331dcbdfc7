------------------------- MODULE RecertificationProofs -------------------------
(***************************************************************************)
(* Proofs about Recertification.  Every step moves each campaign in one of *)
(* a few ways (CampaignMove); the properties follow from that and from the *)
(* invariant of the store, which the campaigns use as a client.            *)
(***************************************************************************)
EXTENDS Recertification, AccessStoreProofs

CampaignTypeOK == campaigns \in Seq(Campaign)

\* A campaign is finished exactly when its status says so.
StatusSound(c) ==
  /\ c.status = "completed" => Pending(c) = {}
  /\ c.status = "active" => Pending(c) # {}

LEMMA ItemsFacts ==
  ASSUME NEW c \in Campaign
  PROVE  /\ DOMAIN c.items \subseteq Membership
         /\ c.items \in [DOMAIN c.items -> Item]
<1>1. PICK ms \in SUBSET Membership : c.items \in [ms -> Item]
  BY DEF Campaign
<1> QED BY <1>1

Updated(c, f, s) == [[c EXCEPT !.items = f] EXCEPT !.status = s]

\* Writing items, and then a status, keeps a campaign a campaign.
LEMMA CampaignWith ==
  ASSUME NEW c \in Campaign, NEW f \in [DOMAIN c.items -> Item],
         NEW s \in {"active", "completed", "expired"},
         NEW d, d = Updated(c, f, s)
  PROVE  /\ d \in Campaign
         /\ d.items = f /\ d.status = s
         /\ d.name = c.name /\ d.createdAt = c.createdAt /\ d.dueAt = c.dueAt
         /\ d.cadence = c.cadence /\ d.previous = c.previous
<1>1. DOMAIN c.items \in SUBSET Membership
  BY ItemsFacts
<1>2. f \in UNION {[ms -> Item] : ms \in SUBSET Membership}
  BY <1>1
<1> DEFINE e == [c EXCEPT !.items = f]
<1>3. /\ e \in Campaign /\ e.items = f
      /\ e.name = c.name /\ e.createdAt = c.createdAt /\ e.dueAt = c.dueAt
      /\ e.cadence = c.cadence /\ e.previous = c.previous
  BY <1>2 DEF Campaign
<1> HIDE DEF e
<1>4. d = [e EXCEPT !.status = s]
  BY DEF e, Updated
<1>5. /\ d \in Campaign /\ d.items = e.items /\ d.status = s
      /\ d.name = e.name /\ d.createdAt = e.createdAt /\ d.dueAt = e.dueAt
      /\ d.cadence = e.cadence /\ d.previous = e.previous
  BY <1>3, <1>4 DEF Campaign
<1> QED BY <1>3, <1>5

-----------------------------------------------------------------------------
(***************************************************************************)
(* What the refresh and a decision do to one campaign.                     *)
(***************************************************************************)

LEMMA RefreshFacts ==
  ASSUME NEW c \in Campaign, NEW t
  PROVE  LET d == RefreshedCampaign(c, t)
         IN  /\ d \in Campaign
             /\ d.name = c.name /\ d.createdAt = c.createdAt /\ d.dueAt = c.dueAt
             /\ d.cadence = c.cadence /\ d.previous = c.previous
             /\ DOMAIN d.items = DOMAIN c.items
             /\ StatusSound(d)
             /\ \A m \in Pending(d) : Live(m)
             /\ \A m \in DOMAIN c.items :
                  \/ d.items[m] = c.items[m]
                  \/ c.items[m].status = "pending" /\ d.items[m].status = "removed"
<1> DEFINE f == CurrentItems(c)
           current == [c EXCEPT !.items = f]
           s == IF Pending(current) = {} THEN "completed"
                ELSE IF c.dueAt <= t THEN "expired" ELSE "active"
           d == [current EXCEPT !.status = s]
<1>1. \A x \in Item : [x EXCEPT !.status = "removed"] \in Item
  BY DEF Item
<1>2. f \in [DOMAIN c.items -> Item]
  BY <1>1, ItemsFacts DEF CurrentItems
<1>3. \A m \in DOMAIN c.items : f[m] # c.items[m] =>
        /\ c.items[m].status = "pending" /\ ~ Live(m)
        /\ f[m] = [c.items[m] EXCEPT !.status = "removed"]
  BY DEF CurrentItems, Pending
<1>4. \A m \in DOMAIN c.items :
        \/ f[m] = c.items[m]
        \/ c.items[m].status = "pending" /\ f[m].status = "removed"
  BY <1>3, ItemsFacts DEF Item
<1>5. \A m \in DOMAIN c.items : f[m].status = "pending" => Live(m)
  <2> SUFFICES ASSUME NEW m \in DOMAIN c.items, f[m].status = "pending", ~ Live(m) PROVE FALSE
    OBVIOUS
  <2>1. c.items[m] \in Item
    BY ItemsFacts
  <2>2. c.items[m].status = "pending"
    BY <1>4
  <2>3. f[m] = [c.items[m] EXCEPT !.status = "removed"]
    BY <2>2 DEF CurrentItems, Pending
  <2> QED BY <2>1, <2>3 DEF Item
<1>6. s \in {"active", "completed", "expired"}
  OBVIOUS
<1>7. current.items = f
  BY DEF Campaign
<1>8. d = RefreshedCampaign(c, t)
  BY DEF RefreshedCampaign
<1>9. /\ d \in Campaign /\ d.items = f /\ d.status = s
      /\ d.name = c.name /\ d.createdAt = c.createdAt /\ d.dueAt = c.dueAt
      /\ d.cadence = c.cadence /\ d.previous = c.previous
  <2> HIDE DEF f, s
  <2>1. d = Updated(c, f, s)
    BY DEF Updated
  <2> HIDE DEF current, d
  <2> QED BY <1>2, <1>6, <2>1, CampaignWith
<1>10. Pending(d) = Pending(current)
  <2> HIDE DEF f, current, d
  <2> QED BY <1>7, <1>9 DEF Pending
<1>11. StatusSound(d)
  <2> HIDE DEF f, current, d
  <2> QED BY <1>9, <1>10 DEF StatusSound
<1> HIDE DEF f, current, s, d
<1>12. /\ DOMAIN d.items = DOMAIN c.items
       /\ \A m \in Pending(d) : Live(m)
  BY <1>2, <1>5, <1>9 DEF Pending
<1> QED BY <1>4, <1>8, <1>9, <1>11, <1>12

\* The campaign after a decision.
AfterDecision(c, m, status, reviewer) ==
  LET decided == [c EXCEPT !.items[m] = [status |-> status, decidedBy |-> reviewer]]
  IN  [decided EXCEPT !.status = StatusAfterDecision(decided)]

LEMMA DecideFacts ==
  ASSUME NEW c \in Campaign, c.status = "active", NEW m \in Pending(c),
         NEW reviewer \in Principal, NEW status \in {"attested", "revoked"}
  PROVE  LET d == AfterDecision(c, m, status, reviewer)
         IN  /\ d \in Campaign
             /\ d.createdAt = c.createdAt /\ d.dueAt = c.dueAt /\ d.previous = c.previous
             /\ DOMAIN d.items = DOMAIN c.items
             /\ StatusSound(d)
             /\ d.items[m].status = status /\ d.items[m].decidedBy = reviewer
             /\ \A x \in DOMAIN c.items : x # m => d.items[x] = c.items[x]
<1> DEFINE new == [status |-> status, decidedBy |-> reviewer]
           f == [c.items EXCEPT ![m] = new]
           decided == [c EXCEPT !.items = f]
           s == StatusAfterDecision(decided)
           d == [decided EXCEPT !.status = s]
<1>1. new \in Item /\ new.status = status /\ new.decidedBy = reviewer
  BY DEF Item
<1>2. m \in DOMAIN c.items
  BY DEF Pending
<1>3. [c EXCEPT !.items[m] = new] = decided
  BY DEF Campaign
<1>4. /\ f \in [DOMAIN c.items -> Item] /\ f[m] = new
      /\ \A x \in DOMAIN c.items : x # m => f[x] = c.items[x]
  <2> HIDE DEF new
  <2> QED BY <1>1, <1>2, ItemsFacts
<1>5. decided.items = f /\ decided.status = "active"
  BY DEF Campaign
<1>6. s = IF Pending(decided) = {} THEN "completed" ELSE "active"
  BY <1>5 DEF StatusAfterDecision
<1> HIDE DEF s, f, new
<1>7. s \in {"active", "completed", "expired"}
  BY <1>6
<1>8. /\ d \in Campaign /\ d.items = f /\ d.status = s
      /\ d.createdAt = c.createdAt /\ d.dueAt = c.dueAt /\ d.previous = c.previous
  <2>1. d = Updated(c, f, s)
    BY DEF Updated
  <2> HIDE DEF decided, d
  <2> QED BY <1>4, <1>7, <2>1, CampaignWith
<1>9. Pending(d) = Pending(decided)
  <2> HIDE DEF d, decided
  <2> QED BY <1>5, <1>8 DEF Pending
<1> HIDE DEF d, decided
<1>10. StatusSound(d)
  BY <1>6, <1>8, <1>9 DEF StatusSound
<1>11. /\ d.items[m].status = status /\ d.items[m].decidedBy = reviewer
       /\ DOMAIN d.items = DOMAIN c.items
       /\ \A x \in DOMAIN c.items : x # m => d.items[x] = c.items[x]
  BY <1>1, <1>4, <1>8
<1>12. d = AfterDecision(c, m, status, reviewer)
  BY <1>3 DEF AfterDecision, d, s, new
<1> QED BY <1>8, <1>10, <1>11, <1>12

-----------------------------------------------------------------------------
(***************************************************************************)
(* How a step moves the campaigns.                                         *)
(***************************************************************************)

\* A pending item that was decided: by somebody eligible, about a membership
\* in force, and a revoked assignment is gone after the step.
ItemDecided(m, before, after) ==
  /\ before.status = "pending" /\ after.status \in {"attested", "revoked"}
  /\ Live(m) /\ Eligible(after.decidedBy, m)
  /\ after.status = "revoked" => \A held \in memberships' : held.assignment # m.assignment

ItemMove(m, before, after) ==
  \/ after = before
  \/ before.status = "pending" /\ after.status = "removed"
  \/ ItemDecided(m, before, after)

CampaignMove(c, d) ==
  /\ d \in Campaign
  /\ d.createdAt = c.createdAt /\ d.dueAt = c.dueAt /\ d.previous = c.previous
  /\ DOMAIN d.items = DOMAIN c.items
  /\ c.status # "active" => d = c
  /\ d = c \/ StatusSound(d)
  /\ \A m \in DOMAIN c.items : ItemMove(m, c.items[m], d.items[m])

NewlyMade(c, k) ==
  /\ c \in Campaign /\ c.dueAt > c.createdAt /\ StatusSound(c)
  /\ c.previous \in 0 .. k - 1
  /\ \A i \in DOMAIN campaigns : c.previous = i =>
       /\ campaigns'[i].status # "active"
       /\ \A j \in DOMAIN campaigns : campaigns[j].previous # i
  /\ DOMAIN c.items \subseteq memberships
  /\ \A m \in DOMAIN c.items : c.items[m].status = "pending"

CampaignsMove ==
  /\ campaigns' \in Seq(Campaign)
  /\ \A i \in DOMAIN campaigns : i \in DOMAIN campaigns' /\ CampaignMove(campaigns[i], campaigns'[i])
  /\ \A k \in DOMAIN campaigns' \ DOMAIN campaigns : NewlyMade(campaigns'[k], k)
  /\ \A j, k \in DOMAIN campaigns' \ DOMAIN campaigns : j = k

\* The refresh of all campaigns moves each of them and adds none.
LEMMA RefreshedFacts ==
  ASSUME CampaignTypeOK, NEW t
  PROVE  /\ Refreshed(t) \in Seq(Campaign)
         /\ DOMAIN Refreshed(t) = DOMAIN campaigns /\ Len(Refreshed(t)) = Len(campaigns)
         /\ \A i \in DOMAIN campaigns :
              /\ CampaignMove(campaigns[i], Refreshed(t)[i])
              /\ Refreshed(t)[i].status = "active" =>
                   /\ campaigns[i].status = "active"
                   /\ \A m \in Pending(Refreshed(t)[i]) : Live(m)
<1>1. /\ campaigns \in Seq(Campaign) /\ Len(campaigns) \in Nat
      /\ DOMAIN campaigns = 1 .. Len(campaigns)
      /\ \A i \in DOMAIN campaigns : campaigns[i] \in Campaign
  BY DEF CampaignTypeOK
<1>2. DOMAIN Refreshed(t) = DOMAIN campaigns
  BY DEF Refreshed
<1>3. ASSUME NEW i \in DOMAIN campaigns
      PROVE  /\ Refreshed(t)[i] \in Campaign
             /\ CampaignMove(campaigns[i], Refreshed(t)[i])
             /\ Refreshed(t)[i].status = "active" =>
                  /\ campaigns[i].status = "active"
                  /\ \A m \in Pending(Refreshed(t)[i]) : Live(m)
  <2>1. campaigns[i] \in Campaign
    BY <1>1
  <2>2. CASE campaigns[i].status = "active"
    <3>1. Refreshed(t)[i] = RefreshedCampaign(campaigns[i], t)
      BY <2>2 DEF Refreshed, NeedsRefresh
    <3> QED BY <2>1, <2>2, <3>1, RefreshFacts DEF CampaignMove, ItemMove
  <2>3. CASE campaigns[i].status # "active"
    <3>1. Refreshed(t)[i] = campaigns[i]
      BY <2>3 DEF Refreshed, NeedsRefresh
    <3> QED BY <2>1, <2>3, <3>1 DEF CampaignMove, ItemMove
  <2> QED BY <2>2, <2>3
<1>4. Refreshed(t) \in [1 .. Len(campaigns) -> Campaign]
  BY <1>1, <1>2, <1>3 DEF Refreshed
<1>5. Refreshed(t) \in Seq(Campaign) /\ Len(Refreshed(t)) = Len(campaigns)
  BY <1>1, <1>4
<1> QED BY <1>2, <1>3, <1>5

\* createRecertificationCampaign makes a campaign that a restart accepts.
LEMMA NewCampaignFacts ==
  ASSUME TypeOK, NEW name \in CampaignName, NEW dueAt \in Nat, NEW cadence \in Cadence,
         NEW previous \in Nat, dueAt > now
  PROVE  LET c == NewCampaign(name, dueAt, cadence, previous)
         IN  /\ c \in Campaign /\ c.dueAt > c.createdAt /\ StatusSound(c)
             /\ c.previous = previous
             /\ DOMAIN c.items \subseteq memberships
             /\ \A m \in DOMAIN c.items : c.items[m].status = "pending"
<1> DEFINE snapshot == {m \in memberships :
                         m.principal \in Human /\ Live(m) /\ RecertificationRoles(m) # {}}
           f == [m \in snapshot |-> [status |-> "pending", decidedBy |-> NoOne]]
           s == IF snapshot = {} THEN "completed" ELSE "active"
           c == [name |-> name, createdAt |-> now, dueAt |-> dueAt, cadence |-> cadence,
                 status |-> s, previous |-> previous, items |-> f]
<1>1. c = NewCampaign(name, dueAt, cadence, previous)
  BY DEF NewCampaign
<1>2. snapshot \subseteq memberships /\ snapshot \in SUBSET Membership /\ now \in Nat
  BY BoundAssumption DEF TypeOK, Time
<1> HIDE DEF snapshot
<1>3. /\ f \in [snapshot -> Item] /\ DOMAIN f = snapshot
      /\ \A m \in snapshot : f[m].status = "pending"
  BY DEF Item
<1>4. f \in UNION {[ms -> Item] : ms \in SUBSET Membership}
  BY <1>2, <1>3
<1>5. s \in {"active", "completed", "expired"} /\ (s = "completed" <=> snapshot = {})
  OBVIOUS
<1> HIDE DEF f, s
<1>6. c \in Campaign /\ c.items = f /\ c.status = s /\ c.previous = previous
  BY <1>2, <1>4, <1>5 DEF Campaign
<1>7. c.dueAt > c.createdAt
  OBVIOUS
<1> HIDE DEF c
<1>8. Pending(c) = snapshot
  BY <1>3, <1>6 DEF Pending
<1>9. StatusSound(c)
  BY <1>5, <1>6, <1>8 DEF StatusSound, s
<1> QED BY <1>1, <1>2, <1>3, <1>6, <1>7, <1>9

-----------------------------------------------------------------------------
\* A new campaign at the end of the list, the others as before has them.
LEMMA AppendMove ==
  ASSUME CampaignTypeOK, NEW before \in Seq(Campaign), NEW new \in Campaign,
         Len(before) = Len(campaigns), campaigns' = Append(before, new),
         \A i \in DOMAIN campaigns : CampaignMove(campaigns[i], before[i]),
         NewlyMade(new, Len(campaigns) + 1)
  PROVE  CampaignsMove
<1>1. /\ DOMAIN before = 1 .. Len(campaigns) /\ DOMAIN campaigns = 1 .. Len(campaigns)
      /\ Len(campaigns) \in Nat
  BY DEF CampaignTypeOK
<1>2. /\ campaigns' \in Seq(Campaign)
      /\ DOMAIN campaigns' = 1 .. Len(campaigns) + 1
      /\ \A i \in DOMAIN campaigns : campaigns'[i] = before[i]
      /\ campaigns'[Len(campaigns) + 1] = new
  BY <1>1
<1>3. \A i \in DOMAIN campaigns : i \in DOMAIN campaigns' /\ CampaignMove(campaigns[i], campaigns'[i])
  BY <1>1, <1>2
<1>4. \A k \in DOMAIN campaigns' \ DOMAIN campaigns : NewlyMade(campaigns'[k], k)
  BY <1>1, <1>2
<1>5. \A j, k \in DOMAIN campaigns' \ DOMAIN campaigns : j = k
  BY <1>1, <1>2
<1> QED BY <1>2, <1>3, <1>4, <1>5 DEF CampaignsMove

LEMMA CreateMove ==
  ASSUME TypeOK, CampaignTypeOK, NEW actor \in Principal, NEW name \in CampaignName,
         NEW dueAt \in Time, NEW cadence \in Cadence,
         CreateCampaign(actor, name, dueAt, cadence)
  PROVE  CampaignsMove
<1> DEFINE new == NewCampaign(name, dueAt, cadence, 0)
<1>1. dueAt \in Nat /\ dueAt > now /\ campaigns' = Append(campaigns, new)
  BY DEF CreateCampaign, Time
<1>2. /\ campaigns \in Seq(Campaign) /\ Len(campaigns) \in Nat
      /\ DOMAIN campaigns = 1 .. Len(campaigns)
      /\ \A i \in DOMAIN campaigns : campaigns[i] \in Campaign
  BY DEF CampaignTypeOK
<1>3. /\ new \in Campaign /\ new.dueAt > new.createdAt /\ StatusSound(new)
      /\ new.previous = 0 /\ DOMAIN new.items \subseteq memberships
      /\ \A m \in DOMAIN new.items : new.items[m].status = "pending"
  BY <1>1, NewCampaignFacts
<1> HIDE DEF new
<1>4. NewlyMade(new, Len(campaigns) + 1)
  BY <1>2, <1>3 DEF NewlyMade
<1>5. \A i \in DOMAIN campaigns : CampaignMove(campaigns[i], campaigns[i])
  BY <1>2 DEF CampaignMove, ItemMove
<1> QED BY <1>1, <1>2, <1>3, <1>4, <1>5, AppendMove

LEMMA RenewMove ==
  ASSUME TypeOK, CampaignTypeOK, NEW actor \in Principal, NEW i \in DOMAIN campaigns,
         NEW before, RenewCampaign(actor, i, before)
  PROVE  CampaignsMove
<1> DEFINE refreshed == Refreshed(before)
           prior == refreshed[i]
           new == NewCampaign(prior.name, now + prior.cadence, prior.cadence, i)
<1>1. /\ refreshed[i].status # "active" /\ campaigns' = Append(refreshed, new)
      /\ \A k \in DOMAIN campaigns : refreshed[k].previous # i
  BY DEF RenewCampaign, Renewable
<1>2. /\ refreshed \in Seq(Campaign) /\ Len(refreshed) = Len(campaigns)
      /\ DOMAIN refreshed = DOMAIN campaigns
      /\ DOMAIN campaigns = 1 .. Len(campaigns) /\ Len(campaigns) \in Nat
      /\ \A k \in DOMAIN campaigns : CampaignMove(campaigns[k], refreshed[k])
  BY RefreshedFacts DEF CampaignTypeOK
<1> HIDE DEF refreshed
<1>3. /\ prior.name \in CampaignName /\ prior.cadence \in Cadence
      /\ now \in Nat /\ i \in 1 .. Len(campaigns)
  BY <1>2, BoundAssumption DEF CampaignMove, Campaign, TypeOK, Time
<1> HIDE DEF prior
<1>4. prior.cadence \in Nat /\ prior.cadence > 0
  <2>1. \A k \in Cadence : k \in Nat /\ k > 0
    BY CampaignAssumption
  <2> QED BY <1>3, <2>1
<1>5. /\ new \in Campaign /\ new.dueAt > new.createdAt /\ StatusSound(new)
      /\ new.previous = i /\ DOMAIN new.items \subseteq memberships
      /\ \A m \in DOMAIN new.items : new.items[m].status = "pending"
  <2>1. now + prior.cadence \in Nat /\ now + prior.cadence > now /\ i \in Nat
    BY <1>3, <1>4
  <2> QED BY <1>3, <2>1, NewCampaignFacts
<1> HIDE DEF new
<1>6. campaigns'[i] = refreshed[i]
  BY <1>1, <1>2
<1>7. \A k \in DOMAIN campaigns : campaigns[k].previous # i
  BY <1>1, <1>2 DEF CampaignMove
<1>8. NewlyMade(new, Len(campaigns) + 1)
  BY <1>1, <1>2, <1>3, <1>5, <1>6, <1>7 DEF NewlyMade
<1> QED BY <1>1, <1>2, <1>5, <1>8, AppendMove

\* The campaigns after a decision about item m of campaign i.
LEMMA DecisionMove ==
  ASSUME CampaignTypeOK, NEW i \in DOMAIN campaigns, NEW before, NEW m,
         NEW reviewer \in Principal, NEW status \in {"attested", "revoked"},
         MayDecide(reviewer, i, m, Refreshed(before)),
         DecideItem(reviewer, i, m, status, Refreshed(before)),
         status = "revoked" => \A held \in memberships' : held.assignment # m.assignment
  PROVE  CampaignsMove
<1> DEFINE refreshed == Refreshed(before)
           c == refreshed[i]
           d == AfterDecision(c, m, status, reviewer)
<1>1. /\ refreshed \in Seq(Campaign) /\ DOMAIN refreshed = DOMAIN campaigns
      /\ DOMAIN campaigns = 1 .. Len(campaigns) /\ Len(campaigns) \in Nat
      /\ \A k \in DOMAIN campaigns : CampaignMove(campaigns[k], refreshed[k])
      /\ c.status = "active" => campaigns[i].status = "active" /\ \A x \in Pending(c) : Live(x)
  BY RefreshedFacts DEF CampaignTypeOK
<1>2. c.status = "active" /\ m \in Pending(c) /\ Eligible(reviewer, m)
  BY DEF MayDecide
<1>3. campaigns' = [refreshed EXCEPT ![i] = d]
  BY DEF DecideItem, AfterDecision
<1> HIDE DEF refreshed
<1>4. c \in Campaign /\ CampaignMove(campaigns[i], c)
  BY <1>1
<1> HIDE DEF c
<1>5. /\ d \in Campaign
      /\ d.createdAt = c.createdAt /\ d.dueAt = c.dueAt /\ d.previous = c.previous
      /\ DOMAIN d.items = DOMAIN c.items
      /\ StatusSound(d)
      /\ d.items[m].status = status /\ d.items[m].decidedBy = reviewer
      /\ \A x \in DOMAIN c.items : x # m => d.items[x] = c.items[x]
  BY <1>2, <1>4, DecideFacts
<1> HIDE DEF d
<1>6. m \in DOMAIN c.items /\ c.items[m].status = "pending" /\ Live(m)
  BY <1>1, <1>2 DEF Pending
<1>7. campaigns[i].items[m].status = "pending"
  BY <1>4, <1>6 DEF CampaignMove, ItemMove, ItemDecided
<1>8. CampaignMove(campaigns[i], d)
  <2>1. ItemMove(m, campaigns[i].items[m], d.items[m])
    BY <1>2, <1>5, <1>6, <1>7 DEF ItemMove, ItemDecided
  <2>2. \A x \in DOMAIN campaigns[i].items : ItemMove(x, campaigns[i].items[x], d.items[x])
    BY <1>4, <1>5, <2>1 DEF CampaignMove
  <2> QED BY <1>1, <1>2, <1>4, <1>5, <2>2 DEF CampaignMove
<1>9. /\ campaigns' \in Seq(Campaign) /\ DOMAIN campaigns' = DOMAIN campaigns
      /\ campaigns'[i] = d
      /\ \A k \in DOMAIN campaigns : k # i => campaigns'[k] = refreshed[k]
  BY <1>1, <1>3, <1>5
<1> QED BY <1>1, <1>8, <1>9 DEF CampaignsMove

\* The removal a revocation makes takes the assignment away from everybody.
LEMMA RevocationRemoves ==
  ASSUME StoreInv, NEW reviewer \in Principal, NEW current \in memberships,
         RevokeMembershipForRecertification(reviewer, current)
  PROVE  \A held \in memberships' : held.assignment # current.assignment
<1>1. memberships' = {x \in memberships :
                        ~(x.principal = current.principal /\ x.capsule = current.capsule)}
  BY DEF RevokeMembershipForRecertification, RemoveMembershipUnchecked
<1>2. UniqueAssignment
  BY DEF StoreInv, Restorable
<1> QED BY <1>1, <1>2 DEF UniqueAssignment

\* Every step moves the campaigns in the ways of CampaignsMove only.
LEMMA NextCampaignsMove ==
  ASSUME StoreInv, CampaignTypeOK, [RecertNext]_recertVars
  PROVE  CampaignsMove
<1>1. TypeOK
  BY DEF StoreInv
<1>2. ASSUME NEW actor \in Principal, Refresh(actor)
      PROVE  CampaignsMove
  BY <1>2, RefreshedFacts DEF Refresh, CampaignsMove
<1>3. ASSUME NEW reviewer \in Principal, NEW i \in DOMAIN campaigns, NEW before,
             NEW m, AttestItem(reviewer, i, m, before)
      PROVE  CampaignsMove
  BY <1>3, DecisionMove DEF AttestItem
<1>4. ASSUME NEW reviewer \in Principal, NEW i \in DOMAIN campaigns, NEW before,
             NEW m, RevokeItem(reviewer, i, m, before)
      PROVE  CampaignsMove
  <2>1. PICK current \in memberships :
          /\ current.assignment = m.assignment
          /\ RevokeMembershipForRecertification(reviewer, current)
    BY <1>4 DEF RevokeItem, MembershipsOf
  <2>2. \A held \in memberships' : held.assignment # m.assignment
    BY <2>1, RevocationRemoves
  <2> QED BY <1>4, <2>2, DecisionMove DEF RevokeItem
<1>5. CASE OtherStep \/ UNCHANGED recertVars
  <2>1. campaigns' = campaigns
    BY <1>5 DEF OtherStep, recertVars
  <2> QED BY <2>1 DEF CampaignsMove, CampaignMove, ItemMove, CampaignTypeOK
<1>6. CASE CampaignStep
  BY <1>1, <1>2, <1>3, <1>4, <1>6, CreateMove, RenewMove DEF CampaignStep
<1> QED BY <1>5, <1>6 DEF RecertNext

-----------------------------------------------------------------------------
(***************************************************************************)
(* The campaigns as a client of the store.                                 *)
(***************************************************************************)

\* Every step of the campaigns is a step of the store, or leaves it alone.
LEMMA RecertStoreStep == [RecertNext]_recertVars => [Next]_vars
<1> SUFFICES ASSUME [RecertNext]_recertVars PROVE [Next]_vars
  OBVIOUS
<1>1. CASE UNCHANGED recertVars
  BY <1>1 DEF recertVars, vars
<1>2. CASE CampaignStep
  <2>1. ASSUME NEW reviewer \in Principal, NEW i, NEW m, NEW before, RevokeItem(reviewer, i, m, before)
        PROVE  Next
    BY <2>1 DEF RevokeItem, MembershipsOf, Next, MembershipStep
  <2> QED BY <1>2, <2>1 DEF CampaignStep, Refresh, CreateCampaign, RenewCampaign, AttestItem
<1>3. CASE OtherStep
  BY <1>3 DEF OtherStep, Next, MembershipStep
<1> QED BY <1>1, <1>2, <1>3 DEF RecertNext

\* The campaigns use the store only through its operations, so every
\* behaviour of theirs is one of the store and its theorems carry over.
THEOREM CampaignsUseStore == RecertSpec => Spec
<1>1. RecertInit => Init
  BY DEF RecertInit
<1> QED BY <1>1, RecertStoreStep, PTL DEF RecertSpec, Spec

\* So the invariant of the store holds whatever the campaigns do.
THEOREM RecertStoreInvariant == RecertSpec => []StoreInv
BY CampaignsUseStore, StoreInvariant, PTL

\* The handlers of app.ts only ever save well-formed campaigns.
THEOREM CampaignTypeCorrect == RecertSpec => []CampaignTypeOK
<1>1. RecertInit => CampaignTypeOK
  BY DEF RecertInit, CampaignTypeOK
<1>2. StoreInv /\ CampaignTypeOK /\ [RecertNext]_recertVars => CampaignTypeOK'
  BY NextCampaignsMove DEF CampaignsMove, CampaignTypeOK
<1> QED BY <1>1, <1>2, RecertStoreInvariant, PTL DEF RecertSpec

-----------------------------------------------------------------------------
(***************************************************************************)
(* The properties.                                                         *)
(***************************************************************************)

\* Items never copy anything but memberships, in every reachable state.
THEOREM RecertTypeCorrect == RecertSpec => []RecertTypeOK
<1>1. CampaignTypeOK => RecertTypeOK
  <2> SUFFICES ASSUME CampaignTypeOK PROVE RecertTypeOK
    OBVIOUS
  <2>1. DOMAIN campaigns = 1 .. Len(campaigns) /\ \A i \in DOMAIN campaigns : campaigns[i] \in Campaign
    BY DEF CampaignTypeOK
  <2>2. \A i \in DOMAIN campaigns : campaigns[i].status \in {"active", "completed", "expired"}
    BY <2>1 DEF Campaign
  <2> QED BY <2>1, <2>2, ItemsFacts DEF RecertTypeOK
<1> QED BY <1>1, CampaignTypeCorrect, PTL

\* The service can always load the campaigns it saved: dates, status and
\* succession stay consistent whatever the reviewers and the clock do.
THEOREM CampaignsAlwaysRestorable == RecertSpec => []CampaignsRestorable
<1>1. RecertInit => CampaignsRestorable
  BY DEF RecertInit, CampaignsRestorable
<1>2. CampaignsRestorable /\ CampaignsMove => CampaignsRestorable'
  <2> SUFFICES ASSUME CampaignsRestorable, CampaignsMove, NEW i \in DOMAIN campaigns'
               PROVE  /\ campaigns'[i].dueAt > campaigns'[i].createdAt
                      /\ StatusSound(campaigns'[i])
                      /\ campaigns'[i].previous \in {0} \cup 1 .. i - 1
    BY DEF CampaignsRestorable, StatusSound, Pending
  <2>1. CASE i \in DOMAIN campaigns
    <3>1. CampaignMove(campaigns[i], campaigns'[i])
      BY <2>1 DEF CampaignsMove
    <3>2. /\ campaigns[i].dueAt > campaigns[i].createdAt /\ StatusSound(campaigns[i])
          /\ campaigns[i].previous \in {0} \cup 1 .. i - 1
      BY <2>1 DEF CampaignsRestorable, StatusSound
    <3> QED BY <3>1, <3>2 DEF CampaignMove
  <2>2. CASE i \notin DOMAIN campaigns
    <3>1. NewlyMade(campaigns'[i], i) /\ i \in Nat
      BY <2>2 DEF CampaignsMove
    <3> QED BY <3>1 DEF NewlyMade
  <2> QED BY <2>1, <2>2
<1>3. StoreInv /\ CampaignTypeOK /\ CampaignsRestorable /\ [RecertNext]_recertVars
        => CampaignsRestorable'
  BY <1>2, NextCampaignsMove
<1> QED BY <1>1, <1>3, RecertStoreInvariant, CampaignTypeCorrect, PTL DEF RecertSpec

\* What makes the last property inductive: a campaign is closed when another
\* one names it, and only one does.
SuccessionSound ==
  \A i, j, k \in DOMAIN campaigns :
    campaigns[j].previous = i /\ campaigns[k].previous = i =>
      j = k /\ campaigns[i].status # "active"

LEMMA SuccessionStep ==
  ASSUME CampaignTypeOK, CampaignsRestorable, SuccessionSound, CampaignsMove
  PROVE  SuccessionSound'
<1>1. DOMAIN campaigns \subseteq DOMAIN campaigns' /\ DOMAIN campaigns \subseteq Nat
  BY DEF CampaignTypeOK, CampaignsMove
<1>2. \A j \in DOMAIN campaigns : campaigns'[j].previous = campaigns[j].previous
  BY DEF CampaignsMove, CampaignMove
<1>3. \A j \in DOMAIN campaigns : campaigns[j].previous = 0 \/ campaigns[j].previous \in 1 .. j - 1
  BY DEF CampaignsRestorable
<1>4. \A j \in DOMAIN campaigns : campaigns[j].previous \in DOMAIN campaigns \cup {0}
  BY <1>3 DEF CampaignTypeOK
<1>5. \A i \in DOMAIN campaigns' : i # 0
  BY DEF CampaignsMove
<1>6. \A k \in DOMAIN campaigns' \ DOMAIN campaigns : campaigns'[k].previous # k
  <2>1. \A k \in DOMAIN campaigns' : k \in Nat
    BY DEF CampaignsMove
  <2> QED BY <2>1 DEF CampaignsMove, NewlyMade
<1>7. ASSUME NEW i \in DOMAIN campaigns', NEW k \in DOMAIN campaigns', campaigns'[k].previous = i
      PROVE  i \in DOMAIN campaigns /\ campaigns'[i].status # "active"
  <2>1. CASE k \in DOMAIN campaigns
    <3>1. i \in DOMAIN campaigns /\ campaigns[k].previous = i
      BY <1>2, <1>4, <1>5, <1>7, <2>1
    <3>2. campaigns[i].status # "active"
      BY <2>1, <3>1 DEF SuccessionSound
    <3> QED BY <3>1, <3>2 DEF CampaignsMove, CampaignMove
  <2>2. CASE k \notin DOMAIN campaigns
    <3>1. i \in DOMAIN campaigns
      BY <1>6, <1>7, <2>2 DEF CampaignsMove
    <3> QED BY <1>7, <2>2, <3>1 DEF CampaignsMove, NewlyMade
  <2> QED BY <2>1, <2>2
<1>8. ASSUME NEW i \in DOMAIN campaigns, NEW j \in DOMAIN campaigns', NEW k \in DOMAIN campaigns',
             campaigns'[j].previous = i, campaigns'[k].previous = i
      PROVE  j = k
  <2>1. CASE j \in DOMAIN campaigns /\ k \in DOMAIN campaigns
    BY <1>2, <1>8, <2>1 DEF SuccessionSound
  <2>2. CASE j \notin DOMAIN campaigns /\ k \notin DOMAIN campaigns
    BY <2>2 DEF CampaignsMove
  <2>3. CASE j \in DOMAIN campaigns /\ k \notin DOMAIN campaigns
    BY <1>2, <1>8, <2>3 DEF CampaignsMove, NewlyMade
  <2>4. CASE j \notin DOMAIN campaigns /\ k \in DOMAIN campaigns
    BY <1>2, <1>8, <2>4 DEF CampaignsMove, NewlyMade
  <2> QED BY <2>1, <2>2, <2>3, <2>4
<1> QED BY <1>7, <1>8 DEF SuccessionSound

\* Only closed campaigns have a successor, and never two (app.ts: the renewal
\* handler looks for a campaign that names this one).
THEOREM SuccessionAlwaysSound == RecertSpec => []SuccessionSound
<1>1. RecertInit => SuccessionSound
  BY DEF RecertInit, SuccessionSound
<1>2. StoreInv /\ CampaignTypeOK /\ CampaignsRestorable /\ SuccessionSound /\ [RecertNext]_recertVars
        => SuccessionSound'
  BY NextCampaignsMove, SuccessionStep
<1> QED
  BY <1>1, <1>2, RecertStoreInvariant, CampaignTypeCorrect, CampaignsAlwaysRestorable, PTL
  DEF RecertSpec

\* A closed campaign never changes, and it is closed before it is renewed and
\* renewed once (app.ts: refreshRecertifications and the renewal handler).
THEOREM ClosedCampaignsAreFinal == RecertSpec => ClosedCampaignsStay
<1> DEFINE Stays(i) ==
      /\ i \in DOMAIN campaigns'
      /\ campaigns[i].status # "active" => campaigns'[i] = campaigns[i]
      /\ \A j, k \in DOMAIN campaigns' :
           campaigns'[j].previous = i /\ campaigns'[k].previous = i =>
             j = k /\ campaigns'[i].status # "active"
<1>1. StoreInv /\ CampaignTypeOK /\ SuccessionSound' /\ [RecertNext]_recertVars
        => [\A i \in DOMAIN campaigns : Stays(i)]_recertVars
  BY NextCampaignsMove DEF CampaignsMove, CampaignMove, SuccessionSound
<1> QED
  BY <1>1, RecertStoreInvariant, CampaignTypeCorrect, SuccessionAlwaysSound, PTL
  DEF RecertSpec, ClosedCampaignsStay

\* Whatever changed since the snapshot, a decision is made by somebody else
\* with an eligible role about a membership that is in force.
THEOREM DecisionsStayInformed == RecertSpec => DecisionsAreInformed
<1> DEFINE Informed(i, m) ==
      /\ campaigns[i].items[m].status = "pending"
      /\ campaigns'[i].items[m].status \in {"attested", "revoked"}
      => /\ m \in memberships /\ Active(m.capsule)
         /\ campaigns'[i].items[m].decidedBy # m.principal
         /\ ReviewerRole(campaigns'[i].items[m].decidedBy) \in RecertificationRoles(m)
<1>1. ASSUME StoreInv, CampaignTypeOK, RecertNext,
             NEW i \in DOMAIN campaigns, NEW m \in DOMAIN campaigns[i].items,
             campaigns[i].items[m].status = "pending",
             campaigns'[i].items[m].status \in {"attested", "revoked"}
      PROVE  Informed(i, m)
  <2>1. CampaignsMove
    BY <1>1, NextCampaignsMove
  <2>2. ItemMove(m, campaigns[i].items[m], campaigns'[i].items[m])
    BY <2>1 DEF CampaignsMove, CampaignMove
  <2>3. ItemDecided(m, campaigns[i].items[m], campaigns'[i].items[m])
    BY <1>1, <2>2 DEF ItemMove
  <2> QED BY <2>3 DEF ItemDecided, Live, LiveMemberships, MembershipsOf, Eligible
<1>2. StoreInv /\ CampaignTypeOK /\ [RecertNext]_recertVars
        => [\A i \in DOMAIN campaigns : \A m \in DOMAIN campaigns[i].items : Informed(i, m)]_recertVars
  BY <1>1
<1> QED BY <1>2, RecertStoreInvariant, CampaignTypeCorrect, PTL DEF RecertSpec, DecisionsAreInformed

-----------------------------------------------------------------------------
\* No operation brings an assignment back that somebody once held: members
\* of the next state held theirs before or have a fresh one.
LEMMA NoOldAssignment ==
  ASSUME StoreInv, [Next]_vars
  PROVE  /\ nextAssignment' >= nextAssignment
         /\ \A held \in memberships' :
              \/ held.assignment = nextAssignment
              \/ \E m \in memberships : m.assignment = held.assignment
<1>1. nextAssignment \in Nat
  BY DEF StoreInv, TypeOK
<1>2. CASE UNCHANGED nextAssignment /\ memberships' \subseteq memberships
  BY <1>1, <1>2
<1>3. ASSUME NEW actor \in Principal, NEW p \in Principal, AddMembership(actor, p)
      PROVE  /\ nextAssignment' >= nextAssignment
             /\ \A held \in memberships' :
                  \/ held.assignment = nextAssignment
                  \/ \E m \in memberships : m.assignment = held.assignment
  BY <1>1, <1>3 DEF AddMembership
<1>4. ASSUME NEW p \in Principal, NEW d \in Draft, JoinScope(p, d)
      PROVE  /\ nextAssignment' >= nextAssignment
             /\ \A held \in memberships' :
                  \/ held.assignment = nextAssignment
                  \/ \E m \in memberships : m.assignment = held.assignment
  <2>1. Retained(p, d) \subseteq memberships /\ memberships \subseteq Membership
    BY DEF Retained, StoreInv, TypeOK
  <2> DEFINE current == {m \in Retained(p, d) : m.principal = p /\ m.capsule = ScopeCapsule(d)}
  <2>2. CASE current # {}
    <3>1. memberships' = (Retained(p, d) \ current)
            \cup {[m EXCEPT !.persona = CapabilityPersona(d)] : m \in current}
      BY <1>4, <2>2 DEF JoinScope
    <3>2. ASSUME NEW held \in memberships'
          PROVE  \E m \in memberships : m.assignment = held.assignment
      <4>1. CASE held \in Retained(p, d)
        BY <2>1, <4>1
      <4>2. CASE held \notin Retained(p, d)
        <5>1. PICK m \in current : held = [m EXCEPT !.persona = CapabilityPersona(d)]
          BY <3>1, <4>2
        <5>2. m \in Membership /\ m \in memberships
          BY <2>1
        <5>3. held.assignment = m.assignment
          BY <5>1, <5>2 DEF Membership
        <5> QED BY <5>2, <5>3
      <4> QED BY <4>1, <4>2
    <3>3. nextAssignment' = nextAssignment
      BY <1>4, <2>2 DEF JoinScope
    <3> QED BY <1>1, <3>2, <3>3
  <2>3. CASE current = {}
    <3> DEFINE new == [principal |-> p, capsule |-> ScopeCapsule(d),
                       persona |-> CapabilityPersona(d), assignment |-> nextAssignment]
    <3>1. memberships' = Retained(p, d) \cup {new} /\ nextAssignment' = nextAssignment + 1
      BY <1>4, <2>3 DEF JoinScope
    <3>2. new.assignment = nextAssignment
      OBVIOUS
    <3> HIDE DEF new
    <3> QED BY <1>1, <2>1, <3>1, <3>2
  <2> QED BY <2>2, <2>3
<1>5. CASE RoleStep
  BY <1>4, <1>5 DEF RoleStep, ApplyRoleDraft
<1>6. CASE MembershipStep
  BY <1>2, <1>3, <1>6
  DEF MembershipStep, RemoveMembership, RemoveMembershipUnchecked,
      RevokeMembershipForRecertification, OffboardCapsule
<1>7. CASE JitStep \/ ClockStep \/ UNCHANGED vars
  BY <1>2, <1>7 DEF JitStep, RequestJit, ApproveJit, DenyJit, RevokeJit, ClockStep, AdjustClock, vars
<1> QED BY <1>5, <1>6, <1>7 DEF Next

\* Every item copied an assignment that had been given out.
ItemsAged ==
  \A i \in DOMAIN campaigns : \A m \in DOMAIN campaigns[i].items : m.assignment < nextAssignment

RevokedInv == ItemsAged /\ RevokedStaysRevoked

\* An access right that a review took away does not come back: later roles,
\* activated capsules and re-additions all make new assignments.
THEOREM RevocationIsLasting == RecertSpec => []RevokedStaysRevoked
<1>1. RecertInit => RevokedInv
  BY DEF RecertInit, RevokedInv, ItemsAged, RevokedStaysRevoked
<1>2. ASSUME StoreInv, CampaignTypeOK, RevokedInv, [RecertNext]_recertVars
      PROVE  RevokedInv'
  <2>1. CampaignsMove
    BY <1>2, NextCampaignsMove
  <2>2. /\ nextAssignment' >= nextAssignment
        /\ \A held \in memberships' :
             \/ held.assignment = nextAssignment
             \/ \E m \in memberships : m.assignment = held.assignment
    BY <1>2, RecertStoreStep, NoOldAssignment
  <2>3. nextAssignment \in Nat /\ nextAssignment' \in Nat
    BY <1>2, NextStoreInv, RecertStoreStep DEF StoreInv, TypeOK
  <2>4. \A m \in memberships : m.assignment < nextAssignment /\ m.assignment \in Nat
    BY <1>2 DEF StoreInv, AssignmentsFresh, TypeOK, Membership
  <2>5. ASSUME NEW i \in DOMAIN campaigns, NEW m \in DOMAIN campaigns[i].items
        PROVE  m.assignment < nextAssignment /\ m.assignment \in Nat
    <3>1. campaigns[i] \in Campaign
      BY <1>2 DEF CampaignTypeOK
    <3> QED BY <1>2, <3>1, ItemsFacts DEF RevokedInv, ItemsAged, Membership
  <2>6. ASSUME NEW i \in DOMAIN campaigns', NEW m \in DOMAIN campaigns'[i].items
        PROVE  /\ m.assignment < nextAssignment'
               /\ campaigns'[i].items[m].status = "revoked" =>
                    \A held \in memberships' : held.assignment # m.assignment
    <3>1. CASE i \in DOMAIN campaigns
      <4>1. m \in DOMAIN campaigns[i].items /\ ItemMove(m, campaigns[i].items[m], campaigns'[i].items[m])
        BY <2>1, <2>6, <3>1 DEF CampaignsMove, CampaignMove
      <4>2. m.assignment < nextAssignment /\ m.assignment \in Nat
        BY <2>5, <3>1, <4>1
      <4>3. ASSUME campaigns[i].items[m].status = "revoked", NEW held \in memberships'
            PROVE  held.assignment # m.assignment
        BY <1>2, <2>2, <2>3, <3>1, <4>1, <4>2, <4>3 DEF RevokedInv, RevokedStaysRevoked
      <4>4. campaigns'[i].items[m].status = "revoked" =>
              \/ campaigns[i].items[m].status = "revoked"
              \/ \A held \in memberships' : held.assignment # m.assignment
        BY <4>1 DEF ItemMove, ItemDecided
      <4> QED BY <2>2, <2>3, <4>2, <4>3, <4>4
    <3>2. CASE i \notin DOMAIN campaigns
      <4>1. m \in memberships /\ campaigns'[i].items[m].status = "pending"
        BY <2>1, <2>6, <3>2 DEF CampaignsMove, NewlyMade
      <4> QED BY <2>2, <2>3, <2>4, <4>1
    <3> QED BY <3>1, <3>2
  <2> QED BY <2>6 DEF RevokedInv, ItemsAged, RevokedStaysRevoked
<1>3. StoreInv /\ CampaignTypeOK /\ RevokedInv /\ [RecertNext]_recertVars => RevokedInv'
  BY <1>2
<1>4. RevokedInv => RevokedStaysRevoked
  BY DEF RevokedInv
<1> QED BY <1>1, <1>3, <1>4, RecertStoreInvariant, CampaignTypeCorrect, PTL DEF RecertSpec
===============================================================================
