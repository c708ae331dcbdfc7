# PurposeMesh: a TLA+ model of the control plane

PurposeMesh decides who may see which governed data, for which purpose. Its
state is one **control-plane store** (people, capsules, memberships, contracts,
just-in-time grants) kept in the memory of one Node.js process and saved as a
single JSON snapshot in SQLite after every change. Around it are sessions,
request limits, a decision point, a warehouse that is queried through the same
contracts, a compiler of native policies, and an offline tool for backups. This
directory holds TLA+ modules for them, TLC configurations that check the modules
on small instances, and TLAPS proofs of the central invariants.

Paths below are relative to the repository root.

## 1. Inventory

| Part | Source | State | Operations | What makes it correct |
|---|---|---|---|---|
| Policy objects and store | `packages/cca-core/src/store.ts`, `types.ts` | personas, capsules (a forest), contracts, bindings, memberships, grants, audit chain | queries for live capsules, live memberships and descendants; snapshot, restore | a saved store passes the checks of `restore` |
| Lifecycle | `packages/cca-core/src/lifecycle.ts` | the store | add, remove, revoke and offboard; request, approve, deny and revoke a JIT grant; apply a role draft | somebody always administers; a grant never outlives its membership; dual control; decisions are final |
| Separation of duties | `packages/cca-core/src/governance.ts` | none | evaluate a draft or a principal | nobody holds duties the rules forbid together |
| Role requests | `apps/api/src/app.ts` | list of requests with approvals | create, approve, deny | a role needs two current, independent reviewers |
| Recertification | `apps/api/src/app.ts` | list of campaigns with items | refresh, create, renew, attest, revoke | decisions concern the membership in force; closed campaigns are evidence |
| Durability | `apps/api/src/control-plane.ts`, `app.ts` (`mutateAndPersist`), `index.ts` | the row of the SQLite file, the copy in memory, the copies taken for an undo | open, load with its migrations, initialise, reconcile the demo, mutate, save, undo | memory and disk agree after every handler; the answer tells what happened; a crash loses at most the unfinished handler |
| Backup and restore | `apps/api/src/control-plane-ops.ts`, `sqlite-files.ts` | bundles (database and manifest), the target file | backup, verify, restore with its own undo | what a restore replaces can be recovered at every moment; the command reports what is in the file |
| Sessions | `apps/api/src/jwt.ts`, `app.ts`, `apps/web/src/App.tsx`, `api.ts` | tokens; in a tab the token, the page shown for it, its timer, its requests | login, authenticate, restart, reset; restore a session, sign out, expire, receive answers | a token counts only under the assignments it was issued for; a page ends by its own token only |
| Rate limits, login lockout | `apps/api/src/rate-limits.ts`, `app.ts` | bounded maps of counters; the table of failed logins | count, sweep, evict, block | a full map never frees a running budget; nobody is locked out for ever |
| Decision point | `packages/cca-core/src/pdp.ts`, `predicate.ts` | none | check, filter a dataset, explain | whatever is allowed is backed by a seat and a contract; no field outside them |
| Warehouse query | `packages/cca-core/src/lifecycle.ts`, `role-draft.ts`, `apps/api/src/warehouse.ts`, `app.ts` | the fact table (read only) | scopes from predicates, SQL, projection, pages, preview of a draft | turning a predicate into SQL never widens it; pages are complete; a preview is honest |
| Contract compiler | `packages/cca-core/src/compiler.ts` | none | compile a capsule, gate, plan | no artifact reaches further than the decision point; a filter reported as supported is exact |
| Web console views | `apps/web/src/Dashboard.tsx` and the rest of `App.tsx` | what was fetched | call the API | - |
| Audit trail | `packages/cca-core/src/store.ts` | hash-chained entries | append | in every history exactly the operations that took effect |

**How the parts interact.** A handler is limited by peer, authenticates (it
awaits the signature check), is limited by principal and then runs
synchronously: it checks its guards, changes the store inside
`mutateAndPersist`, which saves the snapshot or puts the copies back, and
answers. Two handlers therefore interleave only at `await`s, and a lifecycle
operation is atomic for other handlers, but not for a crash. Role requests and
recertification keep lists of their own beside the store, saved in the same
snapshot, and call the lifecycle functions. The decision point, the warehouse
query and the compiler read the store and change nothing but the audit trail.
The offline tool shares the SQLite file with the process: a backup may run
beside it, a restore only while it is stopped. A browser tab has many requests
on the way at once, and answers arrive in any order or not at all.

**What is hard.** First, *long sequences of legal calls*: memberships come and go
under open grants, pending requests, campaign items and tokens that name them;
scope capsules are shared, retired and activated again; reviewers lose the role
they approved with; the wall clock, which nothing forces to be monotone, is
compared with stored times; and `save` does not make the checks that `load`
makes, so a store that went wrong is noticed only when the service no longer
starts. Second, *failures between two steps*: of a save, a migration, a backup,
a restore or its undo. Third, *answers out of order* in the tab. Fourth, the same
policy is evaluated by *several routes* (the decision point, SQL, native
artifacts), each of which may widen it, and empty lists mean "everything" in some
of them. `PROJECT.json` lists each hazard at its line.

## 2. Modules

| Module | Models | Extends |
|---|---|---|
| `SeparationOfDuties` | the three rules of `WAREHOUSE_SOD_RULES` over facts | - |
| `PolicyObjects` | personas, capsules, contracts; objects a role draft gives rise to; descendants | - |
| `AccessStore` | the store and every lifecycle operation | the two above |
| `RoleRequests` | the request workflow over the store | `AccessStore` |
| `Recertification` | the campaigns over the store | `AccessStore` |
| `AtomicControlPlane` | what durability promises: a history of events in which a request takes effect in one step or not at all | - |
| `ControlPlaneRepository` | the SQLite row, the API process, the backup tool, step by step with crashes; implements the above | - |
| `Sessions` | tokens and the server that checks them, one browser tab, requests and answers between them | `AccessStore` |
| `RequestLimits` | the budgets and the lockout | - |
| `Predicates` | predicates, field lists, reading a field of a record tree | - |
| `RecordTrees` | the projection of a record tree on the released fields | `Predicates` |
| `AccessDecision` | the decision point over the store | `AccessStore`, `Predicates` |
| `DatasetReads` | what a dataset delivers to a principal, and the explanation of a decision | `AccessDecision`, `RecordTrees` |
| `WarehouseQuery` | from predicates to scopes to SQL; dashboard, pages, previews | `AccessDecision` |
| `PolicyCompiler` | native artifacts, who is assigned to them, and the row filters reported as supported | `WarehouseQuery` |
| `MCAccessStore`, `MCRoleRequests`, `MCRecertification` | instances cut out of the demo seed | their component |
| `MCControlPlaneRepository`, `MCSessions`, `MCRequestLimits`, `MCDecisions` | instances of the other components | their component |
| `Induction` | induction and recursion over the naturals, stated of sets and functions instead of operators; folds | - |
| `AccessStoreProofs` | types and the inductive invariant of the store, how grants may move; administrators, duties, roles and inactive capsules | `AccessStore` |
| `ControlPlaneProofs` | the inductive invariant of the process, the tool and the file; the repository implements `AtomicControlPlane` | `ControlPlaneRepository` |
| `RoleRequestProofs` | the workflow as a client of the store; its evidence | `RoleRequests`, the store's proofs |
| `RecertificationProofs` | the campaigns as a client of the store; how a step moves them | `Recertification`, the store's proofs |
| `SessionProofs` | the tab, its tokens and a store whose seed comes back at a restart | `Sessions`, the store's proofs |
| `RequestLimitProofs` | budgets and the lockout for maps of any size | `RequestLimits`, `Induction` |
| `DecisionProofs` | decisions, native artifacts, warehouse and dataset reads | `PolicyCompiler`, `DatasetReads`, the store's proofs, `Induction` |

### From code to model

* **Policy objects are their content.** `applyRoleDraft` names personas, scope
  capsules and contracts by a hash of their content. The model takes the content
  itself: two drafts share a scope capsule exactly when purpose and scope agree,
  and a contract exactly when all hashed parts agree. A draft's regions,
  tenants, departments and sources enter the same hash as its products and are
  folded into them. The `policyVersion` of a grant, a hash of what was frozen at
  the request, is thereby the identity of the frozen objects.
* **Variables.** `memberships`, `bindings` and `jit` are the arrays of the same
  names (`jit` keeps its order, the others are sets: no operation depends on
  theirs). `capsuleState` says whether a capsule exists and is active. `now` is
  `Date.now()`. `nextAssignment` stands for `randomUUID()`: an id never used
  before. The field `assignment` of a grant is a history variable: the code's
  grant does not carry it, and no guard reads it.
* **Actions.** One per exported function or handler, enabled when the function
  returns without throwing; a function that throws leaves the store as it was
  (`mutateAndPersist` restores it) and is a stuttering step. Every trailing
  change is part of its action: closing grants, retiring capsules, completing a
  campaign, applying the role with the second approval.
* **Clock.** `AdjustClock` sets `now` to any time: a timer, NTP, or an operator
  may move it forward or back between two handlers. A recertification handler
  reads it twice (`app.ts:1249` and `1268`); `FirstReading` is what the first
  reading may have been.
* **Left out of the store module:** the audit trail (appended to, never read back
  by an operation), free-text reasons, tickets and labels, `updated` timestamps,
  and the audit pointers of campaign items. A token's optional purpose claim is
  left out: login issues tokens without one. A snapshot of an older version whose
  memberships lack an assignment id is outside the model.
* **`ReviewerHasRole` and `ReviewerRole` differ**, as `reviewerHasRole`
  (`app.ts:261`) and `governanceReviewerRoleFor` (`lifecycle.ts:48`) do: the
  former can give one person both roles.
* **Rows and histories** (`ControlPlaneRepository`). A row is abstracted to what
  the protocol looks at: its two versions, whether grants of a legacy store block
  its migration, whether a fixture of the demo is missing, whether an operation is
  half done in it, and its audit trail, whose events stand for the changes they
  record. A committed SQLite statement is one step; before and after it the
  process or the tool may be killed, and a step that can throw has an action for
  the case that it does. File modes and symbolic links are left out. The runbook's
  rule that the rollback bundle is kept until the restored file is in use is a
  guard of the operator's actions (`Dispensable`).
* **Tokens** (`Sessions`). The fingerprint of the live assignments is those
  assignments. A token is known by its place in `tokens`. The tab measures the
  life of a token with a timer of its own, not with the server's clock, so
  `TimerFires` may come at any time. `GiveUpWaiting` is the 20-second limit of
  `request`, `AnswerError` a lost answer or a failed server; a request that was
  cancelled by a reload ends with the page (`LoadPage`).
* **Counters** (`RequestLimits`) hold the time they have left, shortened by every
  `Tick`, instead of an absolute time: no bound on time is needed, and every
  behaviour is infinite. A clock that is set back, which lengthens a window, is
  not modelled. `passed` is a history: what each key was let through in its
  window, kept without looking at the counters, so that `BudgetsHold` compares
  the limits with what happened and not with what was counted.
* **Records are trees** (`Predicates`, `RecordTrees`), fields are sequences of names, so arrays
  and nested objects are projected and masked as the code does. An object of the
  model maps every name, those it does not have to `Missing`, and a record has at most
  `MaxHeight` levels below its root, any number that is finite: the code refuses a
  record with a cycle. The code's check
  that no field lies below another compares neighbours in sorted order only, which
  differs from `Canonical` for names with a character that sorts below the dot;
  such names are outside the model, as are names that are array indices.
* **Imports.** Predicates, field lists and capsule attributes are fixed when a
  store is imported; `policy` chooses among several imports in the initial state.
  What a grant froze when it was requested is therefore what its contract says.
  A native target's evaluation of a query (`ElasticsearchSelects`, `BwSelects`) is
  external: modelled from what the compiler's comments and tests expect of it.
  Array-valued fields in Elasticsearch are left out. A field a record lacks
  matches an `eq` without a value, as in `evalPredicate`.
* **Gates** (`PolicyCompiler`). Of what a gate reports only the row filter is
  modelled. Every gate requires `purpose_binding` (`compiler.ts:445`), no target
  is ever said to support it, and only contracts without a missing capability
  enter the plan: the plan is empty whatever the other capabilities say, so
  modelling them would add nothing that could go wrong.
* **A copy that cannot be tidied up** (`ControlPlaneRepository`). Restoring to a
  new place copies and restricts the file before the `try` that removes it
  (`control-plane-ops.ts:280-291`): `DiscardCopy` is a failed copy or the handler,
  `LeaveCopy` a failed `restrictFile` or `unlinkSync`, after which the restored
  file stays.

## 3. What is checked

Every run takes seconds to about three minutes with two workers.
`CHECK_DEADLOCK FALSE` is set throughout: the counters of grants, requests,
campaigns, assignments, starts, commands and tokens are bounded, so an instance
may use them up and stop, as may a service nobody calls. `RequestLimits` alone
can never stop.

| Run | Question | Result |
|---|---|---|
| `store_jit` | two grants of two administrators, one of whom has business access too, while their control-plane seats are taken away and granted again, capsules are offboarded and the clock jumps | `TypeOK`, `Restorable`, `OpenGrantsFollowAssignment`, `DualControl`, `DecisionsAreFinal` hold |
| `store_roles` | three drafts, two of them sharing a scope, applied to four people who also leave, return and are offboarded | `AdminSurvives`, `NoSodConflict`, `OneManagedRole`, `InactiveCapsulesEmpty`, `Restorable` hold |
| `role_requests` | two requests for roles of one scope whose reviewers leave and return between approvals | `RequestTypeOK`, `EvidenceRestorable`, `RolesAreApprovedByTwo` hold |
| `role_review_date` | a review after the clock went back | `ReviewsFollowCreation` violated |
| `role_admin` | an administrator who leaves, is granted a role, and returns | `AdminsHoldNoRole` violated |
| `recert` | two campaigns, the second possibly a renewal, and requests for a third, while roles of one scope are given, replaced in place and removed | `RecertTypeOK`, `RevokedStaysRevoked`, `DecisionsAreInformed`, `CampaignsRestorable`, `ClosedCampaignsStay` hold |
| `recert_overdue` | a decision whose refresh read the clock before the due date | `OverdueDecisionsBlocked` violated |
| `repository` | two starts, two commands of the tool, an ordinary request and a reset, from no file, an old one and one that cannot be migrated, killed or failing at every step | `TypeOK`, `MemoryMatchesDisk`, `NothingHalfDoneIsKept`, `MigratedOnce`, `RestoreReportsTruth`, `ReplacedRowIsRecoverable`, `ImplementsAtomic`, `EverythingEnds` hold |
| `sessions` | a tab with two tokens and three requests on the way, while seats are removed, granted anew and restored, in a demo and in production | `SessionTypeOK`, `PageUsesOwnToken`, `NewerLoginSurvives`, `LapsedTokensStayRefusedInProduction`, `EveryWaitEnds` hold |
| `sessions_demo` | a seat of the demo is removed and a restart puts it back | `LapsedTokensStayRefused` violated |
| `rate_limits` | two peers, two people and four accounts compete for one place in each map and two in the lockout | `TypeOK`, `BudgetsHold`, `RetryAfterIsExact`, `BlocksStand` hold |
| `decisions` | every question about every record, dataset, purpose and draft, in every state of a store with one grant, for five imports | `AllowedIsEntitled`, `DatasetReadsAreTruthful`, `WarehouseReadsAreTruthful`, `NativePoliciesNeverWiden`, `ElasticsearchFiltersAreExact` hold |

**The abstract specification.** `ImplementsAtomic` says that
`ControlPlaneRepository`, under the mapping `log <- HistoryOf(target)` and
`copies <- ` the histories in bundles and in the tool's memory, implements
`AtomicControlPlane`: whatever is killed or fails, a request takes effect at the
end of the history in one step; success is reported only for a request in the
history, failure only for one that is neither in it nor in any copy; a history
is otherwise only extended by the program's own events, put back from a copy,
reset, or given up when the file is lost.

**Why the bounds are enough.** Two grants let one be closed while the other is
open, and TTLs of 1 and 2 let an approver shorten or lengthen what was asked.
Times 0 and 1 with a free clock give every order of two instants (creation before,
with and after a decision). `MaxAssignment` exceeds the seed memberships, so that
somebody is removed and comes back under a new id, and a second person can come
too. No capsule but the control plane is granted again without a role request
(`addMembership`), so `store_jit` lets an import bind a contract that needs
approval to the control plane: either administrator's seat then carries requests
while the other one takes it away and gives it back. The constraint `Explored`
lets two kinds of state be checked without following them further: a whole domain
offboarded, which goes on as after the offboarding of the capsule below it, and two
closed grants, after which none can be open again. Three drafts give a shared scope
(`OperateMaster`, `ViewMaster`: same capsule, different persona and contract) and a
different one that has to retire it (`ViewAudit`); `SupportContract` gives emma standing access that conflicts
with two of them. Two requests let one be applied while the other waits. Two
campaigns let one renew the other; a third may be asked for, as a second renewal of
the first or one of the second, and is checked, but by the constraint `TwoExplored`
not followed further: a name has at most one campaign open. Two starts let one resume what the other left
half migrated; two commands let a restore follow a backup, or one restore
another, with a bundle each for the source and the rollback. Two tokens are an
earlier and a newer login of one tab, and with three requests answers of both can
be on the way while a third is sent. Maps of one place are full all the time, and
two places in the lockout show who is evicted first. The imports have every kind
of predicate, also nested, empty and contradicting ones, and records with arrays
of objects; one of them compares the vendor with a literal asterisk, and two ask
for a field to be missing. One grant is enough to ask whether a grant is honoured
rightly, but not which of two live ones decides, and no seat of `decisions` comes
back under a new assignment: with a second grant the run takes longer than its five
minutes. What `AllowedIsEntitled` and `DatasetReadsAreTruthful` say of those cases
rests on the theorems of section 4, which bound neither.

**Fairness.** Only what runs on its own is assumed to go on.

* `ControlPlaneRepository`: `ProcessRuns` and `ToolRuns` are weakly fair: a start, a
  handler and a command are straight-line code that waits for nobody. Starting
  the process, sending a request and giving a command are left to people.
* `Sessions`: the browser's timers fire, namely the expiry of the token
  (`TimerFires`) and the 20 seconds of each single request. The server is not
  assumed to answer.
* `RequestLimits` has none: how long a refusal and a block last is said in ticks
  (`RetryAfterIsExact`, `BlocksStand`), so that both end if time passes at all.
* The store, the requests and the campaigns have none: there is no background job
  (even the expiry of a campaign happens inside a handler), so what must happen
  there depends on people calling.

### Disagreements between the code and what it says

1. `role_admin`: `addMembership` does not look at Role Studio memberships, so an
   administrator removed from the control plane can be granted a warehouse role
   by two reviewers and then be added again, which `lifecycle.ts:640` and the
   brief ("Platform Admin remains a zero-business-data role") exclude.
2. `role_review_date`: approving or denying a role request records the time of
   day without comparing it with the creation. After the clock went back the
   saved state fails the check of `control-plane.ts:581` and cannot be loaded.
   The JIT operations do compare.
3. `recert_overdue`: a recertification decision is taken at a second reading of
   the clock that is not compared with `dueAt`, although the summary reports
   `overdueDecisionPolicy: "blocked"`.
4. `sessions_demo`: in demo mode every start puts missing seed memberships back
   with the assignment ids of the seed (`control-plane.ts:306-324`), so a token
   issued under one that was removed is accepted again, which `app.ts:330-334`
   says cannot happen. In production nothing is put back and the property holds.

Not shown by a run: a BW row filter counts as supported whenever its list of vendors
is not empty (`compiler.ts:560-562`). A clause of an alternative that BW cannot express
(a region, say) is dropped from the list (400-404), which then misses rows, and a
literal `"*"` in a predicate stands for every vendor in the list, while `SECURITY.md:68`
says that a compiler fails closed where it cannot reproduce the semantics exactly.
Nothing is applied from such a gate, since it always lacks `purpose_binding`. For
Elasticsearch the filter is exact (`ElasticsearchFiltersAreExact`).

Also not shown by a run: `warehouseScopesFor` (`lifecycle.ts:785-859`) takes every
contract bound to a live membership, whether or not it is marked
`approvalRequired`, although `types.ts:78` says such contracts never grant
standing access. No operation and no seed binds one for the warehouse; an import
could.

## 4. What is proved

For all values of the constants that satisfy the named assumptions of the modules.
Those of `AccessStore` describe a first snapshot. `restore` checks that there is one
membership per person and capsule, with distinct assignment ids, and that only the
admin persona is in the control plane. That somebody enabled is there, that the base
has no role-studio capsule, that the control plane is bound to no warehouse contract an
administrator could use, and that nobody starts with forbidden duties is so of the
seed (`seed.ts`) and assumed of an import. The others are
given where they matter below; TLC evaluates all of them on the instances.

| Property (a run checks it) | Theorem | Module |
|---|---|---|
| `TypeOK` | `TypeCorrect` | `AccessStoreProofs` |
| `Restorable` | `AlwaysRestorable` | same |
| `OpenGrantsFollowAssignment` | `GrantsFollowAssignment` | same |
| `DualControl` | `AlwaysDualControl` | same |
| `DecisionsAreFinal` | `DecisionsStayFinal` | same |
| `AdminSurvives` | `AlwaysAnAdmin` | same |
| `NoSodConflict` | `NeverConflictingDuties` | same |
| `OneManagedRole` | `AtMostOneRole` | same |
| `InactiveCapsulesEmpty` | `InactiveMeansEmpty` | same |
| `RequestTypeOK` | `RequestTypeCorrect` | `RoleRequestProofs` |
| `EvidenceRestorable` | `EvidenceAlwaysRestorable` | same |
| `RolesAreApprovedByTwo` | `RolesNeedTwo` | same |
| `RecertTypeOK` | `RecertTypeCorrect` | `RecertificationProofs` |
| `CampaignsRestorable` | `CampaignsAlwaysRestorable` | same |
| `RevokedStaysRevoked` | `RevocationIsLasting` | same |
| `DecisionsAreInformed` | `DecisionsStayInformed` | same |
| `ClosedCampaignsStay` | `ClosedCampaignsAreFinal` | same |
| `TypeOK` of the repository | `RepositoryTypes` | `ControlPlaneProofs` |
| `MemoryMatchesDisk` | `MemoryAlwaysMatchesDisk` | same |
| `NothingHalfDoneIsKept` | `NothingHalfDoneIsEverKept` | same |
| `MigratedOnce` | `AlwaysMigratedOnce` | same |
| `RestoreReportsTruth` | `RestoreAlwaysReportsTruth` | same |
| `ReplacedRowIsRecoverable` | `ReplacedRowAlwaysRecoverable` | same |
| `ImplementsAtomic` | `ImplementsAtomicControlPlane` | same |
| `SessionTypeOK` | `SessionTypeCorrect` | `SessionProofs` |
| `PageUsesOwnToken` | `OwnTokenAlways` | same |
| `NewerLoginSurvives` | `NewerLoginAlwaysSurvives` | same |
| `LapsedTokensStayRefusedInProduction` | `LapsedTokensAlwaysRefused` | same |
| `TypeOK` of the limits | `LimitsTypeCorrect` | `RequestLimitProofs` |
| `BudgetsHold` | `BudgetsAlwaysHold` | same |
| `RetryAfterIsExact` | `RetryAfterAlwaysExact` | same |
| `BlocksStand` | `BlocksAlwaysStand` | same |
| `AllowedIsEntitled` | `AllowedAlwaysEntitled` | `DecisionProofs` |
| `NativePoliciesNeverWiden` | `NativePoliciesStayNarrow` | same |
| `ElasticsearchFiltersAreExact` | `ElasticsearchFiltersAlwaysExact` | same |
| `WarehouseReadsAreTruthful` | `WarehouseAlwaysTruthful` | same |
| `DatasetReadsAreTruthful` | `DatasetReadsAlwaysTruthful` | same |

Two simpler facts are proved without a run of their own: a decided request is closed
for good (`RequestsOnlyAdvance`, by `RequestsAdvance`), and a live budget is neither
dropped nor prolonged (`LiveBudgetsStand`, by `BudgetsAlwaysStand`), most of which
`BudgetsHold` and `RetryAfterIsExact` show too.

`RequestsUseStore`, `CampaignsUseStore` and `DecisionsUseStore` show that every
behaviour of these modules is one of the store, so the store's theorems hold under
them too. `Sessions` is not such a client: a restart of the demo puts seats back.
`DemoStaysRestorable` therefore proves the checks of a restart for it anew.

**The inductive invariant.** `Restorable` is not inductive by itself. A new
member could take an assignment id in use: `AssignmentsFresh` says ids below
`nextAssignment` are the used ones. More interesting, `applyRoleDraft` changes the
persona of a membership *in place* and keeps its assignment id, which would break
any open grant made under the old persona; no such grant exists because
Role Studio contracts never require approval (`RoleBindingsStanding`) and a grant is
only for a contract that does (`GrantsNeedApproval`). That is the reason the code
is right there, and no guard of `applyRoleDraft` says so.

**The argument** treats memberships and grants apart: `FewerMembers` and
`OneMoreMember` cover all changes of memberships; `ExpiryIsEnough` shows that
closing at least the grants on what is removed keeps the rest anchored;
`DecisionIsEnough` covers approve, deny and revoke. `GrantsMove` says what may
become of a grant in one step, and dual control and finality follow from it.

**Duties and roles** (`PolicyInv`). Duties are evaluated only when a draft is applied,
so `NoSodConflict` needs to know that nothing else adds one. The policy is
monotone: fewer facts never conflict where more do not. Removing and offboarding
only take facts away. Applying a role to one person could add a duty to
*another* who shares the scope capsule, through the new binding; it does not,
because that person holds the persona of a draft whose own contract is already
bound there (`RolesBound`), and that fact covers what any other contract of the
scope can give under the same persona. A capsule that is activated again is empty. Joining the
control plane adds nothing under `ControlPlaneAssumption`: the seed binds no
contract to it.

**Campaigns** (`CampaignsMove`). Every step moves a campaign in one of a few ways: it
stays, pending items are closed as removed, or one item is decided by somebody
eligible about a live membership. That a revocation lasts needs two more facts:
an item names an assignment already given out (`ItemsAged`), and no step brings
back an assignment that nobody holds (`NoOldAssignment`), although `applyRoleDraft`
keeps the id of the membership it changes in place. That a campaign has at most one
successor needs `SuccessionSound`, the same of the state: renewing looks for a
campaign that names the old one, and nothing ever removes one from the list.

**The repository** (`RepositoryAssumption`: the five marks of a file are distinct
and no rows, the first file holds no request and records a migration only where it
took place). `Inv` has three parts. `Held` and `Protocol` say what the process and
the tool know of the file at each point: outside a request the memory of a process
is the file, within one the copies `mutateAndPersist` took are; a restore runs only
while the process is down, and from before it touches the file the row it will
replace is in a bundle that verifies (`RollbackKept`). `AllSound` says that every
row in the file, in a bundle or held by the tool is whole and records each migration
at most once. The working copy of a request is left out: while the operation runs it
is half done, which is why the save must come after it. No bound plays a part:
the proofs hold for any number of starts, commands, bundles and requests.

**The refinement.** `StepKinds` sorts the thirty-one actions into seven kinds by what
they do to the history: nothing, a request begins, the program adds events of its
own, a save, an answer, a copy put back, the history given up. `Answers` is the
invariant a save needs: the request being handled is in no history, neither the
file's nor a copy's, until the save, and after an undo still in none. With it every kind is a step
of `AtomicControlPlane` or a stutter. `AnswersAreAlwaysTrue` follows from the same
invariant: what clients were told is what the history says.

**Sessions** (`SessionAssumption`: what a demo puts back is part of the seed). A page
shows an account exactly by the tab's token and under that token's timer
(`PageUsesOwnToken`); to be inductive it needs that requests on the wire name only
tokens already issued (`WireNamesTokens`, so that an answer can install only one that
exists), and that a tab told of an expired session has none (`ExpiryEndsTab`).
`NewerLoginSurvives` then follows step by step. For the store, `SeedAssignmentsKept` says
that a member under an id of the seed is that member of the seed, which is why
putting a seat back never gives one id to two people. That a lapsed token stays
refused in production needs `ScopesIssued`: a token names assignments already given
out, and no step but a restart of the demo or its reset revives one.

**Limits** (`LimitAssumption`: positive limits, finitely many keys; `FreeAssumption`:
no entry is not an entry). For `BudgetsHold` the invariant ties the counters to the
history: a live counter has counted exactly what was let through in its window, and a
key without one has had nothing let through in a window that still lasts. A delay is
exact because a full map holds only live windows, none of which leaves before its end.
A full map drops only counters whose window is over, so
that a live budget is untouched by what is counted for other keys. The lockout keeps
its order beside the map; `LimitsInv` says that it lists the entries exactly once
each, so that the oldest one is evicted and none is lost. The loop that takes keys
out of the order is reasoned about with `Iteration` and `LoopInvariant`.

**Induction without operators.** The library's induction theorems take an operator
as a parameter, which these provers cannot instantiate. `Induction` derives what is
needed from `WFMin`, stated of *sets*: a set of naturals that contains each number
whose predecessors it contains is all of them; a recursive *function* over a set with
a rank satisfies its equation (`Recursion`); so do the folds of the community modules
(`FoldsExist`, `FoldInduction`). Predicates have a rank, `Nesting`
(`PredicateAssumption`: clauses are finite and nested less deeply than what contains
them), so evaluating, compiling and turning one into scopes are recursive functions whose
equations are lemmas.

**Decisions** (`ImportAssumption`: classifications, predicates, datasets, ceilings and
field lists are of the form an import is checked for). `AllowedIsEntitled` needs one
invariant of its own: a grant's frozen scope stays within its contract
(`GrantsWithinContract`), whatever becomes of the grant. The rest is the decision
procedure: standing access comes from one seat and one contract bound to its capsule,
and access by a grant from the assignment it was asked under, which
`OpenGrantsFollowAssignment` shows is the one held now.

**Native artifacts.** `VendorsNeverWider` and `QueryNeverWider` go by induction on the nesting
of predicates: what an artifact selects satisfies the predicate. The property itself excepts
BW lists of predicates that compare the vendor with a literal asterisk: nothing in the code
excludes such a predicate, and for it the list means more than the predicate. For a predicate
that the gate's own walk accepts, `SupportedQueryMissesNothing` is the converse, so that the
query is exact.

**Warehouse reads** (`WarehouseAssumption`: rows have distinct ids, a level, and a plain
value in each dimension; `DraftAssumption`: a checked draft names a product and no null). `ScopesNeverWider`
goes by induction on the nesting: a row that some scope of a predicate admits
satisfies the predicate. The delicate case is `and`, where scopes are intersected
dimension by dimension. Columns are a fold over scopes (`AllowedByAll`): a column is shown only if each
scope releases it. `PageFacts` and `WalkFacts` show that walking the pages yields
each row once. A preview is compared with what the role will read: the scopes of a
draft are those of the predicate that `applyRoleDraft` stores. `StoreFinite` is the
invariant behind this: the store holds finitely many seats and bindings, so that the
fold over scopes is defined.

**Dataset reads** (`TreeAssumption`: a missing value is no value, names are strings;
`RecordAssumption`: records are finitely many trees, and a dataset's fields are plain
in them; lists of denied fields are finite). A tree has a height, but the values of a
recursion over trees do not lie in one set fixed beforehand: what a projection makes of a tree is
no higher than the tree, and the set to draw it from depends on the tree.
`TypedRecursion` in `Induction` covers this, and `LeavesUnfold`,
`ProjectUnfolds` and `DeleteUnfolds` are the equations. `ProjectLeaves` says that every
value left by the allowed fields lies below one of them, `DeleteLeaves` that deleting a
field leaves what does not lie below it and adds nothing, and `ProjectAttrsFacts`
folds the two over the denied fields. `FieldsJustified` is what the decision
contributes: each allowed field comes from a contract that entitles, and what
this contract and all standing ones deny is in the list of denied fields. The summary
is complete because a purpose under which a row is shown is that of a bound
contract or of a grant (`ShownPurposes`).

**Only model-checked.** Liveness (`EverythingEnds`, `EveryWaitEnds`) is beyond the prover, and the disagreements of section 3 are
shown by counterexample. Every safety and action property of a passing run is proved.

## 5. Plan

1. Two live grants of one principal in `decisions`, with a coarser store than
   `AccessStore` so that the instance stays small.

### Not modelled

The need parser (text processing without state), request schemas (the models
enumerate only inputs that pass them), the cryptographic helpers and the hash
chain of the audit trail (no operation branches on their values), the SQL engine,
environment variables and the reverse proxy, the dashboard's aggregates, the import
of the warehouse file, and the views of the web console, which keep nothing but
what they fetched.
