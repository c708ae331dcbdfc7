------------------------- MODULE ControlPlaneRepository -------------------------
(***************************************************************************)
(* The durable control plane: the single row of the SQLite file            *)
(* (apps/api/src/control-plane.ts), the API process that works on a copy   *)
(* of it in memory (mutateAndPersist in app.ts, the start in index.ts) and *)
(* the offline tool that backs the file up and restores it                 *)
(* (control-plane-ops.ts).                                                 *)
(*                                                                         *)
(* A statement of SQLite that commits is one step; between two such steps  *)
(* the process or the tool may be killed, and a step that can throw has an *)
(* alternative in which it does.  What a row says is abstracted to what    *)
(* the protocol looks at: its versions, whether an operation is half done  *)
(* in it, whether a fixture of the demo is missing, and its audit trail,   *)
(* whose events stand for the changes they record.  The checks a load      *)
(* makes on the contents are in Restorable, EvidenceRestorable and         *)
(* CampaignsRestorable of the other modules.                               *)
(***************************************************************************)
EXTENDS Naturals, Sequences, FiniteSets

CONSTANTS
  Op,               \* requests that change the control plane
  Reset,            \* the one of them that rebuilds the demo
  FixtureRemoval,   \* those that remove something the demo relies on
  Mode,             \* values of CCA_MODE
  FirstFile,        \* files a deployment may start from
  NoFile,           \* there is no file
  Empty,            \* a database without the row
  Damaged,          \* a file nothing can be read from
  Absent,           \* there is no bundle, or no manifest in it
  Nothing,          \* no value
  BundleName,       \* places for backup bundles
  MaxStarts,        \* bound on the starts of the API
  MaxCommands       \* bound on the commands of the tool

VARIABLES
  mode,       \* CCA_MODE of the deployment
  api,        \* where the process is
  memory,     \* the store and the API state it works on
  before,     \* storeBefore and stateBefore of mutateAndPersist
  request,    \* the request being handled
  target,     \* the file CCA_CONTROL_DB
  tried,      \* requests handled so far
  accepted,   \* requests answered with success, while their history stands
  refused,    \* requests answered with an error
  starts,     \* starts of the API so far
  tool,       \* where the command is
  job,        \* which command it is
  row,        \* backupRow of restoreControlPlane
  previous,   \* previousRow of restoreControlPlane
  outcome,    \* how the last command ended
  destination, \* the bundle the last command wrote
  bundles,    \* what is in each place for a bundle
  commands    \* commands so far

process == <<api, memory, before, request>>
answers == <<tried, accepted, refused>>
command == <<tool, job, destination, row, previous, outcome, commands>>
vars == <<mode, process, target, answers, starts, command, bundles>>

MigrateStore == "store.migrate.v2-v3"
MigrateApi   == "api-state.migrate.v1-v2"
Reconciled   == "store.reconcile.demo-seed"
Seeded       == "store.seed"
Upkeep == {MigrateStore, MigrateApi, Reconciled, Seeded}

Row ==
  [store : {2, 3}, api : {1, 2}, legacyGrants : BOOLEAN, fixtures : BOOLEAN,
   whole : BOOLEAN, audit : Seq(Op \cup Upkeep)]

Events(history) == {history[i] : i \in 1 .. Len(history)}

Places(history, event) == {i \in 1 .. Len(history) : history[i] = event}

\* A migration is recorded at most once, and only where it took place.
MigrationsRecorded(r) ==
  /\ \A event \in {MigrateStore, MigrateApi} : Cardinality(Places(r.audit, event)) <= 1
  /\ MigrateStore \in Events(r.audit) => r.store = 3
  /\ MigrateApi \in Events(r.audit) => r.api = 2

File == Row \cup {NoFile, Empty, Damaged}

Bundles == [database : File \cup {Nothing}, manifest : Row \cup {Absent}]

ASSUME RepositoryAssumption ==
  /\ Op \cap Upkeep = {}
  /\ FixtureRemoval \subseteq Op
  /\ Mode \subseteq {"demo", "test", "production"}
  /\ \A f \in {NoFile, Empty, Damaged, Absent, Nothing} : f \notin Row
  /\ NoFile \notin {Empty, Damaged, Absent, Nothing} /\ Empty \notin {Damaged, Absent, Nothing}
  /\ Damaged \notin {Absent, Nothing} /\ Absent # Nothing
  /\ Absent \notin Bundles
  /\ FirstFile \subseteq Row \cup {NoFile}
  /\ \A f \in FirstFile \ {NoFile} :
       f.audit \in Seq(Upkeep) /\ f.whole /\ MigrationsRecorded(f)
  /\ MaxStarts \in Nat /\ MaxCommands \in Nat

HasRow(file) == file \notin {NoFile, Empty, Damaged}

-----------------------------------------------------------------------------
\* What the code computes from a row.

\* Version 2 of the store is migrated outside production, and never while it
\* holds grants whose frozen scope nobody recorded.
Loadable(file, m) ==
  /\ HasRow(file)
  /\ file.store = 2 => m # "production" /\ ~file.legacyGrants

AppendAudit(r, event) == [r EXCEPT !.audit = Append(@, event)]

\* Mutant: the version stays behind.
MigrateWithoutVersion(r) == IF r.store = 2 THEN AppendAudit(r, MigrateStore) ELSE r

MigrateLegacyEnvelope(r) ==
  IF r.store = 2 THEN AppendAudit([r EXCEPT !.store = 3], MigrateStore) ELSE r

\* Mutant: the migration runs on what is migrated already.
MigrateApiAgain(r) == AppendAudit([r EXCEPT !.api = @ + 1], MigrateApi)

MigrateApiState(r) ==
  IF r.api = 1 THEN AppendAudit([r EXCEPT !.api = 2], MigrateApi) ELSE r

Migrated(r) == MigrateApiState(MigrateLegacyEnvelope(r))

Fresh ==
  [store |-> 3, api |-> 2, legacyGrants |-> FALSE, fixtures |-> TRUE,
   whole |-> TRUE, audit |-> <<Seeded>>]

\* An operation while it runs: something is changed already, and nothing says
\* that the rest will be.
HalfDone(r) == [r EXCEPT !.whole = FALSE]

Applied(r, op) ==
  IF op = Reset
  THEN AppendAudit(Fresh, op)
  ELSE AppendAudit([r EXCEPT !.fixtures = @ /\ op \notin FixtureRemoval], op)

\* The tool looks at every file through the eyes of a production start.
Inspectable(file) == Loadable(file, "production")

\* The manifest carries the hashes of the database it was written for.
Verified(b) ==
  /\ bundles[b] # Absent
  /\ bundles[b].manifest # Absent
  /\ bundles[b].database = bundles[b].manifest
  /\ Inspectable(bundles[b].database)

-----------------------------------------------------------------------------
\* The API process.  It starts only while no restore runs: the operator
\* confirms that the writer is stopped.

Idle == tool = "idle"

WriterMayRun == Idle \/ job = "backup"

Memoryless == memory' = Nothing /\ before' = Nothing /\ request' = Nothing

\* Whoever uses the file again is done with the last restore of it.
ForgetRestore ==
  /\ row' = Nothing /\ previous' = Nothing /\ outcome' = "none"
  /\ destination' = IF Idle THEN Nothing ELSE destination

\* The constructor of the repository: outside production it makes an empty
\* database where there is none, in production it wants a row that loads.
OpenRepository ==
  /\ api = "down" /\ WriterMayRun
  /\ starts < MaxStarts
  /\ IF mode = "production" THEN Loadable(target, mode) ELSE target # Damaged
  /\ target' = IF target = NoFile THEN Empty ELSE target
  /\ api' = "opened"
  /\ Memoryless
  /\ starts' = starts + 1
  /\ ForgetRestore
  /\ UNCHANGED <<mode, answers, tool, job, commands, bundles>>

\* One save, and only if something was migrated.
LoadAndMigrate ==
  /\ api = "opened" /\ Loadable(target, mode)
  /\ memory' = Migrated(target)
  /\ target' = memory'
  /\ api' = "loaded"
  /\ UNCHANGED <<mode, before, request, answers, starts, command, bundles>>

InitializeControlPlane ==
  /\ api = "opened" /\ target = Empty /\ mode # "production"
  /\ memory' = Fresh
  /\ target' = memory'
  /\ api' = "loaded"
  /\ UNCHANGED <<mode, before, request, answers, starts, command, bundles>>

NeedsReconciliation == mode = "demo" /\ ~memory.fixtures

ReconcileDemoSeed ==
  /\ api = "loaded" /\ NeedsReconciliation
  /\ memory' = AppendAudit([memory EXCEPT !.fixtures = TRUE], Reconciled)
  /\ target' = memory'
  /\ UNCHANGED <<mode, api, before, request, answers, starts, command, bundles>>

Listen ==
  /\ api = "loaded" /\ ~NeedsReconciliation
  /\ api' = "ready"
  /\ UNCHANGED <<mode, memory, before, request, target, answers, starts, command, bundles>>

\* Mutant: a start that stays when the load throws.
FailStartWithoutRow ==
  /\ api = "opened" /\ ~HasRow(target)
  /\ mode = "production"
  /\ api' = "down"
  /\ UNCHANGED <<mode, memory, before, request, target, answers, starts, command, bundles>>

\* load throws, and index.ts closes the repository and ends.
FailStart ==
  /\ api = "opened" /\ HasRow(target) /\ ~Loadable(target, mode)
  /\ api' = "down"
  /\ UNCHANGED <<mode, memory, before, request, target, answers, starts, command, bundles>>

\* mutateAndPersist takes its copies and calls the operation.
BeginMutation(op) ==
  /\ api = "ready" /\ op \notin tried
  /\ op = Reset => mode # "production"
  /\ before' = memory
  /\ memory' = HalfDone(memory)
  /\ request' = op
  /\ tried' = tried \cup {op}
  /\ api' = "mutating"
  /\ UNCHANGED <<mode, target, accepted, refused, starts, command, bundles>>

FinishMutation ==
  /\ api = "mutating"
  /\ memory' = Applied(before, request)
  /\ api' = "mutated"
  /\ UNCHANGED <<mode, before, request, target, answers, starts, command, bundles>>

\* Mutant: the catch block forgets the copies.
UndoNothing ==
  /\ api \in {"mutating", "mutated"}
  /\ api' = "refusing"
  /\ UNCHANGED <<mode, memory, before, request, target, answers, starts, command, bundles>>

\* The operation threw, or the save did and its transaction was rolled back.
UndoMutation ==
  /\ api \in {"mutating", "mutated"}
  /\ memory' = before
  /\ api' = "refusing"
  /\ UNCHANGED <<mode, before, request, target, answers, starts, command, bundles>>

\* Mutant: the operation runs on after the save.
SaveEarly ==
  /\ api \in {"mutating", "mutated"}
  /\ target' = memory
  /\ accepted' = accepted \cap Events(memory.audit)
  /\ api' = "accepting"
  /\ UNCHANGED <<mode, memory, before, request, tried, refused, starts, command, bundles>>

Save ==
  /\ api = "mutated"
  /\ target' = memory
  /\ accepted' = accepted \cap Events(memory.audit)
  /\ api' = "accepting"
  /\ UNCHANGED <<mode, memory, before, request, tried, refused, starts, command, bundles>>

\* Mutant: the error is swallowed.
ReplyAlwaysOk ==
  /\ api \in {"accepting", "refusing"}
  /\ accepted' = accepted \cup {request}
  /\ api' = "ready"
  /\ before' = Nothing /\ request' = Nothing
  /\ UNCHANGED <<mode, memory, target, tried, refused, starts, command, bundles>>

Reply ==
  /\ api \in {"accepting", "refusing"}
  /\ accepted' = accepted \cup (IF api = "accepting" THEN {request} ELSE {})
  /\ refused' = refused \cup (IF api = "refusing" THEN {request} ELSE {})
  /\ api' = "ready"
  /\ before' = Nothing /\ request' = Nothing
  /\ UNCHANGED <<mode, memory, target, tried, starts, command, bundles>>

\* The process is stopped or killed, or its start fails.
Stop ==
  /\ api # "down"
  /\ api' = "down"
  /\ Memoryless
  /\ UNCHANGED <<mode, target, answers, starts, command, bundles>>

-----------------------------------------------------------------------------
\* The backup command, which is also the first half of a restore.

Bundle == [database |-> Nothing, manifest |-> Absent]

BeginCommand(kind, first) ==
  /\ Idle /\ commands < MaxCommands
  /\ job' = kind /\ tool' = first
  /\ commands' = commands + 1
  /\ previous' = Nothing /\ outcome' = "none"

EndCommand(how) ==
  /\ tool' = "idle" /\ job' = "none" /\ outcome' = how
  /\ UNCHANGED <<destination, row, previous, commands>>

MakeBundle(b) ==
  /\ bundles[b] = Absent /\ target # NoFile
  /\ bundles' = [bundles EXCEPT ![b] = Bundle]
  /\ destination' = b

BeginBackup(b) ==
  /\ BeginCommand("backup", "copying")
  /\ MakeBundle(b)
  /\ row' = Nothing
  /\ UNCHANGED <<mode, process, target, answers, starts>>

\* SQLite's online backup: one consistent state, whatever the API does.
CopyDatabase ==
  /\ tool = "copying"
  /\ bundles' = [bundles EXCEPT ![destination].database = target]
  /\ tool' = "inspecting"
  /\ UNCHANGED <<mode, process, target, answers, starts, job, destination, row, previous, outcome, commands>>

WriteManifest ==
  /\ tool = "inspecting" /\ Inspectable(bundles[destination].database)
  /\ bundles' = [bundles EXCEPT ![destination].manifest = bundles[destination].database]
  /\ IF job = "backup"
     THEN EndCommand("backed-up")
     ELSE tool' = "reading" /\ UNCHANGED <<job, destination, row, previous, outcome, commands>>
  /\ UNCHANGED <<mode, process, target, answers, starts>>

\* An unfinished bundle is removed again.
AbandonBundle ==
  /\ tool \in {"copying", "inspecting"}
  /\ bundles' = [bundles EXCEPT ![destination] = Absent]
  /\ EndCommand("failed")
  /\ UNCHANGED <<mode, process, target, answers, starts>>

-----------------------------------------------------------------------------
\* The restore command.

\* Where there is no file, the bundle is copied; a file that is there must
\* load, and gets a bundle of its own before it is touched.
BeginRestore(b, rollback) ==
  /\ api = "down" /\ Verified(b)
  /\ row' = bundles[b].database
  /\ \/ /\ target = NoFile
        /\ BeginCommand("restore", "creating")
        /\ target' = Damaged
        /\ UNCHANGED <<destination, bundles>>
     \/ /\ Inspectable(target)
        /\ BeginCommand("restore", "copying")
        /\ MakeBundle(rollback)
        /\ UNCHANGED target
  /\ UNCHANGED <<mode, process, answers, starts>>

PutBackRow(r) ==
  /\ target' = r
  /\ accepted' = accepted \cap Events(r.audit)
  /\ UNCHANGED <<tried, refused>>

FinishCopy ==
  /\ tool = "creating"
  /\ PutBackRow(row)
  /\ tool' = "checking-copy"
  /\ UNCHANGED <<mode, process, starts, job, destination, row, previous, outcome, commands, bundles>>

\* The copy throws and the runtime removes what there is of it, if it can; or
\* the inspection throws, and the handler removes the copy.
DiscardCopy ==
  /\ tool \in {"creating", "checking-copy"}
  /\ target' \in IF tool = "creating" THEN {NoFile, Damaged} ELSE {NoFile}
  /\ accepted' = {}
  /\ EndCommand("failed")
  /\ UNCHANGED <<mode, process, tried, refused, starts, bundles>>

\* The copy is there, and restricting it or removing it throws: no handler
\* follows, and the restored file stays although the command failed.
LeaveCopy ==
  /\ tool \in {"creating", "checking-copy"}
  /\ PutBackRow(row)
  /\ EndCommand("failed")
  /\ UNCHANGED <<mode, process, starts, bundles>>

ReadPreviousRow ==
  /\ tool = "reading"
  /\ previous' = target
  /\ tool' = "writing"
  /\ UNCHANGED <<mode, process, target, answers, starts, job, destination, row, outcome, commands, bundles>>

WriteStateRow ==
  /\ tool = "writing"
  /\ PutBackRow(row)
  /\ tool' = "checking"
  /\ UNCHANGED <<mode, process, starts, job, destination, row, previous, outcome, commands, bundles>>

\* A step that changed nothing yet throws.
GiveUpRestore ==
  /\ tool \in {"reading", "writing"}
  /\ EndCommand("failed")
  /\ UNCHANGED <<mode, process, target, answers, starts, bundles>>

ConfirmRestored ==
  /\ tool \in {"checking", "checking-copy"}
  /\ Inspectable(target) /\ target = row
  /\ EndCommand("restored")
  /\ UNCHANGED <<mode, process, target, answers, starts, bundles>>

\* Mutant: the rollback bundle is cleaned up with the failed restore.
RejectAndClean ==
  /\ tool = "checking"
  /\ bundles' = [bundles EXCEPT ![destination] = Absent]
  /\ tool' = "undoing"
  /\ UNCHANGED <<mode, process, target, answers, starts, job, destination, row, previous, outcome,
                 commands>>

\* The inspection throws or the snapshot is another one.
RejectRestored ==
  /\ tool = "checking"
  /\ tool' = "undoing"
  /\ UNCHANGED <<mode, process, target, answers, starts, job, destination, row, previous, outcome, commands,
                 bundles>>

WritePreviousRow ==
  /\ tool = "undoing"
  /\ PutBackRow(previous)
  /\ tool' = "checking-undo"
  /\ UNCHANGED <<mode, process, starts, job, destination, row, previous, outcome, commands, bundles>>

\* Mutant: the undo is reported without having been made.
ConfirmUnwritten ==
  /\ tool \in {"undoing", "checking-undo"} /\ Inspectable(target)
  /\ EndCommand("undone")
  /\ UNCHANGED <<mode, process, target, answers, starts, bundles>>

ConfirmUndone ==
  /\ tool = "checking-undo" /\ Inspectable(target)
  /\ EndCommand("undone")
  /\ UNCHANGED <<mode, process, target, answers, starts, bundles>>

\* The error names the rollback bundle.
FailToUndo ==
  /\ tool \in {"undoing", "checking-undo"}
  /\ EndCommand("unrecovered")
  /\ UNCHANGED <<mode, process, target, answers, starts, bundles>>

-----------------------------------------------------------------------------
\* The operator and the machine.

KillTool ==
  /\ ~Idle
  /\ EndCommand("killed")
  /\ UNCHANGED <<mode, process, target, answers, starts, bundles>>

\* The runbook keeps the rollback bundle until the restore is accepted: here,
\* until the API is started on its result.
Dispensable(b) == bundles[b] # Absent /\ Idle /\ (previous # Nothing => b # destination)

DiscardBundle(b) ==
  /\ Dispensable(b)
  /\ bundles' = [bundles EXCEPT ![b] = Absent]
  /\ UNCHANGED <<mode, process, target, answers, starts, command>>

CorruptBundle(b) ==
  /\ Dispensable(b) /\ bundles[b].database # Damaged
  /\ bundles' = [bundles EXCEPT ![b].database = Damaged]
  /\ UNCHANGED <<mode, process, target, answers, starts, command>>

\* The file is lost or damaged, or the deployment is pointed at another path.
LoseFile(file) ==
  /\ api = "down" /\ Idle /\ target # file
  /\ target' = file
  /\ accepted' = {}
  /\ ForgetRestore
  /\ UNCHANGED <<mode, process, tried, refused, starts, tool, job, commands, bundles>>

-----------------------------------------------------------------------------
Init ==
  /\ mode \in Mode
  /\ target \in FirstFile
  /\ api = "down" /\ memory = Nothing /\ before = Nothing /\ request = Nothing
  /\ tried = {} /\ accepted = {} /\ refused = {}
  /\ starts = 0
  /\ tool = "idle" /\ job = "none" /\ destination = Nothing
  /\ row = Nothing /\ previous = Nothing /\ outcome = "none"
  /\ commands = 0
  /\ bundles = [b \in BundleName |-> Absent]

StartStep ==
  OpenRepository \/ LoadAndMigrate \/ InitializeControlPlane \/ ReconcileDemoSeed \/ Listen
    \/ FailStart

RequestStep ==
  (\E op \in Op : BeginMutation(op)) \/ FinishMutation \/ UndoMutation \/ Save \/ Reply

BackupStep == (\E b \in BundleName : BeginBackup(b)) \/ CopyDatabase \/ WriteManifest \/ AbandonBundle

RestoreStep ==
  \/ \E b, rollback \in BundleName : BeginRestore(b, rollback)
  \/ FinishCopy \/ DiscardCopy \/ LeaveCopy
  \/ ReadPreviousRow \/ WriteStateRow \/ GiveUpRestore
  \/ ConfirmRestored \/ RejectRestored
  \/ WritePreviousRow \/ ConfirmUndone \/ FailToUndo

EnvironmentStep ==
  \/ Stop \/ KillTool
  \/ \E b \in BundleName : DiscardBundle(b) \/ CorruptBundle(b)
  \/ \E file \in {NoFile, Damaged} : LoseFile(file)

Next == StartStep \/ RequestStep \/ BackupStep \/ RestoreStep \/ EnvironmentStep

\* A started process and a command run on: nothing in them waits for anybody.
ProcessRuns == api # "down" /\ ((StartStep /\ api # "down") \/ FinishMutation \/ UndoMutation \/ Save \/ Reply)
ToolRuns == ~Idle /\ (BackupStep \/ RestoreStep)

Fairness == WF_vars(ProcessRuns) /\ WF_vars(ToolRuns)

Spec == Init /\ [][Next]_vars /\ Fairness

-----------------------------------------------------------------------------
\* Properties.

\* The variables have their types.
TypeOK ==
  /\ mode \in Mode
  /\ api \in {"down", "opened", "loaded", "ready", "mutating", "mutated", "accepting", "refusing"}
  /\ memory \in Row \cup {Nothing} /\ before \in Row \cup {Nothing}
  /\ request \in Op \cup {Nothing}
  /\ target \in File
  /\ tried \subseteq Op /\ accepted \subseteq tried /\ refused \subseteq tried
  /\ starts \in 0 .. MaxStarts /\ commands \in 0 .. MaxCommands
  /\ tool \in {"idle", "copying", "inspecting", "creating", "checking-copy", "reading", "writing",
               "checking", "undoing", "checking-undo"}
  /\ job \in {"none", "backup", "restore"}
  /\ destination \in BundleName \cup {Nothing}
  /\ row \in Row \cup {Nothing} /\ previous \in Row \cup {Nothing}
  /\ outcome \in {"none", "backed-up", "failed", "killed", "restored", "undone", "unrecovered"}
  /\ bundles \in [BundleName -> {Absent} \cup Bundles]

\* Whatever failed before, a process that listens works on exactly the row on
\* disk, so the next save adds one operation and nothing else
\* (mutateAndPersist, load and loadOrInitializeControlPlane).
MemoryMatchesDisk == api \in {"loaded", "ready", "refusing"} => memory = target

\* Nobody can restart into or back up a half-done operation: no file and no
\* bundle ever holds one.
NothingHalfDoneIsKept ==
  /\ HasRow(target) => target.whole
  /\ \A b \in BundleName :
       bundles[b] # Absent /\ bundles[b].database \in Row => bundles[b].database.whole

\* Each migration is recorded once in a history, however often starts are
\* interrupted, and a history that records it has the new version
\* (SqliteControlPlaneRepository.load).
MigratedOnce == HasRow(target) => MigrationsRecorded(target)

\* How a restore ended is what the file shows (restoreControlPlane), until
\* somebody uses the file again.
RestoreReportsTruth ==
  /\ outcome = "restored" => target = row
  /\ outcome = "undone" => target = previous
  /\ outcome = "failed" /\ previous # Nothing => target = previous

\* From the moment a restore may have replaced the row, through every failure
\* and crash, the replaced row is in a bundle that passes verification
\* (docs/runbooks/control-plane-backup-restore.md calls it the crash-recovery
\* path).
ReplacedRowIsRecoverable ==
  previous # Nothing /\ target # previous =>
    /\ Verified(destination)
    /\ bundles[destination].database = previous

\* The protocol implements the atomic control plane: a request takes effect in
\* one step or not at all, the answer given tells which, and histories are only
\* ever extended, put back from a copy, reset or given up.
HistoryOf(file) == IF HasRow(file) THEN file.audit ELSE << >>

KeptRows ==
  ({row, previous} \cup {bundles[b].database : b \in {x \in BundleName : bundles[x] # Absent}})
    \ {Nothing, Empty, NoFile, Damaged}

Atomic == INSTANCE AtomicControlPlane WITH
  Seed <- Seeded,
  log <- HistoryOf(target),
  copies <- {r.audit : r \in KeptRows}

ImplementsAtomic == Atomic!Spec

\* A start, a request and a command of the tool end, in one way or another.
EverythingEnds ==
  /\ api \notin {"down", "ready"} ~> api \in {"down", "ready"}
  /\ ~Idle ~> Idle
=============================================================================
