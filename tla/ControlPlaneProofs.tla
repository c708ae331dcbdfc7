--------------------------- MODULE ControlPlaneProofs ---------------------------
(***************************************************************************)
(* Proofs about ControlPlaneRepository: types, what the process and the    *)
(* tool know of the file in each of their states, what every row on disk   *)
(* or in a bundle looks like, and that it implements AtomicControlPlane.   *)
(***************************************************************************)
EXTENDS ControlPlaneRepository, FiniteSetTheorems, SequenceTheorems, TLAPS

-----------------------------------------------------------------------------
(***************************************************************************)
(* Rows: what the operators on them return, and what they keep.            *)
(***************************************************************************)

Event == Op \cup Upkeep

LEMMA RowIsAFile ==
  ASSUME NEW r \in Row
  PROVE  HasRow(r) /\ r \notin {Absent, Nothing}
BY RepositoryAssumption DEF HasRow

LEMMA FileWithRow ==
  ASSUME NEW file \in File
  PROVE  HasRow(file) <=> file \in Row
BY RepositoryAssumption DEF HasRow, File

LEMMA AppendAuditRow ==
  ASSUME NEW r \in Row, NEW event \in Event
  PROVE  /\ AppendAudit(r, event) \in Row
         /\ AppendAudit(r, event).audit = Append(r.audit, event)
         /\ AppendAudit(r, event).whole = r.whole
         /\ AppendAudit(r, event).store = r.store
         /\ AppendAudit(r, event).api = r.api
<1> DEFINE history == Append(r.audit, event)
<1>1. r.audit \in Seq(Op \cup Upkeep) /\ event \in Op \cup Upkeep
  BY DEF Row, Event
<1>2. history \in Seq(Op \cup Upkeep)
  BY <1>1
<1>3. AppendAudit(r, event) = [r EXCEPT !.audit = history]
  BY DEF AppendAudit
<1> HIDE DEF history
<1>4. /\ AppendAudit(r, event) \in Row
      /\ AppendAudit(r, event).audit = history
      /\ AppendAudit(r, event).whole = r.whole
      /\ AppendAudit(r, event).store = r.store
      /\ AppendAudit(r, event).api = r.api
  BY <1>2, <1>3 DEF Row
<1> QED BY <1>4 DEF history

LEMMA FreshRow == Fresh \in Row /\ Fresh.whole /\ Fresh.audit = <<Seeded>>
BY DEF Fresh, Row, Upkeep

LEMMA HalfDoneRow ==
  ASSUME NEW r \in Row
  PROVE  HalfDone(r) \in Row /\ HalfDone(r).audit = r.audit
BY DEF HalfDone, Row

LEMMA AppliedRow ==
  ASSUME NEW r \in Row, NEW op \in Op
  PROVE  /\ Applied(r, op) \in Row
         /\ r.whole => Applied(r, op).whole
         /\ Applied(r, op).audit = Append(IF op = Reset THEN <<Seeded>> ELSE r.audit, op)
<1> DEFINE e == [r EXCEPT !.fixtures = @ /\ op \notin FixtureRemoval]
<1>1. e \in Row /\ e.audit = r.audit /\ e.whole = r.whole
  BY DEF Row
<1> HIDE DEF e
<1>2. CASE op = Reset
  BY <1>2, FreshRow, AppendAuditRow DEF Applied, Event
<1>3. CASE op # Reset
  <2>1. Applied(r, op) = AppendAudit(e, op)
    BY <1>3 DEF Applied, e
  <2> QED BY <1>1, <1>3, <2>1, AppendAuditRow DEF Event
<1> QED BY <1>2, <1>3

\* A migration step leaves the history alone or adds its own event.
LEMMA MigratedRow ==
  ASSUME NEW r \in Row
  PROVE  /\ Migrated(r) \in Row
         /\ Migrated(r).whole = r.whole
         /\ Migrated(r).audit \in {r.audit, Append(r.audit, MigrateStore),
              Append(r.audit, MigrateApi), Append(Append(r.audit, MigrateStore), MigrateApi)}
<1> DEFINE s == MigrateLegacyEnvelope(r)
           s3 == [r EXCEPT !.store = 3]
           a2 == [s EXCEPT !.api = 2]
<1>1. s3 \in Row /\ s3.audit = r.audit /\ s3.whole = r.whole
  BY DEF Row
<1>2. s = IF r.store = 2 THEN AppendAudit(s3, MigrateStore) ELSE r
  BY DEF MigrateLegacyEnvelope
<1> HIDE DEF s3, s
<1>3. s \in Row /\ s.whole = r.whole /\ s.audit \in {r.audit, Append(r.audit, MigrateStore)}
  BY <1>1, <1>2, AppendAuditRow DEF Event, Upkeep
<1>4. a2 \in Row /\ a2.audit = s.audit /\ a2.whole = s.whole
  BY <1>3 DEF Row
<1>5. Migrated(r) = IF s.api = 1 THEN AppendAudit(a2, MigrateApi) ELSE s
  BY DEF Migrated, MigrateApiState, s
<1> HIDE DEF a2
<1>6. MigrateApi \in Event
  BY DEF Event, Upkeep
<1>7. AppendAudit(a2, MigrateApi) \in Row
      /\ AppendAudit(a2, MigrateApi).audit = Append(s.audit, MigrateApi)
      /\ AppendAudit(a2, MigrateApi).whole = r.whole
  BY <1>3, <1>4, <1>6, AppendAuditRow
<1> HIDE DEF MigrateApi, MigrateStore
<1> QED BY <1>3, <1>5, <1>7

-----------------------------------------------------------------------------
(***************************************************************************)
(* Types, and what the process and the tool hold in each of their states.  *)
(***************************************************************************)

Handling == {"mutating", "mutated", "accepting", "refusing"}

Replacing == {"writing", "checking", "undoing", "checking-undo"}

Restoring == Replacing \cup {"creating", "checking-copy", "reading"}

Held ==
  /\ api \notin {"down", "opened"} => memory \in Row
  /\ api \in Handling => before \in Row /\ request \in Op /\ request \in tried
  /\ Idle <=> job = "none"
  /\ job = "restore" => row \in Row /\ api = "down"
  /\ job = "restore" /\ tool \notin {"creating", "checking-copy"} => target \in Row
  /\ tool \in Restoring => job = "restore"
  /\ tool \in Replacing => previous \in Row
  /\ tool \in {"copying", "inspecting"} =>
       destination \in BundleName /\ bundles[destination] \in Bundles
  /\ tool = "inspecting" => bundles[destination].database \in File

Typed == TypeOK /\ Held

LEMMA TypedInit == Init => Typed
BY RepositoryAssumption DEF Init, Idle, Typed, TypeOK, Held, File, Handling, Replacing, Restoring

\* What the tool writes into a bundle leaves it a bundle.
LEMMA BundleFacts ==
  /\ Bundle \in Bundles /\ Absent \notin Bundles
  /\ \A b \in Bundles :
       /\ b.database \in File \cup {Nothing} /\ b.manifest \in Row \cup {Absent}
       /\ \A file \in File : [b EXCEPT !.database = file] \in Bundles
                            /\ [b EXCEPT !.database = file].database = file
                            /\ [b EXCEPT !.database = file].manifest = b.manifest
       /\ \A r \in Row : [b EXCEPT !.manifest = r] \in Bundles
                         /\ [b EXCEPT !.manifest = r].manifest = r
                         /\ [b EXCEPT !.manifest = r].database = b.database
BY RepositoryAssumption DEF Bundle, Bundles

LEMMA FileFacts ==
  /\ {NoFile, Empty, Damaged} \cup Row \subseteq File
  /\ \A file \in File : HasRow(file) => file \in Row
  /\ Nothing \notin File
BY RepositoryAssumption, FileWithRow DEF File

LEMMA TypedStep ==
  ASSUME Typed, [Next]_vars
  PROVE  Typed'
<1> USE DEF Typed, TypeOK, Held, vars, process, answers, command, Handling, Replacing, Restoring,
          Idle, WriterMayRun, Memoryless, ForgetRestore, BeginCommand, EndCommand, MakeBundle,
          PutBackRow, Dispensable
<1>0. MaxStarts \in Nat /\ MaxCommands \in Nat
  BY RepositoryAssumption
<1>1. ASSUME OpenRepository PROVE Typed'
  BY <1>1, <1>0, FileFacts DEF OpenRepository
<1>2. ASSUME LoadAndMigrate PROVE Typed'
  BY <1>2, <1>0, FileFacts, MigratedRow DEF LoadAndMigrate, Loadable
<1>3. ASSUME InitializeControlPlane PROVE Typed'
  BY <1>3, <1>0, FileFacts, FreshRow DEF InitializeControlPlane
<1>4. ASSUME ReconcileDemoSeed PROVE Typed'
  <2> DEFINE r == [memory EXCEPT !.fixtures = TRUE]
  <2>1. r \in Row /\ Reconciled \in Event
    BY <1>4 DEF ReconcileDemoSeed, Row, Event, Upkeep
  <2>2. memory' = AppendAudit(r, Reconciled)
    BY <1>4 DEF ReconcileDemoSeed
  <2> HIDE DEF r
  <2>3. memory' \in Row
    BY <2>1, <2>2, AppendAuditRow
  <2> QED BY <1>4, <1>0, <2>3, FileFacts DEF ReconcileDemoSeed
<1>5. ASSUME Listen PROVE Typed'
  BY <1>5, <1>0 DEF Listen
<1>6. ASSUME FailStart PROVE Typed'
  BY <1>6, <1>0 DEF FailStart
<1>7. ASSUME NEW op \in Op, BeginMutation(op) PROVE Typed'
  BY <1>7, <1>0, HalfDoneRow DEF BeginMutation
<1>8. ASSUME FinishMutation PROVE Typed'
  BY <1>8, <1>0, AppliedRow DEF FinishMutation
<1>9. ASSUME UndoMutation PROVE Typed'
  BY <1>9, <1>0 DEF UndoMutation
<1>10. ASSUME Save PROVE Typed'
  BY <1>10, <1>0, FileFacts DEF Save
<1>11. ASSUME Reply PROVE Typed'
  BY <1>11, <1>0 DEF Reply
<1>12. ASSUME NEW b \in BundleName, BeginBackup(b) PROVE Typed'
  BY <1>12, <1>0, BundleFacts DEF BeginBackup
<1>13. ASSUME CopyDatabase PROVE Typed'
  BY <1>13, <1>0, BundleFacts DEF CopyDatabase
<1>14. ASSUME WriteManifest PROVE Typed'
  BY <1>14, <1>0, BundleFacts, FileFacts DEF WriteManifest, Inspectable, Loadable
<1>15. ASSUME AbandonBundle PROVE Typed'
  BY <1>15, <1>0 DEF AbandonBundle
<1>16. ASSUME NEW b \in BundleName, NEW rollback \in BundleName, BeginRestore(b, rollback) PROVE Typed'
  BY <1>16, <1>0, BundleFacts, FileFacts DEF BeginRestore, Verified, Inspectable, Loadable
<1>17. ASSUME FinishCopy PROVE Typed'
  BY <1>17, <1>0, FileFacts DEF FinishCopy
<1>18. ASSUME DiscardCopy PROVE Typed'
  BY <1>18, <1>0, FileFacts DEF DiscardCopy
<1>18a. ASSUME LeaveCopy PROVE Typed'
  BY <1>18a, <1>0, FileFacts DEF LeaveCopy
<1>19. ASSUME ReadPreviousRow PROVE Typed'
  BY <1>19, <1>0, FileFacts DEF ReadPreviousRow
<1>20. ASSUME WriteStateRow PROVE Typed'
  BY <1>20, <1>0, FileFacts DEF WriteStateRow
<1>21. ASSUME GiveUpRestore PROVE Typed'
  BY <1>21, <1>0 DEF GiveUpRestore
<1>22. ASSUME ConfirmRestored PROVE Typed'
  BY <1>22, <1>0 DEF ConfirmRestored
<1>23. ASSUME RejectRestored PROVE Typed'
  BY <1>23, <1>0 DEF RejectRestored
<1>24. ASSUME WritePreviousRow PROVE Typed'
  BY <1>24, <1>0, FileFacts DEF WritePreviousRow
<1>25. ASSUME ConfirmUndone PROVE Typed'
  BY <1>25, <1>0 DEF ConfirmUndone
<1>26. ASSUME FailToUndo PROVE Typed'
  BY <1>26, <1>0 DEF FailToUndo
<1>27. ASSUME Stop PROVE Typed'
  BY <1>27, <1>0 DEF Stop
<1>28. ASSUME KillTool PROVE Typed'
  BY <1>28, <1>0 DEF KillTool
<1>29. ASSUME NEW b \in BundleName, DiscardBundle(b) PROVE Typed'
  BY <1>29, <1>0 DEF DiscardBundle
<1>30. ASSUME NEW b \in BundleName, CorruptBundle(b) PROVE Typed'
  BY <1>30, <1>0, BundleFacts, FileFacts DEF CorruptBundle
<1>31. ASSUME NEW file \in {NoFile, Damaged}, LoseFile(file) PROVE Typed'
  BY <1>31, <1>0, FileFacts DEF LoseFile
<1>32. CASE UNCHANGED vars
  BY <1>32
<1> QED
  BY <1>1, <1>2, <1>3, <1>4, <1>5, <1>6, <1>7, <1>8, <1>9, <1>10, <1>11, <1>12, <1>13, <1>14, <1>15, <1>16, <1>17, <1>18, <1>18a, <1>19, <1>20, <1>21, <1>22, <1>23, <1>24, <1>25, <1>26, <1>27, <1>28, <1>29, <1>30, <1>31, <1>32
     DEF Next, StartStep, RequestStep, BackupStep, RestoreStep, EnvironmentStep

-----------------------------------------------------------------------------
(***************************************************************************)
(* The protocol: what the process and the tool know of the file, and what  *)
(* the rollback bundle holds.                                              *)
(***************************************************************************)

ProcessKnows ==
  /\ api \in {"loaded", "ready", "accepting", "refusing"} => memory = target
  /\ api \in {"mutating", "mutated"} => before = target
  /\ api = "mutated" => memory = Applied(before, request)

ToolKnows ==
  /\ tool \in {"writing", "checking-undo"} => target = previous
  /\ ~ Idle /\ tool \notin Replacing => previous = Nothing
  /\ ~ Idle => outcome = "none"
  /\ previous # Nothing \/ outcome \in {"restored", "undone"} => api = "down"

\* The bundle at the destination is complete and holds this file.
Keeps(file) ==
  /\ destination \in BundleName /\ bundles[destination] \in Bundles
  /\ bundles[destination].database = file /\ bundles[destination].manifest = file
  /\ Inspectable(file)

RollbackKept ==
  /\ job = "restore" /\ tool = "inspecting" => bundles[destination].database = target
  /\ tool = "reading" => Keeps(target)
  /\ previous # Nothing => previous \in Row /\ Keeps(previous)

Protocol == ProcessKnows /\ ToolKnows /\ RollbackKept /\ RestoreReportsTruth

LEMMA ProtocolInit == Init => Protocol
BY DEF Init, Protocol, ProcessKnows, ToolKnows, RollbackKept, RestoreReportsTruth, Idle, Replacing

LEMMA ProtocolStep ==
  ASSUME Typed, Protocol, [Next]_vars
  PROVE  Protocol'
<1> USE DEF Typed, TypeOK, Held, vars, process, answers, command, Handling, Replacing, Restoring,
          Idle, WriterMayRun, Memoryless, ForgetRestore, BeginCommand, EndCommand, MakeBundle,
          PutBackRow, Dispensable, Protocol, ProcessKnows, ToolKnows, RollbackKept, Keeps,
          RestoreReportsTruth, Inspectable, Loadable
<1>1. ASSUME OpenRepository PROVE Protocol'
  BY <1>1 DEF OpenRepository
<1>2. ASSUME LoadAndMigrate PROVE Protocol'
  BY <1>2 DEF LoadAndMigrate
<1>3. ASSUME InitializeControlPlane PROVE Protocol'
  BY <1>3 DEF InitializeControlPlane
<1>4. ASSUME ReconcileDemoSeed PROVE Protocol'
  BY <1>4 DEF ReconcileDemoSeed
<1>5. ASSUME Listen PROVE Protocol'
  BY <1>5 DEF Listen
<1>6. ASSUME FailStart PROVE Protocol'
  BY <1>6 DEF FailStart
<1>7. ASSUME NEW op \in Op, BeginMutation(op) PROVE Protocol'
  BY <1>7 DEF BeginMutation
<1>8. ASSUME FinishMutation PROVE Protocol'
  BY <1>8 DEF FinishMutation
<1>9. ASSUME UndoMutation PROVE Protocol'
  BY <1>9 DEF UndoMutation
<1>10. ASSUME Save PROVE Protocol'
  BY <1>10 DEF Save
<1>11. ASSUME Reply PROVE Protocol'
  BY <1>11 DEF Reply
<1>12. ASSUME NEW b \in BundleName, BeginBackup(b) PROVE Protocol'
  BY <1>12, BundleFacts DEF BeginBackup
<1>13. ASSUME CopyDatabase PROVE Protocol'
  BY <1>13, BundleFacts DEF CopyDatabase
<1>14. ASSUME WriteManifest PROVE Protocol'
  BY <1>14, BundleFacts, FileFacts DEF WriteManifest
<1>15. ASSUME AbandonBundle PROVE Protocol'
  BY <1>15 DEF AbandonBundle
<1>16. ASSUME NEW b \in BundleName, NEW rollback \in BundleName, BeginRestore(b, rollback) PROVE Protocol'
  BY <1>16, BundleFacts DEF BeginRestore
<1>17. ASSUME FinishCopy PROVE Protocol'
  BY <1>17 DEF FinishCopy
<1>18. ASSUME DiscardCopy PROVE Protocol'
  BY <1>18 DEF DiscardCopy
<1>18a. ASSUME LeaveCopy PROVE Protocol'
  BY <1>18a DEF LeaveCopy
<1>19. ASSUME ReadPreviousRow PROVE Protocol'
  BY <1>19, FileFacts, RowIsAFile DEF ReadPreviousRow
<1>20. ASSUME WriteStateRow PROVE Protocol'
  BY <1>20 DEF WriteStateRow
<1>21. ASSUME GiveUpRestore PROVE Protocol'
  BY <1>21 DEF GiveUpRestore
<1>22. ASSUME ConfirmRestored PROVE Protocol'
  BY <1>22 DEF ConfirmRestored
<1>23. ASSUME RejectRestored PROVE Protocol'
  BY <1>23 DEF RejectRestored
<1>24. ASSUME WritePreviousRow PROVE Protocol'
  BY <1>24 DEF WritePreviousRow
<1>25. ASSUME ConfirmUndone PROVE Protocol'
  BY <1>25 DEF ConfirmUndone
<1>26. ASSUME FailToUndo PROVE Protocol'
  BY <1>26 DEF FailToUndo
<1>27. ASSUME Stop PROVE Protocol'
  BY <1>27 DEF Stop
<1>28. ASSUME KillTool PROVE Protocol'
  BY <1>28 DEF KillTool
<1>29. ASSUME NEW b \in BundleName, DiscardBundle(b) PROVE Protocol'
  BY <1>29 DEF DiscardBundle
<1>30. ASSUME NEW b \in BundleName, CorruptBundle(b) PROVE Protocol'
  BY <1>30, BundleFacts DEF CorruptBundle
<1>31. ASSUME NEW file \in {NoFile, Damaged}, LoseFile(file) PROVE Protocol'
  BY <1>31 DEF LoseFile
<1>32. CASE UNCHANGED vars
  BY <1>32
<1> QED
  BY <1>1, <1>2, <1>3, <1>4, <1>5, <1>6, <1>7, <1>8, <1>9, <1>10, <1>11, <1>12, <1>13, <1>14, <1>15, <1>16, <1>17, <1>18, <1>18a, <1>19, <1>20, <1>21, <1>22, <1>23, <1>24, <1>25, <1>26, <1>27, <1>28, <1>29, <1>30, <1>31, <1>32
     DEF Next, StartStep, RequestStep, BackupStep, RestoreStep, EnvironmentStep

-----------------------------------------------------------------------------
(***************************************************************************)
(* Sound rows: no operation is half done in them, and their history tells  *)
(* the truth about migrations.                                             *)
(***************************************************************************)

Sound(r) == r.whole /\ MigrationsRecorded(r)

LEMMA EventsOfAppend ==
  ASSUME NEW history \in Seq(Event), NEW event \in Event
  PROVE  /\ Events(Append(history, event)) = Events(history) \cup {event}
         /\ \A other : other # event =>
              Places(Append(history, event), other) = Places(history, other)
         /\ event \notin Events(history) =>
              Places(Append(history, event), event) = {Len(history) + 1}
<1> DEFINE longer == Append(history, event)
<1>1. /\ Len(history) \in Nat
      /\ Len(longer) = Len(history) + 1 /\ longer[Len(history) + 1] = event
      /\ \A i \in 1 .. Len(history) : longer[i] = history[i]
  OBVIOUS
<1> HIDE DEF longer
<1>2. 1 .. Len(longer) = (1 .. Len(history)) \cup {Len(history) + 1}
  BY <1>1
<1>3. Events(longer) = Events(history) \cup {event}
  BY <1>1, <1>2 DEF Events
<1>4. ASSUME NEW other, other # event PROVE Places(longer, other) = Places(history, other)
  BY <1>1, <1>2, <1>4 DEF Places
<1>5. ASSUME event \notin Events(history) PROVE Places(longer, event) = {Len(history) + 1}
  BY <1>1, <1>2, <1>5 DEF Places, Events
<1> QED BY <1>3, <1>4, <1>5 DEF longer

\* An event may be added to a sound history unless it is a migration that is
\* in it already; its version has to go with it.
LEMMA SoundAppend ==
  ASSUME NEW r \in Row, Sound(r), NEW s \in Row, NEW event \in Event,
         s.audit = Append(r.audit, event), s.whole = r.whole,
         \/ /\ event \notin {MigrateStore, MigrateApi}
            /\ s.store = r.store /\ s.api = r.api
         \/ event = MigrateStore /\ r.store = 2 /\ s.store = 3 /\ s.api = r.api
         \/ event = MigrateApi /\ r.api = 1 /\ s.api = 2 /\ s.store = r.store
  PROVE  Sound(s)
<1>1. r.audit \in Seq(Event)
  BY DEF Row, Event
<1>2. Events(s.audit) = Events(r.audit) \cup {event}
  BY <1>1, EventsOfAppend
<1>3. MigrateStore # MigrateApi
  BY DEF MigrateStore, MigrateApi
<1>4. ASSUME NEW other \in {MigrateStore, MigrateApi} PROVE Cardinality(Places(s.audit, other)) <= 1
  <2>1. CASE other # event
    BY <1>1, <2>1, EventsOfAppend DEF Sound, MigrationsRecorded
  <2>2. CASE other = event
    <3>1. event \notin Events(r.audit)
      BY <1>3, <2>2 DEF Sound, MigrationsRecorded
    <3>2. Places(s.audit, event) = {Len(r.audit) + 1}
      BY <1>1, <3>1, EventsOfAppend
    <3>3. Cardinality({Len(r.audit) + 1}) = 1
      BY FS_Singleton
    <3> QED BY <2>2, <3>2, <3>3
  <2> QED BY <2>1, <2>2
<1>5. MigrateStore \in Events(s.audit) => s.store = 3
  BY <1>2, <1>3 DEF Sound, MigrationsRecorded
<1>6. MigrateApi \in Events(s.audit) => s.api = 2
  BY <1>2, <1>3 DEF Sound, MigrationsRecorded
<1> QED BY <1>4, <1>5, <1>6 DEF Sound, MigrationsRecorded

LEMMA OrdinaryEvents ==
  /\ \A op \in Op : op \in Event /\ op \notin {MigrateStore, MigrateApi}
  /\ Reconciled \in Event /\ Reconciled \notin {MigrateStore, MigrateApi}
  /\ Seeded \in Event /\ Seeded \notin {MigrateStore, MigrateApi}
  /\ MigrateStore \in Event /\ MigrateApi \in Event
BY RepositoryAssumption DEF Event, Upkeep, MigrateStore, MigrateApi, Reconciled, Seeded

LEMMA SoundFresh == Sound(Fresh)
<1> DEFINE a == <<Seeded>>
<1>1. Fresh.audit = a /\ Fresh.whole /\ Fresh.store = 3 /\ Fresh.api = 2
  BY DEF Fresh
<1>2. Seeded \notin {MigrateStore, MigrateApi}
  BY DEF Seeded, MigrateStore, MigrateApi
<1>3. ASSUME NEW event \in {MigrateStore, MigrateApi} PROVE Places(a, event) = {}
  BY <1>2 DEF Places
<1>4. Cardinality({}) = 0
  BY FS_EmptySet
<1> HIDE DEF a
<1> QED BY <1>1, <1>3, <1>4 DEF Sound, MigrationsRecorded

LEMMA SoundApplied ==
  ASSUME NEW r \in Row, Sound(r), NEW op \in Op
  PROVE  Sound(Applied(r, op))
<1> DEFINE e == [r EXCEPT !.fixtures = @ /\ op \notin FixtureRemoval]
<1>1. e \in Row /\ e.audit = r.audit /\ e.whole = r.whole /\ e.store = r.store /\ e.api = r.api
  BY DEF Row
<1>2. Sound(e)
  BY <1>1 DEF Sound, MigrationsRecorded
<1> HIDE DEF e
<1>3. ASSUME NEW x \in Row, Sound(x) PROVE Sound(AppendAudit(x, op))
  <2>1. op \in Event /\ op \notin {MigrateStore, MigrateApi}
    BY OrdinaryEvents
  <2> QED BY <1>3, <2>1, AppendAuditRow, SoundAppend
<1>4. Applied(r, op) = IF op = Reset THEN AppendAudit(Fresh, op) ELSE AppendAudit(e, op)
  BY DEF Applied, e
<1> QED BY <1>1, <1>2, <1>3, <1>4, FreshRow, SoundFresh

LEMMA SoundMigrated ==
  ASSUME NEW r \in Row, Sound(r)
  PROVE  Sound(Migrated(r))
<1> DEFINE s == MigrateLegacyEnvelope(r)
           s3 == [r EXCEPT !.store = 3]
           a2 == [s EXCEPT !.api = 2]
<1>0. MigrateStore \in Event /\ MigrateApi \in Event
  BY OrdinaryEvents
<1>1. s3 \in Row /\ s3.audit = r.audit /\ s3.whole = r.whole /\ s3.store = 3 /\ s3.api = r.api
  BY DEF Row
<1>2. s = IF r.store = 2 THEN AppendAudit(s3, MigrateStore) ELSE r
  BY DEF MigrateLegacyEnvelope
<1> HIDE DEF s3, s
<1>3. s \in Row /\ Sound(s)
  <2>1. CASE r.store = 2
    <3> DEFINE t == AppendAudit(s3, MigrateStore)
    <3>1. /\ t \in Row /\ t.audit = Append(r.audit, MigrateStore) /\ t.whole = r.whole
          /\ t.store = 3 /\ t.api = r.api
      BY <1>0, <1>1, AppendAuditRow
    <3> HIDE DEF t
    <3>2. Sound(t)
      BY <2>1, <3>1, SoundAppend, OrdinaryEvents
    <3> QED BY <1>2, <2>1, <3>1, <3>2 DEF t
  <2> QED BY <1>2, <2>1
<1>4. a2 \in Row /\ a2.audit = s.audit /\ a2.whole = s.whole /\ a2.store = s.store /\ a2.api = 2
  BY <1>3 DEF Row
<1>5. Migrated(r) = IF s.api = 1 THEN AppendAudit(a2, MigrateApi) ELSE s
  BY DEF Migrated, MigrateApiState, s
<1> HIDE DEF a2
<1>6. CASE s.api = 1
  <2> DEFINE t == AppendAudit(a2, MigrateApi)
  <2>1. /\ t \in Row /\ t.audit = Append(s.audit, MigrateApi) /\ t.whole = s.whole
        /\ t.store = s.store /\ t.api = 2
    BY <1>0, <1>4, AppendAuditRow
  <2> HIDE DEF t
  <2>2. Sound(t)
    BY <1>3, <1>6, <2>1, SoundAppend, OrdinaryEvents
  <2> QED BY <1>5, <1>6, <2>2 DEF t
<1> QED BY <1>3, <1>5, <1>6

LEMMA SoundReconciled ==
  ASSUME NEW r \in Row, Sound(r)
  PROVE  /\ AppendAudit([r EXCEPT !.fixtures = TRUE], Reconciled) \in Row
         /\ AppendAudit([r EXCEPT !.fixtures = TRUE], Reconciled).audit = Append(r.audit, Reconciled)
         /\ Sound(AppendAudit([r EXCEPT !.fixtures = TRUE], Reconciled))
<1> DEFINE e == [r EXCEPT !.fixtures = TRUE]
           s == AppendAudit(e, Reconciled)
<1>0. Reconciled \in Event
  BY OrdinaryEvents
<1>1. e \in Row /\ e.audit = r.audit /\ e.whole = r.whole /\ e.store = r.store /\ e.api = r.api
  BY DEF Row
<1> HIDE DEF e
<1>2. /\ s \in Row /\ s.audit = Append(r.audit, Reconciled) /\ s.whole = r.whole
      /\ s.store = r.store /\ s.api = r.api
  BY <1>0, <1>1, AppendAuditRow
<1> HIDE DEF s
<1>3. Sound(s)
  BY <1>2, SoundAppend, OrdinaryEvents
<1> QED BY <1>2, <1>3 DEF s, e

\* The file, every bundle and what the tool read are sound.
AllSound ==
  /\ target \in Row => Sound(target)
  /\ row \in Row => Sound(row)
  /\ previous \in Row => Sound(previous)
  /\ \A b \in BundleName :
       bundles[b] # Absent /\ bundles[b].database \in Row => Sound(bundles[b].database)

LEMMA AllSoundInit == Init => AllSound
BY RepositoryAssumption DEF Init, AllSound, Sound

LEMMA AllSoundStep ==
  ASSUME Typed, Protocol, AllSound, [Next]_vars
  PROVE  AllSound'
<1> USE DEF Typed, TypeOK, Held, vars, process, answers, command, Handling, Replacing, Restoring,
          Idle, WriterMayRun, Memoryless, ForgetRestore, BeginCommand, EndCommand, MakeBundle,
          PutBackRow, Dispensable, Protocol, ProcessKnows, AllSound
<1>0. {NoFile, Empty, Damaged, Nothing} \cap Row = {}
  BY RepositoryAssumption
<1>1. ASSUME OpenRepository PROVE AllSound'
  BY <1>0, <1>1, FileFacts DEF OpenRepository
<1>2. ASSUME LoadAndMigrate PROVE AllSound'
  BY <1>0, <1>2, FileFacts, SoundMigrated DEF LoadAndMigrate, Loadable
<1>3. ASSUME InitializeControlPlane PROVE AllSound'
  BY <1>0, <1>3, SoundFresh DEF InitializeControlPlane
<1>4. ASSUME ReconcileDemoSeed PROVE AllSound'
  BY <1>0, <1>4, SoundReconciled DEF ReconcileDemoSeed
<1>5. ASSUME Listen PROVE AllSound'
  BY <1>0, <1>5 DEF Listen
<1>6. ASSUME FailStart PROVE AllSound'
  BY <1>0, <1>6 DEF FailStart
<1>7. ASSUME NEW op \in Op, BeginMutation(op) PROVE AllSound'
  BY <1>0, <1>7 DEF BeginMutation
<1>8. ASSUME FinishMutation PROVE AllSound'
  BY <1>0, <1>8 DEF FinishMutation
<1>9. ASSUME UndoMutation PROVE AllSound'
  BY <1>0, <1>9 DEF UndoMutation
<1>10. ASSUME Save PROVE AllSound'
  BY <1>0, <1>10, SoundApplied DEF Save
<1>11. ASSUME Reply PROVE AllSound'
  BY <1>0, <1>11 DEF Reply
<1>12. ASSUME NEW b \in BundleName, BeginBackup(b) PROVE AllSound'
  BY <1>0, <1>12, BundleFacts DEF BeginBackup, Bundle
<1>13. ASSUME CopyDatabase PROVE AllSound'
  BY <1>0, <1>13, BundleFacts DEF CopyDatabase
<1>14. ASSUME WriteManifest PROVE AllSound'
  BY <1>0, <1>14, BundleFacts, FileFacts DEF WriteManifest, Inspectable, Loadable
<1>15. ASSUME AbandonBundle PROVE AllSound'
  BY <1>0, <1>15 DEF AbandonBundle
<1>16. ASSUME NEW b \in BundleName, NEW rollback \in BundleName, BeginRestore(b, rollback) PROVE AllSound'
  BY <1>0, <1>16, BundleFacts DEF BeginRestore, Bundle, Verified
<1>17. ASSUME FinishCopy PROVE AllSound'
  BY <1>0, <1>17 DEF FinishCopy
<1>18. ASSUME DiscardCopy PROVE AllSound'
  BY <1>0, <1>18 DEF DiscardCopy
<1>18a. ASSUME LeaveCopy PROVE AllSound'
  BY <1>0, <1>18a DEF LeaveCopy
<1>19. ASSUME ReadPreviousRow PROVE AllSound'
  BY <1>0, <1>19 DEF ReadPreviousRow
<1>20. ASSUME WriteStateRow PROVE AllSound'
  BY <1>0, <1>20 DEF WriteStateRow
<1>21. ASSUME GiveUpRestore PROVE AllSound'
  BY <1>0, <1>21 DEF GiveUpRestore
<1>22. ASSUME ConfirmRestored PROVE AllSound'
  BY <1>0, <1>22 DEF ConfirmRestored
<1>23. ASSUME RejectRestored PROVE AllSound'
  BY <1>0, <1>23 DEF RejectRestored
<1>24. ASSUME WritePreviousRow PROVE AllSound'
  BY <1>0, <1>24 DEF WritePreviousRow
<1>25. ASSUME ConfirmUndone PROVE AllSound'
  BY <1>0, <1>25 DEF ConfirmUndone
<1>26. ASSUME FailToUndo PROVE AllSound'
  BY <1>0, <1>26 DEF FailToUndo
<1>27. ASSUME Stop PROVE AllSound'
  BY <1>0, <1>27 DEF Stop
<1>28. ASSUME KillTool PROVE AllSound'
  BY <1>0, <1>28 DEF KillTool
<1>29. ASSUME NEW b \in BundleName, DiscardBundle(b) PROVE AllSound'
  BY <1>0, <1>29 DEF DiscardBundle
<1>30. ASSUME NEW b \in BundleName, CorruptBundle(b) PROVE AllSound'
  BY <1>0, <1>30, BundleFacts DEF CorruptBundle
<1>31. ASSUME NEW file \in {NoFile, Damaged}, LoseFile(file) PROVE AllSound'
  BY <1>0, <1>31 DEF LoseFile
<1>32. CASE UNCHANGED vars
  BY <1>32
<1> QED
  BY <1>1, <1>2, <1>3, <1>4, <1>5, <1>6, <1>7, <1>8, <1>9, <1>10, <1>11, <1>12, <1>13, <1>14, <1>15, <1>16, <1>17, <1>18, <1>18a, <1>19, <1>20, <1>21, <1>22, <1>23, <1>24, <1>25, <1>26, <1>27, <1>28, <1>29, <1>30, <1>31, <1>32
     DEF Next, StartStep, RequestStep, BackupStep, RestoreStep, EnvironmentStep

-----------------------------------------------------------------------------
(***************************************************************************)
(* The invariant, and what follows from it.                                *)
(***************************************************************************)

Inv == Typed /\ Protocol /\ AllSound

\* The invariant of the protocol: every process and every command knows what
\* is in the file, whatever fails or is killed (control-plane.ts, app.ts:
\* mutateAndPersist, control-plane-ops.ts).
THEOREM RepositoryInvariant == Spec => []Inv
<1>1. Init => Inv
  BY TypedInit, ProtocolInit, AllSoundInit DEF Inv
<1>2. Inv /\ [Next]_vars => Inv'
  BY TypedStep, ProtocolStep, AllSoundStep DEF Inv
<1> QED BY <1>1, <1>2, PTL DEF Spec

\* The variables keep their types (ControlPlaneRepository).
THEOREM RepositoryTypes == Spec => []TypeOK
<1>1. Inv => TypeOK
  BY DEF Inv, Typed
<1> QED BY <1>1, RepositoryInvariant, PTL

\* A process that listens works on exactly the row on disk: neither a failed
\* operation nor a failed save leaves anything behind in memory
\* (mutateAndPersist).
THEOREM MemoryAlwaysMatchesDisk == Spec => []MemoryMatchesDisk
<1>1. Inv => MemoryMatchesDisk
  BY DEF Inv, Protocol, ProcessKnows, MemoryMatchesDisk
<1> QED BY <1>1, RepositoryInvariant, PTL

\* No file and no bundle ever holds a half-done operation (mutateAndPersist,
\* backupControlPlane).
THEOREM NothingHalfDoneIsEverKept == Spec => []NothingHalfDoneIsKept
<1>1. Inv => NothingHalfDoneIsKept
  <2> SUFFICES ASSUME Inv PROVE NothingHalfDoneIsKept
    OBVIOUS
  <2>1. HasRow(target) => target \in Row
    BY FileFacts DEF Inv, Typed, TypeOK
  <2> QED BY <2>1 DEF Inv, AllSound, Sound, NothingHalfDoneIsKept
<1> QED BY <1>1, RepositoryInvariant, PTL

\* Each migration is recorded once, however often a start is interrupted
\* (SqliteControlPlaneRepository.load).
THEOREM AlwaysMigratedOnce == Spec => []MigratedOnce
<1>1. Inv => MigratedOnce
  <2> SUFFICES ASSUME Inv, HasRow(target) PROVE MigrationsRecorded(target)
    BY DEF MigratedOnce
  <2>1. target \in Row
    BY FileFacts DEF Inv, Typed, TypeOK
  <2> QED BY <2>1 DEF Inv, AllSound, Sound
<1> QED BY <1>1, RepositoryInvariant, PTL

\* How a restore ended is what the file shows (restoreControlPlane).
THEOREM RestoreAlwaysReportsTruth == Spec => []RestoreReportsTruth
<1>1. Inv => RestoreReportsTruth
  BY DEF Inv, Protocol
<1> QED BY <1>1, RepositoryInvariant, PTL

\* The row a restore replaced is in a bundle that passes verification, at
\* every moment and after every crash (restoreControlPlane).
THEOREM ReplacedRowAlwaysRecoverable == Spec => []ReplacedRowIsRecoverable
<1>1. Inv => ReplacedRowIsRecoverable
  <2> SUFFICES ASSUME Inv, previous # Nothing
               PROVE  Verified(destination) /\ bundles[destination].database = previous
    BY DEF ReplacedRowIsRecoverable
  <2>1. previous \in Row /\ Keeps(previous)
    BY DEF Inv, Protocol, RollbackKept
  <2> QED BY <2>1, BundleFacts, RowIsAFile DEF Keeps, Verified
<1> QED BY <1>1, RepositoryInvariant, PTL

-----------------------------------------------------------------------------
(***************************************************************************)
(* ControlPlaneRepository implements AtomicControlPlane.  The mapping takes *)
(* the history of the file for the durable log, and what bundles and the   *)
(* tool hold for the copies kept aside.  That a save is a Commit needs an  *)
(* invariant: a request being handled is in no history yet (Answers).      *)
(***************************************************************************)

Log == HistoryOf(target)
Copies == {r.audit : r \in KeptRows}

-----------------------------------------------------------------------------
(***************************************************************************)
(* Histories and copies.                                                   *)
(***************************************************************************)

LEMMA HistoryOfFile ==
  /\ \A r \in Row : HistoryOf(r) = r.audit /\ r.audit \in Seq(Event)
  /\ \A file \in {NoFile, Empty, Damaged} : HistoryOf(file) = << >>
  /\ \A file \in File : HistoryOf(file) \in Seq(Event)
<1>1. \A r \in Row : HistoryOf(r) = r.audit /\ r.audit \in Seq(Event)
  <2> SUFFICES ASSUME NEW r \in Row PROVE HistoryOf(r) = r.audit /\ r.audit \in Seq(Event)
    OBVIOUS
  <2>1. HasRow(r)
    BY RowIsAFile
  <2> QED BY <2>1 DEF HistoryOf, Row, Event
<1>2. \A file \in {NoFile, Empty, Damaged} : HistoryOf(file) = << >>
  BY DEF HistoryOf, HasRow
<1>3. << >> \in Seq(Event)
  OBVIOUS
<1> QED BY <1>1, <1>2, <1>3 DEF File

LEMMA AppendExtends ==
  ASSUME NEW history \in Seq(Event), NEW event \in Event
  PROVE  /\ Append(history, event) \in Seq(Event)
         /\ Atomic!Extends(Append(history, event), history)
         /\ Len(Append(history, event)) = Len(history) + 1
         /\ Append(history, event)[Len(history) + 1] = event
<1> DEFINE longer == Append(history, event)
<1>1. /\ longer \in Seq(Event) /\ Len(history) \in Nat
      /\ Len(longer) = Len(history) + 1 /\ longer[Len(history) + 1] = event
      /\ \A i \in 1 .. Len(history) : longer[i] = history[i] /\ history[i] \in Event
  OBVIOUS
<1> HIDE DEF longer
<1> DEFINE start == SubSeq(longer, 1, Len(history))
<1>2. /\ start \in Seq(Event) /\ Len(start) = Len(history)
      /\ \A i \in 1 .. Len(history) : start[i] = history[i]
  <2>1. 1 \in Int /\ Len(history) \in Int /\ \A i \in 1 .. Len(history) : longer[i] \in Event
    BY <1>1
  <2>2. /\ start \in Seq(Event)
        /\ Len(start) = IF 1 <= Len(history) THEN Len(history) - 1 + 1 ELSE 0
        /\ \A i \in 1 .. Len(history) - 1 + 1 : start[i] = longer[1 + i - 1]
    BY <2>1, SubSeqProperties
  <2> QED BY <1>1, <2>2
<1> HIDE DEF start
<1>3. start = history
  BY <1>2, SeqEqual
<1> QED BY <1>1, <1>3 DEF Atomic!Extends, longer, start

LEMMA ExtendsTwice ==
  ASSUME NEW a \in Seq(Event), NEW first \in Event, NEW second \in Event
  PROVE  Atomic!Extends(Append(Append(a, first), second), a)
<1> DEFINE b == Append(a, first)
           c == Append(b, second)
<1>1. /\ b \in Seq(Event) /\ c \in Seq(Event) /\ Len(a) \in Nat
      /\ Len(b) = Len(a) + 1 /\ Len(c) = Len(a) + 2
      /\ \A i \in 1 .. Len(a) : c[i] = a[i] /\ a[i] \in Event
  OBVIOUS
<1> HIDE DEF c
<1> DEFINE start == SubSeq(c, 1, Len(a))
<1>2. /\ start \in Seq(Event) /\ Len(start) = Len(a)
      /\ \A i \in 1 .. Len(a) : start[i] = a[i]
  <2>1. 1 \in Int /\ Len(a) \in Int /\ \A i \in 1 .. Len(a) : c[i] \in Event
    BY <1>1
  <2>2. /\ start \in Seq(Event)
        /\ Len(start) = IF 1 <= Len(a) THEN Len(a) - 1 + 1 ELSE 0
        /\ \A i \in 1 .. Len(a) - 1 + 1 : start[i] = c[1 + i - 1]
    BY <2>1, SubSeqProperties
  <2> QED BY <1>1, <2>2
<1> HIDE DEF start
<1>3. start = a
  BY <1>2, SeqEqual
<1> QED BY <1>1, <1>3 DEF Atomic!Extends, c, start

LEMMA KeptAreRows ==
  ASSUME TypeOK
  PROVE  KeptRows \subseteq Row
<1>1. \A b \in BundleName : bundles[b] # Absent => bundles[b].database \in File \cup {Nothing}
  BY BundleFacts DEF TypeOK
<1> QED BY <1>1 DEF KeptRows, TypeOK, File

\* What a step may do to the copies kept aside.
CopiesMove == KeptRows' \subseteq KeptRows \cup ({target} \cap Row)

LEMMA CopiesFollow ==
  ASSUME TypeOK, CopiesMove
  PROVE  Copies' \subseteq Copies \cup {Log}
BY HistoryOfFile DEF CopiesMove, Copies, Log

\* No step keeps a row aside that was not in the file or kept already.
LEMMA CopiesStep ==
  ASSUME Typed, [Next]_vars
  PROVE  CopiesMove
<1> USE DEF Typed, TypeOK, Held, vars, process, answers, command, Handling, Replacing, Restoring,
          Idle, Memoryless, ForgetRestore, BeginCommand, EndCommand, MakeBundle,
          PutBackRow, Dispensable, CopiesMove, KeptRows
<1>0. KeptRows \subseteq Row
  BY KeptAreRows
<1>1. ASSUME OpenRepository PROVE CopiesMove
  BY <1>1 DEF OpenRepository
<1>2. ASSUME LoadAndMigrate PROVE CopiesMove
  BY <1>2 DEF LoadAndMigrate
<1>3. ASSUME InitializeControlPlane PROVE CopiesMove
  BY <1>3 DEF InitializeControlPlane
<1>4. ASSUME ReconcileDemoSeed PROVE CopiesMove
  BY <1>4 DEF ReconcileDemoSeed
<1>5. ASSUME Listen PROVE CopiesMove
  BY <1>5 DEF Listen
<1>6. ASSUME FailStart PROVE CopiesMove
  BY <1>6 DEF FailStart
<1>7. ASSUME NEW op \in Op, BeginMutation(op) PROVE CopiesMove
  BY <1>7 DEF BeginMutation
<1>8. ASSUME FinishMutation PROVE CopiesMove
  BY <1>8 DEF FinishMutation
<1>9. ASSUME UndoMutation PROVE CopiesMove
  BY <1>9 DEF UndoMutation
<1>10. ASSUME Save PROVE CopiesMove
  BY <1>10 DEF Save
<1>11. ASSUME Reply PROVE CopiesMove
  BY <1>11 DEF Reply
<1>12. ASSUME NEW b \in BundleName, BeginBackup(b) PROVE CopiesMove
  BY <1>12, BundleFacts DEF BeginBackup, Bundle
<1>13. ASSUME CopyDatabase PROVE CopiesMove
  BY <1>13, BundleFacts, FileFacts DEF CopyDatabase, HasRow
<1>14. ASSUME WriteManifest PROVE CopiesMove
  BY <1>14, BundleFacts, FileFacts DEF WriteManifest, Inspectable, Loadable
<1>15. ASSUME AbandonBundle PROVE CopiesMove
  BY <1>15 DEF AbandonBundle
<1>16. ASSUME NEW b \in BundleName, NEW rollback \in BundleName, BeginRestore(b, rollback) PROVE CopiesMove
  BY <1>16, BundleFacts DEF BeginRestore, Bundle, Verified
<1>17. ASSUME FinishCopy PROVE CopiesMove
  BY <1>17 DEF FinishCopy
<1>18. ASSUME DiscardCopy PROVE CopiesMove
  BY <1>18 DEF DiscardCopy
<1>18a. ASSUME LeaveCopy PROVE CopiesMove
  BY <1>18a DEF LeaveCopy
<1>19. ASSUME ReadPreviousRow PROVE CopiesMove
  BY <1>19 DEF ReadPreviousRow
<1>20. ASSUME WriteStateRow PROVE CopiesMove
  BY <1>20 DEF WriteStateRow
<1>21. ASSUME GiveUpRestore PROVE CopiesMove
  BY <1>21 DEF GiveUpRestore
<1>22. ASSUME ConfirmRestored PROVE CopiesMove
  BY <1>22 DEF ConfirmRestored
<1>23. ASSUME RejectRestored PROVE CopiesMove
  BY <1>23 DEF RejectRestored
<1>24. ASSUME WritePreviousRow PROVE CopiesMove
  BY <1>24 DEF WritePreviousRow
<1>25. ASSUME ConfirmUndone PROVE CopiesMove
  BY <1>25 DEF ConfirmUndone
<1>26. ASSUME FailToUndo PROVE CopiesMove
  BY <1>26 DEF FailToUndo
<1>27. ASSUME Stop PROVE CopiesMove
  BY <1>27 DEF Stop
<1>28. ASSUME KillTool PROVE CopiesMove
  BY <1>28 DEF KillTool
<1>29. ASSUME NEW b \in BundleName, DiscardBundle(b) PROVE CopiesMove
  BY <1>29 DEF DiscardBundle
<1>30. ASSUME NEW b \in BundleName, CorruptBundle(b) PROVE CopiesMove
  BY <1>30, BundleFacts DEF CorruptBundle
<1>31. ASSUME NEW file \in {NoFile, Damaged}, LoseFile(file) PROVE CopiesMove
  BY <1>31 DEF LoseFile
<1>32. CASE UNCHANGED vars
  BY <1>32
<1> QED
  BY <1>1, <1>2, <1>3, <1>4, <1>5, <1>6, <1>7, <1>8, <1>9, <1>10, <1>11, <1>12, <1>13, <1>14, <1>15, <1>16, <1>17, <1>18, <1>18a, <1>19, <1>20, <1>21, <1>22, <1>23, <1>24, <1>25, <1>26, <1>27, <1>28, <1>29, <1>30, <1>31, <1>32
     DEF Next, StartStep, RequestStep, BackupStep, RestoreStep, EnvironmentStep

-----------------------------------------------------------------------------
(***************************************************************************)
(* Every step is one of seven kinds, as far as the history is concerned.   *)
(***************************************************************************)

Quiet ==
  /\ Log' = Log /\ Copies' \subseteq Copies \cup {Log} /\ UNCHANGED answers
  /\ \/ UNCHANGED <<api, request>>
     \/ api' \in {"down", "opened", "ready"}
     \/ api \in {"mutating", "mutated"} /\ api' \in {"mutated", "refusing"} /\ request' = request

Begins(op) ==
  /\ op \in Op \ tried /\ tried' = tried \cup {op}
  /\ Log' = Log /\ Copies' = Copies /\ UNCHANGED <<accepted, refused>>
  /\ request' = op /\ api' = "mutating"

\* The program adds events of its own.
Grows ==
  /\ \/ Log' = Log
     \/ /\ Atomic!Extends(Log', Log)
        /\ \A i \in Len(Log) + 1 .. Len(Log') : Log'[i] \in Upkeep
  /\ Events(Log') \subseteq Events(Log) \cup Upkeep
  /\ Copies' = Copies /\ UNCHANGED answers
  /\ api' = "loaded"

Saves ==
  /\ api = "mutated" /\ api' = "accepting" /\ request' = request
  /\ Log' = Append(IF request = Reset THEN <<Seeded>> ELSE Log, request)
  /\ accepted' = accepted \cap Events(Log')
  /\ Copies' = Copies /\ UNCHANGED <<tried, refused>>

Replies ==
  /\ api' = "ready" /\ tried' = tried /\ Log' = Log /\ Copies' = Copies
  /\ \/ api = "accepting" /\ accepted' = accepted \cup {request} /\ refused' = refused
     \/ api = "refusing" /\ refused' = refused \cup {request} /\ accepted' = accepted

PutsBack ==
  /\ api' = "down" /\ Log' \in Copies /\ Copies' = Copies
  /\ accepted' = accepted \cap Events(Log') /\ UNCHANGED <<tried, refused>>

GivesUp ==
  /\ api' = "down" /\ Log' = << >> /\ Copies' \subseteq Copies
  /\ accepted' = {} /\ UNCHANGED <<tried, refused>>

Kinds ==
  Quiet \/ (\E op \in Op : Begins(op)) \/ Grows \/ Saves \/ Replies \/ PutsBack \/ GivesUp

\* Who touches nothing that is kept leaves the copies as they are.
LEMMA SameCopies ==
  ASSUME UNCHANGED <<row, previous, bundles>>
  PROVE  Copies' = Copies
BY DEF Copies, KeptRows

LEMMA MigratedHistory ==
  ASSUME NEW r \in Row
  PROVE  LET h == Migrated(r).audit IN
         /\ h = r.audit \/ (/\ Atomic!Extends(h, r.audit)
                           /\ \A i \in Len(r.audit) + 1 .. Len(h) : h[i] \in Upkeep)
         /\ Events(h) \subseteq Events(r.audit) \cup Upkeep
<1> DEFINE a == r.audit
           h == Migrated(r).audit
<1>1. a \in Seq(Event)
  BY HistoryOfFile
<1>2. h \in {a, Append(a, MigrateStore), Append(a, MigrateApi),
              Append(Append(a, MigrateStore), MigrateApi)}
  BY MigratedRow
<1> HIDE DEF a, h
<1>3. /\ MigrateStore \in Event /\ MigrateApi \in Event
      /\ MigrateStore \in Upkeep /\ MigrateApi \in Upkeep
  BY OrdinaryEvents DEF Upkeep
<1>4. ASSUME NEW e \in Event, e \in Upkeep, h = Append(a, e)
      PROVE  /\ Atomic!Extends(h, a)
             /\ \A i \in Len(a) + 1 .. Len(h) : h[i] \in Upkeep
             /\ Events(h) \subseteq Events(a) \cup Upkeep
  <2>1. /\ Atomic!Extends(h, a) /\ Len(h) = Len(a) + 1 /\ h[Len(a) + 1] = e /\ Len(a) \in Nat
    BY <1>1, <1>4, AppendExtends
  <2>2. Events(h) = Events(a) \cup {e}
    BY <1>1, <1>4, EventsOfAppend
  <2>3. \A i \in Len(a) + 1 .. Len(h) : i = Len(a) + 1
    BY <2>1
  <2> QED BY <1>4, <2>1, <2>2, <2>3
<1>5. ASSUME h = Append(Append(a, MigrateStore), MigrateApi)
      PROVE  /\ Atomic!Extends(h, a)
             /\ \A i \in Len(a) + 1 .. Len(h) : h[i] \in Upkeep
             /\ Events(h) \subseteq Events(a) \cup Upkeep
  <2> DEFINE b == Append(a, MigrateStore)
  <2>1. /\ b \in Seq(Event) /\ Len(b) = Len(a) + 1 /\ b[Len(a) + 1] = MigrateStore
        /\ Len(a) \in Nat /\ Events(b) = Events(a) \cup {MigrateStore}
    BY <1>1, <1>3, AppendExtends, EventsOfAppend
  <2>2. h = Append(b, MigrateApi)
    BY <1>5
  <2> HIDE DEF b
  <2>3. /\ Len(h) = Len(a) + 2 /\ h[Len(a) + 2] = MigrateApi /\ h[Len(a) + 1] = MigrateStore
        /\ Events(h) = Events(b) \cup {MigrateApi}
    BY <1>3, <2>1, <2>2, EventsOfAppend
  <2>4. \A i \in Len(a) + 1 .. Len(h) : i = Len(a) + 1 \/ i = Len(a) + 2
    BY <2>1, <2>3
  <2>5. Atomic!Extends(h, a)
    BY <1>1, <1>3, <1>5, ExtendsTwice
  <2> QED BY <1>3, <2>1, <2>3, <2>4, <2>5
<1>6. ASSUME h = a PROVE Events(h) \subseteq Events(a) \cup Upkeep
  BY <1>6
<1>7. \/ h = a
      \/ /\ Atomic!Extends(h, a)
         /\ \A i \in Len(a) + 1 .. Len(h) : h[i] \in Upkeep
  BY <1>2, <1>3, <1>4, <1>5
<1>8. Events(h) \subseteq Events(a) \cup Upkeep
  BY <1>2, <1>3, <1>4, <1>5, <1>6
<1> QED BY <1>7, <1>8 DEF a, h

LEMMA AppendGrows ==
  ASSUME NEW a \in Seq(Event), NEW e \in Upkeep
  PROVE  LET h == Append(a, e) IN
         /\ Atomic!Extends(h, a)
         /\ \A i \in Len(a) + 1 .. Len(h) : h[i] \in Upkeep
         /\ Events(h) \subseteq Events(a) \cup Upkeep
<1> DEFINE h == Append(a, e)
<1>0. e \in Event
  BY DEF Event
<1>1. /\ Atomic!Extends(h, a) /\ Len(h) = Len(a) + 1 /\ h[Len(a) + 1] = e /\ Len(a) \in Nat
  BY <1>0, AppendExtends
<1>2. Events(h) = Events(a) \cup {e}
  BY <1>0, EventsOfAppend
<1> HIDE DEF h
<1>3. \A i \in Len(a) + 1 .. Len(h) : i = Len(a) + 1
  BY <1>1
<1>4. \A i \in Len(a) + 1 .. Len(h) : h[i] \in Upkeep
  BY <1>1, <1>3
<1>5. Events(h) \subseteq Events(a) \cup Upkeep
  BY <1>2
<1> QED BY <1>1, <1>4, <1>5 DEF h

LEMMA StepKinds ==
  ASSUME Typed, Protocol, [Next]_vars
  PROVE  Kinds
<1> USE DEF vars, process, answers, command
<1>a. Copies' \subseteq Copies \cup {Log}
  BY CopiesStep, CopiesFollow DEF Typed
<1>b. ASSUME UNCHANGED <<target, answers, api, request>> PROVE Kinds
  BY <1>a, <1>b DEF Kinds, Quiet, Log
<1>c. Log \in Seq(Event)
  BY HistoryOfFile DEF Log, Typed, TypeOK
<1>1. ASSUME OpenRepository PROVE Kinds
  <2>1. Log' = Log
    BY <1>1, HistoryOfFile DEF OpenRepository, Log
  <2> QED BY <1>1, <1>a, <2>1 DEF OpenRepository, Kinds, Quiet
<1>2. ASSUME LoadAndMigrate PROVE Kinds
  <2>1. target \in Row
    BY <1>2, FileFacts DEF LoadAndMigrate, Loadable, Typed, TypeOK
  <2>2. target' = Migrated(target) /\ Migrated(target) \in Row
    BY <1>2, <2>1, MigratedRow DEF LoadAndMigrate
  <2>3. Log = target.audit /\ Log' = Migrated(target).audit
    BY <2>1, <2>2, HistoryOfFile DEF Log
  <2>4. Copies' = Copies
    BY <1>2, SameCopies DEF LoadAndMigrate
  <2> QED BY <1>2, <2>1, <2>3, <2>4, MigratedHistory DEF LoadAndMigrate, Kinds, Grows
<1>3. ASSUME InitializeControlPlane PROVE Kinds
  <2>1. Log = << >> /\ Log' = <<Seeded>>
    BY <1>3, HistoryOfFile, FreshRow DEF InitializeControlPlane, Log
  <2>2. <<Seeded>> = Append(<< >>, Seeded) /\ Seeded \in Upkeep
    BY DEF Upkeep
  <2>3. Copies' = Copies
    BY <1>3, SameCopies DEF InitializeControlPlane
  <2>4. Log' = Append(Log, Seeded)
    BY <2>1, <2>2
  <2> QED BY <1>3, <1>c, <2>2, <2>3, <2>4, AppendGrows DEF InitializeControlPlane, Kinds, Grows
<1>4. ASSUME ReconcileDemoSeed PROVE Kinds
  <2>1. target \in Row /\ memory = target
    BY <1>4 DEF ReconcileDemoSeed, Typed, Held, Protocol, ProcessKnows
  <2> DEFINE r == AppendAudit([target EXCEPT !.fixtures = TRUE], Reconciled)
  <2>2. r \in Row /\ r.audit = Append(target.audit, Reconciled)
    <3> DEFINE e == [target EXCEPT !.fixtures = TRUE]
    <3>1. e \in Row /\ e.audit = target.audit
      BY <2>1 DEF Row
    <3>2. Reconciled \in Event
      BY OrdinaryEvents
    <3> HIDE DEF e
    <3>3. AppendAudit(e, Reconciled) \in Row /\ AppendAudit(e, Reconciled).audit = Append(e.audit, Reconciled)
      BY <3>1, <3>2, AppendAuditRow
    <3> QED BY <3>1, <3>3 DEF e
  <2>3. target' = r
    BY <1>4, <2>1 DEF ReconcileDemoSeed
  <2> HIDE DEF r
  <2>4. Log' = Append(Log, Reconciled)
    BY <2>1, <2>2, <2>3, HistoryOfFile DEF Log
  <2>5. Copies' = Copies /\ Reconciled \in Upkeep
    BY <1>4, SameCopies DEF ReconcileDemoSeed, Upkeep
  <2> QED BY <1>4, <1>c, <2>4, <2>5, AppendGrows DEF ReconcileDemoSeed, Kinds, Grows
<1>5. ASSUME Listen PROVE Kinds
  BY <1>5, <1>a DEF Listen, Kinds, Quiet, Log
<1>6. ASSUME FailStart PROVE Kinds
  BY <1>6, <1>a DEF FailStart, Kinds, Quiet, Log
<1>7. ASSUME NEW op \in Op, BeginMutation(op) PROVE Kinds
  BY <1>7, SameCopies DEF BeginMutation, Kinds, Begins, Log
<1>8. ASSUME FinishMutation PROVE Kinds
  BY <1>8, <1>a DEF FinishMutation, Kinds, Quiet, Log
<1>9. ASSUME UndoMutation PROVE Kinds
  BY <1>9, <1>a DEF UndoMutation, Kinds, Quiet, Log
<1>10. ASSUME Save PROVE Kinds
  <2>1. before \in Row /\ request \in Op /\ before = target /\ memory = Applied(before, request)
    BY <1>10 DEF Save, Typed, Held, Handling, Protocol, ProcessKnows
  <2>2. memory \in Row /\ memory.audit = Append(IF request = Reset THEN <<Seeded>> ELSE before.audit, request)
    BY <2>1, AppliedRow
  <2>3. Log = before.audit /\ Log' = memory.audit
    BY <1>10, <2>1, <2>2, HistoryOfFile DEF Save, Log
  <2>4. Copies' = Copies
    BY <1>10, SameCopies DEF Save
  <2> QED BY <1>10, <2>2, <2>3, <2>4 DEF Save, Kinds, Saves
<1>11. ASSUME Reply PROVE Kinds
  <2>1. Copies' = Copies /\ Log' = Log
    BY <1>11, SameCopies DEF Reply, Log
  <2>2. Replies
    BY <1>11, <2>1 DEF Reply, Replies
  <2> QED BY <2>2 DEF Kinds
<1>12. ASSUME NEW b \in BundleName, BeginBackup(b) PROVE Kinds
  BY <1>12, <1>b DEF BeginBackup
<1>13. ASSUME CopyDatabase PROVE Kinds
  BY <1>13, <1>b DEF CopyDatabase
<1>14. ASSUME WriteManifest PROVE Kinds
  BY <1>14, <1>b DEF WriteManifest
<1>15. ASSUME AbandonBundle PROVE Kinds
  BY <1>15, <1>b DEF AbandonBundle
<1>16. ASSUME NEW b \in BundleName, NEW rollback \in BundleName, BeginRestore(b, rollback) PROVE Kinds
  <2>1. Log' = Log
    BY <1>16, HistoryOfFile DEF BeginRestore, Log
  <2> QED BY <1>16, <1>a, <2>1 DEF BeginRestore, Kinds, Quiet
<1>d. ASSUME NEW r \in KeptRows, PutBackRow(r), UNCHANGED <<row, previous, bundles>>, api' = "down"
      PROVE  Kinds
  <2>1. r \in Row
    BY KeptAreRows DEF Typed
  <2>2. Log' = r.audit /\ r.audit \in Copies
    BY <1>d, <2>1, HistoryOfFile DEF Log, PutBackRow, Copies
  <2>3. Copies' = Copies
    BY <1>d, SameCopies
  <2> QED BY <1>d, <2>2, <2>3 DEF PutBackRow, Kinds, PutsBack
<1>e. /\ row \in Row => row \in KeptRows
      /\ previous \in Row => previous \in KeptRows
  BY RowIsAFile DEF KeptRows, HasRow
<1>17. ASSUME FinishCopy PROVE Kinds
  BY <1>17, <1>d, <1>e DEF FinishCopy, Typed, Held, Restoring
<1>18. ASSUME DiscardCopy PROVE Kinds
  <2>1. Log' = << >> /\ Copies' = Copies
    BY <1>18, HistoryOfFile, SameCopies DEF DiscardCopy, EndCommand, Log
  <2>2. api' = "down"
    BY <1>18 DEF DiscardCopy, Typed, Held, Restoring
  <2> QED BY <1>18, <2>1, <2>2 DEF DiscardCopy, Kinds, GivesUp
<1>18a. ASSUME LeaveCopy PROVE Kinds
  BY <1>18a, <1>d, <1>e DEF LeaveCopy, EndCommand, Typed, Held, Restoring
<1>19. ASSUME ReadPreviousRow PROVE Kinds
  BY <1>19, <1>b DEF ReadPreviousRow
<1>20. ASSUME WriteStateRow PROVE Kinds
  BY <1>20, <1>d, <1>e DEF WriteStateRow, Typed, Held, Replacing, Restoring
<1>21. ASSUME GiveUpRestore PROVE Kinds
  BY <1>21, <1>b DEF GiveUpRestore
<1>22. ASSUME ConfirmRestored PROVE Kinds
  BY <1>22, <1>b DEF ConfirmRestored
<1>23. ASSUME RejectRestored PROVE Kinds
  BY <1>23, <1>b DEF RejectRestored
<1>24. ASSUME WritePreviousRow PROVE Kinds
  BY <1>24, <1>d, <1>e DEF WritePreviousRow, Typed, Held, Replacing, Restoring
<1>25. ASSUME ConfirmUndone PROVE Kinds
  BY <1>25, <1>b DEF ConfirmUndone
<1>26. ASSUME FailToUndo PROVE Kinds
  BY <1>26, <1>b DEF FailToUndo
<1>27. ASSUME Stop PROVE Kinds
  BY <1>27, <1>a DEF Stop, Kinds, Quiet, Log
<1>28. ASSUME KillTool PROVE Kinds
  BY <1>28, <1>b DEF KillTool
<1>29. ASSUME NEW b \in BundleName, DiscardBundle(b) PROVE Kinds
  BY <1>29, <1>b DEF DiscardBundle
<1>30. ASSUME NEW b \in BundleName, CorruptBundle(b) PROVE Kinds
  BY <1>30, <1>b DEF CorruptBundle
<1>31. ASSUME NEW file \in {NoFile, Damaged}, LoseFile(file) PROVE Kinds
  <2>1. Log' = << >>
    BY <1>31, HistoryOfFile DEF LoseFile, Log
  <2>2. KeptRows' \subseteq KeptRows
    BY <1>31 DEF LoseFile, ForgetRestore, KeptRows
  <2>3. Copies' \subseteq Copies
    BY <2>2 DEF Copies
  <2> QED BY <1>31, <2>1, <2>3 DEF LoseFile, Kinds, GivesUp
<1>32. CASE UNCHANGED vars
  BY <1>32, <1>b
<1> QED
  BY <1>1, <1>2, <1>3, <1>4, <1>5, <1>6, <1>7, <1>8, <1>9, <1>10, <1>11, <1>12, <1>13, <1>14, <1>15, <1>16, <1>17, <1>18, <1>18a, <1>19, <1>20, <1>21, <1>22, <1>23, <1>24, <1>25, <1>26, <1>27, <1>28, <1>29, <1>30, <1>31, <1>32
     DEF Next, StartStep, RequestStep, BackupStep, RestoreStep, EnvironmentStep

-----------------------------------------------------------------------------
(***************************************************************************)
(* The request being handled is in no history yet, so a save adds it once  *)
(* and an error leaves no trace of it.                                     *)
(***************************************************************************)

Histories == Copies \cup {Log}

Answers ==
  /\ \A h \in Histories : Events(h) \cap Op \subseteq tried /\ Events(h) \cap refused = {}
  /\ api \in {"mutating", "mutated", "refusing"} =>
       request \notin refused /\ \A h \in Histories : request \notin Events(h)
  /\ api = "accepting" => request \in Events(Log) /\ request \notin refused
  /\ accepted \subseteq Events(Log)

LEMMA ExtensionKeepsEvents ==
  ASSUME NEW base \in Seq(Event), NEW h \in Seq(Event), Atomic!Extends(h, base)
  PROVE  Events(base) \subseteq Events(h)
<1>1. Len(h) > Len(base) /\ SubSeq(h, 1, Len(base)) = base /\ Len(base) \in Nat /\ Len(h) \in Nat
  BY DEF Atomic!Extends
<1>2. ASSUME NEW i \in 1 .. Len(base) PROVE i \in 1 .. Len(h) /\ base[i] = h[i]
  <2>1. 1 \in Int /\ Len(base) \in Int /\ \A k \in 1 .. Len(base) : h[k] \in Event
    BY <1>1
  <2>2. \A k \in 1 .. Len(base) - 1 + 1 : SubSeq(h, 1, Len(base))[k] = h[1 + k - 1]
    BY <2>1, SubSeqProperties
  <2>3. i \in 1 .. Len(base) - 1 + 1 /\ 1 + i - 1 = i
    BY <1>1
  <2> QED BY <1>1, <2>2, <2>3
<1> QED BY <1>2 DEF Events

LEMMA StartingPoint ==
  ASSUME Init
  PROVE  Log \in Seq(Upkeep) /\ Copies = {}
<1>1. KeptRows = {}
  BY RepositoryAssumption DEF Init, KeptRows
<1>2. Log \in Seq(Upkeep)
  <2>1. CASE target = NoFile
    BY <2>1, HistoryOfFile DEF Log
  <2>2. CASE target # NoFile
    <3>1. target \in FirstFile \ {NoFile} /\ target \in Row
      BY <2>2, RepositoryAssumption DEF Init
    <3>2. target.audit \in Seq(Upkeep)
      BY <3>1, RepositoryAssumption
    <3> QED BY <3>1, <3>2, HistoryOfFile DEF Log
  <2> QED BY <2>1, <2>2
<1> QED BY <1>1, <1>2 DEF Copies

LEMMA AnswersInit == Init => Answers
<1> SUFFICES ASSUME Init PROVE Answers
  OBVIOUS
<1>1. Log \in Seq(Upkeep) /\ Copies = {}
  BY StartingPoint
<1>2. Events(Log) \subseteq Upkeep
  BY <1>1 DEF Events
<1>3. Events(Log) \cap Op = {}
  BY <1>2, RepositoryAssumption
<1> QED BY <1>1, <1>3 DEF Init, Answers, Histories

LEMMA AnswersStep ==
  ASSUME Typed, Typed', Kinds, Answers
  PROVE  Answers'
<1> USE DEF Answers, Histories, answers
<1>1. accepted \subseteq Op /\ refused \subseteq Op /\ refused \subseteq tried /\ Op \cap Upkeep = {}
  BY RepositoryAssumption DEF Typed, TypeOK
<1>2. api \in Handling => request \in Op /\ request \in tried
  BY DEF Typed, Held
<1>3. Log \in Seq(Event) /\ Log' \in Seq(Event)
  BY HistoryOfFile DEF Log, Typed, TypeOK
<1>4. CASE Quiet
  BY <1>4 DEF Quiet
<1>5. ASSUME NEW op \in Op, Begins(op) PROVE Answers'
  BY <1>1, <1>5 DEF Begins
<1>6. CASE Grows
  <2>1. Events(Log) \subseteq Events(Log')
    BY <1>3, <1>6, ExtensionKeepsEvents DEF Grows
  <2>2. \A h \in Copies' \cup {Log'} : Events(h) \cap Op \subseteq tried /\ Events(h) \cap refused = {}
    BY <1>1, <1>6 DEF Grows
  <2> QED BY <1>6, <2>1, <2>2 DEF Grows
<1>7. CASE Saves
  <2> DEFINE base == IF request = Reset THEN <<Seeded>> ELSE Log
  <2>1. request \in Event /\ Seeded \in Event
    BY <1>2, <1>7, OrdinaryEvents DEF Saves, Handling, Event
  <2>2. base \in Seq(Event)
    BY <1>3, <2>1
  <2>3. Events(<<Seeded>>) = {Seeded} /\ Seeded \in Upkeep
    BY DEF Events, Upkeep
  <2>4. Events(base) \subseteq Events(Log) \cup Upkeep
    BY <2>3
  <2> HIDE DEF base
  <2>5. Events(Append(base, request)) = Events(base) \cup {request}
    BY <2>1, <2>2, EventsOfAppend
  <2>6. Log' = Append(base, request)
    BY <1>7 DEF Saves, base
  <2>7. request \in Events(Log') /\ Events(Log') \subseteq Events(Log) \cup Upkeep \cup {request}
    BY <2>4, <2>5, <2>6
  <2>8. Events(Log') \cap Op \subseteq tried /\ Events(Log') \cap refused = {}
    BY <1>1, <1>2, <1>7, <2>7 DEF Saves, Handling
  <2> QED BY <1>7, <2>7, <2>8 DEF Saves
<1>8. CASE Replies
  BY <1>8 DEF Replies
<1>9. CASE PutsBack
  BY <1>9 DEF PutsBack
<1>10. CASE GivesUp
  <2>1. Events(<< >>) = {}
    BY DEF Events
  <2> QED BY <1>10, <2>1 DEF GivesUp
<1> QED BY <1>4, <1>5, <1>6, <1>7, <1>8, <1>9, <1>10 DEF Kinds

Protected == Typed /\ Protocol /\ Answers

LEMMA ProtectedInit == Init => Protected
BY TypedInit, ProtocolInit, AnswersInit DEF Protected

LEMMA ProtectedStep == Protected /\ [Next]_vars => Protected'
BY TypedStep, ProtocolStep, StepKinds, AnswersStep DEF Protected

-----------------------------------------------------------------------------
(***************************************************************************)
(* The refinement.                                                         *)
(***************************************************************************)

LEMMA SameEvents == \A h : Atomic!Events(h) = Events(h)
BY DEF Atomic!Events, Events

\* What clients were told is what the durable history and every copy of it
\* say: mutateAndPersist answers 2xx only after the save, and an error only
\* where nothing was saved (apps/api/src/app.ts), and the offline tool puts
\* back whole rows only (apps/api/src/control-plane-ops.ts).
THEOREM AnswersAreAlwaysTrue == Spec => []Atomic!Promise
<1>1. Protected => Atomic!Promise
  BY SameEvents DEF Protected, Answers, Histories, Log, Copies, Atomic!Promise
<1> QED
  BY <1>1, ProtectedInit, ProtectedStep, PTL DEF Spec

LEMMA InitMaps == Init => Atomic!Init
BY StartingPoint DEF Init, Atomic!Init, Log, Copies

LEMMA StepMaps == Protected /\ [Next]_vars => [Atomic!Next]_(Atomic!abstract)
<1> SUFFICES ASSUME Protected, [Next]_vars
             PROVE  Atomic!Next \/ UNCHANGED Atomic!abstract
  OBVIOUS
<1> USE SameEvents DEF Atomic!Next, Atomic!abstract, answers, Log, Copies
<1>1. Kinds
  BY StepKinds DEF Protected
<1>2. api \in Handling => request \in Op
  BY DEF Protected, Typed, Held
<1>3. Answers
  BY DEF Protected
<1>4. CASE Quiet
  BY <1>4 DEF Quiet, Atomic!Keep
<1>5. ASSUME NEW op \in Op, Begins(op) PROVE UNCHANGED Atomic!abstract
  BY <1>5 DEF Begins
<1>6. CASE Grows
  BY <1>6 DEF Grows, Atomic!Maintain
<1>7. CASE Saves
  <2>1. Atomic!Commit(request)
    BY <1>3, <1>7 DEF Saves, Answers, Histories, Atomic!Commit
  <2> QED BY <1>2, <1>7, <2>1 DEF Saves, Handling
<1>8. CASE Replies
  <2>1. Atomic!Accept(request) \/ Atomic!Refuse(request)
    BY <1>3, <1>8 DEF Replies, Answers, Histories, Atomic!Accept, Atomic!Refuse
  <2> QED BY <1>2, <1>8, <2>1 DEF Replies, Handling
<1>9. CASE PutsBack
  BY <1>9 DEF PutsBack, Atomic!PutBack
<1>10. CASE GivesUp
  BY <1>10 DEF GivesUp, Atomic!GiveUp
<1> QED BY <1>1, <1>4, <1>5, <1>6, <1>7, <1>8, <1>9, <1>10 DEF Kinds

\* Loads, saves, undos, backups and restores, with a kill between any two of
\* their steps, look like the atomic control plane: a request takes effect in
\* one step or not at all, and the history is only extended, put back from a
\* copy, reset or given up (control-plane.ts, control-plane-ops.ts,
\* mutateAndPersist in app.ts).
THEOREM ImplementsAtomicControlPlane == Spec => ImplementsAtomic
BY InitMaps, StepMaps, ProtectedInit, ProtectedStep, PTL DEF Spec, ImplementsAtomic, Atomic!Spec
=============================================================================
