---------------------------- MODULE Records_proofs --------------------------
(***************************************************************************)
(* Proofs about the specification that the run of the record-keeping       *)
(* components checks, RecordsSpec: every behaviour of it is a behaviour of *)
(* each component, so that what is proved about the components holds of it *)
(* too.  Before that, the two components that have no module of proofs of  *)
(* their own, what main.go runs at the start and at the end of a server:   *)
(* the migrations, for every number of instances, files and crashes, and   *)
(* the shutdown of the agent factory, for every number of SpawnAgent and   *)
(* Shutdown calls.                                                         *)
(***************************************************************************)
EXTENDS MCRecords, Registry_proofs, Assignments_proofs, Access_proofs, TLAPS

-----------------------------------------------------------------------------
\* The migrations and the agent factory.


\* The empty database is at a version.
LEMMA MigrationsInitially == MigrationsInit => MigrationsInv
  BY MigrationsAssumption
  DEF MigrationsInit, MigrationsInv, MigrationsTypeOK, SchemaIsAtAVersion, InstanceInv,
      Recorded, Files, Down, MigrationPCs, At, HoldsKey, File

\* Every step of an instance keeps the version.
LEMMA MigrationsStepInv ==
    ASSUME MigrationsInv, [MigrationsNext]_migrationVars
    PROVE  MigrationsInv'
  <1> USE MigrationsAssumption DEF MigrationsInv, Files, At, HoldsKey, File
  <1>1. CASE UNCHANGED migrationVars
    BY <1>1 DEF migrationVars, MigrationsTypeOK, SchemaIsAtAVersion, InstanceInv, Recorded
  <1>2. ASSUME NEW i \in Instances, RunMigrations(i) PROVE MigrationsInv'
    <2>1. MigrationsTypeOK'
      BY <1>2 DEF RunMigrations, MigrationsTypeOK, InstanceInv, MigrationPCs
    <2>2. SchemaIsAtAVersion'
      BY <1>2 DEF RunMigrations, MigrationsTypeOK, MigrationPCs, SchemaIsAtAVersion, InstanceInv, Recorded
    <2>3. ASSUME NEW j \in Instances PROVE InstanceInv(j)'
      BY <1>2 DEF RunMigrations, MigrationsTypeOK, MigrationPCs, InstanceInv, Recorded
    <2>4. QED
      BY <2>1, <2>2, <2>3
  <1>3. ASSUME NEW i \in Instances, ensureMigrationsTable(i) PROVE MigrationsInv'
    <2>1. MigrationsTypeOK'
      BY <1>3 DEF ensureMigrationsTable, Goto, MigrationsTypeOK, InstanceInv, MigrationPCs
    <2>2. SchemaIsAtAVersion'
      BY <1>3 DEF ensureMigrationsTable, Goto, MigrationsTypeOK, MigrationPCs, SchemaIsAtAVersion, InstanceInv, Recorded
    <2>3. ASSUME NEW j \in Instances PROVE InstanceInv(j)'
      BY <1>3 DEF ensureMigrationsTable, Goto, MigrationsTypeOK, MigrationPCs, InstanceInv, Recorded
    <2>4. QED
      BY <2>1, <2>2, <2>3
  <1>4. ASSUME NEW i \in Instances, isMigrationApplied(i) PROVE MigrationsInv'
    <2>1. MigrationsTypeOK'
      <3>1. File(i) \in 1..LastFile /\ File(i) + 1 \in 0..LastFile + 1
        BY <1>4 DEF isMigrationApplied
      <3>2. instance' \in [Instances -> [pc : MigrationPCs, file : 0..LastFile + 1,
                                        starts : 0..MaxStarts]]
        BY <1>4, <3>1 DEF isMigrationApplied, MigrationsTypeOK, MigrationPCs
      <3>3. QED
        BY <1>4, <3>2 DEF isMigrationApplied, MigrationsTypeOK
    <2>2. SchemaIsAtAVersion'
      BY <1>4 DEF isMigrationApplied, MigrationsTypeOK, MigrationPCs, SchemaIsAtAVersion, InstanceInv, Recorded
    <2>3. ASSUME NEW j \in Instances PROVE InstanceInv(j)'
      BY <1>4 DEF isMigrationApplied, MigrationsTypeOK, MigrationPCs, InstanceInv, Recorded
    <2>4. QED
      BY <2>1, <2>2, <2>3
  <1>5. ASSUME NEW i \in Instances, MigrationsDone(i) PROVE MigrationsInv'
    <2>1. MigrationsTypeOK'
      BY <1>5 DEF MigrationsDone, Goto, MigrationsTypeOK, InstanceInv, MigrationPCs
    <2>2. SchemaIsAtAVersion'
      <3>1. File(i) = LastFile + 1 /\ 1..File(i) - 1 \subseteq Recorded /\ Recorded \subseteq Files
        BY <1>5 DEF MigrationsDone, MigrationsTypeOK, InstanceInv, Recorded
      <3>2. Recorded = Files
        <4>1. File(i) - 1 = LastFile
          BY <3>1
        <4>2. QED
          BY <3>1, <4>1 DEF Recorded
      <3>3. Recorded' = Recorded
        BY <1>5 DEF MigrationsDone, Recorded
      <3>4. QED
        BY <1>5, <3>2, <3>3 DEF MigrationsDone, SchemaIsAtAVersion
    <2>3. ASSUME NEW j \in Instances PROVE InstanceInv(j)'
      BY <1>5 DEF MigrationsDone, Goto, MigrationsTypeOK, MigrationPCs, InstanceInv, Recorded
    <2>4. QED
      BY <2>1, <2>2, <2>3
  <1>6. ASSUME NEW i \in Instances, ExecSQL(i) PROVE MigrationsInv'
    <2>1. MigrationsTypeOK'
      <3>1. File(i) \in Files
        BY <1>6 DEF ExecSQL, InstanceInv
      <3>2. effects' \in [Files -> Nat]
        BY <1>6, <3>1 DEF ExecSQL, MigrationsTypeOK
      <3>3. QED
        BY <1>6, <3>2 DEF ExecSQL, Goto, MigrationsTypeOK, MigrationPCs
    <2>2. SchemaIsAtAVersion'
      BY <1>6 DEF ExecSQL, Goto, MigrationsTypeOK, MigrationPCs, SchemaIsAtAVersion, InstanceInv, Recorded
    <2>3. ASSUME NEW j \in Instances PROVE InstanceInv(j)'
      BY <1>6 DEF ExecSQL, Goto, MigrationsTypeOK, MigrationPCs, InstanceInv, Recorded
    <2>4. QED
      BY <2>1, <2>2, <2>3
  <1>7. ASSUME NEW i \in Instances, ExecFails(i) PROVE MigrationsInv'
    <2>1. MigrationsTypeOK'
      BY <1>7 DEF ExecFails, Fatal, Goto, MigrationsTypeOK, InstanceInv, MigrationPCs
    <2>2. SchemaIsAtAVersion'
      BY <1>7 DEF ExecFails, Fatal, Goto, MigrationsTypeOK, MigrationPCs, SchemaIsAtAVersion, InstanceInv, Recorded
    <2>3. ASSUME NEW j \in Instances PROVE InstanceInv(j)'
      BY <1>7 DEF ExecFails, Fatal, Goto, MigrationsTypeOK, MigrationPCs, InstanceInv, Recorded
    <2>4. QED
      BY <2>1, <2>2, <2>3
  <1>8. ASSUME NEW i \in Instances, InsertVersion(i) PROVE MigrationsInv'
    <2>1. MigrationsTypeOK'
      BY <1>8 DEF InsertVersion, Fatal, Goto, MigrationsTypeOK, InstanceInv, MigrationPCs
    <2>2. SchemaIsAtAVersion'
      <3>1. CASE File(i) \in schema_migrations
        BY <1>8, <3>1 DEF InsertVersion, Fatal, Goto, MigrationsTypeOK, SchemaIsAtAVersion, Recorded
      <3>2. CASE File(i) \notin schema_migrations
        <4>1. /\ schema_migrations # None /\ Recorded = schema_migrations
              /\ File(i) \in Files
              /\ File(i) \in SelfCommitting => effects[File(i)] > 0
          BY <1>8 DEF InsertVersion, InstanceInv, Recorded
        <4>2. Recorded' = IF File(i) \in SelfCommitting THEN Recorded \cup {File(i)} ELSE Recorded
          BY <1>8, <3>2, <4>1 DEF InsertVersion, MigrationsTypeOK, Recorded
        <4>3. \A j \in Instances : At(j, "serving")' => At(j, "serving")
          BY <1>8, <3>2 DEF InsertVersion, Goto, MigrationsTypeOK
        <4>4. effects' = effects /\ Recorded \subseteq Files
          BY <1>8, <4>1 DEF InsertVersion, MigrationsTypeOK
        <4>5. QED
          BY <4>1, <4>2, <4>3, <4>4 DEF SchemaIsAtAVersion
      <3>3. QED
        BY <3>1, <3>2
    <2>3. ASSUME NEW j \in Instances PROVE InstanceInv(j)'
      <3>1. CASE File(i) \in schema_migrations
        <4>1. /\ instance' = [instance EXCEPT ![i].pc = "down"]
              /\ effects' = effects /\ schema_migrations' = schema_migrations
          BY <1>8, <3>1 DEF InsertVersion, Fatal, Goto
        <4>2. QED
          BY <4>1 DEF MigrationsTypeOK, InstanceInv, Recorded
      <3>2. CASE File(i) \notin schema_migrations
        <4>1. /\ schema_migrations # None /\ Recorded = schema_migrations
              /\ File(i) \in Files
          BY <1>8 DEF InsertVersion, InstanceInv, Recorded
        <4>2. /\ schema_migrations' # None
              /\ Recorded' = IF File(i) \in SelfCommitting THEN Recorded \cup {File(i)} ELSE Recorded
          BY <1>8, <3>2, <4>1 DEF InsertVersion, MigrationsTypeOK, Recorded
        <4>3. /\ effects' = effects
              /\ instance' = [instance EXCEPT ![i].pc = "commit"]
              /\ instance[i].pc = "insert"
              /\ \A k \in Instances \ {i} : ~HoldsKey(k, File(i))
          BY <1>8, <3>2 DEF InsertVersion, Goto
        <4>4. CASE j = i
          BY <3>2, <4>1, <4>2, <4>3, <4>4 DEF InstanceInv, MigrationsTypeOK
        <4>5. CASE j # i
          BY <3>2, <4>1, <4>2, <4>3, <4>5 DEF InstanceInv, MigrationsTypeOK
        <4>6. QED
          BY <4>4, <4>5
      <3>3. QED
        BY <3>1, <3>2
    <2>4. QED
      BY <2>1, <2>2, <2>3
  <1>9. ASSUME NEW i \in Instances, CommitTx(i) PROVE MigrationsInv'
    <2>a. /\ schema_migrations # None /\ Recorded = schema_migrations
          /\ File(i) \in Files /\ 1..File(i) - 1 \subseteq Recorded
          /\ File(i) \in Recorded <=> File(i) \in SelfCommitting
      BY <1>9 DEF CommitTx, InstanceInv, Recorded
    <2>b. /\ schema_migrations' = schema_migrations \cup {File(i)}
          /\ effects' = IF File(i) \in SelfCommitting THEN effects
                        ELSE [effects EXCEPT ![File(i)] = @ + 1]
          /\ instance' = [instance EXCEPT ![i].pc = "check", ![i].file = @ + 1]
      BY <1>9 DEF CommitTx
    <2>1. MigrationsTypeOK'
      <3>1. File(i) + 1 \in 0..LastFile + 1
        BY <2>a
      <3>2. instance' \in [Instances -> [pc : MigrationPCs, file : 0..LastFile + 1,
                                        starts : 0..MaxStarts]]
        BY <2>b, <3>1 DEF MigrationsTypeOK, MigrationPCs
      <3>3. effects' \in [Files -> Nat]
        BY <2>a, <2>b DEF MigrationsTypeOK
      <3>4. schema_migrations' \subseteq Files
        BY <2>a, <2>b DEF MigrationsTypeOK
      <3>5. QED
        BY <3>2, <3>3, <3>4 DEF MigrationsTypeOK
    <2>2. SchemaIsAtAVersion'
      <3>1. Recorded' = Recorded \cup {File(i)}
        BY <2>a, <2>b DEF Recorded, MigrationsTypeOK
      <3>2. \A j \in Instances : At(j, "serving")' => At(j, "serving")
        BY <2>b DEF MigrationsTypeOK
      <3>3. /\ \A f \in Files : f # File(i) => effects'[f] = effects[f]
            /\ effects'[File(i)] = IF File(i) \in SelfCommitting THEN effects[File(i)]
                                   ELSE effects[File(i)] + 1
        BY <2>a, <2>b DEF MigrationsTypeOK
      <3>4. Recorded \subseteq Files
        BY DEF MigrationsTypeOK, Recorded
      <3>5. \A f \in Files \ SelfCommitting : effects'[f] = IF f \in Recorded' THEN 1 ELSE 0
        BY <2>a, <3>1, <3>3 DEF SchemaIsAtAVersion
      <3>6. \A f \in SelfCommitting : f \in Recorded' => effects'[f] > 0
        BY <2>a, <3>1, <3>3 DEF SchemaIsAtAVersion
      <3>7. \A f \in Files : effects'[f] > 0 => 1..f - 1 \subseteq Recorded'
        BY <2>a, <3>1, <3>3 DEF SchemaIsAtAVersion
      <3>8. \A j \in Instances : At(j, "serving")' => Recorded' = Files
        BY <2>a, <3>1, <3>2, <3>4 DEF SchemaIsAtAVersion
      <3>9. QED
        BY <3>5, <3>6, <3>7, <3>8 DEF SchemaIsAtAVersion
    <2>3. ASSUME NEW j \in Instances PROVE InstanceInv(j)'
      BY <1>9 DEF CommitTx, MigrationsTypeOK, MigrationPCs, InstanceInv, Recorded
    <2>4. QED
      BY <2>1, <2>2, <2>3
  <1>10. ASSUME NEW i \in Instances, Crash(i) PROVE MigrationsInv'
    <2>1. MigrationsTypeOK'
      BY <1>10 DEF Crash, Fatal, Goto, MigrationsTypeOK, InstanceInv, MigrationPCs
    <2>2. SchemaIsAtAVersion'
      BY <1>10 DEF Crash, Fatal, Goto, MigrationsTypeOK, MigrationPCs, SchemaIsAtAVersion, InstanceInv, Recorded
    <2>3. ASSUME NEW j \in Instances PROVE InstanceInv(j)'
      BY <1>10 DEF Crash, Fatal, Goto, MigrationsTypeOK, MigrationPCs, InstanceInv, Recorded
    <2>4. QED
      BY <2>1, <2>2, <2>3
  <1>11. QED
    BY <1>1, <1>2, <1>3, <1>4, <1>5, <1>6, <1>7, <1>8, <1>9, <1>10 DEF MigrationsNext

\* MigrationsInv holds of every behaviour.
THEOREM MigrationsInvariant == MigrationsSpec => []MigrationsInv
  BY MigrationsInitially, MigrationsStepInv, PTL DEF MigrationsSpec

\* Whatever crashes and whoever starts at the same time: the SQL of a file goes
\* with its record, files go in order, and a server that serves has them all.
THEOREM SchemaVersioned == MigrationsSpec => []SchemaIsAtAVersion
  <1>1. MigrationsInv => SchemaIsAtAVersion
    BY DEF MigrationsInv
  <1>2. QED
    BY <1>1, MigrationsInvariant, PTL

\* The version table, the effects and the instances are well typed.
THEOREM MigrationsTypes == MigrationsSpec => []MigrationsTypeOK
  <1>1. MigrationsInv => MigrationsTypeOK
    BY DEF MigrationsInv
  <1>2. QED
    BY <1>1, MigrationsInvariant, PTL

-----------------------------------------------------------------------------
\* Nothing is spawned yet and nobody shuts down.
LEMMA FactoryInitially == FactoryInit => FactoryInv
  <1> SUFFICES ASSUME FactoryInit PROVE FactoryInv
    OBVIOUS
  <1> USE DEF FactoryInit
  <1>1. FactoryTypeOK
    BY DEF FactoryTypeOK, SpawnPCs
  <1>2. StopInv
    BY DEF StopInv
  <1>3. AccountedInv /\ AskedBeforeKilled
    BY DEF AccountedInv, AskedBeforeKilled, ShutdownOver
  <1>4. ASSUME NEW s \in SpawnCalls PROVE WorkerInv(s)
    BY DEF WorkerInv, SpawnAt
  <1>5. QED
    BY <1>1, <1>2, <1>3, <1>4 DEF FactoryInv

\* Every step of a SpawnAgent, of a worker and of a Shutdown keeps the invariant.
LEMMA FactoryStepInv ==
    ASSUME FactoryInv, [FactoryNext]_factoryVars
    PROVE  FactoryInv'
  <1> USE FactoryAssumption DEF FactoryInv, SpawnAt, runtimeVars, SpawnPCs
  <1>1. CASE UNCHANGED factoryVars
    BY <1>1 DEF factoryVars, FactoryTypeOK, StopInv, AccountedInv, AskedBeforeKilled, WorkerInv,
                ShutdownOver, SpawnOver
  <1>2. ASSUME NEW s \in SpawnCalls, NEW a \in FactoryAgents, SpawnAgent(s, a) PROVE FactoryInv'
    <2>1. FactoryTypeOK'
      BY <1>2 DEF SpawnAgent, FactoryTypeOK, WorkerInv
    <2>2. StopInv'
      BY <1>2 DEF SpawnAgent, FactoryTypeOK, StopInv
    <2>3. AccountedInv'
      BY <1>2 DEF SpawnAgent, FactoryTypeOK, StopInv, AccountedInv, WorkerInv, ShutdownOver
    <2>4. AskedBeforeKilled'
      BY <1>2 DEF SpawnAgent, FactoryTypeOK, StopInv, AccountedInv, AskedBeforeKilled, WorkerInv, SpawnOver
    <2>5. ASSUME NEW w \in SpawnCalls PROVE WorkerInv(w)'
      BY <1>2 DEF SpawnAgent, FactoryTypeOK, WorkerInv
    <2>6. QED
      BY <2>1, <2>2, <2>3, <2>4, <2>5
  <1>3. ASSUME NEW s \in SpawnCalls, SpawnCheck(s) PROVE FactoryInv'
    <2>1. FactoryTypeOK'
      BY <1>3 DEF SpawnCheck, SpawnTo, FactoryTypeOK, WorkerInv
    <2>2. StopInv'
      BY <1>3 DEF SpawnCheck, SpawnTo, FactoryTypeOK, StopInv
    <2>3. AccountedInv'
      BY <1>3 DEF SpawnCheck, SpawnTo, FactoryTypeOK, StopInv, AccountedInv, WorkerInv, ShutdownOver
    <2>4. AskedBeforeKilled'
      BY <1>3 DEF SpawnCheck, SpawnTo, FactoryTypeOK, StopInv, AccountedInv, AskedBeforeKilled, WorkerInv, SpawnOver
    <2>5. ASSUME NEW w \in SpawnCalls PROVE WorkerInv(w)'
      BY <1>3 DEF SpawnCheck, SpawnTo, FactoryTypeOK, WorkerInv
    <2>6. QED
      BY <2>1, <2>2, <2>3, <2>4, <2>5
  <1>4. ASSUME NEW s \in SpawnCalls, SpawnStart(s) PROVE FactoryInv'
    <2>1. FactoryTypeOK'
      BY <1>4 DEF SpawnStart, SpawnTo, FactoryTypeOK, WorkerInv
    <2>2. StopInv'
      BY <1>4 DEF SpawnStart, SpawnTo, FactoryTypeOK, StopInv
    <2>3. AccountedInv'
      BY <1>4 DEF SpawnStart, SpawnTo, FactoryTypeOK, StopInv, AccountedInv, WorkerInv, ShutdownOver
    <2>4. AskedBeforeKilled'
      BY <1>4 DEF SpawnStart, SpawnTo, FactoryTypeOK, StopInv, AccountedInv, AskedBeforeKilled, WorkerInv, SpawnOver
    <2>5. ASSUME NEW w \in SpawnCalls PROVE WorkerInv(w)'
      BY <1>4 DEF SpawnStart, SpawnTo, FactoryTypeOK, WorkerInv
    <2>6. QED
      BY <2>1, <2>2, <2>3, <2>4, <2>5
  <1>5. ASSUME NEW s \in SpawnCalls, SpawnRegister(s) PROVE FactoryInv'
    <2>1. FactoryTypeOK'
      BY <1>5 DEF SpawnRegister, SpawnTo, FactoryTypeOK, WorkerInv
    <2>2. StopInv'
      BY <1>5 DEF SpawnRegister, SpawnTo, FactoryTypeOK, StopInv
    <2>3. AccountedInv'
      BY <1>5 DEF SpawnRegister, SpawnTo, FactoryTypeOK, StopInv, AccountedInv, WorkerInv, ShutdownOver
    <2>4. AskedBeforeKilled'
      BY <1>5 DEF SpawnRegister, SpawnTo, FactoryTypeOK, StopInv, AccountedInv, AskedBeforeKilled, WorkerInv, SpawnOver
    <2>5. ASSUME NEW w \in SpawnCalls PROVE WorkerInv(w)'
      BY <1>5 DEF SpawnRegister, SpawnTo, FactoryTypeOK, WorkerInv
    <2>6. QED
      BY <2>1, <2>2, <2>3, <2>4, <2>5
  <1>6. ASSUME NEW s \in SpawnCalls, SpawnTrack(s) PROVE FactoryInv'
    <2>1. FactoryTypeOK'
      BY <1>6 DEF SpawnTrack, SpawnTo, FactoryTypeOK, WorkerInv
    <2>2. StopInv'
      BY <1>6 DEF SpawnTrack, SpawnTo, FactoryTypeOK, StopInv
    <2>3. AccountedInv'
      BY <1>6 DEF SpawnTrack, SpawnTo, FactoryTypeOK, StopInv, AccountedInv, WorkerInv, ShutdownOver
    <2>4. AskedBeforeKilled'
      BY <1>6 DEF SpawnTrack, SpawnTo, FactoryTypeOK, StopInv, AccountedInv, AskedBeforeKilled, WorkerInv, SpawnOver
    <2>5. ASSUME NEW w \in SpawnCalls PROVE WorkerInv(w)'
      BY <1>6 DEF SpawnTrack, SpawnTo, FactoryTypeOK, WorkerInv
    <2>6. QED
      BY <2>1, <2>2, <2>3, <2>4, <2>5
  <1>7. ASSUME NEW s \in SpawnCalls, SpawnSignal(s) PROVE FactoryInv'
    <2>1. FactoryTypeOK'
      BY <1>7 DEF SpawnSignal, SpawnTo, signalTerm, ParsePIDFromHandle, FactoryTypeOK, WorkerInv
    <2>2. StopInv'
      BY <1>7 DEF SpawnSignal, SpawnTo, signalTerm, ParsePIDFromHandle, FactoryTypeOK, StopInv
    <2>3. AccountedInv'
      BY <1>7 DEF SpawnSignal, SpawnTo, signalTerm, ParsePIDFromHandle, FactoryTypeOK, StopInv, AccountedInv, WorkerInv, ShutdownOver
    <2>4. AskedBeforeKilled'
      BY <1>7 DEF SpawnSignal, SpawnTo, signalTerm, ParsePIDFromHandle, FactoryTypeOK, StopInv, AccountedInv, AskedBeforeKilled, WorkerInv, SpawnOver
    <2>5. ASSUME NEW w \in SpawnCalls PROVE WorkerInv(w)'
      BY <1>7 DEF SpawnSignal, SpawnTo, signalTerm, ParsePIDFromHandle, FactoryTypeOK, WorkerInv
    <2>6. QED
      BY <2>1, <2>2, <2>3, <2>4, <2>5
  <1>8. ASSUME NEW s \in SpawnCalls, WorkerEnds(s) PROVE FactoryInv'
    <2>1. FactoryTypeOK'
      BY <1>8 DEF WorkerEnds, FactoryTypeOK, WorkerInv
    <2>2. StopInv'
      BY <1>8 DEF WorkerEnds, FactoryTypeOK, StopInv
    <2>3. AccountedInv'
      BY <1>8 DEF WorkerEnds, FactoryTypeOK, StopInv, AccountedInv, WorkerInv, ShutdownOver
    <2>4. AskedBeforeKilled'
      BY <1>8 DEF WorkerEnds, FactoryTypeOK, StopInv, AccountedInv, AskedBeforeKilled, WorkerInv, SpawnOver
    <2>5. ASSUME NEW w \in SpawnCalls PROVE WorkerInv(w)'
      BY <1>8 DEF WorkerEnds, FactoryTypeOK, WorkerInv
    <2>6. QED
      BY <2>1, <2>2, <2>3, <2>4, <2>5
  <1>9. ASSUME NEW s \in SpawnCalls, NEW c \in Stoppers, ShutdownSignal(c, s) PROVE FactoryInv'
    <2>1. FactoryTypeOK'
      BY <1>9 DEF ShutdownSignal, signalTerm, ParsePIDFromHandle, FactoryTypeOK, WorkerInv
    <2>2. StopInv'
      BY <1>9 DEF ShutdownSignal, signalTerm, ParsePIDFromHandle, FactoryTypeOK, StopInv
    <2>3. AccountedInv'
      BY <1>9 DEF ShutdownSignal, signalTerm, ParsePIDFromHandle, FactoryTypeOK, StopInv, AccountedInv, WorkerInv, ShutdownOver
    <2>4. AskedBeforeKilled'
      BY <1>9 DEF ShutdownSignal, signalTerm, ParsePIDFromHandle, FactoryTypeOK, StopInv, AccountedInv, AskedBeforeKilled, WorkerInv, SpawnOver
    <2>5. ASSUME NEW w \in SpawnCalls PROVE WorkerInv(w)'
      BY <1>9 DEF ShutdownSignal, signalTerm, ParsePIDFromHandle, FactoryTypeOK, WorkerInv
    <2>6. QED
      BY <2>1, <2>2, <2>3, <2>4, <2>5
  <1>10. ASSUME NEW c \in Stoppers, Shutdown(c) PROVE FactoryInv'
    <2>1. FactoryTypeOK'
      BY <1>10 DEF Shutdown, FactoryTypeOK, WorkerInv
    <2>2. StopInv'
      BY <1>10 DEF Shutdown, FactoryTypeOK, StopInv
    <2>3. AccountedInv'
      <3>1. ~ShutdownOver'
        BY <1>10 DEF Shutdown, FactoryTypeOK, ShutdownOver
      <3>2. \A w \in registered : w \in {tracked[a] : a \in FactoryAgents} => w \in tmap'
        BY <1>10 DEF Shutdown, FactoryTypeOK
      <3>3. ASSUME factoryRuntime = "process", NEW w \in registered, SpawnAt(w, "returned")
            PROVE  w \in termed \cup unsignalled \cup replaced \cup tmap'
        <4>1. tmap = {}
          BY <1>10 DEF Shutdown, StopInv
        <4>2. QED
          BY <3>2, <3>3, <4>1 DEF AccountedInv
      <3>4. QED
        BY <1>10, <3>1, <3>3 DEF Shutdown, AccountedInv
    <2>4. AskedBeforeKilled'
      BY <1>10 DEF Shutdown, FactoryTypeOK, StopInv, AccountedInv, AskedBeforeKilled, WorkerInv, SpawnOver
    <2>5. ASSUME NEW w \in SpawnCalls PROVE WorkerInv(w)'
      BY <1>10 DEF Shutdown, FactoryTypeOK, WorkerInv
    <2>6. QED
      BY <2>1, <2>2, <2>3, <2>4, <2>5
  <1>11. ASSUME NEW c \in Stoppers, ShutdownAgain(c) PROVE FactoryInv'
    <2>1. FactoryTypeOK'
      BY <1>11 DEF ShutdownAgain, FactoryTypeOK, WorkerInv
    <2>2. StopInv'
      BY <1>11 DEF ShutdownAgain, FactoryTypeOK, StopInv
    <2>3. AccountedInv'
      BY <1>11 DEF ShutdownAgain, FactoryTypeOK, StopInv, AccountedInv, WorkerInv, ShutdownOver
    <2>4. AskedBeforeKilled'
      BY <1>11 DEF ShutdownAgain, FactoryTypeOK, StopInv, AccountedInv, AskedBeforeKilled, WorkerInv, SpawnOver
    <2>5. ASSUME NEW w \in SpawnCalls PROVE WorkerInv(w)'
      BY <1>11 DEF ShutdownAgain, FactoryTypeOK, WorkerInv
    <2>6. QED
      BY <2>1, <2>2, <2>3, <2>4, <2>5
  <1>12. ASSUME NEW c \in Stoppers, ShutdownClose(c) PROVE FactoryInv'
    <2>1. FactoryTypeOK'
      BY <1>12 DEF ShutdownClose, FactoryTypeOK, WorkerInv
    <2>2. StopInv'
      BY <1>12 DEF ShutdownClose, FactoryTypeOK, StopInv
    <2>3. AccountedInv'
      BY <1>12 DEF ShutdownClose, FactoryTypeOK, StopInv, AccountedInv, WorkerInv, ShutdownOver
    <2>4. AskedBeforeKilled'
      BY <1>12 DEF ShutdownClose, FactoryTypeOK, StopInv, AccountedInv, AskedBeforeKilled, WorkerInv, SpawnOver
    <2>5. ASSUME NEW w \in SpawnCalls PROVE WorkerInv(w)'
      BY <1>12 DEF ShutdownClose, FactoryTypeOK, WorkerInv
    <2>6. QED
      BY <2>1, <2>2, <2>3, <2>4, <2>5
  <1>13. ASSUME NEW c \in Stoppers, ShutdownCancel(c) PROVE FactoryInv'
    <2>1. FactoryTypeOK'
      BY <1>13 DEF ShutdownCancel, FactoryTypeOK, WorkerInv
    <2>2. StopInv'
      BY <1>13 DEF ShutdownCancel, FactoryTypeOK, StopInv
    <2>3. AccountedInv'
      BY <1>13 DEF ShutdownCancel, FactoryTypeOK, StopInv, AccountedInv, WorkerInv, ShutdownOver
    <2>4. AskedBeforeKilled'
      BY <1>13 DEF ShutdownCancel, FactoryTypeOK, StopInv, AccountedInv, AskedBeforeKilled, WorkerInv, SpawnOver
    <2>5. ASSUME NEW w \in SpawnCalls PROVE WorkerInv(w)'
      BY <1>13 DEF ShutdownCancel, FactoryTypeOK, WorkerInv
    <2>6. QED
      BY <2>1, <2>2, <2>3, <2>4, <2>5
  <1>14. QED
    BY <1>1, <1>2, <1>3, <1>4, <1>5, <1>6, <1>7, <1>8, <1>9, <1>10, <1>11, <1>12, <1>13 DEF FactoryNext

\* FactoryInv holds of every behaviour.
THEOREM FactoryInvariant == FactorySpec => []FactoryInv
  BY FactoryInitially, FactoryStepInv, PTL DEF FactorySpec

\* In whichever order a SpawnAgent and a Shutdown meet, a process that is left
\* running when both have returned was told to end.
THEOREM NoOrphans == FactorySpec => []NoOrphanWorker
  <1>1. FactoryInv => NoOrphanWorker
    BY DEF FactoryInv, FactoryTypeOK, AccountedInv, NoOrphanWorker, SpawnOver
  <1>2. QED
    BY <1>1, FactoryInvariant, PTL

\* Shutdown kills no process it has not asked first, but for one that a later
\* spawn replaced or whose SpawnAgent is still to signal it.
THEOREM AskedFirst == FactorySpec => []AskedBeforeKilled
  <1>1. FactoryInv => AskedBeforeKilled
    BY DEF FactoryInv
  <1>2. QED
    BY <1>1, FactoryInvariant, PTL

-----------------------------------------------------------------------------
\* All components together.

\* A step of one component leaves the others alone.
LEMMA OneComponentMoves ==
    ASSUME [RecordsNext]_recordVars
    PROVE  /\ [AgentsNext]_agentVars /\ [AssignNext]_assignVars
           /\ [DeliverablesNext]_deliverableVars /\ [SessionsNext]_sessionVars
           /\ [MigrationsNext]_migrationVars /\ [FactoryNext]_factoryVars
           /\ [RateNext]_rateVars /\ [ListNext]_listVars /\ [ProjectsNext]_projectVars
           /\ focus' = focus
<1>1. CASE AgentsStep
  BY <1>1 DEF AgentsStep
<1>2. CASE AssignStep
  BY <1>2 DEF AssignStep
<1>3. CASE DeliverablesStep
  BY <1>3 DEF DeliverablesStep
<1>4. CASE SessionsStep
  BY <1>4 DEF SessionsStep
<1>5. CASE MigrationsStep
  BY <1>5 DEF MigrationsStep
<1>6. CASE FactoryStep
  BY <1>6 DEF FactoryStep
<1>7. CASE RateStep
  BY <1>7 DEF RateStep
<1>8. CASE ListStep
  BY <1>8 DEF ListStep
<1>9. CASE ProjectsStep
  BY <1>9 DEF ProjectsStep
<1>10. CASE UNCHANGED recordVars
  BY <1>10 DEF recordVars
<1> QED
  BY <1>1, <1>2, <1>3, <1>4, <1>5, <1>6, <1>7, <1>8, <1>9, <1>10 DEF RecordsNext

\* Every behaviour of the records specification is one of each of its nine
\* components: the run checks their actions, not others.
THEOREM ComponentsImplemented ==
    RecordsSpec => /\ AgentsSpec /\ AssignSpec /\ DeliverablesSpec /\ SessionsSpec
                   /\ MigrationsSpec /\ FactorySpec /\ RateSpec /\ ListSpec /\ ProjectsSpec
<1>1. RecordsInit => /\ AgentsInit /\ AssignInit /\ DeliverablesInit /\ SessionsInit
                     /\ MigrationsInit /\ FactoryInit /\ RateInit /\ ListInit /\ ProjectsInit
  BY DEF RecordsInit
<1>2. [RecordsNext]_recordVars =>
         /\ [AgentsNext]_agentVars /\ [AssignNext]_assignVars
         /\ [DeliverablesNext]_deliverableVars /\ [SessionsNext]_sessionVars
         /\ [MigrationsNext]_migrationVars /\ [FactoryNext]_factoryVars
         /\ [RateNext]_rateVars /\ [ListNext]_listVars /\ [ProjectsNext]_projectVars
  BY OneComponentMoves
<1> QED
  BY <1>1, <1>2, PTL DEF RecordsSpec, AgentsSpec, AssignSpec, DeliverablesSpec, SessionsSpec,
     MigrationsSpec, FactorySpec, RateSpec, ListSpec, ProjectsSpec

\* Every component's rows and requests keep the shape that the code gives them.
THEOREM RecordsTypes == RecordsSpec => []RecordsTypeOK
<1>1. RecordsInit => focus \in Components
  BY DEF RecordsInit
<1>2. focus \in Components /\ [RecordsNext]_recordVars => (focus \in Components)'
  BY OneComponentMoves
<1>3. RecordsSpec => [](focus \in Components)
  BY <1>1, <1>2, PTL DEF RecordsSpec
<1>4. /\ focus \in Components /\ AgentsInv /\ AssignInv /\ DeliverablesInv /\ SessionsInv
      /\ MigrationsInv /\ FactoryInv /\ RateInv /\ ListInv /\ ProjectsInv
      => RecordsTypeOK
  BY DEF Components, RecordsTypeOK, AgentsInv, AssignInv, DeliverablesInv, SessionsInv,
     MigrationsInv, FactoryInv, RateInv, ListInv, ProjectsInv
<1> QED
  BY <1>3, <1>4, ComponentsImplemented, AgentsInvariant, AssignInvariant, DeliverablesInvariant,
     SessionsInvariant, MigrationsInvariant, FactoryInvariant, RateInvariant, ListInvariant,
     ProjectsInvariant, PTL

\* The run's properties, for every value of the constants: what the components
\* guarantee alone they guarantee beside each other.
THEOREM RecordsAreSafe ==
    RecordsSpec => /\ [](CachedIsGranted /\ HistoryIsComplete /\ SchemaIsAtAVersion)
                   /\ [](/\ IndexIsExact /\ SomebodyStaysAssigned
                         /\ EveryRowHasItsEvent /\ PointerFollowsActive)
                   /\ [](TokenSpentOnce /\ UndisturbedCookieWorks /\ RateIsExact)
                   /\ [](NoOrphanWorker /\ AskedBeforeKilled)
                   /\ [](WalkSkipsNothing /\ WalkRepeatsNothing)
                   /\ NoUnseenOverwrite /\ RetirementIsFinal /\ OnlyStaleCopiesRevert
  BY ComponentsImplemented, CacheIsGranted, HistoryComplete, SchemaVersioned, IndexExact,
     StaysAssigned, OneEventPerRow, PointerFollows, SpentOnce, CookieWorks, LimiterIsExact,
     NoOrphans, AskedFirst, NothingSkipped, NothingRepeated, NothingUnseenOverwritten,
     RetiredForGood, OnlyStaleReverts, PTL
=============================================================================
