---------------------------- MODULE SubagentsProofs ----------------------------
(* The safety properties of Subagents, for any number of subagents, worker      *)
(* threads and clean-ups, and any of the faults.                                *)
EXTENDS Subagents, TLAPS

SpawnerSteps == {"off", "create", "interrupt", "queue", "fail", "done", "crashed"}
CleanerRows == [pc : {"off", "remove", "record", "ended"}, sub : Subs \cup {NoSub},
                receipt : Receipts]
ThreadRows ==
    [pc : {"start", "beat", "claim", "run", "assert", "finish", "ended", "crashed"},
     sub : Subs \cup {NoSub}, outcome : Terminal]

Typed ==
    /\ rows \in [Subs -> SubRows]
    /\ jobRows \in [Subs -> SubStatuses]
    /\ disk \in [Subs -> {"none", "clean", "dirty"}]
    /\ spawner \in [Subs -> SpawnerSteps]
    /\ cleaner \in [Cleaners -> CleanerRows]
    /\ thread \in [Threads -> ThreadRows]

\* What a row is worth: a good lifecycle, its job row, its worktree, its spawn.
RowInv(s) ==
    /\ LifecycleValid(rows[s])
    /\ CleanupValid(rows[s])
    /\ jobRows[s] = IF rows[s].started \/ rows[s].status \in {"queued", "cancelled"}
                    THEN rows[s].status ELSE "absent"
    /\ rows[s].status \in Terminal /\ disk[s] # "none" =>
          rows[s].worktree \in {"ready", "preserved"}
    /\ rows[s].worktree = "removed" => disk[s] = "none"
    /\ spawner[s] = "off" <=> rows[s].status = "absent"
    /\ spawner[s] \in {"create", "interrupt", "queue", "fail"} => rows[s].status = "preparing"
    /\ spawner[s] \in {"off", "create", "interrupt"} => disk[s] = "none"
    /\ rows[s].cancel => rows[s].status \in {"running"} \cup Terminal

\* A clean-up past its claim has its subagent to itself.
CleanerInv(c) ==
    /\ cleaner[c].pc \in {"remove", "record"} => cleaner[c].sub \in Subs
    /\ cleaner[c].sub \in Subs => rows[cleaner[c].sub].claimed
    /\ cleaner[c].pc = "record" => cleaner[c].receipt # "none"
    /\ cleaner[c].pc = "record" /\ cleaner[c].receipt = "succeeded" =>
          disk[cleaner[c].sub] = "none"

\* A thread that runs a subagent is the one its row names.
ThreadInv(t) ==
    thread[t].pc \in {"run", "assert", "finish"} =>
        /\ thread[t].sub \in Subs
        /\ rows[thread[t].sub].worker = t
        /\ rows[thread[t].sub].status \in {"running", "interrupted"}

SubInv ==
    /\ Typed
    /\ \A s \in Subs : RowInv(s)
    /\ \A c \in Cleaners : CleanerInv(c)
    /\ \A t \in Threads : ThreadInv(t)
    /\ OneCleanup

-----------------------------------------------------------------------------
\* What the code writes are statuses and receipts.
LEMMA Values ==
    /\ Terminal \subseteq SubStatuses
    /\ {"absent", "preparing", "queued", "running", "failed", "interrupted", "cancelled"}
          \subseteq SubStatuses
    /\ {"failed", "interrupted", "cancelled"} \subseteq Terminal
    /\ {"none", "succeeded", "failed"} \subseteq Receipts
BY DEF SubStatuses, Terminal, Receipts

LEMMA SubagentsInitially ==
    ASSUME Init
    PROVE  SubInv
<1> USE SubagentsAssumption
<1>1. Typed
  BY DEF Init, Typed, SubRows, SubStatuses, Receipts, SpawnerSteps, CleanerRows, ThreadRows,
         Terminal
<1>2. ASSUME NEW s \in Subs PROVE RowInv(s)
  BY DEF Init, RowInv, LifecycleValid, CleanupValid, Terminal
<1>3. (\A c \in Cleaners : CleanerInv(c)) /\ OneCleanup
  BY DEF Init, CleanerInv, OneCleanup
<1>4. \A t \in Threads : ThreadInv(t)
  BY DEF Init, ThreadInv
<1> QED BY <1>1, <1>2, <1>3, <1>4 DEF SubInv

\* Steps of the threads alone.
LEMMA ThreadsOnly ==
    ASSUME SubInv, UNCHANGED <<rows, jobRows, disk, spawner, cleaner>>,
           thread' \in [Threads -> ThreadRows], \A t \in Threads : ThreadInv(t)'
    PROVE  SubInv'
<1>1. Typed' /\ OneCleanup'
  BY DEF SubInv, Typed, OneCleanup
<1>2. (\A s \in Subs : RowInv(s)') /\ (\A c \in Cleaners : CleanerInv(c)')
  BY DEF SubInv, RowInv, CleanerInv
<1> QED BY <1>1, <1>2 DEF SubInv

LEMMA PrepareKeeps ==
    ASSUME SubInv, NEW s \in Subs, Prepare(s)
    PROVE  SubInv'
<1>0. Typed
  BY DEF SubInv
<1>1. Typed'
  BY <1>0, Values DEF Prepare, Spawn, processVars, Typed, SubRows, SpawnerSteps
<1>2. ASSUME NEW r \in Subs PROVE RowInv(r)'
  BY <1>0, SubagentsAssumption DEF Prepare, Spawn, processVars, SubInv, Typed, SubRows,
         CleanerRows, RowInv, CleanerInv, LifecycleValid, CleanupValid, Terminal
<1>3. \A d \in Cleaners : CleanerInv(d)'
  BY <1>0, SubagentsAssumption DEF Prepare, Spawn, processVars, SubInv, Typed, SubRows,
         CleanerRows, RowInv, CleanerInv
<1>4. \A u \in Threads : ThreadInv(u)'
  BY <1>0, SubagentsAssumption DEF Prepare, Spawn, processVars, SubInv, Typed, SubRows,
         ThreadRows, RowInv, ThreadInv
<1>5. OneCleanup'
  BY <1>0, SubagentsAssumption DEF Prepare, Spawn, processVars, SubInv, Typed, CleanerRows,
         CleanerInv, OneCleanup
<1> QED BY <1>1, <1>2, <1>3, <1>4, <1>5 DEF SubInv

LEMMA CreateKeeps ==
    ASSUME SubInv, NEW s \in Subs, CreateWorktree(s)
    PROVE  SubInv'
<1>0. Typed
  BY DEF SubInv
<1>a. \A c \in Cleaners : cleaner[c].sub # s
  <2>1. ~rows[s].claimed
    BY <1>0 DEF CreateWorktree, SubInv, RowInv, CleanupValid, Terminal, Typed, SubRows
  <2> QED BY <2>1 DEF SubInv, CleanerInv
<1>1. Typed'
  BY <1>0, Values DEF CreateWorktree, Spawn, storeVars, processVars, Typed, SpawnerSteps
<1>2. ASSUME NEW r \in Subs PROVE RowInv(r)'
  BY <1>0, SubagentsAssumption DEF CreateWorktree, Spawn, storeVars, processVars, SubInv,
         Typed, SubRows, CleanerRows, RowInv, CleanerInv, LifecycleValid, CleanupValid,
         Terminal
<1>3. \A d \in Cleaners : CleanerInv(d)'
  BY <1>0, <1>a, SubagentsAssumption DEF CreateWorktree, Spawn, storeVars, processVars, SubInv,
         Typed, SubRows, CleanerRows, RowInv, CleanerInv
<1>4. \A u \in Threads : ThreadInv(u)'
  BY <1>0, SubagentsAssumption DEF CreateWorktree, Spawn, storeVars, processVars, SubInv,
         Typed, SubRows, ThreadRows, RowInv, ThreadInv
<1>5. OneCleanup'
  BY <1>0, SubagentsAssumption DEF CreateWorktree, Spawn, storeVars, processVars, SubInv,
         Typed, CleanerRows, CleanerInv, OneCleanup
<1> QED BY <1>1, <1>2, <1>3, <1>4, <1>5 DEF SubInv

LEMMA QueueKeeps ==
    ASSUME SubInv, NEW s \in Subs, Queue(s)
    PROVE  SubInv'
<1>0. Typed
  BY DEF SubInv
<1>1. Typed'
  BY <1>0, Values DEF Queue, Spawn, IsPreparing, processVars, Typed, SubRows, SpawnerSteps
<1>2. ASSUME NEW r \in Subs PROVE RowInv(r)'
  BY <1>0, SubagentsAssumption DEF Queue, Spawn, IsPreparing, processVars, SubInv, Typed,
         SubRows, CleanerRows, RowInv, CleanerInv, LifecycleValid, CleanupValid, Terminal
<1>3. \A d \in Cleaners : CleanerInv(d)'
  BY <1>0, SubagentsAssumption DEF Queue, Spawn, IsPreparing, processVars, SubInv, Typed,
         SubRows, CleanerRows, RowInv, CleanerInv
<1>4. \A u \in Threads : ThreadInv(u)'
  BY <1>0, SubagentsAssumption DEF Queue, Spawn, IsPreparing, processVars, SubInv, Typed,
         SubRows, ThreadRows, RowInv, ThreadInv
<1>5. OneCleanup'
  BY <1>0, SubagentsAssumption DEF Queue, Spawn, IsPreparing, processVars, SubInv, Typed,
         CleanerRows, CleanerInv, OneCleanup
<1> QED BY <1>1, <1>2, <1>3, <1>4, <1>5 DEF SubInv

LEMMA FailPreparingKeeps ==
    ASSUME SubInv, NEW s \in Subs, FailPreparing(s)
    PROVE  SubInv'
<1>0. Typed
  BY DEF SubInv
<1>a. [rows[s] EXCEPT !.status = "failed", !.worktree = Preserve(s),
                     !.created = "failed", !.result = TRUE] \in SubRows
  BY <1>0, Values DEF Preserve, Typed, SubRows
<1>1. Typed'
  BY <1>0, <1>a, Values DEF FailPreparing, Preserve, Spawn, IsPreparing, processVars, Typed,
         SpawnerSteps
<1>2. ASSUME NEW r \in Subs PROVE RowInv(r)'
  <2>1. /\ RowInv(r) /\ rows \in [Subs -> SubRows] /\ spawner \in [Subs -> SpawnerSteps]
        /\ jobRows' = jobRows /\ disk' = disk
    BY <1>0 DEF SubInv, Typed, FailPreparing
  <2>2. CASE r # s
    <3>1. rows'[r] = rows[r] /\ spawner'[r] = spawner[r]
      BY <2>1, <2>2 DEF FailPreparing, Spawn
    <3> QED BY <2>1, <3>1 DEF RowInv, LifecycleValid, CleanupValid
  <2>3. CASE r = s
    BY <2>1, <2>3, SubagentsAssumption
       DEF FailPreparing, Preserve, Spawn, IsPreparing, SubRows, RowInv, LifecycleValid,
           CleanupValid, Terminal
  <2> QED BY <2>2, <2>3
<1>3. \A d \in Cleaners : CleanerInv(d)'
  BY <1>0, SubagentsAssumption DEF FailPreparing, Preserve, Spawn, IsPreparing, processVars,
         SubInv, Typed, SubRows, CleanerRows, RowInv, CleanerInv
<1>4. \A u \in Threads : ThreadInv(u)'
  BY <1>0, SubagentsAssumption DEF FailPreparing, Preserve, Spawn, IsPreparing, processVars,
         SubInv, Typed, SubRows, ThreadRows, RowInv, ThreadInv
<1>5. OneCleanup'
  BY <1>0, SubagentsAssumption DEF FailPreparing, Preserve, Spawn, IsPreparing, processVars,
         SubInv, Typed, CleanerRows, CleanerInv, OneCleanup
<1> QED BY <1>1, <1>2, <1>3, <1>4, <1>5 DEF SubInv

LEMMA RefusedSpawnKeeps ==
    ASSUME SubInv, NEW s \in Subs, RefusedSpawn(s)
    PROVE  SubInv'
<1>0. Typed
  BY DEF SubInv
<1>a. [rows[s] EXCEPT !.status = "interrupted", !.worktree = Preserve(s), !.result = TRUE] \in SubRows
  BY <1>0, Values DEF Preserve, Typed, SubRows
<1>1. Typed'
  BY <1>0, <1>a, Values DEF RefusedSpawn, InterruptPreparing, Spawn, IsPreparing,
         processVars, Typed, SpawnerSteps
<1>2. ASSUME NEW r \in Subs PROVE RowInv(r)'
  BY <1>0, SubagentsAssumption DEF Preserve, RefusedSpawn, InterruptPreparing, Spawn, IsPreparing,
         processVars, SubInv, Typed, SubRows, CleanerRows, RowInv, CleanerInv,
         LifecycleValid, CleanupValid, Terminal
<1>3. \A d \in Cleaners : CleanerInv(d)'
  BY <1>0, SubagentsAssumption DEF RefusedSpawn, InterruptPreparing, Spawn, IsPreparing,
         processVars, SubInv, Typed, SubRows, CleanerRows, RowInv, CleanerInv
<1>4. \A u \in Threads : ThreadInv(u)'
  BY <1>0, SubagentsAssumption DEF RefusedSpawn, InterruptPreparing, Spawn, IsPreparing,
         processVars, SubInv, Typed, SubRows, ThreadRows, RowInv, ThreadInv
<1>5. OneCleanup'
  BY <1>0, SubagentsAssumption DEF RefusedSpawn, InterruptPreparing, Spawn, IsPreparing,
         processVars, SubInv, Typed, CleanerRows, CleanerInv, OneCleanup
<1> QED BY <1>1, <1>2, <1>3, <1>4, <1>5 DEF SubInv

LEMMA ReconcileKeeps ==
    ASSUME SubInv, NEW s \in Subs, Reconcile(s)
    PROVE  SubInv'
<1>0. Typed
  BY DEF SubInv
<1>a. [rows[s] EXCEPT !.status = "interrupted", !.worktree = Preserve(s), !.result = TRUE] \in SubRows
  BY <1>0, Values DEF Preserve, Typed, SubRows
<1>1. Typed'
  BY <1>0, <1>a, Values DEF Reconcile, InterruptPreparing, Spawn, IsPreparing, processVars,
         Typed, SpawnerSteps
<1>2. ASSUME NEW r \in Subs PROVE RowInv(r)'
  BY <1>0, SubagentsAssumption DEF Preserve, Reconcile, InterruptPreparing, Spawn, IsPreparing,
         processVars, SubInv, Typed, SubRows, CleanerRows, RowInv, CleanerInv,
         LifecycleValid, CleanupValid, Terminal
<1>3. \A d \in Cleaners : CleanerInv(d)'
  BY <1>0, SubagentsAssumption DEF Reconcile, InterruptPreparing, Spawn, IsPreparing,
         processVars, SubInv, Typed, SubRows, CleanerRows, RowInv, CleanerInv
<1>4. \A u \in Threads : ThreadInv(u)'
  BY <1>0, SubagentsAssumption DEF Reconcile, InterruptPreparing, Spawn, IsPreparing,
         processVars, SubInv, Typed, SubRows, ThreadRows, RowInv, ThreadInv
<1>5. OneCleanup'
  BY <1>0, SubagentsAssumption DEF Reconcile, InterruptPreparing, Spawn, IsPreparing,
         processVars, SubInv, Typed, CleanerRows, CleanerInv, OneCleanup
<1> QED BY <1>1, <1>2, <1>3, <1>4, <1>5 DEF SubInv

LEMMA CrashSpawnKeeps ==
    ASSUME SubInv, NEW s \in Subs, CrashSpawn(s)
    PROVE  SubInv'
<1>0. Typed
  BY DEF SubInv
<1>1. Typed'
  BY <1>0, Values DEF CrashSpawn, Spawn, storeVars, processVars, Typed, SpawnerSteps
<1>2. ASSUME NEW r \in Subs PROVE RowInv(r)'
  BY <1>0, SubagentsAssumption DEF CrashSpawn, Spawn, storeVars, processVars, SubInv, Typed,
         SubRows, CleanerRows, RowInv, CleanerInv, LifecycleValid, CleanupValid, Terminal
<1>3. \A d \in Cleaners : CleanerInv(d)'
  BY <1>0, SubagentsAssumption DEF CrashSpawn, Spawn, storeVars, processVars, SubInv, Typed,
         SubRows, CleanerRows, RowInv, CleanerInv
<1>4. \A u \in Threads : ThreadInv(u)'
  BY <1>0, SubagentsAssumption DEF CrashSpawn, Spawn, storeVars, processVars, SubInv, Typed,
         SubRows, ThreadRows, RowInv, ThreadInv
<1>5. OneCleanup'
  BY <1>0, SubagentsAssumption DEF CrashSpawn, Spawn, storeVars, processVars, SubInv, Typed,
         CleanerRows, CleanerInv, OneCleanup
<1> QED BY <1>1, <1>2, <1>3, <1>4, <1>5 DEF SubInv

LEMMA ClaimCleanupKeeps ==
    ASSUME SubInv, NEW c \in Cleaners, NEW s \in Subs, ClaimCleanup(c, s)
    PROVE  SubInv'
<1>0. Typed
  BY DEF SubInv
<1>a. [rows[s] EXCEPT !.claimed = TRUE] \in SubRows
  BY <1>0, Values DEF ClaimCleanup, Unclaimed, Typed, SubRows
<1>1. Typed'
  BY <1>0, <1>a, Values DEF ClaimCleanup, Unclaimed, Typed, CleanerRows
<1>2. ASSUME NEW r \in Subs PROVE RowInv(r)'
  BY <1>0, SubagentsAssumption DEF ClaimCleanup, Unclaimed, SubInv, Typed, SubRows,
         CleanerRows, RowInv, CleanerInv, LifecycleValid, CleanupValid, Terminal
<1>3. \A d \in Cleaners : CleanerInv(d)'
  BY <1>0, SubagentsAssumption DEF ClaimCleanup, Unclaimed, SubInv, Typed, SubRows,
         CleanerRows, RowInv, CleanerInv
<1>4. \A u \in Threads : ThreadInv(u)'
  BY <1>0, SubagentsAssumption DEF ClaimCleanup, Unclaimed, SubInv, Typed, SubRows,
         ThreadRows, RowInv, ThreadInv
<1>5. OneCleanup'
  BY <1>0, SubagentsAssumption DEF ClaimCleanup, Unclaimed, SubInv, Typed, CleanerRows,
         CleanerInv, OneCleanup
<1> QED BY <1>1, <1>2, <1>3, <1>4, <1>5 DEF SubInv

LEMMA RemoveKeeps ==
    ASSUME SubInv, NEW c \in Cleaners, RemoveWorktree(c)
    PROVE  SubInv'
<1>0. Typed
  BY DEF SubInv
<1>1. Typed'
  BY <1>0, Values DEF RemoveWorktree, storeVars, Typed, CleanerRows
<1>2. ASSUME NEW r \in Subs PROVE RowInv(r)'
  BY <1>0, SubagentsAssumption DEF RemoveWorktree, storeVars, SubInv, Typed, SubRows,
         CleanerRows, RowInv, CleanerInv, LifecycleValid, CleanupValid, Terminal
<1>3. \A d \in Cleaners : CleanerInv(d)'
  BY <1>0, SubagentsAssumption DEF RemoveWorktree, storeVars, SubInv, Typed, SubRows,
         CleanerRows, RowInv, CleanerInv
<1>4. \A u \in Threads : ThreadInv(u)'
  BY <1>0, SubagentsAssumption DEF RemoveWorktree, storeVars, SubInv, Typed, SubRows,
         ThreadRows, RowInv, ThreadInv
<1>5. OneCleanup'
  BY <1>0, SubagentsAssumption DEF RemoveWorktree, storeVars, SubInv, Typed, CleanerRows,
         CleanerInv, OneCleanup
<1> QED BY <1>1, <1>2, <1>3, <1>4, <1>5 DEF SubInv

LEMMA RecordKeeps ==
    ASSUME SubInv, NEW c \in Cleaners, RecordCleanup(c)
    PROVE  SubInv'
<1> DEFINE s == cleaner[c].sub
           place == IF cleaner[c].receipt = "succeeded" THEN "removed" ELSE "preserved"
<1>0. /\ Typed
      /\ s \in Subs /\ rows[s].claimed /\ rows[s].removal = "none"
      /\ cleaner[c].receipt \in Receipts \ {"none"}
      /\ cleaner[c].receipt = "succeeded" => disk[s] = "none"
      /\ rows' = [rows EXCEPT ![s].removal = cleaner[c].receipt, ![s].worktree = place]
      /\ cleaner' = [cleaner EXCEPT ![c].pc = "ended"]
      /\ UNCHANGED <<jobRows, disk, spawner, thread>>
  BY DEF RecordCleanup, SubInv, Typed, CleanerInv, CleanerRows
<1> HIDE DEF s
<1>a. [rows[s] EXCEPT !.removal = cleaner[c].receipt, !.worktree = place] \in SubRows
  BY <1>0 DEF Typed, SubRows
<1>1. Typed'
  BY <1>0, <1>a DEF Typed, CleanerRows
<1>2. ASSUME NEW r \in Subs PROVE RowInv(r)'
  BY <1>0, SubagentsAssumption DEF SubInv, Typed, SubRows, CleanerRows,
         RowInv, CleanerInv, Receipts, LifecycleValid, CleanupValid, Terminal
<1>3. \A d \in Cleaners : CleanerInv(d)'
  BY <1>0, SubagentsAssumption DEF SubInv, Typed, SubRows, CleanerRows,
         RowInv, CleanerInv
<1>4. \A u \in Threads : ThreadInv(u)'
  BY <1>0, SubagentsAssumption DEF SubInv, Typed, SubRows, ThreadRows,
         RowInv, ThreadInv
<1>5. OneCleanup'
  BY <1>0, SubagentsAssumption DEF SubInv, Typed, CleanerRows, CleanerInv,
         OneCleanup
<1> QED BY <1>1, <1>2, <1>3, <1>4, <1>5 DEF SubInv

LEMMA CrashCleanupKeeps ==
    ASSUME SubInv, NEW c \in Cleaners, CrashCleanup(c)
    PROVE  SubInv'
<1>0. Typed
  BY DEF SubInv
<1>1. Typed'
  BY <1>0, Values DEF CrashCleanup, storeVars, Typed, CleanerRows
<1>2. ASSUME NEW r \in Subs PROVE RowInv(r)'
  BY <1>0, SubagentsAssumption DEF CrashCleanup, storeVars, SubInv, Typed, SubRows,
         CleanerRows, RowInv, CleanerInv, LifecycleValid, CleanupValid, Terminal
<1>3. \A d \in Cleaners : CleanerInv(d)'
  BY <1>0, SubagentsAssumption DEF CrashCleanup, storeVars, SubInv, Typed, SubRows,
         CleanerRows, RowInv, CleanerInv
<1>4. \A u \in Threads : ThreadInv(u)'
  BY <1>0, SubagentsAssumption DEF CrashCleanup, storeVars, SubInv, Typed, SubRows,
         ThreadRows, RowInv, ThreadInv
<1>5. OneCleanup'
  BY <1>0, SubagentsAssumption DEF CrashCleanup, storeVars, SubInv, Typed, CleanerRows,
         CleanerInv, OneCleanup
<1> QED BY <1>1, <1>2, <1>3, <1>4, <1>5 DEF SubInv

LEMMA ChangeKeeps ==
    ASSUME SubInv, NEW t \in Threads, ChangeWorktree(t)
    PROVE  SubInv'
<1>0. Typed
  BY DEF SubInv
<1>1. Typed'
  BY <1>0, Values DEF ChangeWorktree, storeVars, processVars, Typed, ThreadRows
<1>2. ASSUME NEW r \in Subs PROVE RowInv(r)'
  BY <1>0, SubagentsAssumption DEF ChangeWorktree, storeVars, processVars, SubInv, Typed,
         SubRows, CleanerRows, RowInv, CleanerInv, LifecycleValid, CleanupValid, Terminal
<1>3. \A d \in Cleaners : CleanerInv(d)'
  BY <1>0, SubagentsAssumption DEF ChangeWorktree, storeVars, processVars, SubInv, Typed,
         SubRows, CleanerRows, RowInv, CleanerInv
<1>4. \A u \in Threads : ThreadInv(u)'
  BY <1>0, SubagentsAssumption DEF ChangeWorktree, storeVars, processVars, SubInv, Typed,
         SubRows, ThreadRows, RowInv, ThreadInv
<1>5. OneCleanup'
  BY <1>0, SubagentsAssumption DEF ChangeWorktree, storeVars, processVars, SubInv, Typed,
         CleanerRows, CleanerInv, OneCleanup
<1> QED BY <1>1, <1>2, <1>3, <1>4, <1>5 DEF SubInv

LEMMA MarkInterruptedKeeps ==
    ASSUME SubInv, NEW s \in Subs, MarkInterrupted(s)
    PROVE  SubInv'
<1>0. Typed
  BY DEF SubInv
<1>a. [rows[s] EXCEPT !.status = "interrupted", !.result = TRUE] \in SubRows
  BY <1>0, Values DEF MarkInterrupted, processVars, Typed, SubRows
<1>1. Typed'
  BY <1>0, <1>a, Values DEF MarkInterrupted, processVars, Typed, SubStatuses
<1>2. ASSUME NEW r \in Subs PROVE RowInv(r)'
  BY <1>0, SubagentsAssumption DEF MarkInterrupted, processVars, SubInv, Typed, SubRows,
         CleanerRows, RowInv, CleanerInv, LifecycleValid, CleanupValid, Terminal
<1>3. \A d \in Cleaners : CleanerInv(d)'
  BY <1>0, SubagentsAssumption DEF MarkInterrupted, processVars, SubInv, Typed, SubRows,
         CleanerRows, RowInv, CleanerInv
<1>4. \A u \in Threads : ThreadInv(u)'
  BY <1>0, SubagentsAssumption DEF MarkInterrupted, processVars, SubInv, Typed, SubRows,
         ThreadRows, RowInv, ThreadInv
<1>5. OneCleanup'
  BY <1>0, SubagentsAssumption DEF MarkInterrupted, processVars, SubInv, Typed, CleanerRows,
         CleanerInv, OneCleanup
<1> QED BY <1>1, <1>2, <1>3, <1>4, <1>5 DEF SubInv

\* The steps of a thread that leave the tables alone.
LEMMA ThreadMovesKeeps ==
    ASSUME SubInv, NEW t \in Threads,
           StartThread(t) \/ Heartbeat(t) \/ AssertCurrent(t) \/ EndRun(t)
    PROVE  SubInv'
<1> USE DEF StartThread, Heartbeat, AssertCurrent, EndRun, Goto, storeVars
<1>0. Typed
  BY DEF SubInv
<1>1. UNCHANGED <<rows, jobRows, disk, spawner, cleaner>>
  OBVIOUS
<1>2. thread' \in [Threads -> ThreadRows]
  <2>1. ASSUME NEW o, o \in RunOutcomes(thread[t].sub) PROVE o \in Terminal
    BY <2>1 DEF RunOutcomes, Terminal
  <2> QED BY <1>0, <2>1 DEF Typed, ThreadRows
<1>3. \A u \in Threads : ThreadInv(u)'
  BY <1>0 DEF SubInv, ThreadInv, Typed, ThreadRows
<1> QED BY <1>1, <1>2, <1>3, ThreadsOnly

LEMMA ProcessKeeps ==
    ASSUME SubInv, CrashWorker \/ Drain \/ LoseFence
    PROVE  SubInv'
<1> USE DEF CrashWorker, Drain, LoseFence, storeVars
<1>0. Typed
  BY DEF SubInv
<1>1. UNCHANGED <<rows, jobRows, disk, spawner, cleaner>>
  OBVIOUS
<1>2. thread' \in [Threads -> ThreadRows]
  BY <1>0 DEF Typed, ThreadRows
<1>3. \A u \in Threads : ThreadInv(u)'
  BY <1>0 DEF SubInv, ThreadInv, Typed, ThreadRows
<1> QED BY <1>1, <1>2, <1>3, ThreadsOnly

LEMMA ClaimNextKeeps ==
    ASSUME SubInv, NEW t \in Threads, ClaimNext(t)
    PROVE  SubInv'
<1>1. ASSUME NEW s \in Subs, Claimable(s),
             rows' = [rows EXCEPT ![s].status = "running", ![s].started = TRUE, ![s].worker = t],
             jobRows' = [jobRows EXCEPT ![s] = "running"],
             thread' = [thread EXCEPT ![t].pc = "run", ![t].sub = s],
             UNCHANGED <<disk, spawner, cleaner>>
      PROVE  SubInv'
  <2>0. Typed
    BY DEF SubInv
  <2>a. [rows[s] EXCEPT !.status = "running", !.started = TRUE, !.worker = t] \in SubRows
    BY <1>1, <2>0, Values DEF Claimable, Typed, SubRows
  <2>1. Typed'
    BY <1>1, <2>0, <2>a, Values DEF Claimable, Typed, ThreadRows
  <2>2. ASSUME NEW r \in Subs PROVE RowInv(r)'
    BY <1>1, <2>0, SubagentsAssumption DEF Claimable, SubInv, Typed, SubRows, CleanerRows,
           RowInv, CleanerInv, LifecycleValid, CleanupValid, Terminal
  <2>3. \A d \in Cleaners : CleanerInv(d)'
    BY <1>1, <2>0, SubagentsAssumption DEF Claimable, SubInv, Typed, SubRows, CleanerRows,
           RowInv, CleanerInv
  <2>4. \A u \in Threads : ThreadInv(u)'
    BY <1>1, <2>0, SubagentsAssumption DEF Claimable, SubInv, Typed, SubRows, ThreadRows,
           RowInv, ThreadInv
  <2>5. OneCleanup'
    BY <1>1, <2>0, SubagentsAssumption DEF Claimable, SubInv, Typed, CleanerRows, CleanerInv,
           OneCleanup
  <2> QED BY <2>1, <2>2, <2>3, <2>4, <2>5 DEF SubInv
<1>2. CASE thread' = [thread EXCEPT ![t].pc = "ended"] /\ UNCHANGED <<rows, jobRows, disk, spawner, cleaner>>
  <2>1. thread' \in [Threads -> ThreadRows]
    BY <1>2 DEF SubInv, Typed, ThreadRows
  <2>2. \A u \in Threads : ThreadInv(u)'
    BY <1>2 DEF SubInv, ThreadInv, Typed, ThreadRows
  <2> QED BY <1>2, <2>1, <2>2, ThreadsOnly
<1> QED BY <1>1, <1>2 DEF ClaimNext, Goto

LEMMA FinishKeeps ==
    ASSUME SubInv, NEW t \in Threads, Finish(t)
    PROVE  SubInv'
<1> DEFINE s == thread[t].sub
<1>1. CASE Finishes(t)
  <2>0. /\ Typed
        /\ s \in Subs /\ rows[s].status = "running" /\ rows[s].worker = t
        /\ FinishedStatus(s, thread[t].outcome) \in Terminal
        /\ rows' = [rows EXCEPT ![s].status = FinishedStatus(s, thread[t].outcome), ![s].result = TRUE]
        /\ jobRows' = [jobRows EXCEPT ![s] = FinishedStatus(s, thread[t].outcome)]
        /\ thread' = [thread EXCEPT ![t] = [pc |-> "beat", sub |-> NoSub, outcome |-> "failed"]]
        /\ UNCHANGED <<disk, spawner, cleaner>>
    BY <1>1, Values DEF SubInv, ThreadInv, Finish, Finishes, FinishedStatus, Typed, ThreadRows
  <2> HIDE DEF s
  <2>a. [rows[s] EXCEPT !.status = FinishedStatus(s, thread[t].outcome), !.result = TRUE] \in SubRows
    BY <2>0, Values DEF Typed, SubRows
  <2>1. Typed'
    BY <1>1, <2>0, <2>a, Values DEF FinishedStatus, Typed, ThreadRows
  <2>2. ASSUME NEW r \in Subs PROVE RowInv(r)'
    <3>1. RowInv(r) /\ rows \in [Subs -> SubRows] /\ jobRows \in [Subs -> SubStatuses]
      BY <2>0 DEF SubInv, Typed
    <3>2. CASE r # s
      <4>1. rows'[r] = rows[r] /\ jobRows'[r] = jobRows[r] /\ disk'[r] = disk[r]
        BY <2>0, <3>1, <3>2
      <4> QED BY <3>1, <4>1, <2>0 DEF RowInv, LifecycleValid, CleanupValid
    <3>3. CASE r = s
      BY <1>1, <2>0, <3>1, <3>3, SubagentsAssumption
         DEF FinishedStatus, SubRows, RowInv, LifecycleValid, CleanupValid, Terminal
    <3> QED BY <3>2, <3>3
  <2>3. \A d \in Cleaners : CleanerInv(d)'
    BY <1>1, <2>0, SubagentsAssumption DEF FinishedStatus, SubInv, Typed, SubRows,
           CleanerRows, RowInv, CleanerInv
  <2>4. \A u \in Threads : ThreadInv(u)'
    BY <1>1, <2>0, SubagentsAssumption DEF FinishedStatus, SubInv, Typed, SubRows, ThreadRows,
           RowInv, ThreadInv
  <2>5. OneCleanup'
    BY <1>1, <2>0, SubagentsAssumption DEF FinishedStatus, SubInv, Typed, CleanerRows,
           CleanerInv, OneCleanup
  <2> QED BY <2>1, <2>2, <2>3, <2>4, <2>5 DEF SubInv
<1>2. CASE ~Finishes(t)
  <2>0. thread' = [thread EXCEPT ![t].pc = "ended"] /\ UNCHANGED <<rows, jobRows, disk, spawner, cleaner>>
    BY <1>2 DEF Finish, Goto
  <2>1. thread' \in [Threads -> ThreadRows]
    BY <2>0 DEF SubInv, Typed, ThreadRows
  <2>2. \A u \in Threads : ThreadInv(u)'
    BY <2>0 DEF SubInv, ThreadInv, Typed, ThreadRows
  <2> QED BY <2>0, <2>1, <2>2, ThreadsOnly
<1> QED BY <1>1, <1>2

LEMMA RequestCancelKeeps ==
    ASSUME SubInv, NEW s \in Subs, RequestCancel(s)
    PROVE  SubInv'
<1>1. CASE /\ rows[s].status = "queued"
           /\ rows' = [rows EXCEPT ![s].status = "cancelled", ![s].cancel = TRUE]
           /\ jobRows' = [jobRows EXCEPT ![s] = "cancelled"]
           /\ UNCHANGED <<disk, spawner, processVars>>
  <2>0. Typed
    BY DEF SubInv
  <2>a. [rows[s] EXCEPT !.status = "cancelled", !.cancel = TRUE] \in SubRows
    BY <1>1, <2>0, Values DEF processVars, Typed, SubRows
  <2>1. Typed'
    BY <1>1, <2>0, <2>a, Values DEF processVars, Typed, SubStatuses
  <2>2. ASSUME NEW r \in Subs PROVE RowInv(r)'
    BY <1>1, <2>0, SubagentsAssumption DEF processVars, SubInv, Typed, SubRows, CleanerRows,
           RowInv, CleanerInv, LifecycleValid, CleanupValid, Terminal
  <2>3. \A d \in Cleaners : CleanerInv(d)'
    BY <1>1, <2>0, SubagentsAssumption DEF processVars, SubInv, Typed, SubRows, CleanerRows,
           RowInv, CleanerInv
  <2>4. \A u \in Threads : ThreadInv(u)'
    BY <1>1, <2>0, SubagentsAssumption DEF processVars, SubInv, Typed, SubRows, ThreadRows,
           RowInv, ThreadInv
  <2>5. OneCleanup'
    BY <1>1, <2>0, SubagentsAssumption DEF processVars, SubInv, Typed, CleanerRows,
           CleanerInv, OneCleanup
  <2> QED BY <2>1, <2>2, <2>3, <2>4, <2>5 DEF SubInv
<1>2. CASE /\ rows[s].status = "running"
           /\ rows' = [rows EXCEPT ![s].cancel = TRUE]
           /\ UNCHANGED <<jobRows, disk, spawner, processVars>>
  <2>0. Typed
    BY DEF SubInv
  <2>a. [rows[s] EXCEPT !.cancel = TRUE] \in SubRows
    BY <1>2, <2>0, Values DEF processVars, Typed, SubRows
  <2>1. Typed'
    BY <1>2, <2>0, <2>a, Values DEF processVars, Typed, SubStatuses
  <2>2. ASSUME NEW r \in Subs PROVE RowInv(r)'
    BY <1>2, <2>0, SubagentsAssumption DEF processVars, SubInv, Typed, SubRows, CleanerRows,
           RowInv, CleanerInv, LifecycleValid, CleanupValid, Terminal
  <2>3. \A d \in Cleaners : CleanerInv(d)'
    BY <1>2, <2>0, SubagentsAssumption DEF processVars, SubInv, Typed, SubRows, CleanerRows,
           RowInv, CleanerInv
  <2>4. \A u \in Threads : ThreadInv(u)'
    BY <1>2, <2>0, SubagentsAssumption DEF processVars, SubInv, Typed, SubRows, ThreadRows,
           RowInv, ThreadInv
  <2>5. OneCleanup'
    BY <1>2, <2>0, SubagentsAssumption DEF processVars, SubInv, Typed, CleanerRows,
           CleanerInv, OneCleanup
  <2> QED BY <2>1, <2>2, <2>3, <2>4, <2>5 DEF SubInv
<1> QED BY <1>1, <1>2 DEF RequestCancel

-----------------------------------------------------------------------------
LEMMA SubagentsStep ==
    ASSUME SubInv, [Next]_subVars
    PROVE  SubInv'
<1>1. ASSUME NEW s \in Subs,
             \/ SpawnStep(s) \/ CrashSpawn(s) \/ Reconcile(s)
             \/ RequestCancel(s) \/ MarkInterrupted(s)
      PROVE  SubInv'
  BY <1>1, PrepareKeeps, CreateKeeps, QueueKeeps, FailPreparingKeeps, RefusedSpawnKeeps,
     CrashSpawnKeeps, ReconcileKeeps, RequestCancelKeeps, MarkInterruptedKeeps DEF SpawnStep
<1>2. ASSUME NEW c \in Cleaners,
             \/ \E s \in Subs : ClaimCleanup(c, s)
             \/ RemoveWorktree(c) \/ RecordCleanup(c) \/ CrashCleanup(c)
      PROVE  SubInv'
  BY <1>2, ClaimCleanupKeeps, RemoveKeeps, RecordKeeps, CrashCleanupKeeps
<1>3. ASSUME NEW t \in Threads, ThreadStep(t)
      PROVE  SubInv'
  BY <1>3, ThreadMovesKeeps, ClaimNextKeeps, ChangeKeeps, FinishKeeps DEF ThreadStep
<1>4. CASE UNCHANGED subVars
  BY <1>4 DEF subVars, SubInv, Typed, RowInv, CleanerInv, ThreadInv, OneCleanup
<1> QED BY <1>1, <1>2, <1>3, <1>4, ProcessKeeps DEF Next

\* Over all spawns, clean-ups, threads, operators and their crashes, rows, job rows,
\* worktrees and the processes that work on them fit together (subagent_store.rs,
\* subagent.rs, subagent_run.rs).
THEOREM SubagentsInvariant == Spec => []SubInv
<1>1. Init => SubInv
  BY SubagentsInitially
<1>2. SubInv /\ [Next]_subVars => SubInv'
  BY SubagentsStep
<1> QED BY <1>1, <1>2, PTL DEF Spec

\* No call on a subagent ever finds it corrupt: the two tables agree and every row is
\* one its lifecycle allows (validate_subagent_record, validate_cleanup_record).
THEOREM TablesAgree == Spec => []JobMirrors
<1>1. SubInv => JobMirrors
  BY DEF SubInv, Typed, RowInv, JobMirrors, TypeOK
<1> QED BY <1>1, SubagentsInvariant, PTL

\* No worktree is forgotten or removed twice (fail_preparing, reconcile_preparing,
\* claim_cleanup, record_cleanup).
THEOREM NoWorktreeLost == Spec => []WorktreesAccounted
<1>1. SubInv => WorktreesAccounted
  BY DEF SubInv, RowInv, WorktreesAccounted, WorktreeAdmitted
<1> QED BY <1>1, SubagentsInvariant, PTL

\* No worktree goes while a thread works in it, unless an operator gave the run up
\* (claim_cleanup).
THEOREM RunsKeepTheirWorktree == Spec => RemovalSparesRuns
<1>1. ASSUME SubInv, [Next]_subVars, NEW s \in Subs, NEW t \in Threads,
             disk[s] # "none", disk'[s] = "none",
             thread[t].sub = s, thread[t].pc = "run"
      PROVE  rows[s].status = "interrupted"
  <2>1. PICK c \in Cleaners : RemoveWorktree(c) /\ cleaner[c].sub = s
    <3>1. ASSUME NEW r \in Subs, CreateWorktree(r) PROVE FALSE
      BY <1>1, <3>1 DEF SubInv, RowInv, Typed, CreateWorktree, Spawn, ThreadInv
    <3>2. ASSUME NEW u \in Threads, ChangeWorktree(u) PROVE FALSE
      BY <1>1, <3>2 DEF SubInv, ThreadInv, Typed, ChangeWorktree
    <3>3. ASSUME NEW c \in Cleaners, RemoveWorktree(c) PROVE cleaner[c].sub = s
      BY <1>1, <3>3 DEF RemoveWorktree, SubInv, Typed, CleanerInv
    <3>4. CASE UNCHANGED disk
      BY <1>1, <3>4
    <3> QED
      BY <1>1, <3>1, <3>2, <3>3, <3>4
      DEF Next, subVars, SpawnStep, ThreadStep, Prepare, Queue, FailPreparing, RefusedSpawn,
          Reconcile, InterruptPreparing, CrashSpawn, ClaimCleanup, RecordCleanup, CrashCleanup,
          StartThread, Heartbeat, ClaimNext, EndRun, AssertCurrent, Finish, CrashWorker, Drain,
          LoseFence, RequestCancel, MarkInterrupted
  <2>2. rows[s].claimed
    BY <1>1, <2>1 DEF SubInv, CleanerInv
  <2>3. rows[s].status \in Terminal
    BY <1>1, <2>2 DEF SubInv, RowInv, CleanupValid
  <2> QED BY <1>1, <2>3 DEF SubInv, ThreadInv, Terminal
<1>2. SubInv /\ [Next]_subVars =>
        [\A s \in Subs, t \in Threads :
           /\ disk[s] # "none" /\ disk'[s] = "none"
           /\ thread[t].sub = s /\ thread[t].pc = "run"
           => rows[s].status = "interrupted"]_subVars
  BY <1>1
<1> QED BY <1>2, SubagentsInvariant, PTL DEF Spec, RemovalSparesRuns

\* No late outcome is stored over a recorded cancellation (request_cancel, finish).
THEOREM CancellationsStand == Spec => CancelWins
<1>1. ASSUME SubInv, Next, NEW s \in Subs,
             rows[s].cancel, rows'[s].status # rows[s].status
      PROVE  rows'[s].status \in {"cancelled", "interrupted"}
  <2>0. Typed /\ RowInv(s) /\ rows[s].status \in {"running"} \cup Terminal
    BY <1>1 DEF SubInv, RowInv
  <2>1. ASSUME NEW r \in Subs,
               \/ SpawnStep(r) \/ CrashSpawn(r) \/ Reconcile(r)
               \/ RequestCancel(r) \/ MarkInterrupted(r)
        PROVE  rows'[s].status \in {"cancelled", "interrupted"}
    <3>1. r = s
      BY <1>1, <2>0, <2>1
      DEF Typed, SpawnStep, Prepare, CreateWorktree, Queue, FailPreparing, RefusedSpawn, Reconcile,
          InterruptPreparing, CrashSpawn, RequestCancel, MarkInterrupted, storeVars
    <3>2. CASE SpawnStep(s) \/ CrashSpawn(s) \/ Reconcile(s)
      BY <1>1, <2>0, <3>2
      DEF SpawnStep, Prepare, CreateWorktree, Queue, FailPreparing, RefusedSpawn, Reconcile,
          InterruptPreparing, IsPreparing, CrashSpawn, storeVars, RowInv, Terminal
    <3>3. CASE RequestCancel(s) \/ MarkInterrupted(s)
      BY <1>1, <2>0, <3>3 DEF RequestCancel, MarkInterrupted, Typed, SubRows, Terminal
    <3> QED BY <2>1, <3>1, <3>2, <3>3
  <2>2. ASSUME NEW c \in Cleaners,
               \/ \E r \in Subs : ClaimCleanup(c, r)
               \/ RemoveWorktree(c) \/ RecordCleanup(c) \/ CrashCleanup(c)
        PROVE  FALSE
    BY <1>1, <2>0, <2>2
    DEF Typed, SubRows, ClaimCleanup, RemoveWorktree, RecordCleanup, CrashCleanup, storeVars
  <2>3. ASSUME NEW t \in Threads, ThreadStep(t)
        PROVE  rows'[s].status \in {"cancelled", "interrupted"}
    <3>1. CASE Finish(t)
      <4>1. Finishes(t) /\ thread[t].sub = s
        BY <1>1, <2>0, <3>1 DEF Finish, Typed
      <4>2. rows' = [rows EXCEPT ![s].status = FinishedStatus(s, thread[t].outcome),
                                 ![s].result = TRUE]
        BY <3>1, <4>1 DEF Finish
      <4>3. FinishedStatus(s, thread[t].outcome) = "cancelled"
        BY <1>1 DEF FinishedStatus
      <4> QED BY <2>0, <4>2, <4>3 DEF Typed, SubRows
    <3>2. CASE ClaimNext(t)
      BY <1>1, <2>0, <3>2 DEF ClaimNext, Claimable, Typed, SubRows, Terminal
    <3> QED
      BY <1>1, <2>3, <3>1, <3>2
      DEF ThreadStep, StartThread, Heartbeat, ChangeWorktree, EndRun, AssertCurrent, storeVars
  <2> QED BY <1>1, <2>1, <2>2, <2>3 DEF Next, CrashWorker, Drain, LoseFence, storeVars
<1>2. SubInv /\ [Next]_subVars =>
        [\A s \in Subs :
           rows[s].cancel /\ rows'[s].status # rows[s].status =>
               rows'[s].status \in {"cancelled", "interrupted"}]_subVars
  BY <1>1
<1> QED BY <1>2, SubagentsInvariant, PTL DEF Spec, CancelWins
=============================================================================
