---------------------------- MODULE JobWorkerProofs ----------------------------
(* The safety properties of the job store and its workers, for any number of     *)
(* jobs and worker processes, in every mode, with crashes and operators.         *)
EXTENDS JobWorker, FiniteSetTheorems, WellFoundedInduction, TLAPS

-----------------------------------------------------------------------------
(* Facts about the queue.                                                        *)

\* A finite set of numbers has a largest member: a smallest subset without one
\* would still lack one with a member less.
LEMMA FiniteMaximum ==
    ASSUME NEW S, S \subseteq Nat, IsFiniteSet(S), S # {}
    PROVE  \E n \in S : \A m \in S : m <= n
<1> DEFINE HasMax(U) == \E n \in U : \A m \in U : m <= n
           Bad == {U \in SUBSET S : U # {} /\ ~HasMax(U)}
<1>1. SUFFICES ASSUME Bad # {} PROVE FALSE
  OBVIOUS
<1>2. IsWellFoundedOn(StrictSubsetOrdering(S), SUBSET S)
  BY FS_StrictSubsetOrderingWellFounded, FS_FiniteSubsetsOfFinite
<1>3. PICK U \in Bad : \A V \in Bad : <<V, U>> \notin StrictSubsetOrdering(S)
  <2> HIDE DEF Bad
  <2>1. Bad \subseteq SUBSET S
    BY DEF Bad
  <2> QED BY <1>1, <1>2, <2>1, WFMin
<1>4. PICK u \in U : TRUE
  OBVIOUS
<1>5. U \ {u} \notin Bad
  BY <1>3, <1>4 DEF StrictSubsetOrdering
<1>6. CASE U = {u}
  <2>1. u <= u
    OBVIOUS
  <2> QED BY <1>3, <1>6, <2>1
<1>7. CASE U # {u}
  <2>1. PICK n \in U \ {u} : \A m \in U \ {u} : m <= n
    BY <1>4, <1>5, <1>7
  <2>2. n \in Nat /\ u \in Nat /\ \A m \in U : m \in Nat
    OBVIOUS
  <2>3. CASE u <= n
    BY <2>1, <2>2, <2>3
  <2>4. CASE n <= u
    <3>1. \A m \in U : m <= u
      BY <2>1, <2>2, <2>4
    <3> QED BY <3>1
  <2> QED BY <2>2, <2>3, <2>4
<1> QED BY <1>6, <1>7

LEMMA LatestSequenceType ==
    ASSUME jobs \in [JobIds -> JobRows]
    PROVE  LatestSequence \in Nat
<1> DEFINE used == {jobs[j].sequence : j \in JobIds}
<1>1. used \subseteq Nat
  BY DEF JobRows
<1>2. IsFiniteSet(used)
  <2> DEFINE f == [j \in JobIds |-> jobs[j].sequence]
  <2>1. f \in Surjection(JobIds, used)
    BY DEF Surjection
  <2> QED BY <2>1, JobsAssumption, FS_Surjection
<1>3. IsFiniteSet(used \cup {0})
  BY <1>2, FS_AddElement
<1>4. \E n \in used \cup {0} : \A m \in used : m <= n
  <2> HIDE DEF used
  <2> DEFINE all == used \cup {0}
  <2>1. all \subseteq Nat /\ all # {} /\ IsFiniteSet(all)
    BY <1>1, <1>3
  <2>2. \E n \in all : \A m \in all : m <= n
    <3> HIDE DEF all
    <3> QED BY <2>1, FiniteMaximum
  <2> QED BY <2>2
<1> QED BY <1>1, <1>4 DEF LatestSequence

-----------------------------------------------------------------------------
(* The jobs table.                                                               *)

JobsInv == JobsTypeOK /\ OneExecution

\* What a step may do to the table.
JobsStep ==
    \/ UNCHANGED jobVars
    \/ \E j \in JobIds : Submit(j) \/ Cancel(j) \/ MarkInterrupted(j)
    \/ \E j \in JobIds, w \in Workers :
         ClaimNext(j, w) \/ \E status \in Finals : FinishJob(j, w, status)

LEMMA JobsInitially ==
    ASSUME JobsInit
    PROVE  JobsInv
BY DEF JobsInit, JobsInv, JobsTypeOK, OneExecution, JobRows, JobStatuses, RowShape, Finals

LEMMA JobsStepKeeps ==
    ASSUME JobsInv, JobsStep
    PROVE  JobsInv'
<1>0. jobs \in [JobIds -> JobRows] /\ executed \in [JobIds -> SUBSET Workers]
  BY DEF JobsInv, JobsTypeOK
<1> USE JobsAssumption
<1>1. ASSUME NEW j \in JobIds, Submit(j)
      PROVE  JobsInv'
  <2>1. LatestSequence + 1 \in Nat \ {0}
    BY <1>0, LatestSequenceType
  <2>2. [jobs[j] EXCEPT !.status = "queued", !.sequence = LatestSequence + 1] \in JobRows
    BY <1>0, <2>1 DEF JobRows, JobStatuses
  <2> HIDE DEF LatestSequence
  <2>3. \A i \in JobIds : RowShape(jobs'[i])
    BY <1>0, <1>1, <2>1 DEF Submit, RowShape, JobsInv, JobsTypeOK, Finals, JobRows
  <2>4. OneExecution'
    BY <1>0, <1>1 DEF Submit, JobsInv, OneExecution, JobRows
  <2> QED BY <1>0, <1>1, <2>2, <2>3, <2>4 DEF Submit, JobsInv, JobsTypeOK
<1>2. ASSUME NEW j \in JobIds, Cancel(j)
      PROVE  JobsInv'
  <2>1. [jobs[j] EXCEPT !.status = "cancelled"] \in JobRows
    BY <1>0 DEF JobRows, JobStatuses
  <2>2. \A i \in JobIds : RowShape(jobs'[i])
    BY <1>0, <1>2 DEF Cancel, RowShape, JobsInv, JobsTypeOK, Finals, JobRows
  <2>3. OneExecution'
    BY <1>0, <1>2 DEF Cancel, JobsInv, OneExecution, JobRows
  <2> QED BY <1>0, <1>2, <2>1, <2>2, <2>3 DEF Cancel, JobsInv, JobsTypeOK
<1>3. ASSUME NEW j \in JobIds, NEW status \in Finals, jobs[j].status = "running",
             jobs' = [jobs EXCEPT ![j].status = status, ![j].result = TRUE],
             UNCHANGED executed
      PROVE  JobsInv'
  <2>1. [jobs[j] EXCEPT !.status = status, !.result = TRUE] \in JobRows
    BY <1>0 DEF JobRows, JobStatuses
  <2>2. \A i \in JobIds : RowShape(jobs'[i])
    BY <1>0, <1>3 DEF RowShape, JobsInv, JobsTypeOK, Finals, JobRows
  <2>3. OneExecution'
    BY <1>0, <1>3 DEF JobsInv, OneExecution, JobRows
  <2> QED BY <1>0, <1>3, <2>1, <2>2, <2>3 DEF JobsInv, JobsTypeOK
<1>4. ASSUME NEW j \in JobIds, NEW w \in Workers, ClaimNext(j, w)
      PROVE  JobsInv'
  <2>1. jobs[j].status = "queued" /\ jobs[j].worker = NoWorker
    BY <1>4 DEF ClaimNext, IsOldest, Queued, JobsInv, JobsTypeOK, RowShape, Finals
  <2>2. [jobs[j] EXCEPT !.status = "running", !.worker = w] \in JobRows
    BY <1>0 DEF JobRows, JobStatuses
  <2>3. \A i \in JobIds : RowShape(jobs'[i])
    BY <1>0, <1>4, <2>1 DEF ClaimNext, RowShape, JobsInv, JobsTypeOK, Finals, JobRows
  <2>4. OneExecution'
    BY <1>0, <1>4, <2>1 DEF ClaimNext, JobsInv, OneExecution, JobRows
  <2>5. executed' \in [JobIds -> SUBSET Workers]
    BY <1>0, <1>4 DEF ClaimNext
  <2> QED BY <1>0, <1>4, <2>2, <2>3, <2>4, <2>5 DEF ClaimNext, JobsInv, JobsTypeOK
<1>5. CASE UNCHANGED jobVars
  BY <1>5 DEF jobVars, JobsInv, JobsTypeOK, OneExecution
<1>6. "interrupted" \in Finals
  BY DEF Finals
<1> QED BY <1>1, <1>2, <1>3, <1>4, <1>5, <1>6 DEF JobsStep, MarkInterrupted, FinishJob

\* A step leaves what is over as it is and returns nothing to the queue.
LEMMA JobsStepForward ==
    ASSUME JobsInv, JobsStep, NEW j \in JobIds
    PROVE  /\ jobs[j].status \in Finals \cup {"cancelled"} => jobs'[j] = jobs[j]
           /\ jobs'[j].status = "queued" => jobs[j].status \in {"absent", "queued"}
           /\ jobs[j].status = "running" => jobs'[j].worker = jobs[j].worker
<1>0. jobs \in [JobIds -> JobRows]
  BY DEF JobsInv, JobsTypeOK
<1>1. ASSUME NEW i \in JobIds, Submit(i) \/ Cancel(i) \/ MarkInterrupted(i)
      PROVE  /\ jobs[j].status \in Finals \cup {"cancelled"} => jobs'[j] = jobs[j]
             /\ jobs'[j].status = "queued" => jobs[j].status \in {"absent", "queued"}
             /\ jobs[j].status = "running" => jobs'[j].worker = jobs[j].worker
  BY <1>0, <1>1 DEF Submit, Cancel, MarkInterrupted, Finals, JobRows
<1>2. ASSUME NEW i \in JobIds, NEW w \in Workers, ClaimNext(i, w)
      PROVE  /\ jobs[j].status \in Finals \cup {"cancelled"} => jobs'[j] = jobs[j]
             /\ jobs'[j].status = "queued" => jobs[j].status \in {"absent", "queued"}
             /\ jobs[j].status = "running" => jobs'[j].worker = jobs[j].worker
  BY <1>0, <1>2 DEF ClaimNext, IsOldest, Queued, Finals, JobRows
<1>3. ASSUME NEW i \in JobIds, NEW w \in Workers, NEW s \in Finals, FinishJob(i, w, s)
      PROVE  /\ jobs[j].status \in Finals \cup {"cancelled"} => jobs'[j] = jobs[j]
             /\ jobs'[j].status = "queued" => jobs[j].status \in {"absent", "queued"}
             /\ jobs[j].status = "running" => jobs'[j].worker = jobs[j].worker
  BY <1>0, <1>3 DEF FinishJob, Finals, JobRows
<1> QED BY <1>1, <1>2, <1>3 DEF JobsStep, jobVars

-----------------------------------------------------------------------------
(* The worker processes.                                                         *)

\* A process as it may be between two of its steps: a job in hand where one is
\* executed, a handle from the first heartbeat on, an attempt left to close.
ProcessInv(row) ==
    /\ row \in Processing
    /\ row.pc \in {"run", "finish"} => row.job \in JobIds
    /\ row.pc \in Closing => row.attempts \in {1, 2}
    /\ row.pc \in Serving \cup Closing => row.generation # 0

\* What the processes need of the fleet.
FleetTyped == clock \in Nat /\ fences \in [Keys -> FenceRows]

\* No handle is ahead of the fence, and no two processes have the same one.
HandlesInv ==
    /\ \A w \in Workers : work[w].generation <= fences[JobKey].generation
    /\ \A v, w \in Workers :
         v # w /\ work[v].generation = work[w].generation => work[w].generation = 0

WorkInv ==
    /\ FleetTyped
    /\ work \in [Workers -> Processing]
    /\ \A w \in Workers : ProcessInv(work[w])
    /\ HandlesInv

\* The fleet's part of a step that gives out no handle.
FenceKept ==
    /\ FleetTyped'
    /\ fences'[JobKey].generation = fences[JobKey].generation

\* The part of process w in such a step.
Advances(w) ==
    /\ work' = [work EXCEPT ![w] = work'[w]]
    /\ ProcessInv(work'[w])
    /\ work'[w].generation \in {0, work[w].generation}

LEMMA StepValues ==
    /\ \A s \in Serving \cup Closing \cup Starting : s \in MainSteps
    /\ "failed" \in Finals /\ {"exited", "crashed"} \subseteq MainSteps
    /\ {"exited", "crashed", "off"} \cap (Serving \cup Closing \cup {"run", "finish"}) = {}
    /\ Starting \cap (Serving \cup Closing \cup {"run", "finish"}) = {}
    /\ Closing \cap (Serving \cup {"run", "finish"}) = {}
    /\ {"run", "finish"} \subseteq Serving
BY DEF MainSteps, Serving, Closing, Starting, Finals

LEMMA ProcessType ==
    ASSUME WorkInv, NEW w \in Workers
    PROVE  /\ work \in [Workers -> Processing] /\ work[w] \in Processing
           /\ work[w].pc \in MainSteps /\ work[w].mode \in Modes
           /\ work[w].now \in Nat /\ work[w].generation \in Nat
           /\ work[w].job \in JobIds \cup {NoJob} /\ work[w].outcome \in Finals
           /\ work[w].beatNow \in Nat /\ work[w].attempts \in 0..2
           /\ work[w].beat \in BeatSteps /\ work[w].cancelled \in BOOLEAN
           /\ work[w].expires \in Nat
BY DEF WorkInv, Processing

LEMMA AdvanceKeeps ==
    ASSUME WorkInv, NEW w \in Workers, Advances(w), FenceKept
    PROVE  WorkInv'
<1>1. JobKey \in Keys
  BY JobWorkerAssumption
<1>2. \A v \in Workers : work'[v] = IF v = w THEN work'[w] ELSE work[v]
  BY DEF Advances, WorkInv
<1>3. work' \in [Workers -> Processing]
  BY DEF Advances, ProcessInv, WorkInv
<1>4. \A v \in Workers : ProcessInv(work'[v])
  BY <1>2 DEF Advances, WorkInv
<1>5. fences[JobKey].generation \in Nat /\ \A v \in Workers : work[v].generation \in Nat
  BY <1>1 DEF WorkInv, FleetTyped, FenceRows, Processing
<1>6. HandlesInv'
  BY <1>2, <1>5 DEF HandlesInv, WorkInv, FenceKept, Advances
<1> QED BY <1>3, <1>4, <1>6 DEF WorkInv, FenceKept

\* The ways a process advances: to another step of its program, ...
LEMMA GotoAdvances ==
    ASSUME WorkInv, NEW w \in Workers, NEW step \in MainSteps, Goto(w, step),
           step \in {"run", "finish"} => work[w].job \in JobIds,
           step \in Closing => work[w].pc \in Closing,
           step \in Serving => work[w].pc \in Serving
    PROVE  Advances(w)
<1> DEFINE row == [work[w] EXCEPT !.pc = step]
<1>1. row \in Processing
  BY ProcessType DEF Processing
<1>2. work' = [work EXCEPT ![w] = row] /\ work'[w] = row
  BY ProcessType DEF Goto
<1>3. row.pc = step /\ row.job = work[w].job /\ row.generation = work[w].generation
      /\ row.attempts = work[w].attempts
  BY ProcessType DEF Processing
<1>4. ProcessInv(work[w])
  BY DEF WorkInv
<1> HIDE DEF row
<1>5. ProcessInv(row)
  BY <1>1, <1>3, <1>4 DEF ProcessInv
<1> QED BY <1>2, <1>3, <1>5 DEF Advances

\* ... to its end, ...
LEMMA EndAdvances ==
    ASSUME WorkInv, NEW w \in Workers, NEW step \in {"exited", "crashed"}, End(w, step)
    PROVE  Advances(w)
<1> DEFINE row == Idle(step, work[w].mode)
<1>1. row \in Processing
  BY ProcessType, StepValues DEF Processing, Idle, BeatSteps
<1>2. work' = [work EXCEPT ![w] = row] /\ work'[w] = row
  BY ProcessType DEF End
<1>3. row.pc = step /\ row.generation = 0
  BY DEF Idle
<1> HIDE DEF row
<1>4. ProcessInv(row)
  BY <1>1, <1>3, StepValues DEF ProcessInv
<1> QED BY <1>2, <1>3, <1>4 DEF Advances

\* ... or to its shutdown.
LEMMA CloseAdvances ==
    ASSUME WorkInv, NEW w \in Workers, NEW attempts \in {1, 2}, Close(w, attempts),
           work[w].pc \in Serving
    PROVE  Advances(w)
<1> DEFINE row == [work[w] EXCEPT !.pc = "closing", !.attempts = attempts,
                                  !.now = 0, !.job = NoJob, !.outcome = "failed"]
<1>0. attempts \in 0..2 /\ "closing" \in MainSteps /\ "failed" \in Finals
  BY StepValues DEF Closing
<1>1. row \in Processing
  BY <1>0, ProcessType DEF Processing
<1>2. work' = [work EXCEPT ![w] = row] /\ work'[w] = row
  BY ProcessType DEF Close
<1>3. row.pc = "closing" /\ row.generation = work[w].generation /\ row.attempts = attempts
  BY ProcessType DEF Processing
<1>4. ProcessInv(work[w])
  BY DEF WorkInv
<1> HIDE DEF row
<1>5. ProcessInv(row)
  BY <1>1, <1>3, <1>4 DEF ProcessInv, Closing
<1> QED BY <1>2, <1>3, <1>5 DEF Advances

-----------------------------------------------------------------------------
(* The fleet's part, call by call.                                               *)

\* The calls on nodes, supervisors and leases do not touch fences or the clock.
LEMMA LeaseCallsKeepFence ==
    ASSUME WorkInv, NEW w, NEW now,
           \/ UNCHANGED vars
           \/ /\ \/ RegisterNode(JobNode)
                 \/ StartSupervisor(JobNode, w, now)
                 \/ RestartSupervisor(JobNode, w, now)
                 \/ HeartbeatSupervisor(JobNode, w, now)
                 \/ ReconcileSupervisor(JobNode, now)
                 \/ DrainSupervisor(JobNode, now)
                 \/ StopSupervisor(JobNode, now)
                 \/ RecoverSupervisor(JobNode, now)
                 \/ ShutdownSupervisor(JobNode, w, w, now)
                 \/ AcquireLease(w, JobNode, now, LeaseSeconds)
                 \/ RenewLease(w, now, LeaseSeconds)
                 \/ ReleaseLease(w)
              /\ UNCHANGED fenceVars
    PROVE  FenceKept
<1>1. clock' = clock /\ fences' = fences
  <2>1. CASE UNCHANGED vars
    BY <2>1 DEF vars, baseVars, fenceVars
  <2>2. CASE UNCHANGED fenceVars /\ (RegisterNode(JobNode) \/ ReleaseLease(w))
    BY <2>2 DEF RegisterNode, ReleaseLease, baseVars, fenceVars
  <2>3. CASE UNCHANGED fenceVars /\ \/ StartSupervisor(JobNode, w, now)
                                    \/ RestartSupervisor(JobNode, w, now)
    BY <2>3 DEF StartSupervisor, RestartSupervisor, baseVars, fenceVars
  <2>4. CASE UNCHANGED fenceVars /\ \/ HeartbeatSupervisor(JobNode, w, now)
                                    \/ ReconcileSupervisor(JobNode, now)
                                    \/ DrainSupervisor(JobNode, now)
    BY <2>4 DEF HeartbeatSupervisor, ReconcileSupervisor, DrainSupervisor, baseVars, fenceVars
  <2>5. CASE UNCHANGED fenceVars /\ \/ StopSupervisor(JobNode, now)
                                    \/ RecoverSupervisor(JobNode, now)
                                    \/ ShutdownSupervisor(JobNode, w, w, now)
    BY <2>5 DEF StopSupervisor, RecoverSupervisor, ShutdownSupervisor, baseVars, fenceVars
  <2>6. CASE UNCHANGED fenceVars /\ \/ AcquireLease(w, JobNode, now, LeaseSeconds)
                                    \/ RenewLease(w, now, LeaseSeconds)
    BY <2>6 DEF AcquireLease, RenewLease, fenceVars
  <2> QED BY <2>1, <2>2, <2>3, <2>4, <2>5, <2>6
<1> QED BY <1>1 DEF FenceKept, FleetTyped, WorkInv

\* Renewing, releasing or invalidating a fence keeps its generation.
LEMMA FenceCallsKeepFence ==
    ASSUME WorkInv, NEW g, NEW now,
           \/ InvalidateFence(JobKey, JobNode)
           \/ now \in Nat /\ RenewFence(JobKey, g, now, LeaseSeconds)
           \/ ReleaseFence(JobKey, g, now)
    PROVE  FenceKept
<1>0. JobKey \in Keys /\ LeaseSeconds \in Nat /\ fences \in [Keys -> FenceRows] /\ clock \in Nat
  BY JobWorkerAssumption DEF WorkInv, FleetTyped
<1>1. CASE InvalidateFence(JobKey, JobNode) \/ ReleaseFence(JobKey, g, now)
  <2>1. [fences[JobKey] EXCEPT !.state = "released"] \in FenceRows
    BY <1>0 DEF FenceRows, FenceStates
  <2>2. fences' = [fences EXCEPT ![JobKey].state = "released"] /\ clock' = clock
    BY <1>1 DEF InvalidateFence, ReleaseFence, baseVars
  <2>3. [fences[JobKey] EXCEPT !.state = "released"].generation = fences[JobKey].generation
    BY <1>0 DEF FenceRows
  <2> QED BY <1>0, <2>1, <2>2, <2>3 DEF FenceKept, FleetTyped
<1>2. CASE now \in Nat /\ RenewFence(JobKey, g, now, LeaseSeconds)
  <2>1. [fences[JobKey] EXCEPT !.expires = now + LeaseSeconds] \in FenceRows
    BY <1>0, <1>2 DEF FenceRows
  <2>2. fences' = [fences EXCEPT ![JobKey].expires = now + LeaseSeconds] /\ clock' = clock
    BY <1>2 DEF RenewFence, baseVars
  <2>3. [fences[JobKey] EXCEPT !.expires = now + LeaseSeconds].generation
            = fences[JobKey].generation
    BY <1>0 DEF FenceRows
  <2> QED BY <1>0, <2>1, <2>2, <2>3 DEF FenceKept, FleetTyped
<1> QED BY <1>1, <1>2

LEMMA HeartbeatCallsKeepFence ==
    ASSUME WorkInv, NEW w \in Workers, NEW now \in Nat,
           \/ HeartbeatOk(w, now) \/ HeartbeatRefused(w)
           \/ LeaseOk(w, now) \/ LeaseRefused(w, now)
           \/ FenceOk(w, now) \/ FenceRefused(w, now)
    PROVE  FenceKept
<1>1. CASE HeartbeatOk(w, now) \/ LeaseOk(w, now) \/ LeaseRefused(w, now)
  BY <1>1, LeaseCallsKeepFence DEF HeartbeatOk, LeaseOk, LeaseRefused
<1>2. CASE HeartbeatRefused(w) \/ FenceRefused(w, now)
  BY <1>2, LeaseCallsKeepFence DEF HeartbeatRefused, FenceRefused
<1>3. CASE FenceOk(w, now)
  BY <1>3, FenceCallsKeepFence DEF FenceOk
<1> QED BY <1>1, <1>2, <1>3

-----------------------------------------------------------------------------
(* The steps of a process.  Each advances it and keeps the generation of the     *)
(* fence, save the one that takes the fence; none but Claim and Finish touches   *)
(* the table.                                                                    *)

LEMMA BeginKeeps ==
    ASSUME WorkInv, NEW w \in Workers, Begin(w)
    PROVE  WorkInv' /\ JobsStep
<1> DEFINE row == [work[w] EXCEPT !.pc = "start", !.now = clock]
<1>1. row \in Processing
  BY ProcessType, StepValues DEF Processing, Starting, WorkInv, FleetTyped
<1>2. work' = [work EXCEPT ![w] = row] /\ work'[w] = row
  BY ProcessType DEF Begin
<1>3. row.pc = "start" /\ row.generation = work[w].generation
  BY ProcessType DEF Processing
<1> HIDE DEF row
<1>4. ProcessInv(row)
  BY <1>1, <1>3 DEF ProcessInv, Serving, Closing
<1>5. Advances(w)
  BY <1>2, <1>3, <1>4 DEF Advances
<1>6. FenceKept
  BY LeaseCallsKeepFence DEF Begin
<1> QED BY <1>5, <1>6, AdvanceKeeps DEF Begin, JobsStep

LEMMA StartKeeps ==
    ASSUME WorkInv, NEW w \in Workers,
           Start(w) \/ Restart(w) \/ TakeLease(w) \/ Invalidate(w) \/ BackOut(w)
    PROVE  WorkInv' /\ JobsStep
<1> USE StepValues
<1>0. \A step \in {"lease", "restart", "invalidate", "drain", "fence", "stop", "unlease"} :
          step \in Starting
  BY DEF Starting
<1>1. ASSUME NEW step \in Starting, Goto(w, step) PROVE Advances(w)
  BY <1>1, GotoAdvances
<1>2. CASE Start(w)
  <2>1. Advances(w)
    BY <1>0, <1>1, <1>2, EndAdvances DEF Start
  <2>2. FenceKept
    BY <1>2, LeaseCallsKeepFence DEF Start
  <2> QED BY <1>2, <2>1, <2>2, AdvanceKeeps DEF Start, JobsStep
<1>3. CASE Restart(w)
  <2>1. Advances(w)
    BY <1>0, <1>1, <1>3, EndAdvances DEF Restart
  <2>2. FenceKept
    BY <1>3, LeaseCallsKeepFence DEF Restart
  <2> QED BY <1>3, <2>1, <2>2, AdvanceKeeps DEF Restart, JobsStep
<1>4. CASE TakeLease(w)
  <2>1. Advances(w)
    BY <1>0, <1>1, <1>4 DEF TakeLease
  <2>2. FenceKept
    BY <1>4, LeaseCallsKeepFence DEF TakeLease
  <2> QED BY <1>4, <2>1, <2>2, AdvanceKeeps DEF TakeLease, JobsStep
<1>5. CASE Invalidate(w)
  <2>1. Advances(w)
    BY <1>0, <1>1, <1>5 DEF Invalidate
  <2>2. FenceKept
    BY <1>5, LeaseCallsKeepFence, FenceCallsKeepFence DEF Invalidate
  <2> QED BY <1>5, <2>1, <2>2, AdvanceKeeps DEF Invalidate, JobsStep
<1>6. CASE BackOut(w)
  <2>1. Advances(w)
    BY <1>0, <1>1, <1>6, EndAdvances DEF BackOut
  <2>2. FenceKept
    BY <1>6, LeaseCallsKeepFence DEF BackOut
  <2> QED BY <1>6, <2>1, <2>2, AdvanceKeeps DEF BackOut, JobsStep
<1> QED BY <1>2, <1>3, <1>4, <1>5, <1>6

\* The new handle is ahead of every handle there is.
LEMMA TakeFenceKeeps ==
    ASSUME WorkInv, NEW w \in Workers, TakeFence(w)
    PROVE  WorkInv' /\ JobsStep
<1>0. /\ JobKey \in Keys /\ JobNode \in FenceOwners /\ LeaseSeconds \in Nat
      /\ fences \in [Keys -> FenceRows] /\ clock \in Nat
  BY JobWorkerAssumption DEF WorkInv, FleetTyped
<1>1. fences[JobKey].generation \in Nat /\ \A v \in Workers : work[v].generation \in Nat
  BY <1>0 DEF WorkInv, FenceRows, Processing
<1>2. CASE AcquireFence(JobKey, JobNode, work[w].now, LeaseSeconds)
           /\ work' = [work EXCEPT ![w].pc = "beat", ![w].beat = "sleep",
                                   ![w].generation = NextGeneration(JobKey),
                                   ![w].expires = work[w].now + LeaseSeconds]
  <2> DEFINE g == fences[JobKey].generation + 1
             row == [work[w] EXCEPT !.pc = "beat", !.beat = "sleep", !.generation = g,
                                    !.expires = work[w].now + LeaseSeconds]
             fence == [state |-> "active", owner |-> JobNode, generation |-> g,
                       issued |-> work[w].now, expires |-> work[w].now + LeaseSeconds]
  <2>1. g \in Nat /\ g # 0 /\ "beat" \in MainSteps /\ "sleep" \in BeatSteps
        /\ work[w].now + LeaseSeconds \in Nat
    BY <1>0, <1>1, ProcessType, StepValues DEF Serving, BeatSteps
  <2>2. row \in Processing
    BY <2>1, ProcessType DEF Processing
  <2>3. work' = [work EXCEPT ![w] = row]
    BY <1>2, ProcessType DEF NextGeneration
  <2>4. row.pc = "beat" /\ row.generation = g
    BY ProcessType DEF Processing
  <2>5. fence \in FenceRows /\ fence.generation = g
    BY <1>0, <2>1, ProcessType DEF FenceRows, FenceStates
  <2>6. fences' = [fences EXCEPT ![JobKey] = fence] /\ clock' = clock
    BY <1>2 DEF AcquireFence, NextGeneration
  <2> HIDE DEF row, fence
  <2>7. FleetTyped' /\ fences'[JobKey].generation = g
    BY <1>0, <2>5, <2>6 DEF FleetTyped
  <2>8. ProcessInv(row)
    BY <2>1, <2>2, <2>4 DEF ProcessInv, Closing
  <2>9. \A v \in Workers : work'[v] = IF v = w THEN row ELSE work[v]
    BY <2>3, ProcessType
  <2>10. HandlesInv'
    BY <1>1, <2>4, <2>7, <2>9 DEF HandlesInv, WorkInv
  <2>11. WorkInv'
    BY <2>2, <2>3, <2>7, <2>8, <2>9, <2>10 DEF WorkInv
  <2> QED BY <2>11 DEF TakeFence, JobsStep
<1>3. CASE Goto(w, "unlease") /\ UNCHANGED vars
  <2>1. Advances(w)
    BY <1>3, GotoAdvances, StepValues DEF Starting
  <2> QED BY <1>3, <2>1, AdvanceKeeps, LeaseCallsKeepFence DEF TakeFence, JobsStep
<1> QED BY <1>2, <1>3 DEF TakeFence

LEMMA FirstHeartbeatKeeps ==
    ASSUME WorkInv, NEW w \in Workers, FirstHeartbeat(w)
    PROVE  WorkInv' /\ JobsStep
<1> USE StepValues
<1>0. work[w].now \in Nat /\ clock \in Nat
  BY ProcessType DEF WorkInv, FleetTyped
<1>1. FenceKept
  BY <1>0, HeartbeatCallsKeepFence DEF FirstHeartbeat
<1>2. work[w].pc \in Serving /\ Serve(w) \in Serving \ {"run", "finish"}
      /\ {"renewLease", "renewFence"} \subseteq Serving \ {"run", "finish"}
  BY DEF FirstHeartbeat, At, Serving, Serve
<1>3. ASSUME NEW step \in Serving \ {"run", "finish"}, NEW t \in Nat,
             work' = [work EXCEPT ![w].pc = step, ![w].now = t]
      PROVE  Advances(w)
  <2> DEFINE row == [work[w] EXCEPT !.pc = step, !.now = t]
  <2>1. row \in Processing
    BY ProcessType DEF Processing
  <2>2. work' = [work EXCEPT ![w] = row] /\ work'[w] = row
    BY <1>3, ProcessType
  <2>3. row.pc = step /\ row.generation = work[w].generation
    BY ProcessType DEF Processing
  <2>4. ProcessInv(work[w])
    BY DEF WorkInv
  <2> HIDE DEF row
  <2>5. ProcessInv(row)
    BY <1>2, <2>1, <2>3, <2>4 DEF ProcessInv
  <2> QED BY <2>2, <2>3, <2>5 DEF Advances
<1>4. ASSUME Fail(w) PROVE Advances(w)
  BY <1>2, <1>4, CloseAdvances DEF Fail
<1>5. ASSUME Goto(w, "renewFence") PROVE Advances(w)
  BY <1>2, <1>5, GotoAdvances
<1>6. Advances(w)
  <2>1. CASE \/ work' = [work EXCEPT ![w].pc = "renewLease", ![w].now = clock]
             \/ work' = [work EXCEPT ![w].pc = Serve(w), ![w].now = 0]
    BY <1>0, <1>2, <1>3, <2>1
  <2> QED BY <1>4, <1>5, <2>1 DEF FirstHeartbeat
<1> QED BY <1>1, <1>6, AdvanceKeeps DEF FirstHeartbeat, JobsStep

\* The heartbeat thread leaves the main thread's part of the record alone.
LEMMA BeatAdvances ==
    ASSUME WorkInv, NEW w \in Workers, NEW step \in BeatSteps, NEW t \in Nat,
           NEW cancel \in BOOLEAN,
           work' = [work EXCEPT ![w] = [work[w] EXCEPT !.beat = step, !.beatNow = t,
                                                       !.cancelled = cancel]]
    PROVE  Advances(w)
<1> DEFINE row == [work[w] EXCEPT !.beat = step, !.beatNow = t, !.cancelled = cancel]
<1>1. row \in Processing
  BY ProcessType DEF Processing
<1>2. work' = [work EXCEPT ![w] = row] /\ work'[w] = row
  BY ProcessType
<1>3. row.pc = work[w].pc /\ row.generation = work[w].generation
      /\ row.job = work[w].job /\ row.attempts = work[w].attempts
  BY ProcessType DEF Processing
<1>4. ProcessInv(work[w])
  BY DEF WorkInv
<1> HIDE DEF row
<1>5. ProcessInv(row)
  BY <1>1, <1>3, <1>4 DEF ProcessInv
<1> QED BY <1>2, <1>3, <1>5 DEF Advances

LEMMA BeatForms ==
    ASSUME WorkInv, NEW w \in Workers
    PROVE  /\ \A cancel \in BOOLEAN : BeatStop(w, cancel) => Advances(w)
           /\ \A step \in BeatSteps : BeatGoto(w, step) => Advances(w)
           /\ work' = [work EXCEPT ![w].beat = "beat", ![w].beatNow = clock] => Advances(w)
<1>0. work[w] \in Processing /\ work \in [Workers -> Processing] /\ clock \in Nat
      /\ work[w].cancelled \in BOOLEAN /\ work[w].beatNow \in Nat
      /\ {"off", "beat"} \subseteq BeatSteps
  BY ProcessType DEF WorkInv, FleetTyped, BeatSteps
<1>1. ASSUME NEW cancel \in BOOLEAN, BeatStop(w, cancel) PROVE Advances(w)
  <2> DEFINE flag == work[w].cancelled \/ cancel
  <2>1. flag \in BOOLEAN
    OBVIOUS
  <2>2. work' = [work EXCEPT ![w] = [work[w] EXCEPT !.beat = "off", !.cancelled = flag]]
    BY <1>1 DEF BeatStop
  <2>3. [work[w] EXCEPT !.beat = "off", !.cancelled = flag]
          = [work[w] EXCEPT !.beat = "off", !.beatNow = work[w].beatNow, !.cancelled = flag]
    BY <1>0 DEF Processing
  <2> HIDE DEF flag
  <2>4. work' = [work EXCEPT ![w] = [work[w] EXCEPT !.beat = "off",
                              !.beatNow = work[w].beatNow, !.cancelled = flag]]
    BY <2>2, <2>3
  <2>5. "off" \in BeatSteps /\ work[w].beatNow \in Nat
    BY <1>0
  <2> QED BY <2>1, <2>4, <2>5, BeatAdvances, Zenon
<1>2. ASSUME NEW step \in BeatSteps, BeatGoto(w, step) PROVE Advances(w)
  <2> DEFINE t == IF step \in {"lease", "fence"} THEN work[w].beatNow ELSE 0
  <2>1. t \in Nat
    BY <1>0
  <2>2. work' = [work EXCEPT ![w] = [work[w] EXCEPT !.beat = step, !.beatNow = t]]
    BY <1>2 DEF BeatGoto
  <2> HIDE DEF t
  <2>3. [work[w] EXCEPT !.beat = step, !.beatNow = t]
          = [work[w] EXCEPT !.beat = step, !.beatNow = t, !.cancelled = work[w].cancelled]
    BY <1>0 DEF Processing
  <2> QED BY <1>0, <2>1, <2>2, <2>3, BeatAdvances
<1>3. ASSUME work' = [work EXCEPT ![w].beat = "beat", ![w].beatNow = clock]
      PROVE  Advances(w)
  <2>1. work' = [work EXCEPT ![w] = [work[w] EXCEPT !.beat = "beat", !.beatNow = clock]]
    BY <1>3
  <2>2. [work[w] EXCEPT !.beat = "beat", !.beatNow = clock]
          = [work[w] EXCEPT !.beat = "beat", !.beatNow = clock,
                            !.cancelled = work[w].cancelled]
    BY <1>0 DEF Processing
  <2> QED BY <1>0, <2>1, <2>2, BeatAdvances
<1> QED BY <1>1, <1>2, <1>3

LEMMA HeartbeatKeeps ==
    ASSUME WorkInv, NEW w \in Workers, HeartbeatStep(w)
    PROVE  WorkInv' /\ JobsStep
<1>0. work[w].beatNow \in Nat
      /\ {"lease", "fence", "sleep", "failed"} \subseteq BeatSteps
  BY ProcessType DEF BeatSteps
<1>1. CASE BeatWake(w) \/ BeatFailed(w)
  <2>1. (Supervisor # "draining") \in BOOLEAN
    OBVIOUS
  <2>2. Advances(w)
    BY <1>1, <2>1, BeatForms DEF BeatWake, BeatFailed
  <2>3. UNCHANGED <<vars, jobVars>>
    BY <1>1 DEF BeatWake, BeatFailed
  <2> QED BY <2>2, <2>3, AdvanceKeeps, LeaseCallsKeepFence DEF JobsStep
<1>2. CASE BeatStep(w)
  <2>1. Advances(w)
    BY <1>0, <1>2, BeatForms DEF BeatStep
  <2>2. FenceKept
    BY <1>0, <1>2, HeartbeatCallsKeepFence DEF BeatStep
  <2> QED BY <1>2, <2>1, <2>2, AdvanceKeeps DEF BeatStep, JobsStep
<1> QED BY <1>1, <1>2 DEF HeartbeatStep

\* The loop around execute_one_job: what is executed was claimed.
LEMMA LoopKeeps ==
    ASSUME WorkInv, NEW w \in Workers, Look(w) \/ Claim(w) \/ Run(w) \/ Finish(w)
    PROVE  WorkInv' /\ JobsStep
<1> USE StepValues
<1>0. work[w].pc \in Serving /\ {"claim", "look", "run", "finish"} \subseteq Serving
      /\ Serve(w) \in Serving \ {"run", "finish"}
  BY DEF Look, Claim, Run, Finish, At, Serving, Serve
<1>1. FenceKept
  BY LeaseCallsKeepFence DEF Look, Claim, Run, Finish
<1>2. ProcessInv(work[w])
  BY DEF WorkInv
<1>3. ASSUME Goto(w, "claim") \/ Goto(w, "look") PROVE Advances(w)
  BY <1>0, <1>3, GotoAdvances DEF Closing
<1>4. ASSUME Close(w, 2) PROVE Advances(w)
  BY <1>0, <1>4, CloseAdvances
<1>5. ASSUME NEW step \in Serving, NEW job \in JobIds \cup {NoJob}, NEW outcome \in Finals,
             step \in {"run", "finish"} => job \in JobIds,
             work' = [work EXCEPT ![w] = [work[w] EXCEPT !.pc = step, !.job = job,
                                                         !.outcome = outcome]]
      PROVE  Advances(w)
  <2> DEFINE row == [work[w] EXCEPT !.pc = step, !.job = job, !.outcome = outcome]
  <2>1. row \in Processing
    BY ProcessType DEF Processing
  <2>2. work' = [work EXCEPT ![w] = row] /\ work'[w] = row
    BY <1>5, ProcessType
  <2>3. row.pc = step /\ row.generation = work[w].generation /\ row.job = job
    BY ProcessType DEF Processing
  <2> HIDE DEF row
  <2>4. ProcessInv(row)
    BY <1>0, <1>2, <1>5, <2>1, <2>3 DEF ProcessInv
  <2> QED BY <2>2, <2>3, <2>4 DEF Advances
<1>6. CASE Look(w)
  <2>1. Advances(w)
    BY <1>3, <1>4, <1>6 DEF Look
  <2> QED BY <1>1, <1>6, <2>1, AdvanceKeeps DEF Look, JobsStep
<1>7. CASE Claim(w)
  <2>1. ASSUME NEW j \in JobIds, ClaimNext(j, w),
               work' = [work EXCEPT ![w].pc = "run", ![w].job = j]
        PROVE  Advances(w) /\ JobsStep
    <3>1. work' = [work EXCEPT ![w] = [work[w] EXCEPT !.pc = "run", !.job = j]]
      BY <2>1
    <3>2. [work[w] EXCEPT !.pc = "run", !.job = j]
            = [work[w] EXCEPT !.pc = "run", !.job = j, !.outcome = work[w].outcome]
      BY ProcessType DEF Processing
    <3>3. work[w].outcome \in Finals
      BY ProcessType
    <3>4. Advances(w)
      BY <1>0, <1>5, <3>1, <3>2, <3>3
    <3> QED BY <2>1, <3>4 DEF JobsStep
  <2>2. CASE UNCHANGED jobVars /\ (Goto(w, "look") \/ Close(w, 2))
    BY <1>1, <1>3, <1>4, <2>2, AdvanceKeeps DEF JobsStep
  <2> QED BY <1>1, <1>7, <2>1, <2>2, AdvanceKeeps DEF Claim
<1>8. CASE Run(w)
  <2>1. PICK outcome \in Finals :
            work' = [work EXCEPT ![w].pc = "finish", ![w].outcome = outcome]
    BY <1>8 DEF Run
  <2>2. work' = [work EXCEPT ![w] = [work[w] EXCEPT !.pc = "finish", !.outcome = outcome]]
    BY <2>1
  <2>3. [work[w] EXCEPT !.pc = "finish", !.outcome = outcome]
          = [work[w] EXCEPT !.pc = "finish", !.job = work[w].job, !.outcome = outcome]
    BY ProcessType DEF Processing
  <2>4. work[w].job \in JobIds
    BY <1>2, <1>8 DEF ProcessInv, Run, At
  <2>5. Advances(w)
    BY <1>0, <1>5, <2>2, <2>3, <2>4
  <2> QED BY <1>1, <1>8, <2>5, AdvanceKeeps DEF Run, JobsStep
<1>9. CASE Finish(w)
  <2>1. work[w].job \in JobIds /\ work[w].outcome \in Finals
    BY <1>2, <1>9, ProcessType DEF ProcessInv, Finish, At
  <2>2. JobsStep
    BY <1>9, <2>1 DEF Finish, JobsStep
  <2>3. ASSUME work' = [work EXCEPT ![w].pc = Serve(w), ![w].job = NoJob,
                                    ![w].outcome = "failed"]
        PROVE  Advances(w)
    <3>1. work' = [work EXCEPT ![w] = [work[w] EXCEPT !.pc = Serve(w), !.job = NoJob,
                                                      !.outcome = "failed"]]
      BY <2>3
    <3>2. Serve(w) \in Serving /\ ~(Serve(w) \in {"run", "finish"})
      BY <1>0
    <3> HIDE DEF Serve
    <3> QED BY <1>5, <3>1, <3>2, Zenon
  <2>4. ASSUME NEW attempts \in {1, 2}, Close(w, attempts) PROVE Advances(w)
    BY <1>0, <2>4, CloseAdvances
  <2>5. Advances(w)
    BY <1>9, <2>3, <2>4 DEF Finish
  <2> QED BY <1>1, <2>2, <2>5, AdvanceKeeps
<1> QED BY <1>6, <1>7, <1>8, <1>9

LEMMA ClosingKeeps ==
    ASSUME WorkInv, NEW w \in Workers, JoinHeartbeat(w) \/ ReleaseJobFence(w) \/ Shutdown(w)
    PROVE  WorkInv' /\ JobsStep
<1> USE StepValues
<1>0. work[w].pc \in Closing /\ {"release", "shutdown"} \subseteq Closing
  BY DEF JoinHeartbeat, ReleaseJobFence, Shutdown, At, Closing
<1>1. ProcessInv(work[w])
  BY DEF WorkInv
<1>2. CASE JoinHeartbeat(w)
  <2> DEFINE row == [work[w] EXCEPT !.pc = "release", !.beat = "off"]
  <2>1. row \in Processing
    BY <1>0, ProcessType DEF Processing, BeatSteps
  <2>2. work' = [work EXCEPT ![w] = row] /\ work'[w] = row
    BY <1>2, ProcessType DEF JoinHeartbeat
  <2>3. row.pc = "release" /\ row.generation = work[w].generation
        /\ row.attempts = work[w].attempts
    BY ProcessType DEF Processing
  <2> HIDE DEF row
  <2>4. ProcessInv(row)
    BY <1>0, <1>1, <2>1, <2>3 DEF ProcessInv
  <2>5. Advances(w)
    BY <2>2, <2>3, <2>4 DEF Advances
  <2> QED BY <1>2, <2>5, AdvanceKeeps, LeaseCallsKeepFence DEF JoinHeartbeat, JobsStep
<1>3. CASE ReleaseJobFence(w)
  <2>1. Advances(w)
    BY <1>0, <1>3, GotoAdvances DEF ReleaseJobFence
  <2>2. FenceKept
    BY <1>3, LeaseCallsKeepFence, FenceCallsKeepFence DEF ReleaseJobFence
  <2> QED BY <1>3, <2>1, <2>2, AdvanceKeeps DEF ReleaseJobFence, JobsStep
<1>4. CASE Shutdown(w)
  <2>1. FenceKept
    BY <1>4, LeaseCallsKeepFence DEF Shutdown
  <2>2. ASSUME work[w].attempts # 1, work' = [work EXCEPT ![w].attempts = @ - 1]
        PROVE  Advances(w)
    <3>1. work[w].attempts = 2
      BY <1>0, <1>1, <2>2 DEF ProcessInv
    <3> DEFINE row == [work[w] EXCEPT !.attempts = 1]
    <3>2. row \in Processing
      BY ProcessType DEF Processing
    <3>3. work' = [work EXCEPT ![w] = row] /\ work'[w] = row
      BY <2>2, <3>1, ProcessType
    <3>4. row.pc = work[w].pc /\ row.generation = work[w].generation /\ row.attempts = 1
          /\ row.job = work[w].job
      BY ProcessType DEF Processing
    <3> HIDE DEF row
    <3>5. ProcessInv(row)
      BY <1>0, <1>1, <3>2, <3>4 DEF ProcessInv
    <3> QED BY <3>3, <3>4, <3>5 DEF Advances
  <2>3. Advances(w)
    BY <1>4, <2>2, EndAdvances DEF Shutdown
  <2> QED BY <1>4, <2>1, <2>3, AdvanceKeeps DEF Shutdown, JobsStep
<1> QED BY <1>2, <1>3, <1>4

-----------------------------------------------------------------------------
(* The whole.                                                                    *)

WorkersInv == JobsInv /\ WorkInv

LEMMA WorkersInitially ==
    ASSUME WorkerInit
    PROVE  WorkersInv
<1>1. JobsInv
  BY JobsInitially DEF WorkerInit
<1>2. FleetTyped
  BY DEF WorkerInit, Init, BaseInit, FencesInit, FleetTyped, FenceRows, FenceStates
<1>3. ASSUME NEW w \in Workers
      PROVE  ProcessInv(work[w]) /\ work[w].generation = 0
  <2>1. PICK m \in Modes : work[w] = Idle("off", m)
    BY DEF WorkerInit, WorkersInit
  <2>2. Idle("off", m) \in Processing
    BY StepValues DEF Processing, Idle, MainSteps, BeatSteps
  <2>3. work[w].pc = "off" /\ work[w].generation = 0
    BY <2>1 DEF Idle
  <2> QED BY <2>1, <2>2, <2>3, StepValues DEF ProcessInv
<1>4. DOMAIN work = Workers /\ work = [w \in DOMAIN work |-> work[w]]
  BY DEF WorkerInit, WorkersInit
<1>5. work \in [Workers -> Processing]
  BY <1>3, <1>4 DEF ProcessInv
<1>6. fences[JobKey].generation = 0
  BY JobWorkerAssumption DEF WorkerInit, Init, FencesInit
<1>7. HandlesInv
  BY <1>3, <1>6 DEF HandlesInv
<1> QED BY <1>1, <1>2, <1>3, <1>5, <1>7 DEF WorkersInv, WorkInv

LEMMA WorkersStep ==
    ASSUME WorkersInv, WorkerNext
    PROVE  WorkInv' /\ JobsStep
<1> USE DEF WorkersInv
<1>1. ASSUME NEW w \in Workers, MainStep(w)
      PROVE  WorkInv' /\ JobsStep
  BY <1>1, StartKeeps, TakeFenceKeeps, FirstHeartbeatKeeps, LoopKeeps, ClosingKeeps
     DEF MainStep
<1>2. ASSUME NEW w \in Workers, Crash(w)
      PROVE  WorkInv' /\ JobsStep
  <2>1. Advances(w)
    BY <1>2, EndAdvances DEF Crash
  <2> QED BY <1>2, <2>1, AdvanceKeeps, LeaseCallsKeepFence DEF Crash, JobsStep
<1>3. ASSUME UNCHANGED work, FenceKept
      PROVE  WorkInv'
  BY <1>3 DEF WorkInv, FenceKept, HandlesInv
<1>4. CASE JobCommand /\ UNCHANGED <<vars, work>>
  BY <1>3, <1>4, LeaseCallsKeepFence DEF JobCommand, JobsStep
<1>5. CASE OperatorCommand
  BY <1>3, <1>5, LeaseCallsKeepFence DEF OperatorCommand, JobsStep
<1>6. CASE Tick /\ UNCHANGED <<jobVars, work>>
  <2>1. FenceKept
    BY <1>6 DEF Tick, FenceKept, FleetTyped, WorkInv, fenceVars
  <2> QED BY <1>3, <1>6, <2>1 DEF JobsStep
<1> QED BY <1>1, <1>2, <1>4, <1>5, <1>6, BeginKeeps, HeartbeatKeeps DEF WorkerNext

\* The inductive invariant.
THEOREM WorkersInvariant == WorkerSpec => []WorkersInv
<1>1. WorkerInit => WorkersInv
  BY WorkersInitially
<1>2. WorkersInv /\ [WorkerNext]_allVars => WorkersInv'
  <2>1. ASSUME WorkersInv, WorkerNext PROVE WorkersInv'
    BY <2>1, WorkersStep, JobsStepKeeps DEF WorkersInv
  <2>2. ASSUME WorkersInv, UNCHANGED allVars PROVE WorkersInv'
    <3>1. JobsInv'
      BY <2>2, JobsStepKeeps DEF WorkersInv, JobsStep, allVars
    <3> QED BY <2>2, <3>1 DEF WorkersInv, WorkInv, HandlesInv, FleetTyped, allVars,
              vars, baseVars, fenceVars
  <2> QED BY <2>1, <2>2
<1> QED BY <1>1, <1>2, PTL DEF WorkerSpec

\* A job is executed by at most one worker, ever, and the row names it.
THEOREM JobsExecutedOnce == WorkerSpec => []OneExecution
<1>1. WorkersInv => OneExecution
  BY DEF WorkersInv, JobsInv
<1> QED BY <1>1, WorkersInvariant, PTL

\* At most one worker process passes a checkpoint, however many hold a handle.
THEOREM WorkersPassAlone == WorkerSpec => []OneWorkerPasses
<1>1. WorkersInv => OneWorkerPasses
  <2> SUFFICES ASSUME WorkersInv PROVE OneWorkerPasses
    OBVIOUS
  <2>1. WorkerTypeOK
    BY DEF WorkersInv, JobsInv, WorkInv, WorkerTypeOK
  <2>2. ASSUME NEW v \in Workers, NEW w \in Workers, work[v].pc \in Serving,
               Passes(v), Passes(w)
        PROVE  v = w
    <3>1. work[v].generation = work[w].generation /\ work[v].generation # 0
      BY <2>2 DEF Passes, FenceValid, WorkersInv, WorkInv, ProcessInv
    <3> QED BY <3>1 DEF WorkersInv, WorkInv, HandlesInv
  <2> QED BY <2>1, <2>2 DEF OneWorkerPasses
<1> QED BY <1>1, WorkersInvariant, PTL

\* What is over stays as it ended and nothing returns to the queue.
THEOREM JobsMoveForward == WorkerSpec => JobForward
<1> DEFINE Forward ==
      \A j \in JobIds :
         /\ jobs[j].status \in Finals \cup {"cancelled"} => jobs'[j] = jobs[j]
         /\ jobs'[j].status = "queued" => jobs[j].status \in {"absent", "queued"}
         /\ jobs[j].status = "running" => jobs'[j].worker = jobs[j].worker
<1>1. WorkersInv /\ [WorkerNext]_allVars => [Forward]_jobVars
  <2>1. ASSUME WorkersInv, WorkerNext PROVE Forward
    BY <2>1, WorkersStep, JobsStepForward DEF WorkersInv
  <2> QED BY <2>1 DEF allVars
<1> QED BY <1>1, WorkersInvariant, PTL DEF WorkerSpec, JobForward
=============================================================================
