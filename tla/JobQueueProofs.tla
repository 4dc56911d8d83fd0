--------------------------- MODULE JobQueueProofs ---------------------------
(***************************************************************************)
(* The queue is type-correct, no worker starts a job twice, and no job is  *)
(* left running with nobody on it, for every number of jobs and workers;   *)
(* with a single worker a complete job has everything stored, and is not   *)
(* touched again.                                                          *)
(***************************************************************************)
EXTENDS JobQueue, SharedFacts

\* The first row and the last rows of a run are rows.
LEMMA RowsAreTyped ==
  /\ \A s \in Steps : s \in CurrentStep
  /\ {"init", "aborted", "completed"} \subseteq CurrentStep
  BY DEF CurrentStep

\* Init establishes the types.
LEMMA TypeInit == Init => TypeOK
  BY JobQueueAssumption
  DEF Init, TypeOK, JobType, Status, CurrentStep, WorkerType, Idle

\* The API handlers keep the types.
LEMMA TypeAPI ==
  ASSUME TypeOK, NEW j \in Jobs,
         CreateJob(j) \/ AbortRequest(j) \/ AbortWrite(j)
  PROVE  TypeOK'
  BY DEF TypeOK, JobType, Status, CurrentStep, CreateJob, AbortRequest, AbortWrite

\* A run ends with a row, and leaves an idle worker.
LEMMA TypeFinish ==
  ASSUME TypeOK, NEW w \in Workers, worker[w].pc = "running",
         NEW row \in JobType, Finish(w, row)
  PROVE  TypeOK'
<1>1. worker[w].job \in Jobs
  BY DEF TypeOK
<1>2. Idle \in WorkerType
  BY DEF Idle, WorkerType, CurrentStep
<1>3. worker' \in [Workers -> WorkerType] /\ job' \in [Jobs -> JobType]
  BY <1>1, <1>2 DEF TypeOK, Finish
<1>4. \A v \in Workers : worker'[v].pc # "idle" => worker'[v].job \in Jobs
  BY DEF TypeOK, Finish, Idle
<1> QED
  BY <1>3, <1>4 DEF TypeOK, Finish

\* The steps of a worker keep the types.
LEMMA TypeWorker ==
  ASSUME TypeOK, NEW w \in Workers, Work(w) \/ FailRun(w) \/ BreakDown(w)
  PROVE  TypeOK'
<1>1. ASSUME NEW j \in Jobs, Poll(w, j) PROVE TypeOK'
  BY <1>1 DEF TypeOK, Poll, WorkerType, CurrentStep, Idle
<1>2. CASE StartRun(w)
  <2> DEFINE j == worker[w].job
             next == [worker[w] EXCEPT !.pc = "running", !.initial = job[j].step]
  <2>1. j \in Jobs
    BY <1>2 DEF StartRun, TypeOK
  <2>2. job[j].step \in CurrentStep /\ job' \in [Jobs -> JobType]
    BY <1>2, <2>1 DEF StartRun, TypeOK, JobType, Status
  <2>3. worker' = [worker EXCEPT ![w] = next]
    BY <1>2 DEF StartRun, TypeOK, WorkerType
  <2>4. next \in WorkerType /\ next.job = j
    BY <2>1, <2>2 DEF TypeOK, WorkerType
  <2>5. worker' \in [Workers -> WorkerType]
    BY <2>3, <2>4 DEF TypeOK
  <2>6. \A v \in Workers : worker'[v].pc # "idle" => worker'[v].job \in Jobs
    BY <2>1, <2>3, <2>4 DEF TypeOK
  <2>7. started' \subseteq Workers \X Jobs
    BY <1>2, <2>1 DEF StartRun, TypeOK
  <2> QED
    BY <1>2, <2>2, <2>5, <2>6, <2>7 DEF StartRun, TypeOK
<1>3. ASSUME NEW s \in Steps, BeginStage(w, s) PROVE TypeOK'
  <2>1. worker[w].job \in Jobs
    BY <1>3 DEF BeginStage, TypeOK
  <2>2. job' \in [Jobs -> JobType]
    BY <1>3, <2>1, RowsAreTyped DEF BeginStage, TypeOK, JobType
  <2>3. /\ worker' \in [Workers -> WorkerType]
        /\ \A v \in Workers : worker'[v].pc # "idle" => worker'[v].job \in Jobs
    BY <1>3 DEF BeginStage, TypeOK, WorkerType
  <2> QED
    BY <1>3, <2>2, <2>3 DEF BeginStage, TypeOK
<1>4. ASSUME NEW s \in Steps, EndStage(w, s) PROVE TypeOK'
  BY <1>4 DEF TypeOK, EndStage, WorkerType
<1>5. CASE CompleteRun(w)
  BY <1>5, TypeFinish DEF CompleteRun, JobType, Status, CurrentStep
<1>6. CASE AbortRun(w)
  BY <1>6, TypeFinish DEF AbortRun, JobType, Status, CurrentStep
<1>7. CASE FailRun(w)
  <2>1. [status |-> "failed", step |-> job[worker[w].job].step] \in JobType
    BY <1>7 DEF FailRun, TypeOK, JobType, Status
  <2> QED
    BY <1>7, <2>1, TypeFinish DEF FailRun
<1>8. CASE BreakDown(w)
  BY <1>8, JobQueueAssumption DEF TypeOK, BreakDown, WorkerType, CurrentStep, Idle
<1> QED
  BY <1>1, <1>2, <1>3, <1>4, <1>5, <1>6, <1>7, <1>8 DEF Work

\* Every behaviour of the queue stays within the types of its variables.
THEOREM TypeCorrect == Spec => []TypeOK
<1>1. TypeOK /\ [Next]_vars => TypeOK'
  <2> SUFFICES ASSUME TypeOK, [Next]_vars PROVE TypeOK'
    OBVIOUS
  <2>1. CASE UNCHANGED vars
    BY <2>1 DEF TypeOK, vars
  <2>2. CASE Next
    BY <2>2, TypeAPI, TypeWorker DEF Next
  <2> QED
    BY <2>1, <2>2
<1> QED
  BY TypeInit, <1>1, PTL DEF Spec

-----------------------------------------------------------------------------
\* A worker goes on with the run it has started, or is idle again.
LEMMA WorkerSteps ==
  ASSUME TypeOK, NEW w \in Workers, Work(w) \/ FailRun(w) \/ BreakDown(w)
  PROVE  \A v \in Workers \ {w} : worker'[v] = worker[v]
  BY DEF TypeOK, Work, Poll, StartRun, BeginStage, EndStage, CompleteRun, AbortRun,
         FailRun, BreakDown, Finish

\* Nobody has started a job that does not exist yet, or is pending: no step
\* of any process makes a job pending again.
StartedIsTaken ==
  \A w \in Workers, j \in Jobs :
    <<w, j>> \in started => job[j].status \notin {"none", "pending"}

OnceInv == TypeOK /\ StartedIsTaken /\ StartsOnce

\* The API does not bring a job back that a worker has started.
LEMMA OnceAPI ==
  ASSUME OnceInv, NEW j \in Jobs,
         CreateJob(j) \/ AbortRequest(j) \/ AbortWrite(j)
  PROVE  StartedIsTaken' /\ StartsOnce'
  BY DEF OnceInv, TypeOK, JobType, StartedIsTaken, StartsOnce,
         CreateJob, AbortRequest, AbortWrite

\* The end of a run leaves a row that is not pending.
LEMMA OnceFinish ==
  ASSUME OnceInv, NEW w \in Workers, worker[w].pc = "running",
         NEW row \in JobType, row.status \in Finished, Finish(w, row)
  PROVE  StartedIsTaken' /\ StartsOnce'
  BY DEF OnceInv, TypeOK, JobType, StartedIsTaken, StartsOnce, Finish, Finished, Idle

\* The steps of a worker preserve the invariant.
LEMMA OnceWorker ==
  ASSUME OnceInv, NEW w \in Workers, Work(w) \/ FailRun(w) \/ BreakDown(w)
  PROVE  StartedIsTaken' /\ StartsOnce'
<1> USE DEF OnceInv
<1>1. ASSUME NEW j \in Jobs, Poll(w, j) PROVE StartedIsTaken' /\ StartsOnce'
  BY <1>1 DEF Poll, TypeOK, StartedIsTaken, StartsOnce, Idle
<1>2. CASE StartRun(w)
  <2>1. worker[w].job \in Jobs
    BY <1>2 DEF StartRun, TypeOK
  <2>2. worker'[w].pc = "running" /\ job'[worker[w].job].status = "running"
    BY <1>2, <2>1 DEF StartRun, TypeOK, JobType, WorkerType
  <2>3. \A j \in Jobs \ {worker[w].job} : job'[j] = job[j]
    BY <1>2 DEF StartRun, TypeOK
  <2>4. StartedIsTaken'
    BY <1>2, <2>2, <2>3 DEF StartRun, StartedIsTaken
  <2>5. StartsOnce'
    <3> SUFFICES ASSUME NEW v \in Workers, worker'[v].pc = "polled"
                 PROVE  <<v, worker'[v].job>> \notin started'
      BY DEF StartsOnce
    <3>1. v # w /\ worker'[v] = worker[v]
      BY <1>2, <2>2, WorkerSteps DEF Work
    <3>2. <<v, worker[v].job>> \notin started
      BY <3>1 DEF StartsOnce
    <3>3. <<v, worker[v].job>> # <<w, worker[w].job>>
      BY <3>1
    <3>4. started' = started \cup {<<w, worker[w].job>>}
      BY <1>2 DEF StartRun
    <3> QED
      BY <3>1, <3>2, <3>3, <3>4
  <2> QED
    BY <2>4, <2>5
<1>3. ASSUME NEW s \in Steps, BeginStage(w, s) PROVE StartedIsTaken' /\ StartsOnce'
  <2>1. worker'[w].pc = "running"
    BY <1>3 DEF BeginStage, TypeOK, WorkerType
  <2>2. \A j \in Jobs : job'[j].status = job[j].status
    BY <1>3 DEF BeginStage, TypeOK, JobType
  <2>3. StartedIsTaken'
    BY <1>3, <2>2 DEF BeginStage, StartedIsTaken
  <2>4. StartsOnce'
    BY <1>3, <2>1, WorkerSteps DEF BeginStage, StartsOnce, Work
  <2> QED
    BY <2>3, <2>4
<1>4. ASSUME NEW s \in Steps, EndStage(w, s) PROVE StartedIsTaken' /\ StartsOnce'
  BY <1>4 DEF EndStage, TypeOK, StartedIsTaken, StartsOnce, WorkerType
<1>5. CASE CompleteRun(w)
  BY <1>5, OnceFinish DEF CompleteRun, JobType, Status, CurrentStep, Finished
<1>6. CASE AbortRun(w)
  BY <1>6, OnceFinish DEF AbortRun, JobType, Status, CurrentStep, Finished
<1>7. CASE FailRun(w)
  <2>1. [status |-> "failed", step |-> job[worker[w].job].step] \in JobType
    BY <1>7 DEF FailRun, TypeOK, JobType, Status
  <2> QED
    BY <1>7, <2>1, OnceFinish DEF FailRun, Finished
<1>8. CASE BreakDown(w)
  BY <1>8 DEF BreakDown, TypeOK, StartedIsTaken, StartsOnce, Idle
<1> QED
  BY <1>1, <1>2, <1>3, <1>4, <1>5, <1>6, <1>7, <1>8 DEF Work

\* No worker ever starts the same job twice.
THEOREM StartsOnceHolds == Spec => []StartsOnce
<1>1. Init => OnceInv
  BY TypeInit DEF Init, OnceInv, StartedIsTaken, StartsOnce, Idle
<1>2. TypeOK /\ OnceInv /\ [Next]_vars /\ TypeOK' => OnceInv'
  <2> SUFFICES ASSUME OnceInv, TypeOK', [Next]_vars
               PROVE  StartedIsTaken' /\ StartsOnce'
    BY DEF OnceInv
  <2>1. CASE UNCHANGED vars
    BY <2>1 DEF OnceInv, StartedIsTaken, StartsOnce, vars
  <2>2. CASE Next
    BY <2>2, OnceAPI, OnceWorker DEF Next
  <2> QED
    BY <2>1, <2>2
<1>3. OnceInv => StartsOnce
  BY DEF OnceInv
<1> QED
  BY <1>1, <1>2, <1>3, TypeCorrect, PTL DEF Spec

-----------------------------------------------------------------------------
\* Finish(w, row) ends the job of w, and w works on no other.
LEMMA OwnerFinish ==
  ASSUME TypeOK, RunningHasOwner, NEW w \in Workers, worker[w].pc = "running",
         NEW row \in JobType, row.status \in Finished, Finish(w, row)
  PROVE  RunningHasOwner'
<1> SUFFICES ASSUME NEW j \in Jobs, job'[j].status = "running", j \notin stranded'
             PROVE  \E v \in Workers : worker'[v].pc = "running" /\ worker'[v].job = j
  BY DEF RunningHasOwner
<1>1. j # worker[w].job /\ job'[j] = job[j]
  BY DEF Finish, Finished, TypeOK
<1>2. PICK v \in Workers : worker[v].pc = "running" /\ worker[v].job = j
  BY <1>1 DEF RunningHasOwner, Finish
<1>3. v # w /\ worker'[v] = worker[v]
  BY <1>1, <1>2 DEF Finish, TypeOK
<1> QED
  BY <1>2, <1>3

\* The API marks no job running.
LEMMA OwnerAPI ==
  ASSUME TypeOK, RunningHasOwner, NEW j \in Jobs,
         CreateJob(j) \/ AbortRequest(j) \/ AbortWrite(j)
  PROVE  RunningHasOwner'
  BY DEF TypeOK, RunningHasOwner, CreateJob, AbortRequest, AbortWrite

\* A worker step that keeps the status of every job, and every run, keeps
\* the owners.
LEMMA OwnerKept ==
  ASSUME RunningHasOwner, stranded' = stranded,
         \A j \in Jobs : job'[j].status = job[j].status,
         \A v \in Workers : worker[v].pc = "running" =>
                              worker'[v].pc = "running" /\ worker'[v].job = worker[v].job
  PROVE  RunningHasOwner'
  BY DEF RunningHasOwner

\* The steps of a worker preserve the invariant.
LEMMA OwnerWorker ==
  ASSUME TypeOK, RunningHasOwner, NEW w \in Workers,
         Work(w) \/ FailRun(w) \/ BreakDown(w)
  PROVE  RunningHasOwner'
<1>1. ASSUME NEW j \in Jobs, Poll(w, j) PROVE RunningHasOwner'
  BY <1>1, OwnerKept DEF Poll, TypeOK
<1>2. CASE StartRun(w)
  <2>1. worker[w].job \in Jobs
    BY <1>2 DEF StartRun, TypeOK
  <2>2. /\ worker'[w].pc = "running"
        /\ worker'[w].job = worker[w].job
    BY <1>2 DEF StartRun, TypeOK, WorkerType
  <2>3. \A j \in Jobs \ {worker[w].job} : job'[j] = job[j]
    BY <1>2 DEF StartRun, TypeOK
  <2>4. \A v \in Workers \ {w} : worker'[v] = worker[v]
    BY <1>2, WorkerSteps DEF Work
  <2>5. stranded' = stranded /\ worker[w].pc = "polled"
    BY <1>2 DEF StartRun
  <2>6. SUFFICES ASSUME NEW j \in Jobs, job'[j].status = "running", j \notin stranded'
                 PROVE  \E v \in Workers : worker'[v].pc = "running" /\ worker'[v].job = j
    BY DEF RunningHasOwner
  <2>7. CASE j = worker[w].job
    BY <2>2, <2>7
  <2>8. CASE j # worker[w].job
    <3>1. PICK v \in Workers : worker[v].pc = "running" /\ worker[v].job = j
      BY <2>3, <2>5, <2>6, <2>8 DEF RunningHasOwner
    <3> QED
      BY <3>1, <2>4, <2>5
  <2> QED
    BY <2>7, <2>8
<1>3. ASSUME NEW s \in Steps, BeginStage(w, s) PROVE RunningHasOwner'
  <2>1. \A j \in Jobs : job'[j].status = job[j].status
    BY <1>3 DEF BeginStage, TypeOK, JobType
  <2>2. \A v \in Workers : worker'[v].pc = worker[v].pc /\ worker'[v].job = worker[v].job
    BY <1>3 DEF BeginStage, TypeOK, WorkerType
  <2> QED
    BY <1>3, <2>1, <2>2, OwnerKept DEF BeginStage
<1>4. ASSUME NEW s \in Steps, EndStage(w, s) PROVE RunningHasOwner'
  <2>1. \A v \in Workers : worker'[v].pc = worker[v].pc /\ worker'[v].job = worker[v].job
    BY <1>4 DEF EndStage, TypeOK, WorkerType
  <2> QED
    BY <1>4, <2>1, OwnerKept DEF EndStage
<1>5. CASE CompleteRun(w)
  BY <1>5, OwnerFinish DEF CompleteRun, JobType, Status, CurrentStep, Finished
<1>6. CASE AbortRun(w)
  BY <1>6, OwnerFinish DEF AbortRun, JobType, Status, CurrentStep, Finished
<1>7. CASE FailRun(w)
  <2>1. [status |-> "failed", step |-> job[worker[w].job].step] \in JobType
    BY <1>7 DEF FailRun, TypeOK, JobType, Status
  <2> QED
    BY <1>7, <2>1, OwnerFinish DEF FailRun, Finished
<1>8. CASE BreakDown(w)
  <2> SUFFICES ASSUME NEW j \in Jobs, job'[j].status = "running", j \notin stranded'
               PROVE  \E v \in Workers : worker'[v].pc = "running" /\ worker'[v].job = j
    BY DEF RunningHasOwner
  <2>1. PICK v \in Workers : worker[v].pc = "running" /\ worker[v].job = j
    BY <1>8 DEF BreakDown, RunningHasOwner
  <2>2. v # w
    BY <1>8, <2>1 DEF BreakDown
  <2> QED
    BY <1>8, <2>1, <2>2, WorkerSteps
<1> QED
  BY <1>1, <1>2, <1>3, <1>4, <1>5, <1>6, <1>7, <1>8 DEF Work

\* Every job marked running is being run, or a run of it broke down.
THEOREM RunningHasOwnerHolds == Spec => []RunningHasOwner
<1>1. Init => RunningHasOwner
  BY DEF Init, RunningHasOwner
<1>2. TypeOK /\ RunningHasOwner /\ [Next]_vars => RunningHasOwner'
  <2> SUFFICES ASSUME TypeOK, RunningHasOwner, [Next]_vars PROVE RunningHasOwner'
    OBVIOUS
  <2>1. CASE UNCHANGED vars
    BY <2>1 DEF RunningHasOwner, vars
  <2>2. CASE Next
    BY <2>2, OwnerAPI, OwnerWorker DEF Next
  <2> QED
    BY <2>1, <2>2
<1> QED
  BY <1>1, <1>2, TypeCorrect, PTL DEF Spec

-----------------------------------------------------------------------------
(* What holds of the queue with a single worker process, and only then.    *)

\* There are no two workers.
OneWorker == \A v, w \in Workers : v = w

\* The stages of a job are stages.
LEMMA StagesAreSteps == Allowed("full", Enabled) \subseteq Steps
  BY JobQueueAssumption, StepsListed DEF Allowed

-----------------------------------------------------------------------------
(* The invariant.                                                          *)

\* A job that has not been taken is at its beginning.
UntakenAtInit ==
  \A j \in Jobs : job[j].status \in {"none", "pending"} => job[j].step = "init"

\* A worker that has polled a job is the only one to touch it, but for an
\* abort: no stage of it has left a checkpoint.
PolledAtInit ==
  \A w \in Workers : worker[w].pc = "polled" =>
    /\ job[worker[w].job].status \in {"pending", "cancelled"}
    /\ job[worker[w].job].step \in {"init", "aborted"}
    /\ worker[w].ended = {}

\* A run skips nothing, and what it has ended is in the database.
RunFromInit ==
  \A w \in Workers : worker[w].pc = "running" =>
    /\ job[worker[w].job].status \in {"running", "cancelled"}
    /\ worker[w].initial \in {"init", "aborted"}
    /\ worker[w].ended \subseteq stored[worker[w].job]

AloneInv ==
  TypeOK /\ UntakenAtInit /\ PolledAtInit /\ RunFromInit /\ CompleteMeansStored

\* The API handlers change the checkpoint of no job that is being run.
LEMMA AloneAPI ==
  ASSUME AloneInv, NEW j \in Jobs,
         CreateJob(j) \/ AbortRequest(j) \/ AbortWrite(j)
  PROVE  UntakenAtInit' /\ PolledAtInit' /\ RunFromInit' /\ CompleteMeansStored'
<1> USE DEF AloneInv
<1>1. /\ worker' = worker /\ stored' = stored
      /\ \A i \in Jobs \ {j} : job'[i] = job[i]
      /\ \/ job'[j] = job[j]
         \/ job[j].status = "none" /\ job'[j] = [status |-> "pending", step |-> "init"]
         \/ job'[j] = [status |-> "cancelled", step |-> "aborted"]
  BY DEF TypeOK, CreateJob, AbortRequest, AbortWrite
<1>2. UntakenAtInit' /\ CompleteMeansStored'
  BY <1>1 DEF UntakenAtInit, CompleteMeansStored
<1>3. \A w \in Workers : worker[w].pc # "idle" => worker[w].job \in Jobs
  BY DEF TypeOK
<1>4. PolledAtInit'
  BY <1>1, <1>3 DEF PolledAtInit
<1>5. RunFromInit'
  BY <1>1, <1>3 DEF RunFromInit
<1> QED
  BY <1>2, <1>4, <1>5

\* A run ends with a row that is not complete, or with all stages stored.
LEMMA AloneFinish ==
  ASSUME OneWorker, AloneInv, NEW w \in Workers, worker[w].pc = "running",
         NEW row \in JobType, row.status \in Finished, Finish(w, row),
         row.status = "complete" => Allowed("full", Enabled) \subseteq stored[worker[w].job]
  PROVE  UntakenAtInit' /\ PolledAtInit' /\ RunFromInit' /\ CompleteMeansStored'
<1>1. /\ worker[w].job \in Jobs /\ stored' = stored
      /\ job'[worker[w].job] = row
      /\ \A i \in Jobs \ {worker[w].job} : job'[i] = job[i]
  BY DEF AloneInv, TypeOK, Finish
<1>2. \A v \in Workers : worker'[v].pc = "idle"
  BY DEF OneWorker, AloneInv, TypeOK, Finish, Idle
<1>3. UntakenAtInit' /\ CompleteMeansStored'
  BY <1>1 DEF AloneInv, UntakenAtInit, CompleteMeansStored, Finished
<1> QED
  BY <1>2, <1>3 DEF PolledAtInit, RunFromInit

\* The steps of the worker.
LEMMA AloneWorker ==
  ASSUME OneWorker, AloneInv, NEW w \in Workers, Work(w) \/ FailRun(w) \/ BreakDown(w)
  PROVE  UntakenAtInit' /\ PolledAtInit' /\ RunFromInit' /\ CompleteMeansStored'
<1> USE DEF AloneInv
<1>1. ASSUME NEW j \in Jobs, Poll(w, j)
      PROVE  UntakenAtInit' /\ PolledAtInit' /\ RunFromInit' /\ CompleteMeansStored'
  <2>1. /\ UNCHANGED <<job, stored>> /\ job[j].status = "pending"
        /\ worker'[w].pc = "polled" /\ worker'[w].job = j /\ worker'[w].ended = {}
    BY <1>1 DEF Poll, TypeOK, Idle
  <2>2. UntakenAtInit' /\ CompleteMeansStored'
    BY <2>1 DEF UntakenAtInit, CompleteMeansStored
  <2> QED
    BY <2>1, <2>2 DEF OneWorker, UntakenAtInit, PolledAtInit, RunFromInit
<1>2. CASE StartRun(w)
  <2> DEFINE j == worker[w].job
  <2>1. /\ j \in Jobs /\ stored' = stored
        /\ job'[j].status = "running" /\ job'[j].step = job[j].step
        /\ \A i \in Jobs \ {j} : job'[i] = job[i]
    BY <1>2 DEF StartRun, TypeOK, JobType
  <2>2. /\ worker'[w].pc = "running" /\ worker'[w].job = j
        /\ worker'[w].initial = job[j].step /\ worker'[w].ended = worker[w].ended
    BY <1>2 DEF StartRun, TypeOK, WorkerType
  <2>3. job[j].step \in {"init", "aborted"} /\ worker[w].ended = {}
    BY <1>2 DEF StartRun, PolledAtInit
  <2>4. UntakenAtInit' /\ CompleteMeansStored'
    BY <2>1 DEF UntakenAtInit, CompleteMeansStored
  <2> QED
    BY <2>1, <2>2, <2>3, <2>4 DEF OneWorker, PolledAtInit, RunFromInit
<1>3. ASSUME NEW s \in Steps, BeginStage(w, s)
      PROVE  UntakenAtInit' /\ PolledAtInit' /\ RunFromInit' /\ CompleteMeansStored'
  <2> DEFINE j == worker[w].job
  <2>1. /\ j \in Jobs /\ stored' = stored
        /\ job'[j].status = job[j].status
        /\ \A i \in Jobs \ {j} : job'[i] = job[i]
    BY <1>3 DEF BeginStage, TypeOK, JobType
  <2>2. /\ worker[w].pc = "running" /\ worker'[w].pc = "running" /\ worker'[w].job = j
        /\ worker'[w].initial = worker[w].initial /\ worker'[w].ended = worker[w].ended
    BY <1>3 DEF BeginStage, TypeOK, WorkerType
  <2>3. job[j].status \in {"running", "cancelled"}
    BY <2>2 DEF RunFromInit
  <2>4. UntakenAtInit' /\ CompleteMeansStored'
    BY <2>1, <2>3 DEF UntakenAtInit, CompleteMeansStored
  <2> QED
    BY <2>1, <2>2, <2>4 DEF OneWorker, PolledAtInit, RunFromInit
<1>4. ASSUME NEW s \in Steps, EndStage(w, s)
      PROVE  UntakenAtInit' /\ PolledAtInit' /\ RunFromInit' /\ CompleteMeansStored'
  <2> DEFINE j == worker[w].job
  <2>1. /\ j \in Jobs /\ job' = job /\ stored'[j] = stored[j] \cup {s}
        /\ \A i \in Jobs : stored[i] \subseteq stored'[i]
    BY <1>4 DEF EndStage, TypeOK
  <2>2. /\ worker[w].pc = "running" /\ worker'[w].pc = "running" /\ worker'[w].job = j
        /\ worker'[w].initial = worker[w].initial
        /\ worker'[w].ended = worker[w].ended \cup {s}
    BY <1>4 DEF EndStage, TypeOK, WorkerType
  <2>3. UntakenAtInit' /\ CompleteMeansStored'
    BY <2>1 DEF UntakenAtInit, CompleteMeansStored
  <2> QED
    BY <2>1, <2>2, <2>3 DEF OneWorker, PolledAtInit, RunFromInit
<1>5. CASE CompleteRun(w)
  <2>1. worker[w].initial \in {"init", "aborted"}
        /\ worker[w].ended \subseteq stored[worker[w].job]
    BY <1>5 DEF CompleteRun, RunFromInit
  <2>2. ASSUME NEW s \in Allowed("full", Enabled) PROVE s \in worker[w].ended
    BY <1>5, <2>1, StagesAreSteps, NothingSkipped DEF CompleteRun, Runs
  <2> QED
    BY <1>5, <2>1, <2>2, AloneFinish DEF CompleteRun, JobType, Status, CurrentStep, Finished
<1>6. CASE AbortRun(w)
  BY <1>6, AloneFinish DEF AbortRun, JobType, Status, CurrentStep, Finished
<1>7. CASE FailRun(w)
  <2>1. [status |-> "failed", step |-> job[worker[w].job].step] \in JobType
    BY <1>7 DEF FailRun, TypeOK, JobType, Status
  <2> QED
    BY <1>7, <2>1, AloneFinish DEF FailRun, Finished
<1>8. CASE BreakDown(w)
  <2>1. UNCHANGED <<job, stored>> /\ \A v \in Workers : worker'[v].pc = "idle"
    BY <1>8 DEF OneWorker, BreakDown, TypeOK, Idle
  <2> QED
    BY <2>1 DEF UntakenAtInit, PolledAtInit, RunFromInit, CompleteMeansStored
<1> QED
  BY <1>1, <1>2, <1>3, <1>4, <1>5, <1>6, <1>7, <1>8 DEF Work

LEMMA AloneInvariant ==
  ASSUME OneWorker
  PROVE  Spec => []AloneInv
<1>1. Init => AloneInv
  BY TypeInit DEF Init, AloneInv, UntakenAtInit, PolledAtInit, RunFromInit,
                  CompleteMeansStored, Idle
<1>2. AloneInv /\ [Next]_vars /\ TypeOK' => AloneInv'
  <2> SUFFICES ASSUME AloneInv, [Next]_vars, TypeOK'
               PROVE  UntakenAtInit' /\ PolledAtInit' /\ RunFromInit' /\ CompleteMeansStored'
    BY DEF AloneInv
  <2>1. CASE UNCHANGED vars
    BY <2>1 DEF AloneInv, UntakenAtInit, PolledAtInit, RunFromInit, CompleteMeansStored, vars
  <2>2. CASE Next
    BY <2>2, AloneAPI, AloneWorker DEF Next
  <2> QED
    BY <2>1, <2>2
<1> QED
  BY <1>1, <1>2, TypeCorrect, PTL DEF Spec

\* With one worker, a complete job has the results of all its stages stored.
THEOREM CompleteMeansStoredAlone ==
  ASSUME OneWorker
  PROVE  Spec => []CompleteMeansStored
<1>1. AloneInv => CompleteMeansStored
  BY DEF AloneInv
<1> QED
  BY <1>1, AloneInvariant, PTL

\* With one worker, nothing but an abort that had read it touches a complete
\* job: the worker is never at a job that is complete.
THEOREM CompleteIsFinalAlone ==
  ASSUME OneWorker
  PROVE  Spec => CompleteIsFinal
<1> DEFINE Final == \A j \in Jobs : job[j].status = "complete" /\ request[j] = "idle"
                                    => job'[j] = job[j]
<1>1. AloneInv /\ [Next]_vars => [Final]_vars
  <2> SUFFICES ASSUME AloneInv, [Next]_vars, NEW j \in Jobs,
                      job[j].status = "complete", request[j] = "idle"
               PROVE  job'[j] = job[j]
    OBVIOUS
  <2>1. CASE UNCHANGED vars
    BY <2>1 DEF vars
  <2>2. ASSUME NEW i \in Jobs, CreateJob(i) \/ AbortRequest(i) \/ AbortWrite(i)
        PROVE  job'[j] = job[j]
    BY <2>2 DEF AloneInv, TypeOK, CreateJob, AbortRequest, AbortWrite
  <2>3. ASSUME NEW w \in Workers, Work(w) \/ FailRun(w) \/ BreakDown(w)
        PROVE  job'[j] = job[j]
    <3>1. worker[w].pc \in {"polled", "running"} => worker[w].job # j
      BY DEF AloneInv, PolledAtInit, RunFromInit
    <3> QED
      BY <2>3, <3>1 DEF AloneInv, TypeOK, Work, Poll, StartRun, BeginStage, EndStage,
                        CompleteRun, AbortRun, FailRun, BreakDown, Finish
  <2> QED
    BY <2>1, <2>2, <2>3 DEF Next
<1> QED
  BY <1>1, AloneInvariant, PTL DEF Spec, CompleteIsFinal
=============================================================================
