------------------------------ MODULE JobQueue ------------------------------
(***************************************************************************)
(* The scan jobs of the database, the API that creates and aborts them,    *)
(* and the worker processes that take them from it (worker.py, storage/    *)
(* db.py, api/routes.py).  The deployment runs several workers on the same *)
(* table; each polls for the oldest pending job and runs it, in steps of   *)
(* its own, before it polls again.                                         *)
(*                                                                         *)
(* A run is seen from the outside here: which stages it has begun and      *)
(* ended, in the order ScanPipeline gives in detail.  Every job asks for   *)
(* the same list of stages.                                                *)
(***************************************************************************)
EXTENDS StageGate

CONSTANTS
  N,          \* how many jobs there are: job j is the j-th by created_at
  Workers,    \* the worker processes
  Enabled,    \* the enabled_stages of the jobs
  MaxFaults   \* how often a worker process, or a handler of it, breaks down

ASSUME JobQueueAssumption ==
  /\ N \in Nat
  /\ MaxFaults \in Nat
  /\ Enabled \subseteq Steps
  /\ Enabled # {}

VARIABLES
  job,       \* job[j]: the row of job j: status and current_step
  stored,    \* stored[j]: the stages whose results are in the database
  request,   \* request[j]: "read" while an abort of j has read a live job
  worker,    \* worker[w]: what worker process w is at
  started,   \* the pairs <<w, j>> such that w has started a run of j
  stranded,  \* the jobs a run of which broke down without a word
  faults     \* the number of break-downs so far

vars == <<job, stored, request, worker, started, stranded, faults>>

-----------------------------------------------------------------------------
Jobs == 1..N

Status == {"none", "pending", "running", "complete", "failed", "cancelled"}
Finished == {"complete", "failed", "cancelled"}
CurrentStep == Steps \cup {"init", "aborted", "completed"}

JobType == [status : Status, step : CurrentStep]

\* pc "polled": the row has been read, and nothing has been written to it;
\* "running": execute_pipeline_dag_async has taken the job over.
WorkerType ==
  [pc : {"idle", "polled", "running"}, job : Jobs \cup {0}, initial : CurrentStep,
   begun : SUBSET Steps, ended : SUBSET Steps]

Idle == [pc |-> "idle", job |-> 0, initial |-> "init", begun |-> {}, ended |-> {}]

Init ==
  /\ job = [j \in Jobs |-> [status |-> "none", step |-> "init"]]
  /\ stored = [j \in Jobs |-> {}]
  /\ request = [j \in Jobs |-> "idle"]
  /\ worker = [w \in Workers |-> Idle]
  /\ started = {}
  /\ stranded = {}
  /\ faults = 0

-----------------------------------------------------------------------------
(* The API.                                                                *)

\* create_scan_job.  The rows become visible in the order of their commits,
\* which need not be that of created_at.
CreateJob(j) ==
  /\ job[j].status = "none"
  /\ job' = [job EXCEPT ![j] = [status |-> "pending", step |-> "init"]]
  /\ UNCHANGED <<stored, request, worker, started, stranded, faults>>

\* endpoint_abort_scan reads the job, and leaves one that is over alone ...
AbortRequest(j) ==
  /\ request[j] = "idle"
  /\ job[j].status \in {"pending", "running"}
  /\ request' = [request EXCEPT ![j] = "read"]
  /\ UNCHANGED <<job, stored, worker, started, stranded, faults>>

\* A mutant: the row is given the other word the code has for a cancelled job.
AbortWrite_OtherWord(j) ==
  /\ request[j] = "read"
  /\ request' = [request EXCEPT ![j] = "idle"]
  /\ job' = [job EXCEPT ![j] = [status |-> "aborted", step |-> "aborted"]]
  /\ UNCHANGED <<stored, worker, started, stranded, faults>>

\* ... and then cancels it, whatever has become of it.
AbortWrite(j) ==
  /\ request[j] = "read"
  /\ request' = [request EXCEPT ![j] = "idle"]
  /\ job' = [job EXCEPT ![j] = [status |-> "cancelled", step |-> "aborted"]]
  /\ UNCHANGED <<stored, worker, started, stranded, faults>>

-----------------------------------------------------------------------------
(* The worker processes.                                                   *)

\* Two mutants: a worker takes every job that nobody runs, or waits for the
\* older jobs to be over.
Poll_NotRunning(w, j) ==
  /\ worker[w].pc = "idle"
  /\ job[j].status \in {"pending", "complete"}
  /\ worker' = [worker EXCEPT ![w] = [Idle EXCEPT !.pc = "polled", !.job = j]]
  /\ UNCHANGED <<job, stored, request, started, stranded, faults>>

Poll_InOrder(w, j) ==
  /\ worker[w].pc = "idle"
  /\ job[j].status = "pending"
  /\ \A i \in Jobs : i < j => job[i].status \notin {"pending", "running"}
  /\ worker' = [worker EXCEPT ![w] = [Idle EXCEPT !.pc = "polled", !.job = j]]
  /\ UNCHANGED <<job, stored, request, started, stranded, faults>>

\* poll_and_process_jobs: the oldest pending job is read, not claimed.
Poll(w, j) ==
  /\ worker[w].pc = "idle"
  /\ job[j].status = "pending"
  /\ \A i \in Jobs : i < j => job[i].status # "pending"
  /\ worker' = [worker EXCEPT ![w] = [Idle EXCEPT !.pc = "polled", !.job = j]]
  /\ UNCHANGED <<job, stored, request, started, stranded, faults>>

\* A mutant: the new status is not committed.
StartRun_NotMarked(w) ==
  LET j == worker[w].job
  IN  /\ worker[w].pc = "polled"
      /\ worker' = [worker EXCEPT ![w].pc = "running", ![w].initial = job[j].step]
      /\ started' = started \cup {<<w, j>>}
      /\ UNCHANGED <<job, stored, request, stranded, faults>>

\* execute_pipeline_dag_async looks for the job by its id alone, and sets it
\* to running; the checkpoint it finds is where this run begins.
StartRun(w) ==
  LET j == worker[w].job
  IN  /\ worker[w].pc = "polled"
      /\ job' = [job EXCEPT ![j].status = "running"]
      /\ worker' = [worker EXCEPT ![w].pc = "running", ![w].initial = job[j].step]
      /\ started' = started \cup {<<w, j>>}
      /\ UNCHANGED <<stored, request, stranded, faults>>

\* Does the run of w execute step s, or skip it?
Runs(w, s) == ShouldRunStep(worker[w].initial, s, "full", Enabled)

\* Step s checkpoints: every step of the run before it has ended by now.
BeginStage(w, s) ==
  LET j == worker[w].job
  IN  /\ worker[w].pc = "running"
      /\ Runs(w, s)
      /\ s \notin worker[w].begun
      /\ \A d \in Upstream(s) : Runs(w, d) => d \in worker[w].ended
      /\ job[j].status # "cancelled"
      /\ job' = [job EXCEPT ![j].step = s]
      /\ worker' = [worker EXCEPT ![w].begun = @ \cup {s}]
      /\ UNCHANGED <<stored, request, started, stranded, faults>>

\* Step s stores its results and ends.
EndStage(w, s) ==
  /\ worker[w].pc = "running"
  /\ s \in worker[w].begun \ worker[w].ended
  /\ worker' = [worker EXCEPT ![w].ended = @ \cup {s}]
  /\ stored' = [stored EXCEPT ![worker[w].job] = @ \cup {s}]
  /\ UNCHANGED <<job, request, started, stranded, faults>>

\* The last write of a run; the worker polls again afterwards.
Finish(w, row) ==
  /\ job' = [job EXCEPT ![worker[w].job] = row]
  /\ worker' = [worker EXCEPT ![w] = Idle]
  /\ UNCHANGED <<stored, request, started, stranded, faults>>

\* A mutant: the last stage is submitted, and not awaited.
CompleteRun_NotAwaited(w) ==
  /\ worker[w].pc = "running"
  /\ \A s \in Steps : Runs(w, s) => s \in worker[w].begun
  /\ Finish(w, [status |-> "complete", step |-> "completed"])

\* All the stages of the run are over.
CompleteRun(w) ==
  /\ worker[w].pc = "running"
  /\ \A s \in Steps : Runs(w, s) => s \in worker[w].ended
  /\ Finish(w, [status |-> "complete", step |-> "completed"])

\* The run notices that its job has been cancelled.
AbortRun(w) ==
  /\ worker[w].pc = "running"
  /\ job[worker[w].job].status = "cancelled"
  /\ Finish(w, [status |-> "cancelled", step |-> "aborted"])

\* A mutant: the exception is logged, and the row forgotten.
FailRun_Silent(w) ==
  /\ worker[w].pc = "running"
  /\ worker[w].begun # worker[w].ended
  /\ worker' = [worker EXCEPT ![w] = Idle]
  /\ UNCHANGED <<job, stored, request, started, stranded, faults>>

\* A stage under way raises: the job is failed, its checkpoint stays.
FailRun(w) ==
  /\ worker[w].pc = "running"
  /\ worker[w].begun # worker[w].ended
  /\ Finish(w, [status |-> "failed", step |-> job[worker[w].job].step])

\* The process dies and is restarted, or an exception of a database session
\* that nothing in the run catches ends in the poll loop.  Either way nobody
\* writes to the job, and the worker polls again.
BreakDown(w) ==
  /\ faults < MaxFaults
  /\ worker[w].pc # "idle"
  /\ faults' = faults + 1
  /\ stranded' = IF worker[w].pc = "running"
                 THEN stranded \cup {worker[w].job} ELSE stranded
  /\ worker' = [worker EXCEPT ![w] = Idle]
  /\ UNCHANGED <<job, stored, request, started>>

-----------------------------------------------------------------------------
\* The steps of a worker that nothing outside it brings about.
Work(w) ==
  \/ \E j \in Jobs : Poll(w, j)
  \/ StartRun(w)
  \/ \E s \in Steps : BeginStage(w, s) \/ EndStage(w, s)
  \/ CompleteRun(w)
  \/ AbortRun(w)

Next ==
  \/ \E j \in Jobs : CreateJob(j) \/ AbortRequest(j) \/ AbortWrite(j)
  \/ \E w \in Workers : Work(w) \/ FailRun(w) \/ BreakDown(w)

Spec == Init /\ [][Next]_vars

\* Every worker keeps polling and working; nothing makes a stage fail, or a
\* client create or abort a job.
FairSpec == Spec /\ \A w \in Workers : WF_vars(Work(w))

-----------------------------------------------------------------------------
(* Safety.                                                                 *)

\* Every variable stays in its type, and a worker that is busy has a job.
TypeOK ==
  /\ job \in [Jobs -> JobType]
  /\ stored \in [Jobs -> SUBSET Steps]
  /\ request \in [Jobs -> {"idle", "read"}]
  /\ worker \in [Workers -> WorkerType]
  /\ \A w \in Workers : worker[w].pc # "idle" => worker[w].job \in Jobs
  /\ started \subseteq Workers \X Jobs
  /\ stranded \subseteq Jobs
  /\ faults \in 0..MaxFaults

\* A job that is marked running is being run by some worker, unless a run of
\* it broke down: neither an abort, nor a second worker on the same job, nor
\* the end of another run leaves a job in "running" with nobody on it.
RunningHasOwner ==
  \A j \in Jobs :
    job[j].status = "running" /\ j \notin stranded
      => \E w \in Workers : worker[w].pc = "running" /\ worker[w].job = j

\* No worker starts the same job twice, however the aborts, break-downs and
\* the other workers interleave: what a job costs is bounded by their number.
StartsOnce ==
  \A w \in Workers : worker[w].pc = "polled" => <<w, worker[w].job>> \notin started

\* A job marked complete has the results of all its stages in the database:
\* README, "Interrupted scans resume automatically from the last completed
\* stage", so that nothing is left out between two runs of a job.
CompleteMeansStored ==
  \A j \in Jobs :
    job[j].status = "complete" => Allowed("full", Enabled) \subseteq stored[j]

\* A job that is complete is not worked on any more: its row changes only by
\* an abort that had read it before.
CompleteIsFinal ==
  [][\A j \in Jobs : job[j].status = "complete" /\ request[j] = "idle"
                       => job'[j] = job[j]]_vars

-----------------------------------------------------------------------------
(* Liveness, under FairSpec.                                               *)

\* Every pending job is taken in the end, or aborted, though the workers
\* break down now and then and prefer older jobs that are created later.
PendingIsTaken ==
  \A j \in Jobs : job[j].status = "pending" ~> job[j].status # "pending"

\* A job that is running ends: if its worker is interrupted, another run of
\* it resumes from the checkpoint.
RunningEnds ==
  \A j \in Jobs : job[j].status = "running" ~> job[j].status \in Finished
=============================================================================
