---------------------------- MODULE ScanPipeline ----------------------------
(***************************************************************************)
(* One worker process running one scan job (worker.py), beside an operator *)
(* who may abort the job through the API at any time.                      *)
(*                                                                         *)
(* The processes, each with its own steps:                                 *)
(*   main      the coroutine execute_pipeline_dag_async                    *)
(*   branch    the two coroutines it spawns, run_nuclei_branch and         *)
(*             run_cve_branch                                              *)
(*   monitor   the task _abort_monitor, which copies a cancellation in the *)
(*             database into the in-memory abort event                     *)
(*   fut       the pool threads, one for each submitted pipeline step      *)
(*   request   the handler of POST /scan/{job_id}/abort                    *)
(* They share the row of the job and the findings in the database, and the *)
(* threads of the run share the in-memory context.                         *)
(*                                                                         *)
(* Findings and context fields are reduced to the names of what has been   *)
(* written: "nuclei" in ctx says that the vulns list of the context holds  *)
(* what step 6 found, "nuclei" in db that a stored finding does.           *)
(***************************************************************************)
EXTENDS StageGate, FiniteSets

CONSTANTS
  Scans,       \* the scan requests tried: records [mode, stages, directIp]
  StartSteps,  \* the values of current_step a run may start from
  Fallible,    \* the steps whose body may raise an exception
  DbFaults     \* may the reads and writes whose errors are swallowed fail?

VARIABLES
  row,      \* the row of the job: status, current_step, completed_at set?
  db,       \* what the findings and reports stored for the job hold
  request,  \* "idle", or "read": the abort handler has read a live job
  scan,     \* the request the run serves, with its effective mode
  initial,  \* context["initial_step"]
  ctx,      \* what the shared context holds
  copied,   \* the vulnerabilities step 7 has copied from the context
  triaged,  \* what the triage of step 9 is based on
  event,    \* the abort event
  main,     \* where execute_pipeline_dag_async is
  branch,   \* where each of the two branch coroutines is
  fut       \* fut[s]: how far the future of step s is

rowVars == <<row, db>>
runVars == <<scan, initial, event, main, branch>>
vars == <<row, db, request, scan, initial, ctx, copied, triaged, event, main, branch, fut>>

-----------------------------------------------------------------------------
Status == {"pending", "running", "complete", "failed", "cancelled"}
Finished == {"complete", "failed", "cancelled"}

\* What the steps leave in the context and in the database.
Vulns == {"nuclei", "cve"}
Items == {"company_info", "subdomains", "ip_resolutions", "ports", "fingerprints",
          "technologies", "people", "exposures", "triage", "report"} \cup Vulns

\* A future that is not done, in the terms of fut.done().
Live == {"queued", "gated", "working", "written"}
FutState == {"idle", "done", "failed", "aborted", "dropped"} \cup Live

Branches == {"nuclei", "cve"}
BranchState == {"off", "gate", "probe", "done", "failed", "aborted", "cancelled"}

Ended == {"complete", "cancelled", "failed"}
MainState == {"polled", "phase1", "wait2", "wait3", "barrier", "wait9", "wait10",
              "aborting", "failing"} \cup Ended
Running == MainState \ (Ended \cup {"polled"})

\* Where the main coroutine sleeps, and so lets the other coroutines run.
Waiting == {"wait2", "wait3", "barrier", "wait9", "wait10"}

\* The declared scan modes, and one that is not.
Modes == {"full", "vm_audit", "infra_vuln", "people_only", "fast_recon", "other"}

ScanType == [mode : Modes, stages : SUBSET Steps, directIp : BOOLEAN]
RowType == [status : Status, step : Steps \cup {"init", "aborted", "completed"},
            completed : BOOLEAN]

ASSUME PipelineAssumption ==
  /\ Scans \subseteq ScanType
  /\ StartSteps \subseteq Steps \cup {"init"}
  /\ Fallible \subseteq Steps
  /\ DbFaults \in BOOLEAN

-----------------------------------------------------------------------------
(* What each step of the pipeline writes to the context, and what it stores *)
(* in the database.                                                        *)
DataFlow(writes, stores) == [writes |-> writes, stores |-> stores]

step_1_company_resolve == DataFlow({"company_info"}, {"company_info"})

step_2_subdomains == DataFlow({"subdomains"}, {"subdomains"})

step_3_ip_resolve == DataFlow({"ip_resolutions"}, {"ip_resolutions"})

step_4_ports == DataFlow({"ports"}, {"ports"})

step_5_fingerprint == DataFlow({"fingerprints", "technologies"}, {"fingerprints"})

\* Step 6 stores nothing: its findings go into the vulns list of the context.
step_6_nuclei == DataFlow({"nuclei"}, {})

step_7_cve == DataFlow({"cve"}, {"cve"})

\* The people are written and stored before the exposures are looked for.
step_8_people == DataFlow({"people", "exposures"}, {"people", "exposures"})

step_9_ai_triage == DataFlow({"triage"}, {})

step_10_report == DataFlow({"report"}, {"report"})

Flow ==
  [ s \in Steps |->
      CASE s = "1.company_resolve" -> step_1_company_resolve
        [] s = "2.subdomains"      -> step_2_subdomains
        [] s = "3.ip_resolve"      -> step_3_ip_resolve
        [] s = "4.ports"           -> step_4_ports
        [] s = "5.fingerprint"     -> step_5_fingerprint
        [] s = "6.nuclei_match"    -> step_6_nuclei
        [] s = "7.cve_lookup"      -> step_7_cve
        [] s = "8.people_osint"    -> step_8_people
        [] s = "9.ai_triage"       -> step_9_ai_triage
        [] s = "10.report_writer"  -> step_10_report ]

-----------------------------------------------------------------------------
\* The worker has picked the job: it was pending, or, at a checkpoint k of
\* StartSteps, another worker had picked it too and crashed that far ahead.
Init ==
  /\ scan \in Scans
  /\ \E k \in StartSteps :
       /\ k \in Allowed(scan.mode, scan.stages) \cup {"init"}
       /\ row = [status |-> IF k = "init" THEN "pending" ELSE "running",
                 step |-> k, completed |-> FALSE]
       /\ db = UNION { Flow[s].stores :
                        s \in Upstream(k) \cap Allowed(scan.mode, scan.stages) }
  /\ request = "idle"
  /\ initial = "init"
  /\ ctx = {}
  /\ copied = {}
  /\ triaged = {}
  /\ event = FALSE
  /\ main = "polled"
  /\ branch = [b \in Branches |-> "off"]
  /\ fut = [s \in Steps |-> "idle"]

-----------------------------------------------------------------------------
(* The database row and the abort endpoint.                                *)

\* A mutant: the row is given the other word the code has for a cancelled job.
UpdateScanJob_OtherWord(status, step) ==
  row' = [status |-> IF status = "cancelled" THEN "aborted" ELSE status, step |-> step,
          completed |-> row.completed \/ status \in {"complete", "cancelled"}]

\* update_scan_job: every given field is written, whatever the row says.
UpdateScanJob(status, step) ==
  row' = [status |-> status, step |-> step,
          completed |-> row.completed \/ status \in {"complete", "cancelled"}]

\* endpoint_abort_scan reads the job, and answers at once if it is over ...
AbortRequest ==
  /\ request = "idle"
  /\ row.status \notin Finished
  /\ request' = "read"
  /\ UNCHANGED <<row, db, scan, initial, ctx, copied, triaged, event, main, branch, fut>>

\* ... and otherwise cancels it, without looking again.
AbortWrite ==
  /\ request = "read"
  /\ UpdateScanJob("cancelled", "aborted")
  /\ request' = "idle"
  /\ UNCHANGED <<db, scan, initial, ctx, copied, triaged, event, main, branch, fut>>

-----------------------------------------------------------------------------
(* Cancellation, as the coroutines see it.                                 *)

\* _check_if_aborted(tenant, job, context) raises, or returns.  An error of
\* the database is swallowed, and counts as "not aborted".
CheckRaises == event \/ row.status = "cancelled"
CheckPasses == ~event /\ (row.status # "cancelled" \/ DbFaults)

\* A mutant: the monitor looks for a status that nobody writes.
AbortMonitor_OtherWord ==
  /\ main \in Waiting
  /\ ~event
  /\ row.status = "aborted"
  /\ event' = TRUE
  /\ UNCHANGED <<row, db, request, scan, initial, ctx, copied, triaged, main, branch, fut>>

\* One successful poll of _abort_monitor.
AbortMonitor ==
  /\ main \in Waiting
  /\ ~event
  /\ row.status = "cancelled"
  /\ event' = TRUE
  /\ UNCHANGED <<row, db, request, scan, initial, ctx, copied, triaged, main, branch, fut>>

\* fut.cancel() stops only a future whose thread has not started.
Cancelled(S) ==
  [s \in Steps |-> IF s \in S /\ fut[s] = "queued" THEN "dropped" ELSE fut[s]]

\* executor.submit
Launched(S) == [s \in Steps |-> IF s \in S THEN "queued" ELSE fut[s]]

-----------------------------------------------------------------------------
(* The pool threads: the common prologue of the ten steps.                 *)

\* A mutant: a step that meets a cancelled job returns instead of raising.
Begin_Returns(s) ==
  /\ fut[s] = "queued"
  /\ \/ /\ \/ ~ShouldRunStep(initial, s, scan.mode, scan.stages)
           \/ row.status = "cancelled"
        /\ fut' = [fut EXCEPT ![s] = "done"]
     \/ /\ ShouldRunStep(initial, s, scan.mode, scan.stages)
        /\ row.status # "cancelled" \/ DbFaults
        /\ fut' = [fut EXCEPT ![s] = "gated"]
  /\ UNCHANGED <<row, db, request, ctx, copied, triaged>>
  /\ UNCHANGED runVars

\* The step is skipped, or asks the database whether the job was cancelled.
\* The steps call _checkpoint_step without the context: the event is not
\* consulted here.
Begin(s) ==
  /\ fut[s] = "queued"
  /\ \/ /\ ~ShouldRunStep(initial, s, scan.mode, scan.stages)
        /\ fut' = [fut EXCEPT ![s] = "done"]
     \/ /\ ShouldRunStep(initial, s, scan.mode, scan.stages)
        /\ row.status = "cancelled"
        /\ fut' = [fut EXCEPT ![s] = "aborted"]
     \/ /\ ShouldRunStep(initial, s, scan.mode, scan.stages)
        /\ row.status # "cancelled" \/ DbFaults
        /\ fut' = [fut EXCEPT ![s] = "gated"]
  /\ UNCHANGED <<row, db, request, ctx, copied, triaged>>
  /\ UNCHANGED runVars

\* The second half of _checkpoint_step writes current_step in a session of
\* its own, some time after the check; step 7 then copies the vulns list.
Checkpoint(s) ==
  /\ fut[s] = "gated"
  /\ \/ row' = [row EXCEPT !.step = s]
     \/ DbFaults /\ UNCHANGED row
  /\ copied' = IF s = "7.cve_lookup" THEN ctx \cap Vulns ELSE copied
  /\ fut' = [fut EXCEPT ![s] = "working"]
  /\ UNCHANGED <<db, request, ctx, triaged>>
  /\ UNCHANGED runVars

\* What the context holds after step s has computed.  Step 7 replaces the
\* vulns list by the enrichment of its copy; the others add to the context.
AfterCompute(s) ==
  IF s = "7.cve_lookup"
  THEN (ctx \ Vulns) \cup copied \cup Flow[s].writes
  ELSE ctx \cup Flow[s].writes

\* The body computes, and writes its results to the context under the lock.
\* Steps 6 and 9 are over then; step 8 stores the people at once.
Compute(s) ==
  /\ fut[s] = "working"
  /\ ctx' = IF s = "8.people_osint" THEN ctx \cup {"people"} ELSE AfterCompute(s)
  /\ db' = IF s = "8.people_osint" THEN db \cup {"people"} ELSE db
  /\ triaged' = IF s = "9.ai_triage" THEN ctx ELSE triaged
  /\ fut' = [fut EXCEPT ![s] = IF Flow[s].stores = {} THEN "done" ELSE "written"]
  /\ UNCHANGED <<row, request, copied>>
  /\ UNCHANGED runVars

\* A mutant: the exposures go to the database alone.
Store_ContextForgotten(s) ==
  /\ fut[s] = "written"
  /\ db' = db \cup Flow[s].stores \cup IF s = "7.cve_lookup" THEN ctx \cap Vulns ELSE {}
  /\ fut' = [fut EXCEPT ![s] = "done"]
  /\ UNCHANGED <<row, request, ctx, copied, triaged>>
  /\ UNCHANGED runVars

\* The step stores its results.  The list step 7 stores is the one it has
\* put in the context, with whatever step 6 has appended to it since.
Store(s) ==
  /\ fut[s] = "written"
  /\ ctx' = ctx \cup IF s = "8.people_osint" THEN {"exposures"} ELSE {}
  /\ db' = db \cup Flow[s].stores \cup IF s = "7.cve_lookup" THEN ctx \cap Vulns ELSE {}
  /\ fut' = [fut EXCEPT ![s] = "done"]
  /\ UNCHANGED <<row, request, copied, triaged>>
  /\ UNCHANGED runVars

\* An exception leaves the body before, or after, the context is written.
FailStep(s) ==
  /\ s \in Fallible
  /\ fut[s] \in {"working", "written"}
  /\ fut' = [fut EXCEPT ![s] = "failed"]
  /\ UNCHANGED <<row, db, request, ctx, copied, triaged>>
  /\ UNCHANGED runVars

StepThread(s) == Begin(s) \/ Checkpoint(s) \/ Compute(s) \/ Store(s) \/ FailStep(s)

-----------------------------------------------------------------------------
(* The main coroutine.                                                     *)

\* What a stored finding puts back into the context of a later run.
Restorable == {"company_info", "subdomains", "ip_resolutions", "ports",
               "fingerprints", "people"} \cup Vulns

\* The run takes the job over: the status becomes "running" whatever it was.
StartRun ==
  /\ main = "polled"
  /\ UpdateScanJob("running", row.step)
  /\ initial' = row.step
  /\ scan' = [scan EXCEPT !.mode = EffectiveMode(scan.directIp, scan.mode, scan.stages)]
  /\ ctx' = db \cap Restorable
  /\ main' = "phase1"
  /\ UNCHANGED <<db, request, copied, triaged, event, branch, fut>>

\* Every phase but the last begins with _check_if_aborted, and then submits
\* its steps without giving up control.
Phase(next, launch, spawned) ==
  /\ \/ /\ CheckRaises
        /\ event' = TRUE
        /\ main' = "aborting"
        /\ UNCHANGED <<branch, fut>>
     \/ /\ CheckPasses
        /\ main' = next
        /\ fut' = Launched(launch)
        /\ branch' = [b \in Branches |-> IF b \in spawned THEN "gate" ELSE branch[b]]
        /\ UNCHANGED event
  /\ UNCHANGED <<row, db, request, scan, initial, ctx, copied, triaged>>

\* Phase 1: company profile, subdomains and people at the same time.
LaunchPhase1 ==
  /\ main = "phase1"
  /\ Phase("wait2", {"1.company_resolve", "2.subdomains", "8.people_osint"}, {})

\* Phase 2: the hosts are resolved when the subdomains are known.
LaunchIpResolve ==
  /\ main = "wait2"
  /\ fut["2.subdomains"] = "done"
  /\ Phase("wait3", {"3.ip_resolve"}, {})

\* Phase 3 and 4: ports and fingerprints, and the two branches behind them.
LaunchProbes ==
  /\ main = "wait3"
  /\ fut["3.ip_resolve"] = "done"
  /\ Phase("barrier", {"4.ports", "5.fingerprint"}, Branches)

\* Two mutants: the barrier leaves the people, or the company profile, out.
LaunchTriage_NoPeople ==
  /\ main = "barrier"
  /\ fut["1.company_resolve"] = "done"
  /\ \A b \in Branches : branch[b] = "done"
  /\ Phase("wait9", {"9.ai_triage"}, {})

LaunchTriage_NoCompany ==
  /\ main = "barrier"
  /\ fut["8.people_osint"] = "done"
  /\ \A b \in Branches : branch[b] = "done"
  /\ Phase("wait9", {"9.ai_triage"}, {})

\* Phase 5, the barrier: company profile, people and both branches are over.
LaunchTriage ==
  /\ main = "barrier"
  /\ fut["1.company_resolve"] = "done"
  /\ fut["8.people_osint"] = "done"
  /\ \A b \in Branches : branch[b] = "done"
  /\ Phase("wait9", {"9.ai_triage"}, {})

\* Phase 6: the report is written when the findings have been triaged.
LaunchReport ==
  /\ main = "wait9"
  /\ fut["9.ai_triage"] = "done"
  /\ Phase("wait10", {"10.report_writer"}, {})

\* The step a _wait_single of the main coroutine waits for.
WaitsFor ==
  [ wait2 |-> "2.subdomains", wait3 |-> "3.ip_resolve", wait9 |-> "9.ai_triage",
    wait10 |-> "10.report_writer" ]

\* How a coroutine goes on when what it awaits has raised.
Handler(raised) == IF raised = "failed" THEN "failing" ELSE "aborting"

\* _wait_single looks at the future first: its exception is raised ...
WaitRaises ==
  /\ main \in DOMAIN WaitsFor
  /\ fut[WaitsFor[main]] \in {"failed", "aborted"}
  /\ main' = Handler(fut[WaitsFor[main]])
  /\ UNCHANGED <<row, db, request, scan, initial, ctx, copied, triaged, event, branch, fut>>

\* ... and a set event is noticed only while the future is not done.
WaitAborts ==
  /\ main \in DOMAIN WaitsFor
  /\ event
  /\ fut[WaitsFor[main]] \in Live
  /\ fut' = Cancelled({WaitsFor[main]})
  /\ main' = "aborting"
  /\ UNCHANGED <<row, db, request, scan, initial, ctx, copied, triaged, event, branch>>

\* _wait_many looks at the event before it looks at any of its tasks ...
BarrierAborts ==
  /\ main = "barrier"
  /\ event
  /\ fut' = Cancelled({"1.company_resolve", "8.people_osint"})
  /\ main' = "aborting"
  /\ UNCHANGED <<row, db, request, scan, initial, ctx, copied, triaged, event, branch>>

\* A mutant: only an abort is passed on to whoever waits.
FirstRaised_AbortOnly(outcomes, i) ==
  /\ outcomes[i] = "aborted"
  /\ \A j \in 1..(i - 1) : outcomes[j] # "aborted"

\* ... and raises the exception of the first task, in their order, with one.
FirstRaised(outcomes, i) ==
  /\ outcomes[i] \in {"failed", "aborted"}
  /\ \A j \in 1..(i - 1) : outcomes[j] \notin {"failed", "aborted"}

BarrierOutcomes ==
  << fut["1.company_resolve"], fut["8.people_osint"], branch["nuclei"], branch["cve"] >>

BarrierRaises ==
  /\ main = "barrier"
  /\ ~event
  /\ \E i \in 1..4 : /\ FirstRaised(BarrierOutcomes, i)
                     /\ main' = Handler(BarrierOutcomes[i])
  /\ UNCHANGED <<row, db, request, scan, initial, ctx, copied, triaged, event, branch, fut>>

-----------------------------------------------------------------------------
(* The two branches, which run while the main coroutine is at the barrier. *)

\* A mutant: the CVE lookup is not held back until the ports are known.
Gate_NoPorts == [nuclei |-> {"5.fingerprint"}, cve |-> {"5.fingerprint"}]

\* The steps a branch waits for, and the step it then runs.
Gate == [nuclei |-> {"5.fingerprint"}, cve |-> {"4.ports", "5.fingerprint"}]
Probe == [nuclei |-> "6.nuclei_match", cve |-> "7.cve_lookup"]

\* The futures a branch waits for, in the order it looks at them.
Awaited(b) ==
  IF b = "cve" THEN << fut["4.ports"], fut["5.fingerprint"] >>
               ELSE << fut["5.fingerprint"] >>

\* run_cve_branch opens with _wait_many, which puts the event first.
EventFirst(b) == b = "cve"

\* The gate is passed: _check_if_aborted, then the probe is submitted.
BranchLaunch(b) ==
  /\ main = "barrier"
  /\ branch[b] = "gate"
  /\ \A s \in Gate[b] : fut[s] = "done"
  /\ \/ /\ CheckRaises
        /\ event' = TRUE
        /\ branch' = [branch EXCEPT ![b] = "aborted"]
        /\ UNCHANGED fut
     \/ /\ CheckPasses
        /\ fut' = Launched({Probe[b]})
        /\ branch' = [branch EXCEPT ![b] = "probe"]
        /\ UNCHANGED event
  /\ UNCHANGED <<row, db, request, scan, initial, ctx, copied, triaged, main>>

\* A step awaited at the gate has raised; of two, the ports come first.
GateRaises(b) ==
  /\ main = "barrier"
  /\ branch[b] = "gate"
  /\ EventFirst(b) => ~event
  /\ \E i \in DOMAIN Awaited(b) :
       /\ FirstRaised(Awaited(b), i)
       /\ branch' = [branch EXCEPT ![b] = Awaited(b)[i]]
  /\ UNCHANGED <<row, db, request, scan, initial, ctx, copied, triaged, event, main, fut>>

\* The event is noticed at the gate.  A queued step that is cancelled here
\* raises CancelledError in the other branch, which finds the event set.
GateAborts(b) ==
  /\ main = "barrier"
  /\ branch[b] = "gate"
  /\ event
  /\ ~EventFirst(b) => \A s \in Gate[b] : fut[s] \in Live \cup {"dropped"}
  /\ fut' = Cancelled(Gate[b])
  /\ branch' = [branch EXCEPT ![b] = "aborted"]
  /\ UNCHANGED <<row, db, request, scan, initial, ctx, copied, triaged, event, main>>

\* The _wait_single on the probe: its result, its exception, or the event.
BranchReturns(b) ==
  /\ main = "barrier"
  /\ branch[b] = "probe"
  /\ fut[Probe[b]] \in {"done", "failed", "aborted"}
  /\ branch' = [branch EXCEPT ![b] = fut[Probe[b]]]
  /\ UNCHANGED <<row, db, request, scan, initial, ctx, copied, triaged, event, main, fut>>

ProbeAborts(b) ==
  /\ main = "barrier"
  /\ branch[b] = "probe"
  /\ event
  /\ fut[Probe[b]] \in Live
  /\ fut' = Cancelled({Probe[b]})
  /\ branch' = [branch EXCEPT ![b] = "aborted"]
  /\ UNCHANGED <<row, db, request, scan, initial, ctx, copied, triaged, event, main>>

Branch(b) ==
  BranchLaunch(b) \/ GateRaises(b) \/ GateAborts(b) \/ BranchReturns(b) \/ ProbeAborts(b)

-----------------------------------------------------------------------------
(* The end of a run: a last write to the row, and the finally block.       *)

\* executor.shutdown(cancel_futures=True) drops what no thread has taken,
\* and asyncio.run cancels the branches; threads that run are left alone.
Finally ==
  /\ fut' = Cancelled(Steps)
  /\ branch' = [b \in Branches |->
                  IF branch[b] \in {"gate", "probe"} THEN "cancelled" ELSE branch[b]]

\* A mutant: the last step is submitted, and not awaited.
FinishComplete_NotAwaited ==
  /\ main = "wait10"
  /\ UpdateScanJob("complete", "completed")
  /\ main' = "complete"
  /\ Finally
  /\ UNCHANGED <<db, request, scan, initial, ctx, copied, triaged, event>>

\* The last step has ended: the job is complete, without another look.
FinishComplete ==
  /\ main = "wait10"
  /\ fut["10.report_writer"] = "done"
  /\ UpdateScanJob("complete", "completed")
  /\ main' = "complete"
  /\ Finally
  /\ UNCHANGED <<db, request, scan, initial, ctx, copied, triaged, event>>

\* except ScanAbortedException
FinishAborted ==
  /\ main = "aborting"
  /\ UpdateScanJob("cancelled", "aborted")
  /\ main' = "cancelled"
  /\ Finally
  /\ UNCHANGED <<db, request, scan, initial, ctx, copied, triaged, event>>

\* except Exception: the step stays, and so does completed_at.
FinishFailed ==
  /\ main = "failing"
  /\ UpdateScanJob("failed", row.step)
  /\ main' = "failed"
  /\ Finally
  /\ UNCHANGED <<db, request, scan, initial, ctx, copied, triaged, event>>

-----------------------------------------------------------------------------
Main ==
  \/ StartRun
  \/ LaunchPhase1 \/ LaunchIpResolve \/ LaunchProbes \/ LaunchTriage \/ LaunchReport
  \/ WaitRaises \/ WaitAborts \/ BarrierAborts \/ BarrierRaises
  \/ FinishComplete \/ FinishAborted \/ FinishFailed

Next ==
  \/ Main
  \/ \E b \in Branches : Branch(b)
  \/ AbortMonitor
  \/ \E s \in Steps : StepThread(s)
  \/ AbortRequest \/ AbortWrite

Spec == Init /\ [][Next]_vars

\* The event loop keeps turning, and the polls of the monitor succeed in the
\* end; nothing is said of the threads, whose sensors may hang.
LoopFairness ==
  /\ WF_vars(Main)
  /\ \A b \in Branches : WF_vars(Branch(b))
  /\ WF_vars(AbortMonitor)

\* Every sensor has a timeout of its own, so every step that started ends,
\* and the pool has more threads than a run ever has steps under way.
ThreadFairness == \A s \in Steps : WF_vars(StepThread(s))

LoopSpec == Spec /\ LoopFairness

-----------------------------------------------------------------------------
(* Safety.                                                                 *)

\* Every variable stays in its type; the event is set only by a cancellation.
TypeOK ==
  /\ row \in RowType
  /\ db \subseteq Items
  /\ request \in {"idle", "read"}
  /\ scan \in ScanType
  /\ initial \in {"aborted", "completed", "init"} \cup Steps
  /\ ctx \subseteq Items
  /\ copied \subseteq Vulns
  /\ triaged \subseteq Items
  /\ event \in BOOLEAN
  /\ main \in MainState
  /\ branch \in [Branches -> BranchState]
  /\ fut \in [Steps -> FutState]

\* A step is submitted only when every step the coroutines await before it
\* has ended without an exception, whatever is aborted or fails meanwhile.
UpstreamDone ==
  \A s \in Steps : fut[s] # "idle" => \A d \in AwaitedBy[s] : fut[d] = "done"

\* A run that reports success has no thread left, and no step that failed,
\* was dropped or was never submitted.
CompleteMeansFinished ==
  main = "complete" => \A s \in Steps : fut[s] = "done"

\* A scan that ran from its first step and is complete has stored the results
\* of every stage its mode allows, though the stages store in any order.
CompleteStoresAll ==
  main = "complete" /\ initial = "init"
    => \A s \in Allowed(scan.mode, scan.stages) : Flow[s].stores \subseteq db

\* What a complete scan has stored, its triage has seen: no finding reaches
\* the database behind the back of the stage that ranks the findings.
StoredIsTriaged ==
  /\ main = "complete"
  /\ initial = "init"
  /\ ShouldRunStep(initial, "9.ai_triage", scan.mode, scan.stages)
  => db \ {"report"} \subseteq triaged

\* Once a run is complete nothing of it touches the row again: only an abort
\* request that had found the job alive can.
CompletedRowStable ==
  [][main = "complete" /\ request = "idle" => row' = row]_vars

\* How far the run is in the eyes of a task graph over the ten steps.
Progress ==
  [ s \in Steps |->
      CASE fut[s] = "idle" -> "waiting"
        [] fut[s] \in Live -> "running"
        [] fut[s] = "done" -> "finished"
        [] OTHER           -> "broken" ]

Outcome ==
  CASE main = "complete"                -> "complete"
    [] main \in {"cancelled", "failed"} -> "stopped"
    [] OTHER                            -> "open"

Graph == INSTANCE TaskGraph WITH
  Task <- Steps, Deps <- AwaitedBy, state <- Progress, outcome <- Outcome

\* The pipeline keeps the promises of that task graph: steps start only when
\* those before them have ended, and a run that is over starts nothing more.
GraphRefined == Graph!Spec

-----------------------------------------------------------------------------
(* Liveness, under LoopSpec.                                               *)

\* A cancellation of a job that runs ends the run, even when every thread of
\* the run hangs in its sensor for ever.
AbortNoticed ==
  main \in Running /\ row.status = "cancelled" ~> main \in Ended

\* If the steps that start also end, so does the run: no two coroutines wait
\* for each other, and no exception leaves one of them waiting.
RunEnds == ThreadFairness => (main \in Running ~> main \in Ended)

-----------------------------------------------------------------------------
(* What the documentation says, and the code does not do.                  *)

\* A job that is cancelled stays cancelled: a run that meets it aborts.
CancelledStaysCancelled ==
  [][row.status = "cancelled" => row'.status = "cancelled"]_vars

\* The findings of stage 6 reach the stages behind it: when a scan that ran
\* it is complete, they are among the stored findings.
NucleiFindingsSurvive ==
  /\ main = "complete"
  /\ ShouldRunStep(initial, "6.nuclei_match", scan.mode, scan.stages)
  => "nuclei" \in db
=============================================================================
