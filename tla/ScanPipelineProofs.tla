-------------------------- MODULE ScanPipelineProofs --------------------------
(***************************************************************************)
(* A run of the pipeline is type-correct, submits no step before those it  *)
(* awaits have ended, reports success only when every step has ended, lets *)
(* the row of a complete job alone, and implements the task graph, for all *)
(* scans, start steps, failing steps and database faults.                  *)
(***************************************************************************)
EXTENDS ScanPipeline, SharedFacts

\* Every step writes and stores things that there are.
LEMMA FlowTyped ==
  \A s \in Steps : Flow[s].writes \subseteq Items /\ Flow[s].stores \subseteq Items
  BY StepsListed
  DEF Flow, Items, Vulns, DataFlow, step_1_company_resolve, step_2_subdomains,
      step_3_ip_resolve, step_4_ports, step_5_fingerprint, step_6_nuclei, step_7_cve,
      step_8_people, step_9_ai_triage, step_10_report

-----------------------------------------------------------------------------
(* Type correctness.                                                       *)

\* The parts of the state that a step leaves alone keep their types.
LEMMA UpdateTyped ==
  ASSUME row \in RowType, NEW status \in Status,
         NEW step \in Steps \cup {"init", "aborted", "completed"},
         UpdateScanJob(status, step)
  PROVE  row' \in RowType
  BY DEF UpdateScanJob, RowType

\* Cancelling, or submitting, futures leaves futures.
LEMMA FutTyped ==
  ASSUME fut \in [Steps -> FutState], NEW S
  PROVE  Cancelled(S) \in [Steps -> FutState] /\ Launched(S) \in [Steps -> FutState]
  BY DEF Cancelled, Launched, FutState, Live

\* Init establishes the types.
LEMMA TypeInit == Init => TypeOK
<1> SUFFICES ASSUME Init PROVE TypeOK
  OBVIOUS
<1>1. scan \in ScanType
  BY PipelineAssumption DEF Init
<1>2. PICK k \in StartSteps :
        /\ row = [status |-> IF k = "init" THEN "pending" ELSE "running",
                  step |-> k, completed |-> FALSE]
        /\ db = UNION {Flow[s].stores : s \in Upstream(k) \cap Allowed(scan.mode, scan.stages)}
  BY DEF Init
<1>3. row \in RowType
  BY <1>2, PipelineAssumption DEF RowType, Status
<1>4. Upstream(k) \subseteq Steps
  BY StepsListed DEF Upstream
<1>5. db \subseteq Items
  BY <1>2, <1>4, FlowTyped
<1>6. branch \in [Branches -> BranchState] /\ fut \in [Steps -> FutState]
  BY DEF Init, BranchState, FutState
<1> QED
  BY <1>1, <1>3, <1>5, <1>6 DEF Init, TypeOK, MainState

\* The abort handler and the monitor keep the types.
LEMMA TypeAbort ==
  ASSUME TypeOK, AbortRequest \/ AbortWrite \/ AbortMonitor
  PROVE  TypeOK'
<1>1. CASE AbortRequest
  BY <1>1 DEF TypeOK, AbortRequest
<1>2. CASE AbortWrite
  BY <1>2, UpdateTyped DEF TypeOK, AbortWrite, Status
<1>3. CASE AbortMonitor
  BY <1>3 DEF TypeOK, AbortMonitor
<1> QED
  BY <1>1, <1>2, <1>3

\* The pool threads keep the types.
LEMMA TypeThread ==
  ASSUME TypeOK, NEW s \in Steps, StepThread(s)
  PROVE  TypeOK'
<1>1. fut' \in [Steps -> FutState]
  BY DEF TypeOK, StepThread, Begin, Checkpoint, Compute, Store, FailStep, FutState, Live
<1>2. row' \in RowType
  BY DEF TypeOK, RowType, StepThread, Begin, Checkpoint, Compute, Store, FailStep
<1>3. Flow[s].writes \subseteq Items /\ Flow[s].stores \subseteq Items
  BY FlowTyped
<1>4. ctx' \subseteq Items /\ db' \subseteq Items
  BY <1>3 DEF TypeOK, StepThread, Begin, Checkpoint, Compute, AfterCompute, Store,
              FailStep, Items, Vulns
<1>5. copied' \subseteq Vulns /\ triaged' \subseteq Items
  BY DEF TypeOK, StepThread, Begin, Checkpoint, Compute, Store, FailStep
<1>6. UNCHANGED runVars /\ UNCHANGED request
  BY DEF StepThread, Begin, Checkpoint, Compute, Store, FailStep
<1> QED
  BY <1>1, <1>2, <1>4, <1>5, <1>6 DEF TypeOK, runVars

\* A phase keeps the types.
LEMMA TypePhase ==
  ASSUME TypeOK, NEW next \in MainState, NEW launch, NEW spawned,
         Phase(next, launch, spawned)
  PROVE  TypeOK'
<1>1. event' \in BOOLEAN /\ main' \in MainState /\ branch' \in [Branches -> BranchState]
  BY DEF TypeOK, Phase, MainState, BranchState
<1>2. fut' \in [Steps -> FutState]
  BY FutTyped DEF TypeOK, Phase
<1> QED
  BY <1>1, <1>2 DEF TypeOK, Phase

\* The steps of the main coroutine keep the types.
LEMMA TypeMain ==
  ASSUME TypeOK, Main
  PROVE  TypeOK'
<1>1. CASE StartRun
  <2>1. row' \in RowType /\ initial' \in {"aborted", "completed", "init"} \cup Steps
    BY <1>1, UpdateTyped DEF TypeOK, StartRun, RowType, Status
  <2>2. EffectiveMode(scan.directIp, scan.mode, scan.stages) \in Modes
    BY DEF TypeOK, ScanType, Modes, EffectiveMode
  <2>3. scan' \in ScanType
    BY <1>1, <2>2 DEF TypeOK, StartRun, ScanType
  <2> QED
    BY <1>1, <2>1, <2>3 DEF TypeOK, StartRun, MainState
<1>2. CASE LaunchPhase1
  BY <1>2, TypePhase DEF LaunchPhase1, MainState
<1>3. CASE LaunchIpResolve
  BY <1>3, TypePhase DEF LaunchIpResolve, MainState
<1>4. CASE LaunchProbes
  BY <1>4, TypePhase DEF LaunchProbes, MainState
<1>5. CASE LaunchTriage
  BY <1>5, TypePhase DEF LaunchTriage, MainState
<1>6. CASE LaunchReport
  BY <1>6, TypePhase DEF LaunchReport, MainState
<1>7. CASE WaitRaises
  BY <1>7 DEF TypeOK, WaitRaises, Handler, MainState
<1>8. CASE WaitAborts
  BY <1>8, FutTyped DEF TypeOK, WaitAborts, MainState
<1>9. CASE BarrierAborts
  BY <1>9, FutTyped DEF TypeOK, BarrierAborts, MainState
<1>10. CASE BarrierRaises
  BY <1>10 DEF TypeOK, BarrierRaises, Handler, MainState
<1>11. ASSUME NEW status \in Status, NEW step \in Steps \cup {"init", "aborted", "completed"},
              UpdateScanJob(status, step), Finally, main' \in MainState,
              UNCHANGED <<db, request, scan, initial, ctx, copied, triaged, event>>
       PROVE  TypeOK'
  <2>1. branch' \in [Branches -> BranchState]
    BY <1>11 DEF TypeOK, Finally, BranchState
  <2>2. row' \in RowType /\ fut' \in [Steps -> FutState]
    BY <1>11, FutTyped, UpdateTyped DEF TypeOK, Finally
  <2> QED
    BY <1>11, <2>1, <2>2 DEF TypeOK
<1>12. CASE FinishComplete
  BY <1>11, <1>12 DEF FinishComplete, Status, MainState, Ended
<1>13. CASE FinishAborted
  BY <1>11, <1>13 DEF FinishAborted, Status, MainState, Ended
<1>14. CASE FinishFailed
  BY <1>11, <1>14 DEF FinishFailed, Status, MainState, Ended, TypeOK, RowType
<1> QED
  BY <1>1, <1>2, <1>3, <1>4, <1>5, <1>6, <1>7, <1>8, <1>9, <1>10, <1>12, <1>13, <1>14
  DEF Main

\* The branches keep the types.
LEMMA TypeBranch ==
  ASSUME TypeOK, NEW b \in Branches, Branch(b)
  PROVE  TypeOK'
<1>1. CASE BranchLaunch(b)
  BY <1>1, FutTyped DEF TypeOK, BranchLaunch, BranchState
<1>2. CASE GateRaises(b)
  BY <1>2 DEF TypeOK, GateRaises, FirstRaised, BranchState
<1>3. CASE GateAborts(b)
  BY <1>3, FutTyped DEF TypeOK, GateAborts, BranchState
<1>4. CASE BranchReturns(b)
  BY <1>4 DEF TypeOK, BranchReturns, BranchState
<1>5. CASE ProbeAborts(b)
  BY <1>5, FutTyped DEF TypeOK, ProbeAborts, BranchState
<1> QED
  BY <1>1, <1>2, <1>3, <1>4, <1>5 DEF Branch

\* Every behaviour of the pipeline stays within the types of its variables.
THEOREM TypeCorrect == Spec => []TypeOK
<1>1. TypeOK /\ [Next]_vars => TypeOK'
  <2> SUFFICES ASSUME TypeOK, [Next]_vars PROVE TypeOK'
    OBVIOUS
  <2>1. CASE UNCHANGED vars
    BY <2>1 DEF TypeOK, vars
  <2>2. CASE Next
    BY <2>2, TypeAbort, TypeThread, TypeMain, TypeBranch DEF Next
  <2> QED
    BY <2>1, <2>2
<1> QED
  BY TypeInit, <1>1, PTL DEF Spec

-----------------------------------------------------------------------------
(* The order of the steps.                                                 *)

\* The steps that have not been submitted while the main coroutine is at m,
\* but for the two probes, which the branches submit.
NotYet(m) ==
  CASE m \in {"polled", "phase1"} -> Steps
    [] m = "wait2" -> Steps \ {"1.company_resolve", "2.subdomains", "8.people_osint"}
    [] m = "wait3" -> {"4.ports", "5.fingerprint", "6.nuclei_match", "7.cve_lookup",
                       "9.ai_triage", "10.report_writer"}
    [] m = "barrier" -> {"9.ai_triage", "10.report_writer"}
    [] m = "wait9" -> {"10.report_writer"}
    [] OTHER -> {}

NotSubmitted == \A s \in NotYet(main) : fut[s] = "idle"

\* A branch at its gate has not submitted its probe; one that has returned
\* without an exception has seen it end.
ProbeFollowsBranch ==
  \A b \in Branches :
    /\ branch[b] = "gate" => fut[Probe[b]] = "idle"
    /\ branch[b] = "done" => fut[Probe[b]] = "done"

\* The inductive invariant: what has been submitted where each coroutine is.
GraphInv == TypeOK /\ NotSubmitted /\ ProbeFollowsBranch /\ UpstreamDone /\ CompleteMeansFinished

\* No future comes back to "idle", or is lost once it is done.
Advances ==
  \A s \in Steps : /\ fut[s] = "idle" => fut'[s] = "idle"
                   /\ fut[s] = "done" => fut'[s] = "done"

\* If nothing is submitted, and no coroutine moves on, the invariant stays.
LEMMA AdvanceKeeps ==
  ASSUME GraphInv, TypeOK', Advances,
         main' = main \/ main' \in {"aborting", "failing", "cancelled", "failed"},
         \A b \in Branches : branch'[b] \in {"gate", "done"} => branch'[b] = branch[b]
  PROVE  GraphInv'
<1>1. NotSubmitted'
  <2>1. NotYet(main') \subseteq Steps /\ NotYet(main') \subseteq NotYet(main)
    BY StepsListed DEF NotYet
  <2> QED
    BY <2>1 DEF GraphInv, NotSubmitted, Advances
<1>2. ProbeFollowsBranch'
  BY StepsListed DEF GraphInv, ProbeFollowsBranch, Advances, Branches, Probe
<1>3. UpstreamDone'
  <2> SUFFICES ASSUME NEW s \in Steps, fut'[s] # "idle", NEW d \in AwaitedBy[s]
               PROVE  fut'[d] = "done"
    BY DEF UpstreamDone
  <2>1. fut[s] # "idle" /\ d \in Steps
    BY AwaitedTyped DEF Advances
  <2> QED
    BY <2>1 DEF GraphInv, UpstreamDone, Advances
<1>4. CompleteMeansFinished'
  BY DEF GraphInv, CompleteMeansFinished, Advances
<1> QED
  BY <1>1, <1>2, <1>3, <1>4 DEF GraphInv

\* Submitting idle steps whose upstream steps are done keeps the order.
LEMMA LaunchKeeps ==
  ASSUME GraphInv, NEW S \in SUBSET Steps, fut' = Launched(S),
         \A s \in S : fut[s] = "idle" /\ \A d \in AwaitedBy[s] : fut[d] = "done"
  PROVE  /\ UpstreamDone'
         /\ \A s \in Steps \ S : fut'[s] = fut[s]
         /\ \A s \in S : fut'[s] = "queued"
<1>1. /\ \A s \in Steps \ S : fut'[s] = fut[s]
      /\ \A s \in S : fut'[s] = "queued"
  BY DEF Launched
<1>2. ASSUME NEW s \in Steps, fut'[s] # "idle", NEW d \in AwaitedBy[s]
      PROVE  fut'[d] = "done"
  <2>1. d \in Steps
    BY AwaitedTyped
  <2>2. fut[d] = "done"
    BY <1>1, <1>2 DEF GraphInv, UpstreamDone
  <2>3. d \notin S
    BY <2>2
  <2> QED
    BY <1>1, <2>1, <2>2, <2>3
<1> QED
  BY <1>1, <1>2 DEF UpstreamDone

\* The last step has everything upstream: if it is done, so are all.
LEMMA ReportIsLast ==
  ASSUME UpstreamDone, fut["10.report_writer"] = "done"
  PROVE  \A s \in Steps : fut[s] = "done"
<1>1. fut["9.ai_triage"] = "done"
  BY StepsListed DEF UpstreamDone, AwaitedBy
<1>2. /\ fut["1.company_resolve"] = "done" /\ fut["6.nuclei_match"] = "done"
      /\ fut["7.cve_lookup"] = "done"      /\ fut["8.people_osint"] = "done"
  BY <1>1, StepsListed DEF UpstreamDone, AwaitedBy
<1>3. fut["4.ports"] = "done" /\ fut["5.fingerprint"] = "done"
  BY <1>2, StepsListed DEF UpstreamDone, AwaitedBy
<1>4. fut["3.ip_resolve"] = "done"
  BY <1>3, StepsListed DEF UpstreamDone, AwaitedBy
<1>5. fut["2.subdomains"] = "done"
  BY <1>4, StepsListed DEF UpstreamDone, AwaitedBy
<1> QED
  BY <1>1, <1>2, <1>3, <1>4, <1>5, StepsListed

\* The threads, the monitor and the abort handler submit nothing.
LEMMA GraphOthers ==
  ASSUME GraphInv, TypeOK',
         AbortRequest \/ AbortWrite \/ AbortMonitor \/ \E s \in Steps : StepThread(s)
  PROVE  GraphInv'
<1>1. Advances
  BY DEF Advances, GraphInv, TypeOK, AbortRequest, AbortWrite, AbortMonitor, StepThread,
         Begin, Checkpoint, Compute, Store, FailStep
<1>2. UNCHANGED <<main, branch>>
  BY DEF AbortRequest, AbortWrite, AbortMonitor, StepThread, Begin, Checkpoint, Compute,
         Store, FailStep, runVars
<1> QED
  BY <1>1, <1>2, AdvanceKeeps

\* A phase that raises, or one whose steps are the next in the order.
LEMMA PhaseKeeps ==
  ASSUME GraphInv, TypeOK', NEW next \in MainState \ {"complete"},
         NEW launch \in SUBSET NotYet(main), NEW spawned \in SUBSET Branches,
         Phase(next, launch, spawned),
         \A s \in launch : \A d \in AwaitedBy[s] : fut[d] = "done",
         NotYet(next) \subseteq NotYet(main) \ launch,
         \A b \in Branches : Probe[b] \notin launch,
         \A b \in spawned : Probe[b] \in NotYet(main)
  PROVE  GraphInv'
<1>1. NotYet(main) \subseteq Steps
  BY StepsListed DEF NotYet
<1>2. CASE CheckRaises /\ main' = "aborting" /\ UNCHANGED <<branch, fut>>
  BY <1>2, AdvanceKeeps DEF Advances
<1>3. CASE /\ main' = next
           /\ fut' = Launched(launch)
           /\ branch' = [b \in Branches |-> IF b \in spawned THEN "gate" ELSE branch[b]]
  <2>1. \A s \in launch : fut[s] = "idle"
    BY DEF GraphInv, NotSubmitted
  <2>2. /\ UpstreamDone'
        /\ \A s \in Steps \ launch : fut'[s] = fut[s]
    BY <1>1, <1>3, <2>1, LaunchKeeps
  <2>3. NotSubmitted'
    BY <1>1, <1>3, <2>2 DEF GraphInv, NotSubmitted
  <2>4. \A b \in Branches : Probe[b] \in Steps
    BY StepsListed DEF Branches, Probe
  <2>5. ProbeFollowsBranch'
    BY <1>3, <2>2, <2>4 DEF GraphInv, ProbeFollowsBranch, NotSubmitted
  <2>6. CompleteMeansFinished'
    BY <1>3 DEF CompleteMeansFinished
  <2> QED
    BY <2>2, <2>3, <2>5, <2>6 DEF GraphInv
<1> QED
  BY <1>2, <1>3 DEF Phase

\* The probes, by name.
LEMMA Probes ==
  /\ \A b \in Branches : Probe[b] \in {"6.nuclei_match", "7.cve_lookup"}
  /\ Branches = {"nuclei", "cve"}
  /\ Probe["nuclei"] = "6.nuclei_match" /\ Probe["cve"] = "7.cve_lookup"
  BY DEF Branches, Probe

\* The steps of the main coroutine preserve the invariant.
LEMMA GraphMain ==
  ASSUME GraphInv, TypeOK', Main
  PROVE  GraphInv'
<1>1. CASE StartRun
  <2>1. NotYet(main') = NotYet(main) /\ UNCHANGED <<branch, fut>> /\ main' # "complete"
    BY <1>1 DEF StartRun, NotYet
  <2> QED
    BY <2>1 DEF GraphInv, NotSubmitted, ProbeFollowsBranch, UpstreamDone,
                CompleteMeansFinished
<1>2. CASE LaunchPhase1
  <2> DEFINE launch == {"1.company_resolve", "2.subdomains", "8.people_osint"}
  <2>1. /\ launch \subseteq NotYet(main)
        /\ NotYet("wait2") \subseteq NotYet(main) \ launch
        /\ \A s \in launch : AwaitedBy[s] = {}
    BY <1>2, StepsListed DEF LaunchPhase1, NotYet, AwaitedBy
  <2> QED
    BY <1>2, <2>1, Probes, PhaseKeeps DEF LaunchPhase1, MainState
<1>3. CASE LaunchIpResolve
  <2>1. /\ {"3.ip_resolve"} \subseteq NotYet(main)
        /\ NotYet("wait3") \subseteq NotYet(main) \ {"3.ip_resolve"}
        /\ AwaitedBy["3.ip_resolve"] = {"2.subdomains"}
    BY <1>3, StepsListed DEF LaunchIpResolve, NotYet, AwaitedBy
  <2> QED
    BY <1>3, <2>1, Probes, PhaseKeeps DEF LaunchIpResolve, MainState
<1>4. CASE LaunchProbes
  <2>1. /\ {"4.ports", "5.fingerprint"} \subseteq NotYet(main)
        /\ NotYet("barrier") \subseteq NotYet(main) \ {"4.ports", "5.fingerprint"}
        /\ {"6.nuclei_match", "7.cve_lookup"} \subseteq NotYet(main)
        /\ AwaitedBy["4.ports"] = {"3.ip_resolve"}
        /\ AwaitedBy["5.fingerprint"] = {"3.ip_resolve"}
    BY <1>4, StepsListed DEF LaunchProbes, NotYet, AwaitedBy
  <2>2. \A b \in Branches : /\ Probe[b] \notin {"4.ports", "5.fingerprint"}
                            /\ Probe[b] \in NotYet(main)
    BY <2>1, Probes
  <2>3. \A s \in {"4.ports", "5.fingerprint"} : \A d \in AwaitedBy[s] : fut[d] = "done"
    BY <1>4, <2>1 DEF LaunchProbes
  <2>4. Phase("barrier", {"4.ports", "5.fingerprint"}, Branches)
    BY <1>4 DEF LaunchProbes
  <2>5. "barrier" \in MainState \ {"complete"} /\ Branches \in SUBSET Branches
    BY DEF MainState
  <2>6. {"4.ports", "5.fingerprint"} \in SUBSET NotYet(main)
    BY <2>1
  <2> QED
    BY <2>1, <2>2, <2>3, <2>4, <2>5, <2>6, PhaseKeeps
<1>5. CASE LaunchTriage
  <2>1. /\ {"9.ai_triage"} \subseteq NotYet(main)
        /\ NotYet("wait9") \subseteq NotYet(main) \ {"9.ai_triage"}
        /\ AwaitedBy["9.ai_triage"] = {"1.company_resolve", "6.nuclei_match",
                                       "7.cve_lookup", "8.people_osint"}
    BY <1>5, StepsListed DEF LaunchTriage, NotYet, AwaitedBy
  <2>2. fut["6.nuclei_match"] = "done" /\ fut["7.cve_lookup"] = "done"
    BY <1>5, Probes DEF LaunchTriage, GraphInv, ProbeFollowsBranch
  <2> QED
    BY <1>5, <2>1, <2>2, Probes, PhaseKeeps DEF LaunchTriage, MainState
<1>6. CASE LaunchReport
  <2>1. /\ {"10.report_writer"} \subseteq NotYet(main)
        /\ NotYet("wait10") \subseteq NotYet(main) \ {"10.report_writer"}
        /\ AwaitedBy["10.report_writer"] = {"9.ai_triage"}
    BY <1>6, StepsListed DEF LaunchReport, NotYet, AwaitedBy
  <2> QED
    BY <1>6, <2>1, Probes, PhaseKeeps DEF LaunchReport, MainState
<1>7. CASE WaitRaises \/ WaitAborts \/ BarrierAborts \/ BarrierRaises
  <2>1. Advances
    BY <1>7 DEF Advances, GraphInv, TypeOK, WaitRaises, WaitAborts, BarrierAborts,
                BarrierRaises, Cancelled
  <2>2. main' \in {"aborting", "failing"} /\ branch' = branch
    BY <1>7 DEF WaitRaises, WaitAborts, BarrierAborts, BarrierRaises, Handler
  <2> QED
    BY <2>1, <2>2, AdvanceKeeps
<1>8. CASE FinishAborted \/ FinishFailed
  <2>1. Advances
    BY <1>8 DEF Advances, FinishAborted, FinishFailed, Finally, Cancelled
  <2>2. /\ main' \in {"cancelled", "failed"}
        /\ \A b \in Branches : branch'[b] \in {"gate", "done"} => branch'[b] = branch[b]
    BY <1>8 DEF FinishAborted, FinishFailed, Finally
  <2> QED
    BY <2>1, <2>2, AdvanceKeeps
<1>9. CASE FinishComplete
  <2>1. \A s \in Steps : fut[s] = "done"
    BY <1>9, ReportIsLast DEF FinishComplete, GraphInv
  <2>2. \A s \in Steps : fut'[s] = "done"
    BY <1>9, <2>1 DEF FinishComplete, Finally, Cancelled
  <2>3. UpstreamDone' /\ CompleteMeansFinished'
    BY <2>2, AwaitedTyped DEF UpstreamDone, CompleteMeansFinished
  <2>4. NotSubmitted'
    BY <1>9 DEF FinishComplete, NotSubmitted, NotYet
  <2>5. \A b \in Branches : branch'[b] # "gate" /\ fut'[Probe[b]] = "done"
    BY <1>9, <2>2, Probes, StepsListed DEF FinishComplete, Finally
  <2> QED
    BY <2>3, <2>4, <2>5 DEF GraphInv, ProbeFollowsBranch
<1> QED
  BY <1>1, <1>2, <1>3, <1>4, <1>5, <1>6, <1>7, <1>8, <1>9 DEF Main

\* The steps of the branches preserve the invariant.
LEMMA GraphBranch ==
  ASSUME GraphInv, TypeOK', NEW b \in Branches, Branch(b)
  PROVE  GraphInv'
<1>1. CASE BranchLaunch(b) /\ branch'[b] = "aborted"
  <2>1. UNCHANGED <<main, fut>> /\ \A c \in Branches \ {b} : branch'[c] = branch[c]
    BY <1>1 DEF BranchLaunch, GraphInv, TypeOK
  <2> QED
    BY <1>1, <2>1, AdvanceKeeps DEF Advances
<1>2. CASE BranchLaunch(b) /\ branch'[b] # "aborted"
  <2>1. /\ main' = main /\ main = "barrier"
        /\ branch[b] = "gate" /\ branch' = [branch EXCEPT ![b] = "probe"]
        /\ fut' = Launched({Probe[b]})
        /\ \A s \in Gate[b] : fut[s] = "done"
    BY <1>2 DEF BranchLaunch, GraphInv, TypeOK
  <2>2. Probe[b] \in Steps /\ AwaitedBy[Probe[b]] = Gate[b]
    BY StepsListed DEF Branches, Probe, Gate, AwaitedBy
  <2>3. fut[Probe[b]] = "idle"
    BY <2>1 DEF GraphInv, ProbeFollowsBranch
  <2>4. /\ UpstreamDone'
        /\ \A s \in Steps \ {Probe[b]} : fut'[s] = fut[s]
    BY <2>1, <2>2, <2>3, LaunchKeeps
  <2>5. NotSubmitted'
    BY <2>1, <2>4, Probes, StepsListed DEF GraphInv, NotSubmitted, NotYet
  <2>6. ASSUME NEW c \in Branches \ {b}
        PROVE  branch'[c] = branch[c] /\ fut'[Probe[c]] = fut[Probe[c]]
    BY <2>1, <2>4, Probes, StepsListed DEF GraphInv, TypeOK
  <2>7. ProbeFollowsBranch'
    BY <2>1, <2>6 DEF GraphInv, ProbeFollowsBranch, TypeOK
  <2>8. CompleteMeansFinished'
    BY <2>1 DEF CompleteMeansFinished
  <2> QED
    BY <2>4, <2>5, <2>7, <2>8 DEF GraphInv
<1>3. CASE GateRaises(b) \/ GateAborts(b) \/ ProbeAborts(b)
  <2>1. Advances
    BY <1>3 DEF Advances, GateRaises, GateAborts, ProbeAborts, Cancelled
  <2>2. /\ main' = main
        /\ branch'[b] \notin {"gate", "done"}
        /\ \A c \in Branches \ {b} : branch'[c] = branch[c]
    BY <1>3 DEF GateRaises, FirstRaised, GateAborts, ProbeAborts, GraphInv, TypeOK
  <2> QED
    BY <2>1, <2>2, AdvanceKeeps
<1>4. CASE BranchReturns(b)
  <2>1. /\ UNCHANGED <<main, fut>>
        /\ branch'[b] = fut[Probe[b]] /\ branch'[b] # "gate"
        /\ \A c \in Branches \ {b} : branch'[c] = branch[c]
    BY <1>4 DEF BranchReturns, GraphInv, TypeOK
  <2>2. ProbeFollowsBranch'
    BY <2>1 DEF GraphInv, ProbeFollowsBranch
  <2> QED
    BY <2>1, <2>2 DEF GraphInv, NotSubmitted, UpstreamDone, CompleteMeansFinished
<1> QED
  BY <1>1, <1>2, <1>3, <1>4 DEF Branch

\* The invariant of the whole: it holds in every state of every run.
LEMMA GraphInvariant == Spec => []GraphInv
<1>1. Init => GraphInv
  <2> SUFFICES ASSUME Init PROVE GraphInv
    OBVIOUS
  <2>1. \A s \in Steps : fut[s] = "idle"
    BY DEF Init
  <2>2. NotSubmitted /\ UpstreamDone /\ CompleteMeansFinished
    BY <2>1 DEF Init, NotSubmitted, NotYet, UpstreamDone, CompleteMeansFinished
  <2>3. ProbeFollowsBranch
    BY DEF Init, ProbeFollowsBranch
  <2> QED
    BY <2>2, <2>3, TypeInit DEF GraphInv
<1>2. GraphInv /\ [Next]_vars /\ TypeOK' => GraphInv'
  <2> SUFFICES ASSUME GraphInv, [Next]_vars, TypeOK' PROVE GraphInv'
    OBVIOUS
  <2>1. CASE UNCHANGED vars
    BY <2>1 DEF vars, GraphInv, NotSubmitted, ProbeFollowsBranch, UpstreamDone,
                CompleteMeansFinished
  <2>2. CASE Next
    BY <2>2, GraphOthers, GraphMain, GraphBranch DEF Next
  <2> QED
    BY <2>1, <2>2
<1> QED
  BY <1>1, <1>2, TypeCorrect, PTL DEF Spec

\* No step is submitted before the steps it awaits have ended well.
THEOREM UpstreamDoneHolds == Spec => []UpstreamDone
<1>1. GraphInv => UpstreamDone
  BY DEF GraphInv
<1> QED
  BY <1>1, GraphInvariant, PTL

\* A run reports success only when all ten steps have ended well.
THEOREM CompleteMeansFinishedHolds == Spec => []CompleteMeansFinished
<1>1. GraphInv => CompleteMeansFinished
  BY DEF GraphInv
<1> QED
  BY <1>1, GraphInvariant, PTL

\* Once a run is complete no thread of it is left that could touch the row.
THEOREM CompletedRowStableHolds == Spec => CompletedRowStable
<1> DEFINE Stable == main = "complete" /\ request = "idle" => row' = row
<1>1. GraphInv /\ [Next]_vars => [Stable]_vars
  <2> SUFFICES ASSUME GraphInv, [Next]_vars, main = "complete", request = "idle"
               PROVE  row' = row
    OBVIOUS
  <2>1. \A s \in Steps : fut[s] = "done"
    BY DEF GraphInv, CompleteMeansFinished
  <2>2. CASE UNCHANGED vars
    BY <2>2 DEF vars
  <2>3. CASE AbortRequest \/ AbortMonitor
    BY <2>3 DEF AbortRequest, AbortMonitor
  <2>4. ~Main
    BY DEF Main, StartRun, LaunchPhase1, LaunchIpResolve, LaunchProbes, LaunchTriage,
           LaunchReport, WaitRaises, WaitAborts, WaitsFor, BarrierAborts, BarrierRaises,
           FinishComplete, FinishAborted, FinishFailed
  <2>5. ~AbortWrite /\ \A b \in Branches : ~Branch(b)
    BY DEF AbortWrite, Branch, BranchLaunch, GateRaises, GateAborts, BranchReturns,
           ProbeAborts
  <2>6. \A s \in Steps : ~StepThread(s)
    BY <2>1 DEF StepThread, Begin, Checkpoint, Compute, Store, FailStep
  <2> QED
    BY <2>2, <2>3, <2>4, <2>5, <2>6 DEF Next
<1> QED
  BY <1>1, GraphInvariant, PTL DEF Spec, CompletedRowStable

-----------------------------------------------------------------------------
(* The refinement of the task graph.                                       *)

\* The futures, in the words of the task graph.
LEMMA ProgressMeans ==
  /\ Progress \in [Steps -> Graph!TaskState]
  /\ \A s \in Steps :
       /\ fut[s] = "idle" <=> Progress[s] = "waiting"
       /\ fut[s] \in Live <=> Progress[s] = "running"
       /\ fut[s] = "done" <=> Progress[s] = "finished"
  BY DEF Progress, Graph!TaskState, Live

LEMMA ProgressMeansNext ==
  /\ Progress' \in [Steps -> Graph!TaskState]
  /\ \A s \in Steps :
       /\ fut'[s] = "idle" <=> Progress'[s] = "waiting"
       /\ fut'[s] \in Live <=> Progress'[s] = "running"
       /\ fut'[s] = "done" <=> Progress'[s] = "finished"
  BY DEF Progress, Graph!TaskState, Live

\* A future stays as it is, or comes from under way to somewhere.
Moves(s) ==
  \/ fut'[s] = fut[s]
  \/ fut[s] \in Live /\ fut'[s] # "idle"

LEMMA MovesMeans ==
  ASSUME \A s \in Steps : Moves(s)
  PROVE  \A s \in Steps :
           \/ Progress'[s] = Progress[s]
           \/ Progress[s] = "running" /\ Progress'[s] \in {"finished", "broken"}
<1> SUFFICES ASSUME NEW s \in Steps
             PROVE  \/ Progress'[s] = Progress[s]
                    \/ Progress[s] = "running" /\ Progress'[s] \in {"finished", "broken"}
  OBVIOUS
<1>1. CASE fut'[s] = fut[s]
  BY <1>1 DEF Progress
<1>2. CASE fut[s] \in Live /\ fut'[s] # "idle"
  BY <1>2, ProgressMeans, ProgressMeansNext DEF Graph!TaskState
<1> QED
  BY <1>1, <1>2 DEF Moves

\* Steps that leave the outcome alone, and start nothing.
LEMMA EndRefines ==
  ASSUME \A s \in Steps : Moves(s), Outcome' = Outcome
  PROVE  Graph!Next
  BY MovesMeans, ProgressMeansNext DEF Graph!Next, Graph!End

\* Submissions of steps that are ready.
LEMMA LaunchRefines ==
  ASSUME Outcome = "open", Outcome' = Outcome,
         NEW S \in SUBSET Steps, fut' = Launched(S),
         \A s \in S : fut[s] = "idle" /\ \A d \in AwaitedBy[s] : fut[d] = "done"
  PROVE  Graph!Next
<1>1. ASSUME NEW s \in Steps \ S PROVE Progress'[s] = Progress[s]
  BY DEF Launched, Progress
<1>2. ASSUME NEW s \in S PROVE Graph!Ready(s) /\ Progress'[s] = "running"
  <2>1. fut'[s] \in Live
    BY DEF Launched, Live
  <2>2. AwaitedBy[s] \subseteq Steps
    BY AwaitedTyped
  <2> QED
    BY <2>1, <2>2, ProgressMeans, ProgressMeansNext DEF Graph!Ready
<1> QED
  BY <1>1, <1>2, ProgressMeansNext DEF Graph!Next, Graph!Start

\* The run is given up: what no thread has taken is dropped.
LEMMA StopRefines ==
  ASSUME FinishAborted \/ FinishFailed
  PROVE  Graph!Next
<1>1. Outcome = "open" /\ Outcome' = "stopped"
  BY DEF FinishAborted, FinishFailed, Outcome
<1>2. ASSUME NEW s \in Steps
      PROVE  \/ fut'[s] = fut[s]
             \/ fut[s] \in Live /\ fut'[s] = "dropped"
  BY DEF FinishAborted, FinishFailed, Finally, Cancelled, Live
<1>3. ASSUME NEW s \in Steps
      PROVE  \/ Progress'[s] = Progress[s]
             \/ Progress[s] = "running" /\ Progress'[s] = "broken"
  <2>1. CASE fut'[s] = fut[s]
    BY <2>1 DEF Progress
  <2>2. CASE fut[s] \in Live /\ fut'[s] = "dropped"
    BY <2>2 DEF Progress, Live
  <2> QED
    BY <1>2, <2>1, <2>2
<1> QED
  BY <1>1, <1>3, ProgressMeansNext DEF Graph!Next, Graph!Stop

\* The run is complete: nothing is left to be dropped.
LEMMA CompleteRefines ==
  ASSUME GraphInv, FinishComplete
  PROVE  Graph!Next
<1>1. Outcome = "open" /\ Outcome' = "complete"
  BY DEF FinishComplete, Outcome
<1>2. \A s \in Steps : fut[s] = "done"
  BY ReportIsLast DEF FinishComplete, GraphInv
<1>3. \A s \in Steps : fut'[s] = fut[s]
  BY <1>2 DEF FinishComplete, Finally, Cancelled
<1>4. Progress' = Progress
  BY <1>3 DEF Progress
<1> QED
  BY <1>1, <1>2, <1>4, ProgressMeans DEF Graph!Next, Graph!Complete

\* A phase that raises, or submits the next steps of the order.
LEMMA PhaseRefines ==
  ASSUME GraphInv, NEW next \in Running, NEW launch \in SUBSET NotYet(main),
         NEW spawned, main \in Running, Phase(next, launch, spawned),
         \A s \in launch : \A d \in AwaitedBy[s] : fut[d] = "done"
  PROVE  Graph!Next
<1>1. Outcome = "open" /\ Outcome' = "open"
  BY DEF Phase, Outcome, Running, MainState, Ended
<1>2. CASE UNCHANGED fut
  BY <1>1, <1>2, EndRefines DEF Moves
<1>3. CASE fut' = Launched(launch)
  <2>1. launch \subseteq Steps /\ \A s \in launch : fut[s] = "idle"
    BY StepsListed DEF NotYet, GraphInv, NotSubmitted
  <2> QED
    BY <1>1, <1>3, <2>1, LaunchRefines
<1> QED
  BY <1>2, <1>3 DEF Phase

\* The threads, the monitor and the abort handler.
LEMMA OthersRefine ==
  ASSUME GraphInv,
         AbortRequest \/ AbortWrite \/ AbortMonitor \/ \E s \in Steps : StepThread(s)
  PROVE  Graph!Next
<1>1. \A s \in Steps : Moves(s)
  BY DEF Moves, Live, GraphInv, TypeOK, AbortRequest, AbortWrite, AbortMonitor, StepThread,
         Begin, Checkpoint, Compute, Store, FailStep
<1>2. Outcome' = Outcome
  BY DEF Outcome, AbortRequest, AbortWrite, AbortMonitor, StepThread, Begin, Checkpoint,
         Compute, Store, FailStep, runVars
<1> QED
  BY <1>1, <1>2, EndRefines

\* The branches.
LEMMA BranchRefines ==
  ASSUME GraphInv, NEW b \in Branches, Branch(b)
  PROVE  Graph!Next
<1>1. Outcome = "open" /\ Outcome' = "open"
  BY DEF Branch, BranchLaunch, GateRaises, GateAborts, BranchReturns, ProbeAborts, Outcome
<1>2. CASE BranchLaunch(b) /\ fut' = Launched({Probe[b]})
  <2>1. Probe[b] \in Steps /\ AwaitedBy[Probe[b]] = Gate[b]
    BY StepsListed DEF Branches, Probe, Gate, AwaitedBy
  <2>2. fut[Probe[b]] = "idle" /\ \A d \in Gate[b] : fut[d] = "done"
    BY <1>2 DEF BranchLaunch, GraphInv, ProbeFollowsBranch
  <2> QED
    BY <1>1, <1>2, <2>1, <2>2, LaunchRefines
<1>3. CASE \A s \in Steps : Moves(s)
  BY <1>1, <1>3, EndRefines
<1>4. CASE GateAborts(b) \/ ProbeAborts(b)
  <2>1. \A s \in Steps : Moves(s)
    BY <1>4 DEF GateAborts, ProbeAborts, Cancelled, Moves, Live
  <2> QED
    BY <1>3, <2>1
<1>5. CASE UNCHANGED fut
  BY <1>3, <1>5 DEF Moves
<1> QED
  BY <1>2, <1>4, <1>5 DEF Branch, BranchLaunch, GateRaises, BranchReturns

\* The main coroutine.
LEMMA MainRefines ==
  ASSUME GraphInv, Main
  PROVE  Graph!Next
<1>1. CASE StartRun
  <2>1. Outcome' = Outcome
    BY <1>1 DEF StartRun, Outcome
  <2>2. \A s \in Steps : Moves(s)
    BY <1>1 DEF StartRun, Moves
  <2> QED
    BY <2>1, <2>2, EndRefines
<1>2. CASE LaunchPhase1
  <2> DEFINE launch == {"1.company_resolve", "2.subdomains", "8.people_osint"}
  <2>1. launch \subseteq NotYet(main) /\ \A s \in launch : AwaitedBy[s] = {}
    BY <1>2, StepsListed DEF LaunchPhase1, NotYet, AwaitedBy
  <2>2. main \in Running /\ "wait2" \in Running
    BY <1>2 DEF LaunchPhase1, Running, MainState, Ended
  <2> QED
    BY <1>2, <2>1, <2>2, PhaseRefines DEF LaunchPhase1
<1>3. CASE LaunchIpResolve
  <2>1. /\ {"3.ip_resolve"} \subseteq NotYet(main)
        /\ AwaitedBy["3.ip_resolve"] = {"2.subdomains"}
    BY <1>3, StepsListed DEF LaunchIpResolve, NotYet, AwaitedBy
  <2>2. main \in Running /\ "wait3" \in Running
    BY <1>3 DEF LaunchIpResolve, Running, MainState, Ended
  <2> QED
    BY <1>3, <2>1, <2>2, PhaseRefines DEF LaunchIpResolve
<1>4. CASE LaunchProbes
  <2>1. /\ {"4.ports", "5.fingerprint"} \subseteq NotYet(main)
        /\ AwaitedBy["4.ports"] = {"3.ip_resolve"}
        /\ AwaitedBy["5.fingerprint"] = {"3.ip_resolve"}
    BY <1>4, StepsListed DEF LaunchProbes, NotYet, AwaitedBy
  <2>2. main \in Running /\ "barrier" \in Running
    BY <1>4 DEF LaunchProbes, Running, MainState, Ended
  <2> QED
    BY <1>4, <2>1, <2>2, PhaseRefines DEF LaunchProbes
<1>5. CASE LaunchTriage
  <2>1. /\ {"9.ai_triage"} \subseteq NotYet(main)
        /\ AwaitedBy["9.ai_triage"] = {"1.company_resolve", "6.nuclei_match",
                                       "7.cve_lookup", "8.people_osint"}
    BY <1>5, StepsListed DEF LaunchTriage, NotYet, AwaitedBy
  <2>2. fut["6.nuclei_match"] = "done" /\ fut["7.cve_lookup"] = "done"
    BY <1>5, Probes DEF LaunchTriage, GraphInv, ProbeFollowsBranch
  <2>3. main \in Running /\ "wait9" \in Running
    BY <1>5 DEF LaunchTriage, Running, MainState, Ended
  <2> QED
    BY <1>5, <2>1, <2>2, <2>3, PhaseRefines DEF LaunchTriage
<1>6. CASE LaunchReport
  <2>1. /\ {"10.report_writer"} \subseteq NotYet(main)
        /\ AwaitedBy["10.report_writer"] = {"9.ai_triage"}
    BY <1>6, StepsListed DEF LaunchReport, NotYet, AwaitedBy
  <2>2. main \in Running /\ "wait10" \in Running
    BY <1>6 DEF LaunchReport, Running, MainState, Ended
  <2> QED
    BY <1>6, <2>1, <2>2, PhaseRefines DEF LaunchReport
<1>7. CASE WaitRaises \/ WaitAborts \/ BarrierAborts \/ BarrierRaises
  <2>1. Outcome = "open" /\ Outcome' = "open"
    BY <1>7 DEF WaitRaises, WaitAborts, WaitsFor, BarrierAborts, BarrierRaises, Handler,
                Outcome
  <2>2. \A s \in Steps : Moves(s)
    BY <1>7 DEF WaitRaises, WaitAborts, BarrierAborts, BarrierRaises, Cancelled, Moves, Live
  <2> QED
    BY <2>1, <2>2, EndRefines
<1> QED
  BY <1>1, <1>2, <1>3, <1>4, <1>5, <1>6, <1>7, StopRefines, CompleteRefines DEF Main

\* Every run of the pipeline is a run of the task graph over its ten steps.
THEOREM GraphRefinedHolds == Spec => GraphRefined
<1>1. Init => Graph!Init
  <2> SUFFICES ASSUME Init PROVE Graph!Init
    OBVIOUS
  <2>1. \A s \in Steps : fut[s] = "idle"
    BY DEF Init
  <2>2. Progress = [s \in Steps |-> "waiting"]
    BY <2>1, ProgressMeans
  <2>3. Outcome = "open"
    BY DEF Init, Outcome
  <2> QED
    BY <2>2, <2>3 DEF Graph!Init
<1>2. GraphInv /\ [Next]_vars => [Graph!Next]_(Graph!vars)
  <2> SUFFICES ASSUME GraphInv, [Next]_vars PROVE Graph!Next \/ UNCHANGED Graph!vars
    OBVIOUS
  <2>1. CASE UNCHANGED vars
    BY <2>1 DEF vars, Graph!vars, Progress, Outcome
  <2>2. CASE Next
    BY <2>2, OthersRefine, BranchRefines, MainRefines DEF Next
  <2> QED
    BY <2>1, <2>2
<1> QED
  BY <1>1, <1>2, GraphInvariant, PTL DEF Spec, GraphRefined, Graph!Spec

-----------------------------------------------------------------------------
(* What a complete run has stored, and what its triage has seen.           *)

\* The steps that this run does not skip.
Runs(s) == ShouldRunStep(initial, s, scan.mode, scan.stages)

\* A step that ended well has stored its results.
ResultsStored == \A s \in Steps : fut[s] = "done" /\ Runs(s) => Flow[s].stores \subseteq db

\* In a run from the first step the context holds what is stored, and of what a step is about to
\* store all but the exposures; the vulnerabilities are stored by step 7, which is the only one to
\* take anything out of the context.
FromInit == main # "polled" /\ initial = "init"
NothingBefore == main = "polled" /\ row.step = "init" => db = {}
StoredInContext == FromInit => db \subseteq ctx
VulnsStoredLast == FromInit /\ fut["7.cve_lookup"] # "done" => db \cap Vulns = {}
WrittenInContext ==
  \A s \in Steps : fut[s] = "written" =>
    /\ Flow[s].stores # {}
    /\ FromInit => Flow[s].stores \ {"exposures"} \subseteq ctx

\* The triage has seen what is stored when it ends, and only the report is stored after it.
SeenByTriage ==
  FromInit /\ fut["9.ai_triage"] = "done" /\ Runs("9.ai_triage") => db \ {"report"} \subseteq triaged

StoredInv ==
  /\ ResultsStored /\ NothingBefore /\ StoredInContext /\ VulnsStoredLast
  /\ WrittenInContext /\ SeenByTriage

\* Nothing is submitted while the main coroutine has only polled the job.
LEMMA PolledIsIdle ==
  ASSUME GraphInv, main = "polled"
  PROVE  \A s \in Steps : fut[s] = "idle"
  BY DEF GraphInv, NotSubmitted, NotYet

\* When the triage has been submitted, every step but it and the report has ended.
LEMMA TriageIsNext ==
  ASSUME UpstreamDone, fut["9.ai_triage"] # "idle"
  PROVE  \A s \in Steps \ {"9.ai_triage", "10.report_writer"} : fut[s] = "done"
<1>1. /\ fut["1.company_resolve"] = "done" /\ fut["6.nuclei_match"] = "done"
      /\ fut["7.cve_lookup"] = "done"      /\ fut["8.people_osint"] = "done"
  BY StepsListed DEF UpstreamDone, AwaitedBy
<1>2. fut["4.ports"] = "done" /\ fut["5.fingerprint"] = "done"
  BY <1>1, StepsListed DEF UpstreamDone, AwaitedBy
<1>3. fut["3.ip_resolve"] = "done"
  BY <1>2, StepsListed DEF UpstreamDone, AwaitedBy
<1>4. fut["2.subdomains"] = "done"
  BY <1>3, StepsListed DEF UpstreamDone, AwaitedBy
<1> QED
  BY <1>1, <1>2, <1>3, <1>4, StepsListed

\* A step that neither starts nor ends a computation changes nothing of this.
LEMMA QuietKeeps ==
  ASSUME StoredInv, UNCHANGED <<db, scan, initial, ctx, triaged>>,
         \A s \in Steps : /\ fut'[s] = "done" <=> fut[s] = "done"
                          /\ fut'[s] = "written" => fut[s] = "written",
         main' = "polled" <=> main = "polled",
         main' # "polled" \/ row'.step = row.step \/ row'.step # "init"
  PROVE  StoredInv'
<1>1. "7.cve_lookup" \in Steps /\ "9.ai_triage" \in Steps
  BY StepsListed
<1>2. ResultsStored'
  BY DEF StoredInv, ResultsStored, Runs
<1>3. NothingBefore'
  BY DEF StoredInv, NothingBefore
<1>4. StoredInContext' /\ VulnsStoredLast' /\ WrittenInContext'
  BY <1>1 DEF StoredInv, StoredInContext, VulnsStoredLast, WrittenInContext, FromInit
<1>5. SeenByTriage'
  BY <1>1 DEF StoredInv, SeenByTriage, FromInit, Runs
<1> QED
  BY <1>2, <1>3, <1>4, <1>5 DEF StoredInv

\* A future that is cancelled, or submitted when idle, was not done and is not.
LEMMA FutQuiet ==
  ASSUME NEW S,
         fut' = Cancelled(S) \/ (fut' = Launched(S) /\ \A s \in S \cap Steps : fut[s] = "idle")
           \/ fut' = fut
  PROVE  \A s \in Steps : /\ fut'[s] = "done" <=> fut[s] = "done"
                          /\ fut'[s] = "written" => fut[s] = "written"
  BY DEF Cancelled, Launched

\* A phase submits idle steps.
LEMMA PhaseQuiet ==
  ASSUME GraphInv, StoredInv, main # "polled", NEW next \in MainState \ {"polled"},
         NEW launch \in SUBSET NotYet(main), NEW spawned, Phase(next, launch, spawned)
  PROVE  StoredInv'
<1>1. \A s \in launch : fut[s] = "idle"
  BY DEF GraphInv, NotSubmitted
<1>2. fut' = fut \/ fut' = Launched(launch)
  BY DEF Phase
<1>3. \A s \in Steps : /\ fut'[s] = "done" <=> fut[s] = "done"
                       /\ fut'[s] = "written" => fut[s] = "written"
  BY <1>1, <1>2, FutQuiet
<1>4. main' # "polled" /\ UNCHANGED <<db, scan, initial, ctx, triaged>>
  BY DEF Phase
<1> QED
  BY <1>3, <1>4, QuietKeeps

\* The main coroutine takes over what is stored, and computes nothing itself.
LEMMA StoredMain ==
  ASSUME GraphInv, StoredInv, Main
  PROVE  StoredInv'
<1>1. CASE StartRun
  <2>1. /\ \A s \in Steps : fut'[s] = "idle"
        /\ main' = "phase1" /\ initial' = row.step /\ db' = db
    BY <1>1, PolledIsIdle DEF StartRun
  <2>2. "7.cve_lookup" \in Steps /\ "9.ai_triage" \in Steps
    BY StepsListed
  <2>3. initial' = "init" => db' = {}
    BY <1>1, <2>1 DEF StoredInv, NothingBefore, StartRun
  <2>4. ResultsStored' /\ NothingBefore' /\ WrittenInContext' /\ SeenByTriage'
    BY <2>1, <2>2 DEF ResultsStored, NothingBefore, WrittenInContext, SeenByTriage
  <2>5. StoredInContext' /\ VulnsStoredLast'
    BY <2>3 DEF StoredInContext, VulnsStoredLast, FromInit
  <2> QED
    BY <2>4, <2>5 DEF StoredInv
<1>2. CASE LaunchPhase1
  BY <1>2, PhaseQuiet, StepsListed DEF LaunchPhase1, NotYet, MainState
<1>3. CASE LaunchIpResolve
  BY <1>3, PhaseQuiet, StepsListed DEF LaunchIpResolve, NotYet, MainState
<1>4. CASE LaunchProbes
  BY <1>4, PhaseQuiet, StepsListed DEF LaunchProbes, NotYet, MainState
<1>5. CASE LaunchTriage
  BY <1>5, PhaseQuiet, StepsListed DEF LaunchTriage, NotYet, MainState
<1>6. CASE LaunchReport
  BY <1>6, PhaseQuiet, StepsListed DEF LaunchReport, NotYet, MainState
<1>7. CASE WaitRaises \/ WaitAborts \/ BarrierAborts \/ BarrierRaises
  <2>1. /\ UNCHANGED <<db, scan, initial, ctx, triaged>>
        /\ main # "polled" /\ main' # "polled"
    BY <1>7 DEF WaitRaises, WaitAborts, BarrierAborts, BarrierRaises, WaitsFor, Handler
  <2>2. \E S : fut' = Cancelled(S) \/ fut' = fut
    BY <1>7 DEF WaitRaises, WaitAborts, BarrierAborts, BarrierRaises
  <2>3. \A s \in Steps : /\ fut'[s] = "done" <=> fut[s] = "done"
                         /\ fut'[s] = "written" => fut[s] = "written"
    BY <2>2, FutQuiet
  <2> QED
    BY <2>1, <2>3, QuietKeeps
<1>8. CASE FinishComplete \/ FinishAborted \/ FinishFailed
  <2>1. /\ UNCHANGED <<db, scan, initial, ctx, triaged>>
        /\ main # "polled" /\ main' # "polled" /\ fut' = Cancelled(Steps)
    BY <1>8 DEF FinishComplete, FinishAborted, FinishFailed, Finally
  <2>2. \A s \in Steps : /\ fut'[s] = "done" <=> fut[s] = "done"
                         /\ fut'[s] = "written" => fut[s] = "written"
    BY <2>1, FutQuiet
  <2> QED
    BY <2>1, <2>2, QuietKeeps
<1> QED
  BY <1>1, <1>2, <1>3, <1>4, <1>5, <1>6, <1>7, <1>8 DEF Main

\* So do the branches.
LEMMA StoredBranch ==
  ASSUME GraphInv, StoredInv, NEW b \in Branches, Branch(b)
  PROVE  StoredInv'
<1>1. /\ UNCHANGED <<db, scan, initial, ctx, triaged>>
      /\ main' = main /\ main # "polled"
  BY DEF Branch, BranchLaunch, GateRaises, GateAborts, BranchReturns, ProbeAborts
<1>2. \/ fut' = fut
      \/ \E S : fut' = Cancelled(S)
      \/ fut' = Launched({Probe[b]}) /\ fut[Probe[b]] = "idle"
  BY DEF Branch, BranchLaunch, GateRaises, GateAborts, BranchReturns, ProbeAborts,
         GraphInv, ProbeFollowsBranch
<1>3. \A s \in Steps : /\ fut'[s] = "done" <=> fut[s] = "done"
                       /\ fut'[s] = "written" => fut[s] = "written"
  BY <1>2, FutQuiet
<1> QED
  BY <1>1, <1>3, QuietKeeps

\* The abort handler and the monitor: a row that is cancelled has left "init".
LEMMA StoredAbort ==
  ASSUME StoredInv, AbortRequest \/ AbortWrite \/ AbortMonitor
  PROVE  StoredInv'
<1>1. UNCHANGED <<db, scan, initial, ctx, triaged, main, fut>>
  BY DEF AbortRequest, AbortWrite, AbortMonitor
<1>2. row'.step = row.step \/ row'.step # "init"
  BY DEF AbortRequest, AbortWrite, AbortMonitor, UpdateScanJob
<1> QED
  BY <1>1, <1>2, QuietKeeps

\* What the ten steps write and store.
LEMMA FlowListed ==
  /\ Flow["9.ai_triage"].stores = {} /\ Flow["6.nuclei_match"].stores = {}
  /\ Flow["10.report_writer"].stores = {"report"}
  /\ Flow["7.cve_lookup"].stores = {"cve"}
  /\ \A s \in Steps \ {"8.people_osint"} : Flow[s].stores \subseteq Flow[s].writes
  /\ Flow["8.people_osint"].stores = {"people", "exposures"}
  /\ \A s \in Steps \ {"7.cve_lookup"} : Flow[s].stores \cap Vulns = {}
  BY StepsListed
  DEF Flow, Vulns, DataFlow, step_1_company_resolve, step_2_subdomains,
      step_3_ip_resolve, step_4_ports, step_5_fingerprint, step_6_nuclei, step_7_cve,
      step_8_people, step_9_ai_triage, step_10_report

\* What a thread computes reaches the context first, and the triage sees the context.
LEMMA StoredCompute ==
  ASSUME GraphInv, StoredInv, NEW s \in Steps, Compute(s)
  PROVE  StoredInv'
<1>1. /\ UNCHANGED <<row, scan, initial, main>> /\ fut[s] = "working"
      /\ main # "polled" /\ fut \in [Steps -> FutState]
  BY PolledIsIdle DEF Compute, runVars, GraphInv, TypeOK
<1>2. /\ fut' = [fut EXCEPT ![s] = IF Flow[s].stores = {} THEN "done" ELSE "written"]
      /\ db \subseteq db'
      /\ s # "8.people_osint" => db' = db /\ ctx' = AfterCompute(s)
      /\ s = "8.people_osint" => db' = db \cup {"people"} /\ ctx' = ctx \cup {"people"}
      /\ triaged' = IF s = "9.ai_triage" THEN ctx ELSE triaged
  BY DEF Compute
<1>3. "7.cve_lookup" \in Steps /\ "9.ai_triage" \in Steps /\ "8.people_osint" \in Steps
  BY StepsListed
<1>4. ResultsStored'
  <2> SUFFICES ASSUME NEW t \in Steps, fut'[t] = "done", Runs(t)' PROVE Flow[t].stores \subseteq db'
    BY DEF ResultsStored
  <2>1. Runs(t)
    BY <1>1 DEF Runs
  <2>2. CASE t = s
    BY <1>1, <1>2, <2>2
  <2>3. CASE t # s
    BY <1>1, <1>2, <2>1, <2>3 DEF StoredInv, ResultsStored
  <2> QED
    BY <2>2, <2>3
<1>5. NothingBefore'
  BY <1>1 DEF NothingBefore
<1>6. FromInit' = FromInit
  BY <1>1 DEF FromInit
<1>7. ctx \ Vulns \subseteq ctx' /\ (s # "7.cve_lookup" => ctx \subseteq ctx')
  BY <1>2 DEF AfterCompute
<1>8. FromInit /\ s = "7.cve_lookup" => db \cap Vulns = {}
  BY <1>1 DEF StoredInv, VulnsStoredLast
<1>9. StoredInContext'
  <2> SUFFICES ASSUME FromInit PROVE db' \subseteq ctx'
    BY <1>6 DEF StoredInContext
  <2>1. db \subseteq ctx
    BY DEF StoredInv, StoredInContext
  <2>2. db \subseteq ctx'
    BY <1>7, <1>8, <2>1
  <2>3. CASE s = "8.people_osint"
    BY <1>2, <2>2, <2>3
  <2>4. CASE s # "8.people_osint"
    BY <1>2, <2>2, <2>4
  <2> QED
    BY <2>3, <2>4
<1>10. VulnsStoredLast'
  <2> SUFFICES ASSUME FromInit, fut'["7.cve_lookup"] # "done" PROVE db' \cap Vulns = {}
    BY <1>6 DEF VulnsStoredLast
  <2>1. fut["7.cve_lookup"] # "done"
    BY <1>1, <1>2, <1>3
  <2>2. db \cap Vulns = {}
    BY <2>1 DEF StoredInv, VulnsStoredLast
  <2> QED
    BY <1>2, <2>2 DEF Vulns
<1>11. WrittenInContext'
  <2> SUFFICES ASSUME NEW t \in Steps, fut'[t] = "written"
               PROVE  /\ Flow[t].stores # {}
                      /\ FromInit => Flow[t].stores \ {"exposures"} \subseteq ctx'
    BY <1>6 DEF WrittenInContext
  <2>0. t = s => Flow[s].stores # {}
    BY <1>1, <1>2
  <2>1. CASE t = s
    <3>1. CASE s = "8.people_osint"
      BY <1>2, <2>0, <2>1, <3>1, FlowListed
    <3>2. CASE s # "8.people_osint"
      BY <1>2, <2>0, <2>1, <3>2, FlowListed DEF AfterCompute
    <3> QED
      BY <3>1, <3>2
  <2>2. CASE t # s
    <3>1. fut[t] = "written"
      BY <1>1, <1>2, <2>2
    <3>2. Flow[t].stores # {} /\ (FromInit => Flow[t].stores \ {"exposures"} \subseteq ctx)
      BY <3>1 DEF StoredInv, WrittenInContext
    <3>3. t # "7.cve_lookup" => Flow[t].stores \cap Vulns = {}
      BY FlowListed
    <3> QED
      BY <1>7, <2>2, <3>2, <3>3
  <2> QED
    BY <2>1, <2>2
<1>12. SeenByTriage'
  <2> SUFFICES ASSUME FromInit, fut'["9.ai_triage"] = "done", Runs("9.ai_triage")'
               PROVE  db' \ {"report"} \subseteq triaged'
    BY <1>6 DEF SeenByTriage
  <2>1. CASE s = "9.ai_triage"
    BY <1>2, <2>1 DEF StoredInv, StoredInContext
  <2>2. CASE s # "9.ai_triage"
    <3>1. fut["9.ai_triage"] = "done" /\ Runs("9.ai_triage")
      BY <1>1, <1>2, <1>3, <2>2 DEF Runs
    <3>2. s # "8.people_osint"
      BY <1>1, <1>3, <3>1, TriageIsNext DEF GraphInv
    <3> QED
      BY <1>2, <2>2, <3>1, <3>2 DEF StoredInv, SeenByTriage
  <2> QED
    BY <2>1, <2>2
<1> QED
  BY <1>4, <1>5, <1>9, <1>10, <1>11, <1>12 DEF StoredInv

\* What a thread stores is in the context by then.
LEMMA StoredStore ==
  ASSUME GraphInv, StoredInv, NEW s \in Steps, Store(s)
  PROVE  StoredInv'
<1>1. /\ UNCHANGED <<row, scan, initial, main, triaged>> /\ fut[s] = "written"
      /\ main # "polled" /\ fut \in [Steps -> FutState]
  BY PolledIsIdle DEF Store, runVars, GraphInv, TypeOK
<1>2. /\ fut' = [fut EXCEPT ![s] = "done"]
      /\ ctx' = ctx \cup IF s = "8.people_osint" THEN {"exposures"} ELSE {}
      /\ db' = db \cup Flow[s].stores \cup IF s = "7.cve_lookup" THEN ctx \cap Vulns ELSE {}
  BY DEF Store
<1>3. "7.cve_lookup" \in Steps /\ "9.ai_triage" \in Steps
  BY StepsListed
<1>4. FromInit' = FromInit /\ \A t \in Steps : Runs(t)' = Runs(t)
  BY <1>1 DEF FromInit, Runs
<1>5. ResultsStored'
  <2> SUFFICES ASSUME NEW t \in Steps, fut'[t] = "done", Runs(t) PROVE Flow[t].stores \subseteq db'
    BY <1>4 DEF ResultsStored
  <2>1. CASE t = s
    BY <1>2, <2>1
  <2>2. CASE t # s
    BY <1>1, <1>2, <2>2 DEF StoredInv, ResultsStored
  <2> QED
    BY <2>1, <2>2
<1>6. NothingBefore'
  BY <1>1 DEF NothingBefore
<1>7. FromInit => Flow[s].stores \subseteq ctx'
  <2>1. FromInit => Flow[s].stores \ {"exposures"} \subseteq ctx
    BY <1>1 DEF StoredInv, WrittenInContext
  <2>2. CASE s = "8.people_osint"
    BY <1>2, <2>1, <2>2
  <2>3. CASE s # "8.people_osint"
    <3>1. "exposures" \notin Flow[s].stores
      BY <2>3, StepsListed
      DEF Flow, DataFlow, step_1_company_resolve, step_2_subdomains, step_3_ip_resolve,
          step_4_ports, step_5_fingerprint, step_6_nuclei, step_7_cve, step_9_ai_triage,
          step_10_report
    <3> QED
      BY <1>2, <2>1, <3>1
  <2> QED
    BY <2>2, <2>3
<1>8. StoredInContext'
  <2>1. FromInit => db \subseteq ctx
    BY DEF StoredInv, StoredInContext
  <2> QED
    BY <1>2, <1>4, <1>7, <2>1 DEF StoredInContext
<1>9. VulnsStoredLast'
  <2> SUFFICES ASSUME FromInit, fut'["7.cve_lookup"] # "done" PROVE db' \cap Vulns = {}
    BY <1>4 DEF VulnsStoredLast
  <2>1. s # "7.cve_lookup" /\ fut["7.cve_lookup"] # "done"
    BY <1>1, <1>2, <1>3
  <2>2. db \cap Vulns = {} /\ Flow[s].stores \cap Vulns = {}
    BY <2>1, FlowListed DEF StoredInv, VulnsStoredLast
  <2> QED
    BY <1>2, <2>1, <2>2
<1>10. WrittenInContext'
  <2> SUFFICES ASSUME NEW t \in Steps, fut'[t] = "written"
               PROVE  /\ Flow[t].stores # {}
                      /\ FromInit => Flow[t].stores \ {"exposures"} \subseteq ctx'
    BY <1>4 DEF WrittenInContext
  <2>1. fut[t] = "written"
    BY <1>1, <1>2
  <2> QED
    BY <1>2, <2>1 DEF StoredInv, WrittenInContext
<1>11. SeenByTriage'
  <2> SUFFICES ASSUME FromInit, fut'["9.ai_triage"] = "done", Runs("9.ai_triage")
               PROVE  db' \ {"report"} \subseteq triaged
    BY <1>1, <1>3, <1>4 DEF SeenByTriage
  <2>1. s # "9.ai_triage"
    BY <1>1, FlowListed DEF StoredInv, WrittenInContext
  <2>2. fut["9.ai_triage"] = "done"
    BY <1>1, <1>2, <1>3, <2>1
  <2>3. s = "10.report_writer"
    BY <1>1, <2>1, <2>2, TriageIsNext DEF GraphInv
  <2>4. db' = db \cup {"report"}
    BY <1>2, <2>3, FlowListed
  <2> QED
    BY <2>2, <2>4 DEF StoredInv, SeenByTriage
<1> QED
  BY <1>5, <1>6, <1>8, <1>9, <1>10, <1>11 DEF StoredInv

\* Every thread keeps the invariant.
LEMMA StoredThread ==
  ASSUME GraphInv, StoredInv, NEW s \in Steps, StepThread(s)
  PROVE  StoredInv'
<1>1. CASE Begin(s)
  <2>1. /\ UNCHANGED <<row, db, scan, initial, ctx, triaged, main>> /\ fut[s] = "queued"
        /\ fut \in [Steps -> FutState]
    BY <1>1 DEF Begin, runVars, GraphInv, TypeOK
  <2>2. main # "polled"
    BY <2>1, PolledIsIdle
  <2>3. CASE ~Runs(s) /\ fut' = [fut EXCEPT ![s] = "done"]
    <3>1. "7.cve_lookup" \in Steps /\ "9.ai_triage" \in Steps
      BY StepsListed
    <3>2. FromInit' = FromInit /\ \A t \in Steps : Runs(t)' = Runs(t)
      BY <2>1 DEF FromInit, Runs
    <3>3. \A t \in Steps : t # s => fut'[t] = fut[t]
      BY <2>1, <2>3
    <3>4. fut'[s] = "done"
      BY <2>1, <2>3
    <3>5. ResultsStored' /\ NothingBefore'
      BY <2>1, <2>2, <2>3, <3>2, <3>3 DEF StoredInv, ResultsStored, NothingBefore
    <3>6. StoredInContext' /\ WrittenInContext'
      BY <2>1, <3>2, <3>3, <3>4 DEF StoredInv, StoredInContext, WrittenInContext
    <3>7. VulnsStoredLast'
      BY <2>1, <3>1, <3>2, <3>3, <3>4 DEF StoredInv, VulnsStoredLast
    <3>8. SeenByTriage'
      BY <2>1, <2>3, <3>1, <3>2, <3>3 DEF StoredInv, SeenByTriage
    <3> QED
      BY <3>5, <3>6, <3>7, <3>8 DEF StoredInv
  <2>4. CASE fut' = [fut EXCEPT ![s] = "aborted"] \/ fut' = [fut EXCEPT ![s] = "gated"]
    <3>1. \A t \in Steps : /\ fut'[t] = "done" <=> fut[t] = "done"
                           /\ fut'[t] = "written" => fut[t] = "written"
      BY <2>1, <2>4
    <3> QED
      BY <2>1, <2>2, <3>1, QuietKeeps
  <2> QED
    BY <1>1, <2>3, <2>4 DEF Begin, Runs
<1>2. CASE Checkpoint(s) \/ FailStep(s)
  <2>1. /\ UNCHANGED <<db, scan, initial, ctx, triaged, main>>
        /\ fut[s] \in {"gated", "working", "written"} /\ fut \in [Steps -> FutState]
        /\ fut' = [fut EXCEPT ![s] = "working"] \/ fut' = [fut EXCEPT ![s] = "failed"]
    BY <1>2 DEF Checkpoint, FailStep, runVars, GraphInv, TypeOK
  <2>2. main # "polled"
    BY <2>1, PolledIsIdle
  <2>3. \A t \in Steps : /\ fut'[t] = "done" <=> fut[t] = "done"
                         /\ fut'[t] = "written" => fut[t] = "written"
    BY <2>1
  <2> QED
    BY <2>1, <2>2, <2>3, QuietKeeps
<1>3. CASE Compute(s)
  BY <1>3, StoredCompute
<1>4. CASE Store(s)
  BY <1>4, StoredStore
<1> QED
  BY <1>1, <1>2, <1>3, <1>4 DEF StepThread

\* The invariant holds in every state of every run.
LEMMA StoredInvariant == Spec => []StoredInv
<1>1. Init => StoredInv
  <2> SUFFICES ASSUME Init PROVE StoredInv
    OBVIOUS
  <2>1. main = "polled" /\ \A s \in Steps : fut[s] = "idle"
    BY DEF Init
  <2>2. row.step = "init" => db = {}
    <3>1. PICK k \in StartSteps :
            /\ row = [status |-> IF k = "init" THEN "pending" ELSE "running",
                      step |-> k, completed |-> FALSE]
            /\ db = UNION {Flow[s].stores : s \in Upstream(k) \cap Allowed(scan.mode, scan.stages)}
      BY DEF Init
    <3>2. row.step = "init" => Upstream(k) = {}
      BY <3>1 DEF Upstream
    <3> QED
      BY <3>1, <3>2
  <2>3. "7.cve_lookup" \in Steps /\ "9.ai_triage" \in Steps
    BY StepsListed
  <2> QED
    BY <2>1, <2>2, <2>3
    DEF StoredInv, ResultsStored, NothingBefore, StoredInContext, VulnsStoredLast,
        WrittenInContext, SeenByTriage, FromInit
<1>2. StoredInv /\ GraphInv /\ [Next]_vars => StoredInv'
  <2> SUFFICES ASSUME StoredInv, GraphInv, [Next]_vars PROVE StoredInv'
    OBVIOUS
  <2>1. CASE UNCHANGED vars
    BY <2>1, QuietKeeps DEF vars
  <2>2. CASE Next
    BY <2>2, StoredMain, StoredBranch, StoredAbort, StoredThread DEF Next
  <2> QED
    BY <2>1, <2>2
<1> QED
  BY <1>1, <1>2, GraphInvariant, PTL DEF Spec

\* A complete scan that ran from its first step has stored the results of every stage that its mode
\* allows, in whatever order the threads of the run stored them.
THEOREM CompleteStoresAllHolds == Spec => []CompleteStoresAll
<1>1. GraphInv /\ StoredInv => CompleteStoresAll
  <2> SUFFICES ASSUME GraphInv, StoredInv, main = "complete", initial = "init",
                      NEW s \in Allowed(scan.mode, scan.stages)
               PROVE  Flow[s].stores \subseteq db
    BY DEF CompleteStoresAll
  <2>1. s \in Steps
    BY StepsListed DEF GraphInv, TypeOK, ScanType, Allowed, SCAN_MODES
  <2>2. Runs(s)
    BY NothingSkipped DEF Runs
  <2>3. fut[s] = "done"
    BY <2>1 DEF GraphInv, CompleteMeansFinished
  <2> QED
    BY <2>1, <2>2, <2>3 DEF StoredInv, ResultsStored
<1> QED
  BY <1>1, GraphInvariant, StoredInvariant, PTL

\* Nothing but the report is stored behind the back of the triage: step 7 stores what the context
\* holds by then, and the barrier lets the triage start after every thread that stores findings.
THEOREM StoredIsTriagedHolds == Spec => []StoredIsTriaged
<1>1. GraphInv /\ StoredInv => StoredIsTriaged
  <2>1. "9.ai_triage" \in Steps
    BY StepsListed
  <2> QED
    BY <2>1 DEF GraphInv, CompleteMeansFinished, StoredInv, SeenByTriage, FromInit, Runs,
                StoredIsTriaged
<1> QED
  BY <1>1, GraphInvariant, StoredInvariant, PTL
=============================================================================
