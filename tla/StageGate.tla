------------------------------ MODULE StageGate ------------------------------
(***************************************************************************)
(* Which of the ten stages a scan runs (worker.py).  A stage runs when the *)
(* scan's mode, or the operator's explicit stage list, allows it, and when *)
(* it does not lie before the checkpoint the run was started from.         *)
(*                                                                         *)
(* No variables: the pipeline and the queue modules evaluate these         *)
(* operators inside their actions.                                         *)
(***************************************************************************)
EXTENDS Naturals, Sequences

PIPELINE_STEPS ==
  << "1.company_resolve", "2.subdomains", "3.ip_resolve", "4.ports",
     "5.fingerprint", "6.nuclei_match", "7.cve_lookup", "8.people_osint",
     "9.ai_triage", "10.report_writer" >>

Steps == { PIPELINE_STEPS[i] : i \in 1..10 }

\* The declarative stage sets of the scan modes.
SCAN_MODES ==
  [ full        |-> Steps,
    vm_audit    |-> Steps \ {"1.company_resolve", "2.subdomains", "8.people_osint"},
    infra_vuln  |-> Steps \ {"1.company_resolve", "8.people_osint"},
    people_only |-> {"1.company_resolve", "8.people_osint", "9.ai_triage",
                     "10.report_writer"},
    fast_recon  |-> Steps \ {"1.company_resolve", "6.nuclei_match",
                             "8.people_osint"} ]

\* The stages a scan allows.  A non-empty stage list replaces the mode, and
\* always keeps the report writer; a mode nobody declared means "full".
Allowed(scan_mode, enabled_stages) ==
  IF enabled_stages # {}
  THEN enabled_stages \cup {"10.report_writer"}
  ELSE IF scan_mode \in DOMAIN SCAN_MODES
       THEN SCAN_MODES[scan_mode]
       ELSE SCAN_MODES["full"]

\* PIPELINE_STEPS.index(s)
IndexOf(s) == CHOOSE i \in 1..10 : PIPELINE_STEPS[i] = s

\* The checkpoint half of _should_run_step: "init", an empty value and every
\* value that names no stage ("aborted", "completed") let all stages run.
AtOrAfterCheckpoint(current_step, target_step) ==
  IF current_step \in Steps
  THEN IndexOf(target_step) >= IndexOf(current_step)
  ELSE TRUE

\* _should_run_step
ShouldRunStep(current_step, target_step, scan_mode, enabled_stages) ==
  /\ target_step \in Allowed(scan_mode, enabled_stages)
  /\ AtOrAfterCheckpoint(current_step, target_step)

\* execute_pipeline_dag_async: a full scan of a bare IP address, with no
\* explicit stage list, is run as a vm_audit.
EffectiveMode(is_direct_ip, scan_mode, enabled_stages) ==
  IF is_direct_ip /\ scan_mode = "full" /\ enabled_stages = {}
  THEN "vm_audit"
  ELSE scan_mode

-----------------------------------------------------------------------------
(* The order in which the coroutines of a run submit the steps.            *)

\* The steps whose end the coroutines await before they submit step s.
AwaitedBy ==
  [ s \in Steps |->
      CASE s = "3.ip_resolve"                  -> {"2.subdomains"}
        [] s \in {"4.ports", "5.fingerprint"}  -> {"3.ip_resolve"}
        [] s = "6.nuclei_match"                -> {"5.fingerprint"}
        [] s = "7.cve_lookup"                  -> {"4.ports", "5.fingerprint"}
        [] s = "9.ai_triage"                   -> {"1.company_resolve", "6.nuclei_match",
                                                   "7.cve_lookup", "8.people_osint"}
        [] s = "10.report_writer"              -> {"9.ai_triage"}
        [] OTHER                               -> {} ]

\* Everything that has ended, therefore, before step s starts.
Upstream(s) ==
  CASE s = "3.ip_resolve" -> {"2.subdomains"}
    [] s \in {"4.ports", "5.fingerprint"} -> {"2.subdomains", "3.ip_resolve"}
    [] s = "6.nuclei_match" -> {"2.subdomains", "3.ip_resolve", "5.fingerprint"}
    [] s = "7.cve_lookup" -> {"2.subdomains", "3.ip_resolve", "4.ports", "5.fingerprint"}
    [] s = "9.ai_triage" -> Steps \ {"9.ai_triage", "10.report_writer"}
    [] s = "10.report_writer" -> Steps \ {"10.report_writer"}
    [] OTHER -> {}
===============================================================================
