--------------------------- MODULE MCScanPipeline ---------------------------
(***************************************************************************)
(* Instances of ScanPipeline for TLC.                                      *)
(***************************************************************************)
EXTENDS ScanPipeline

Request(mode, stages, directIp) ==
  [mode |-> mode, stages |-> stages, directIp |-> directIp]

\* Every stage that can race runs: the whole graph, as POST /scan starts it.
FullScan == {Request("full", {}, FALSE)}

\* Scans with few active stages: a bare IP address, a stage list, and a mode
\* of four stages.
SmallScans ==
  { Request("full", {}, TRUE),
    Request("full", {"6.nuclei_match", "7.cve_lookup"}, FALSE),
    Request("people_only", {}, FALSE) }

FromStart == {"init"}
Resumed == {"init", "3.ip_resolve", "7.cve_lookup"}

NoStep == {}
Fingerprint == {"5.fingerprint"}
Probes == {"4.ports", "6.nuclei_match"}
=============================================================================
