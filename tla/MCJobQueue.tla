----------------------------- MODULE MCJobQueue -----------------------------
(***************************************************************************)
(* Instances of JobQueue for TLC.                                          *)
(***************************************************************************)
EXTENDS JobQueue, TLC

\* Two stages that run side by side, one behind the first of them, and the
\* report, which every job has: the shortest list with checkpoints that can
\* be written out of order.
ForkScan == {"2.subdomains", "3.ip_resolve", "8.people_osint"}

\* One stage and the report.
LineScan == {"2.subdomains"}

\* The workers are interchangeable.
WorkerSymmetry == Permutations(Workers)
=============================================================================
