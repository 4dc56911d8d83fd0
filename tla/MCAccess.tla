------------------------------ MODULE MCAccess ------------------------------
(***************************************************************************)
(* Instances of Access for TLC: two organisations besides the default one, *)
(* and the bodies of a PUT that touch each rule of the endpoint.           *)
(***************************************************************************)
EXTENDS Access, TLC

CONSTANTS t1, t2, t3

Body == [role |-> Keep, active |-> Keep, tenant |-> Keep, allowed |-> Keep]

\* Promotion with reactivation, and demotion with a move to an organisation that may not exist.
MCChanges == {[Body EXCEPT !.role = "system_admin", !.active = TRUE],
              [Body EXCEPT !.role = "operator", !.tenant = t3, !.allowed = {t3}]}
MCTenants == {t1, t2, t3}

Interchangeable == Permutations(Ids) \cup Permutations(Threads) \cup Permutations(Emails)
=============================================================================
