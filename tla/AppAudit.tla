------------------------------ MODULE AppAudit ------------------------------
(***************************************************************************)
(* The audit of the web applications of a target (vuln/app_vuln): tasks of *)
(* one event loop, a limited number at a time, ask each host and put those *)
(* that answer alike into one cluster; other tasks then run the plugins,   *)
(* one after the other, against the host that came first into a cluster,   *)
(* and record what they find for all of its hosts.                         *)
(***************************************************************************)
EXTENDS Naturals, Sequences, FiniteSets

CONSTANTS
    Hosts,          \* the unique names to audit
    Signatures,     \* what a host can answer: address, status, title, server, length
    PluginCount,    \* number of plugins
    Concurrency     \* max_concurrency

ASSUME AuditAssumption == PluginCount \in Nat

VARIABLES
    phase,      \* "cluster", "audit" or "done"
    asking,     \* what the task of each host does
    clusters,   \* clusters_by_sig: the hosts of each signature, as they came
    audits,     \* the clusters that are audited, each with the number of the next plugin
    ran,        \* history: <<plugin, hosts of the cluster>> of each run of a plugin
    results     \* all_findings: <<plugin, hosts>>

auditVars == <<phase, asking, clusters, audits, ran, results>>

AuditInit ==
    /\ phase = "cluster"
    /\ asking = [h \in Hosts |-> "waiting"]
    /\ clusters = [s \in Signatures |-> <<>>]
    /\ audits = <<>> /\ ran = <<>> /\ results = {}

HostsOf(cluster) == {cluster[k] : k \in DOMAIN cluster}

-----------------------------------------------------------------------------
(* Clustering *)

\* A task takes the semaphore, and keeps it until it has its answer.
AskHost(h) ==
    /\ asking[h] = "waiting"
    /\ Cardinality({g \in Hosts : asking[g] \in {"https", "http"}}) < Concurrency
    /\ asking' = [asking EXCEPT ![h] = "https"]
    /\ UNCHANGED <<phase, clusters, audits, ran, results>>

\* Mutant: the cluster was looked up before the answer was awaited, when it did not exist.
HostAnswers_Stale(h, s) ==
    /\ asking[h] \in {"https", "http"}
    /\ asking' = [asking EXCEPT ![h] = "member"]
    /\ clusters' = [clusters EXCEPT ![s] = <<h>>]
    /\ UNCHANGED <<phase, audits, ran, results>>

\* Between the answer and its place in a cluster the task does not wait.
HostAnswers(h, s) ==
    /\ asking[h] \in {"https", "http"}
    /\ asking' = [asking EXCEPT ![h] = "member"]
    /\ clusters' = [clusters EXCEPT ![s] = Append(@, h)]
    /\ UNCHANGED <<phase, audits, ran, results>>

\* Any error: the other scheme, and then none.
HostFails(h) ==
    /\ asking[h] \in {"https", "http"}
    /\ asking' = [asking EXCEPT ![h] = IF @ = "https" THEN "http" ELSE "unreachable"]
    /\ UNCHANGED <<phase, clusters, audits, ran, results>>

\* Each host by itself.
Direct == {<<h>> : h \in Hosts}

\* The clusters are audited, or each host by itself if there is none.
BeginAudit ==
    /\ phase = "cluster"
    /\ \A h \in Hosts : asking[h] \in {"member", "unreachable"}
    /\ LET formed == {clusters[s] : s \in Signatures} \ {<<>>}
           chosen == IF formed = {} THEN Direct ELSE formed
       IN audits' = [c \in chosen |-> 0]
    /\ phase' = "audit"
    /\ UNCHANGED <<asking, clusters, ran, results>>

\* The clustering fails as a whole, and is given up.
ClusteringFails ==
    /\ phase = "cluster"
    /\ audits' = [c \in Direct |-> 0]
    /\ asking' = [h \in Hosts |-> "unreachable"]
    /\ clusters' = [s \in Signatures |-> <<>>]
    /\ phase' = "audit"
    /\ UNCHANGED <<ran, results>>

-----------------------------------------------------------------------------
(* Audit *)

Running(c) == audits[c] \in 1..PluginCount

StartCluster(c) ==
    /\ phase = "audit"
    /\ audits[c] = 0
    /\ Cardinality({d \in DOMAIN audits : Running(d)}) < Concurrency
    /\ audits' = [audits EXCEPT ![c] = 1]
    /\ UNCHANGED <<phase, asking, clusters, ran, results>>

\* A plugin returns findings or none, or raises, which is only logged; the next one follows.
PluginEnds(c, finds) ==
    /\ phase = "audit"
    /\ Running(c)
    /\ ran' = Append(ran, <<audits[c], c>>)
    /\ results' = IF finds THEN results \cup {<<audits[c], HostsOf(c)>>} ELSE results
    /\ audits' = [audits EXCEPT ![c] = @ + 1]
    /\ UNCHANGED <<phase, asking, clusters>>

EndAudit ==
    /\ phase = "audit"
    /\ \A c \in DOMAIN audits : audits[c] = PluginCount + 1
    /\ phase' = "done"
    /\ UNCHANGED <<asking, clusters, audits, ran, results>>

AuditNext ==
    \/ \E h \in Hosts : AskHost(h) \/ HostFails(h) \/ \E s \in Signatures : HostAnswers(h, s)
    \/ BeginAudit
    \/ ClusteringFails
    \/ \E c \in DOMAIN audits : StartCluster(c) \/ \E finds \in BOOLEAN : PluginEnds(c, finds)
    \/ EndAudit

AuditSpec == AuditInit /\ [][AuditNext]_auditVars

-----------------------------------------------------------------------------
\* When the audit ends every plugin has run exactly once against each cluster, every host that has
\* answered belongs to exactly one, and nothing is recorded for a host that has not, unless none has.
LiveHostsAudited == phase = "done" =>
    LET live == {h \in Hosts : asking[h] = "member"}
        Clusters(h) == {c \in DOMAIN audits : h \in HostsOf(c)}
    IN /\ \A h \in live : Cardinality(Clusters(h)) = 1
       /\ \A h \in Hosts \ live : Clusters(h) = IF live = {} THEN {<<h>>} ELSE {}
       /\ \A c \in DOMAIN audits, n \in 1..PluginCount : Cardinality({k \in DOMAIN ran : ran[k] = <<n, c>>}) = 1
       /\ \A f \in results : \E c \in DOMAIN audits : f[2] = HostsOf(c)
=============================================================================
