----------------------------- MODULE SiteProofs -----------------------------
(***************************************************************************)
(* The components that go over the sites of a target: the audit of its     *)
(* applications reaches every host that answers with every plugin, once,   *)
(* and the crawl for people comes wherever it should, for all hosts,       *)
(* signatures, plugins and limits, and for all sites.                      *)
(***************************************************************************)
EXTENDS AppAudit, SiteCrawler, SharedFacts, FiniteSetTheorems, SequenceTheorems, TLAPS

-----------------------------------------------------------------------------
(* The audit of applications: the inductive invariant.                     *)

AuditTyped ==
    /\ phase \in {"cluster", "audit", "done"}
    /\ asking \in [Hosts -> {"waiting", "https", "http", "member", "unreachable"}]
    /\ clusters \in [Signatures -> Seq(Hosts)]
    /\ audits \in [DOMAIN audits -> 0..PluginCount + 1]
    /\ ran \in Seq((1..PluginCount) \X DOMAIN audits)

Formed == {clusters[s] : s \in Signatures} \ {<<>>}
Chosen == IF Formed = {} THEN Direct ELSE Formed

\* The hosts that have answered are those of the clusters, each in one.
Grouped == \A h \in Hosts :
    /\ asking[h] = "member" <=> \E s \in Signatures : h \in HostsOf(clusters[s])
    /\ \A s, t \in Signatures : h \in HostsOf(clusters[s]) /\ h \in HostsOf(clusters[t]) => s = t

\* Once all hosts have answered or failed, the audit is of the clusters, and they stay as they are.
Settled ==
    /\ phase = "cluster" => DOMAIN audits = {} /\ ran = <<>> /\ results = {}
    /\ phase # "cluster" => /\ \A h \in Hosts : asking[h] \in {"member", "unreachable"}
                            /\ DOMAIN audits = Chosen
    /\ phase = "done" => \A c \in DOMAIN audits : audits[c] = PluginCount + 1

\* A cluster has had the plugins before its next one, each once.
Counted ==
    /\ \A c \in DOMAIN audits, n \in 1..PluginCount :
         (\E k \in DOMAIN ran : ran[k] = <<n, c>>) <=> n < audits[c]
    /\ \A j, k \in DOMAIN ran : ran[j] = ran[k] => j = k
    /\ \A f \in results : \E c \in DOMAIN audits : f[2] = HostsOf(c)

AuditInv == AuditTyped /\ Grouped /\ Settled /\ Counted

-----------------------------------------------------------------------------
(* The audit of applications: the steps.                                   *)

\* Who comes last into a cluster is of it, with those before.
LEMMA HostsAppended ==
  ASSUME NEW cluster \in Seq(Hosts), NEW h \in Hosts
  PROVE  HostsOf(Append(cluster, h)) = HostsOf(cluster) \cup {h}
<1>1. /\ Len(Append(cluster, h)) = Len(cluster) + 1 /\ Len(cluster) \in Nat
      /\ DOMAIN cluster = 1..Len(cluster) /\ DOMAIN Append(cluster, h) = 1..Len(cluster) + 1
      /\ \A k \in 1..Len(cluster) : Append(cluster, h)[k] = cluster[k]
      /\ Append(cluster, h)[Len(cluster) + 1] = h
  OBVIOUS
<1>2. 1..Len(cluster) + 1 = (1..Len(cluster)) \cup {Len(cluster) + 1}
  BY <1>1
<1> QED
  BY <1>1, <1>2 DEF HostsOf

LEMMA AuditInvStarts == AuditInit => AuditInv
<1> SUFFICES ASSUME AuditInit PROVE AuditInv
  OBVIOUS
<1>1. DOMAIN audits = {} /\ ran = <<>> /\ DOMAIN ran = {}
  BY DEF AuditInit
<1>2. \A s \in Signatures : HostsOf(clusters[s]) = {}
  BY DEF AuditInit, HostsOf
<1>3. AuditTyped
  <2>1. audits \in [DOMAIN audits -> 0..PluginCount + 1]
    BY <1>1 DEF AuditInit
  <2>2. ran \in Seq((1..PluginCount) \X DOMAIN audits)
    BY <1>1
  <2>3. clusters \in [Signatures -> Seq(Hosts)]
    BY DEF AuditInit
  <2> QED
    BY <2>1, <2>2, <2>3 DEF AuditInit, AuditTyped
<1>4. Grouped
  BY <1>2 DEF AuditInit, Grouped
<1>5. Settled /\ Counted
  BY <1>1 DEF AuditInit, Settled, Counted
<1> QED
  BY <1>3, <1>4, <1>5 DEF AuditInv

\* While hosts are asked nothing is audited yet.
LEMMA AskingKeeps ==
  ASSUME AuditInv, NEW h \in Hosts, AskHost(h) \/ HostFails(h) \/ \E s \in Signatures : HostAnswers(h, s)
  PROVE  AuditInv'
<1>0. AuditTyped /\ Grouped /\ Settled /\ Counted
  BY DEF AuditInv
<1>1. /\ UNCHANGED <<phase, audits, ran, results>> /\ asking[h] \in {"waiting", "https", "http"}
      /\ phase = "cluster"
  BY <1>0 DEF AskHost, HostFails, HostAnswers, Settled
<1>2. Settled' /\ Counted'
  BY <1>0, <1>1 DEF Settled, Counted, HostsOf
<1>3. CASE AskHost(h) \/ HostFails(h)
  <2>1. UNCHANGED clusters /\ \A g \in Hosts : asking'[g] = "member" <=> asking[g] = "member"
    BY <1>0, <1>3 DEF AskHost, HostFails, AuditTyped
  <2>2. AuditTyped'
    BY <1>0, <1>1, <1>3 DEF AskHost, HostFails, AuditTyped
  <2>3. Grouped'
    BY <1>0, <2>1 DEF Grouped, HostsOf
  <2> QED
    BY <1>2, <2>2, <2>3 DEF AuditInv
<1>4. ASSUME NEW s \in Signatures, HostAnswers(h, s) PROVE AuditInv'
  <2>1. /\ asking' = [asking EXCEPT ![h] = "member"]
        /\ clusters' = [clusters EXCEPT ![s] = Append(clusters[s], h)]
    BY <1>4 DEF HostAnswers
  <2>2. /\ Append(clusters[s], h) \in Seq(Hosts)
        /\ HostsOf(Append(clusters[s], h)) = HostsOf(clusters[s]) \cup {h}
    BY <1>0, HostsAppended DEF AuditTyped
  <2>3. AuditTyped'
    BY <1>0, <1>1, <2>1, <2>2 DEF AuditTyped
  <2>4. \A t \in Signatures : HostsOf(clusters'[t]) = HostsOf(clusters[t]) \cup (IF t = s THEN {h} ELSE {})
    BY <1>0, <2>1, <2>2 DEF AuditTyped
  <2>5. asking[h] # "member" /\ \A t \in Signatures : h \notin HostsOf(clusters[t])
    BY <1>0, <1>1 DEF Grouped
  <2>6. \A g \in Hosts : asking'[g] = IF g = h THEN "member" ELSE asking[g]
    BY <1>0, <2>1 DEF AuditTyped
  <2>7. Grouped'
    <3> SUFFICES ASSUME NEW g \in Hosts
                 PROVE  /\ asking'[g] = "member" <=> \E t \in Signatures : g \in HostsOf(clusters'[t])
                        /\ \A t, u \in Signatures :
                             g \in HostsOf(clusters'[t]) /\ g \in HostsOf(clusters'[u]) => t = u
      BY DEF Grouped, HostsOf
    <3>1. CASE g = h
      BY <2>4, <2>5, <2>6, <3>1
    <3>2. CASE g # h
      BY <1>0, <2>4, <2>6, <3>2 DEF Grouped
    <3> QED
      BY <3>1, <3>2
  <2> QED
    BY <1>2, <2>3, <2>7 DEF AuditInv
<1> QED
  BY <1>3, <1>4

\* The audit begins with no plugin run.
LEMMA BeginKeeps ==
  ASSUME AuditInv, BeginAudit \/ ClusteringFails
  PROVE  AuditInv'
<1>0. AuditTyped /\ Grouped /\ Settled /\ Counted
  BY DEF AuditInv
<1>1. phase = "cluster" /\ phase' = "audit" /\ UNCHANGED <<ran, results>> /\ ran = <<>> /\ results = {}
  BY <1>0 DEF BeginAudit, ClusteringFails, Settled
<1>2. /\ audits' = [c \in Chosen' |-> 0]
      /\ \A h \in Hosts : asking'[h] \in {"member", "unreachable"}
      /\ clusters' \in [Signatures -> Seq(Hosts)]
      /\ asking' \in [Hosts -> {"waiting", "https", "http", "member", "unreachable"}]
      /\ Grouped'
  <2>1. CASE BeginAudit
    <3>1. UNCHANGED <<asking, clusters>>
      BY <2>1 DEF BeginAudit
    <3>2. Formed' = Formed /\ Chosen' = Chosen
      BY <3>1 DEF Formed, Chosen, Direct
    <3>3. audits' = [c \in Chosen' |-> 0]
      BY <2>1, <3>2 DEF BeginAudit, Formed, Chosen
    <3>4. Grouped'
      BY <1>0, <3>1 DEF Grouped, HostsOf
    <3> QED
      BY <1>0, <2>1, <3>1, <3>3, <3>4 DEF BeginAudit, AuditTyped
  <2>2. CASE ClusteringFails
    <3>1. /\ clusters' = [s \in Signatures |-> <<>>] /\ asking' = [h \in Hosts |-> "unreachable"]
          /\ audits' = [c \in Direct |-> 0]
      BY <2>2 DEF ClusteringFails
    <3>2. Formed' = {} /\ Chosen' = Direct
      BY <3>1 DEF Formed, Chosen, Direct
    <3>3. \A s \in Signatures : HostsOf(clusters'[s]) = {}
      BY <3>1 DEF HostsOf
    <3>4. Grouped'
      BY <3>1, <3>3 DEF Grouped, HostsOf
    <3> QED
      BY <3>1, <3>2, <3>4
  <2> QED
    BY <2>1, <2>2
<1> HIDE DEF Chosen
<1>3. DOMAIN audits' = Chosen' /\ \A c \in DOMAIN audits' : audits'[c] = 0
  BY <1>2
<1>4. DOMAIN ran' = {} /\ ran' = <<>>
  BY <1>1
<1>5. AuditTyped'
  <2>1. 0 \in 0..PluginCount + 1
    BY AuditAssumption
  <2>2. audits' \in [DOMAIN audits' -> 0..PluginCount + 1]
    BY <1>2, <1>3, <2>1
  <2>3. ran' \in Seq((1..PluginCount) \X DOMAIN audits')
    BY <1>4
  <2> QED
    BY <1>1, <1>2, <2>2, <2>3 DEF AuditTyped
<1>6. Settled'
  BY <1>1, <1>2, <1>3 DEF Settled
<1>7. Counted'
  <2>1. \A c \in DOMAIN audits', n \in 1..PluginCount : ~ (n < audits'[c])
    BY <1>3
  <2> QED
    BY <1>1, <1>4, <2>1 DEF Counted
<1> QED
  BY <1>2, <1>5, <1>6, <1>7 DEF AuditInv

\* A cluster is audited by one plugin after the other.
LEMMA AuditStepKeeps ==
  ASSUME AuditInv, NEW c \in DOMAIN audits,
         StartCluster(c) \/ \E finds \in BOOLEAN : PluginEnds(c, finds)
  PROVE  AuditInv'
<1>0. AuditTyped /\ Grouped /\ Settled /\ Counted /\ PluginCount \in Nat
  BY AuditAssumption DEF AuditInv
<1>1. phase = "audit" /\ UNCHANGED <<phase, asking, clusters>>
  BY DEF StartCluster, PluginEnds
<1>2. audits[c] \in 0..PluginCount /\ audits' = [audits EXCEPT ![c] = audits[c] + 1]
  BY <1>0 DEF StartCluster, PluginEnds, Running
<1>3. /\ DOMAIN audits' = DOMAIN audits /\ audits' \in [DOMAIN audits' -> 0..PluginCount + 1]
      /\ \A d \in DOMAIN audits : audits'[d] = IF d = c THEN audits[c] + 1 ELSE audits[d]
  BY <1>0, <1>2 DEF AuditTyped
<1>4. Grouped'
  BY <1>0, <1>1 DEF Grouped, HostsOf
<1>5. Settled'
  <2>1. Chosen' = Chosen
    BY <1>1 DEF Chosen, Formed, Direct
  <2> QED
    BY <1>0, <1>1, <1>3, <2>1 DEF Settled
<1>6. CASE StartCluster(c)
  <2>1. UNCHANGED <<ran, results>> /\ audits[c] = 0
    BY <1>6 DEF StartCluster
  <2>2. AuditTyped'
    BY <1>0, <1>1, <1>3, <2>1 DEF AuditTyped
  <2>3. ASSUME NEW d \in DOMAIN audits, NEW n \in 1..PluginCount
        PROVE  n < audits'[d] <=> n < audits[d]
    BY <1>3, <2>1
  <2>4. Counted'
    BY <1>0, <1>3, <2>1, <2>3 DEF Counted, HostsOf
  <2> QED
    BY <1>4, <1>5, <2>2, <2>4 DEF AuditInv
<1>7. ASSUME NEW finds \in BOOLEAN, PluginEnds(c, finds) PROVE AuditInv'
  <2> DEFINE m == audits[c]
             this == <<m, c>>
  <2>1. /\ m \in 1..PluginCount /\ ran' = Append(ran, this)
        /\ results' = IF finds THEN results \cup {<<m, HostsOf(c)>>} ELSE results
    BY <1>7 DEF PluginEnds, Running
  <2>2. this \in (1..PluginCount) \X DOMAIN audits /\ ran \in Seq((1..PluginCount) \X DOMAIN audits)
    BY <1>0, <2>1 DEF AuditTyped
  <2>3. \A d, n : <<n, d>> = this <=> n = m /\ d = c
    OBVIOUS
  <2> HIDE DEF this
  <2>4. /\ ran' \in Seq((1..PluginCount) \X DOMAIN audits) /\ Len(ran) \in Nat
        /\ DOMAIN ran = 1..Len(ran) /\ DOMAIN ran' = 1..Len(ran) + 1
        /\ \A k \in 1..Len(ran) : ran'[k] = ran[k]
        /\ ran'[Len(ran) + 1] = this
    BY <2>1, <2>2
  <2>4a. DOMAIN ran' = DOMAIN ran \cup {Len(ran) + 1}
    BY <2>4
  <2>5. AuditTyped'
    BY <1>0, <1>1, <1>3, <2>4 DEF AuditTyped
  <2>6. \A k \in DOMAIN ran : ran[k] # this
    <3>1. ~ (m < audits[c])
      BY <2>1
    <3> QED
      BY <1>0, <2>1, <3>1 DEF Counted, this
  <2>7. ASSUME NEW d \in DOMAIN audits, NEW n \in 1..PluginCount
        PROVE  (\E k \in DOMAIN ran' : ran'[k] = <<n, d>>) <=> n < audits'[d]
    <3>1. (\E k \in DOMAIN ran' : ran'[k] = <<n, d>>)
            <=> (\E k \in DOMAIN ran : ran[k] = <<n, d>>) \/ <<n, d>> = this
      BY <2>4, <2>4a
    <3>2. (\E k \in DOMAIN ran : ran[k] = <<n, d>>) <=> n < audits[d]
      BY <1>0 DEF Counted
    <3>3. n < audits'[d] <=> n < audits[d] \/ (n = m /\ d = c)
      BY <1>3, <2>1
    <3> QED
      BY <2>3, <3>1, <3>2, <3>3
  <2>8. \A j, k \in DOMAIN ran' : ran'[j] = ran'[k] => j = k
    BY <1>0, <2>4, <2>6 DEF Counted
  <2>9. \A f \in results' : \E d \in DOMAIN audits : f[2] = HostsOf(d)
    BY <1>0, <2>1 DEF Counted
  <2>10. Counted'
    <3>1. \A f \in results' : \E d \in DOMAIN audits' : f[2] = HostsOf(d)'
      <4>1. \A d : HostsOf(d)' = HostsOf(d)
        BY DEF HostsOf
      <4> QED
        BY <1>3, <2>9, <4>1
    <3>2. \A d \in DOMAIN audits', n \in 1..PluginCount :
            (\E k \in DOMAIN ran' : ran'[k] = <<n, d>>) <=> n < audits'[d]
      BY <1>3, <2>7
    <3> QED
      BY <2>8, <3>1, <3>2 DEF Counted
  <2> QED
    BY <1>4, <1>5, <2>5, <2>10 DEF AuditInv
<1> QED
  BY <1>6, <1>7

\* Nothing is lost at the end.
LEMMA QuietKeeps ==
  ASSUME AuditInv, UNCHANGED <<asking, clusters, audits, ran, results>>,
         \/ UNCHANGED phase
         \/ phase = "audit" /\ phase' = "done" /\ \A c \in DOMAIN audits : audits[c] = PluginCount + 1
  PROVE  AuditInv'
<1>1. AuditTyped' /\ Grouped'
  BY DEF AuditInv, AuditTyped, Grouped, HostsOf
<1>2. Chosen' = Chosen
  BY DEF Chosen, Formed, Direct
<1>3. Settled'
  BY <1>2 DEF AuditInv, Settled
<1>4. Counted'
  BY DEF AuditInv, Counted, HostsOf
<1> QED
  BY <1>1, <1>3, <1>4 DEF AuditInv

LEMMA AuditInvHolds == AuditSpec => []AuditInv
<1>1. AuditInv /\ [AuditNext]_auditVars => AuditInv'
  <2> SUFFICES ASSUME AuditInv, [AuditNext]_auditVars PROVE AuditInv'
    OBVIOUS
  <2>1. CASE UNCHANGED auditVars
    BY <2>1, QuietKeeps DEF auditVars
  <2>2. CASE EndAudit
    BY <2>2, QuietKeeps DEF EndAudit
  <2>3. CASE AuditNext
    BY <2>2, <2>3, AskingKeeps, BeginKeeps, AuditStepKeeps DEF AuditNext
  <2> QED
    BY <2>1, <2>3
<1> QED
  BY <1>1, AuditInvStarts, PTL DEF AuditSpec

\* However many hosts, signatures, plugins and tasks at a time: when the audit ends each plugin has
\* run once against each cluster, and each host that answered is in one cluster.
THEOREM EveryLiveHostAudited == AuditSpec => []LiveHostsAudited
<1>1. AuditInv => LiveHostsAudited
  <2> SUFFICES ASSUME AuditInv, phase = "done" PROVE LiveHostsAudited
    BY DEF LiveHostsAudited
  <2> DEFINE live == {h \in Hosts : asking[h] = "member"}
             Clusters(h) == {c \in DOMAIN audits : h \in HostsOf(c)}
  <2>0. AuditTyped /\ Grouped /\ Settled /\ Counted
    BY DEF AuditInv
  <2>1. DOMAIN audits = Chosen /\ \A c \in DOMAIN audits : audits[c] = PluginCount + 1
    BY <2>0 DEF Settled
  <2>2. ASSUME NEW h \in live PROVE Cardinality(Clusters(h)) = 1
    <3>1. PICK s \in Signatures : h \in HostsOf(clusters[s])
      BY <2>0 DEF Grouped
    <3>2. clusters[s] # <<>>
      BY <3>1 DEF HostsOf
    <3>3. clusters[s] \in Chosen /\ Chosen = Formed
      BY <3>2 DEF Chosen, Formed
    <3>4. \A c \in Formed : h \in HostsOf(c) => c = clusters[s]
      BY <2>0, <3>1 DEF Formed, Grouped
    <3>5. Clusters(h) = {clusters[s]}
      BY <2>1, <3>1, <3>3, <3>4
    <3> QED
      BY <3>5, FS_Singleton
  <2>3. ASSUME NEW h \in Hosts \ live
        PROVE  Clusters(h) = IF live = {} THEN {<<h>>} ELSE {}
    <3>1. \A s \in Signatures : h \notin HostsOf(clusters[s])
      BY <2>0 DEF Grouped
    <3>2. CASE live = {}
      <4>1. \A s \in Signatures : \A k \in DOMAIN clusters[s] : clusters[s][k] \in Hosts
        BY <2>0 DEF AuditTyped
      <4>2. \A s \in Signatures : DOMAIN clusters[s] = {}
        BY <2>0, <3>2, <4>1 DEF Grouped, HostsOf
      <4>3. ASSUME NEW s \in Signatures PROVE clusters[s] = <<>>
        <5>1. clusters[s] \in Seq(Hosts) /\ DOMAIN clusters[s] = {}
          BY <2>0, <4>2 DEF AuditTyped
        <5>2. Len(clusters[s]) \in Nat /\ DOMAIN clusters[s] = 1..Len(clusters[s])
          BY <5>1, LenProperties
        <5>3. Len(clusters[s]) \notin Nat \ {0}
          <6>1. 1 \notin 1..Len(clusters[s])
            BY <5>1, <5>2
          <6> QED
            BY <5>2, <6>1
        <5> QED
          BY <5>1, <5>3, EmptySeq
      <4>4. DOMAIN audits = Direct
        BY <2>1, <4>3 DEF Chosen, Formed
      <4>5. \A g : HostsOf(<<g>>) = {g}
        BY DEF HostsOf
      <4>6. Clusters(h) = {<<h>>}
        BY <4>4, <4>5 DEF Direct
      <4> QED
        BY <3>2, <4>6
    <3>3. CASE live # {}
      <4>1. PICK g \in live : TRUE
        BY <3>3
      <4>2. PICK s \in Signatures : g \in HostsOf(clusters[s])
        BY <2>0 DEF Grouped
      <4>3. clusters[s] \in Formed
        BY <4>2 DEF Formed, HostsOf
      <4>4. Clusters(h) = {}
        BY <2>1, <3>1, <4>3 DEF Chosen, Formed
      <4> QED
        BY <3>3, <4>4
    <3> QED
      BY <3>2, <3>3
  <2>4. ASSUME NEW c \in DOMAIN audits, NEW n \in 1..PluginCount
        PROVE  Cardinality({k \in DOMAIN ran : ran[k] = <<n, c>>}) = 1
    <3>1. n < audits[c]
      BY <2>1, AuditAssumption
    <3>2. PICK k \in DOMAIN ran : ran[k] = <<n, c>>
      BY <2>0, <3>1 DEF Counted
    <3>3. {j \in DOMAIN ran : ran[j] = <<n, c>>} = {k}
      BY <2>0, <3>2 DEF Counted
    <3> QED
      BY <3>3, FS_Singleton
  <2> QED
    BY <2>0, <2>2, <2>3, <2>4 DEF LiveHostsAudited, Counted
<1> QED
  BY <1>1, AuditInvHolds, PTL

-----------------------------------------------------------------------------
(* The crawl of a site: lists.                                             *)

LEMMA PagesAre == Cardinality(Pages) \in Nat /\ Pages = 1..Cardinality(Pages)
  BY CrawlAssumption, FS_CardinalityType

\* The pages of a set, in the order of their numbers, are the pages of the set.
LEMMA AscendingHasAll ==
  ASSUME NEW S \in SUBSET Pages
  PROVE  Ascending(S) \in Seq(Pages) /\ Members(Ascending(S)) = S
<1> DEFINE all == [p \in Pages |-> p]
<1>0. DOMAIN all = Pages /\ \A p \in Pages : all[p] = p
  OBVIOUS
<1>1. all \in Seq(Pages) /\ Members(all) = Pages
  <2>1. all \in [1..Cardinality(Pages) -> Pages]
    BY PagesAre
  <2>2. all \in Seq(Pages)
    BY <2>1, PagesAre
  <2> HIDE DEF all
  <2>3. Members(all) = Pages
    BY <1>0 DEF Members
  <2> QED
    BY <2>2, <2>3
<1> HIDE DEF all
<1>2. Among(all, S) \in Seq(Pages) /\ Members(Among(all, S)) = S
  <2>1. Among(all, S) \in Seq(Pages) /\ Members(Among(all, S)) = Pages \cap S
    BY <1>1, AmongProperties
  <2> QED
    BY <2>1
<1> QED
  BY <1>2 DEF Ascending, all

\* Backwards and at a depth, they are still the same pages.
LEMMA SameItems ==
  ASSUME NEW s \in Seq(Pages), NEW depth \in Nat
  PROVE  /\ Backwards(s) \in Seq(Pages) /\ Members(Backwards(s)) = Members(s)
         /\ AtDepth(depth, s) \in Seq(Pages \X Nat)
         /\ Members(AtDepth(depth, s)) = {<<p, depth>> : p \in Members(s)}
<1>1. Len(s) \in Nat /\ DOMAIN s = 1..Len(s) /\ \A k \in 1..Len(s) : s[k] \in Pages
  OBVIOUS
<1>2. \A k \in 1..Len(s) : Len(s) + 1 - k \in 1..Len(s) /\ Len(s) + 1 - (Len(s) + 1 - k) = k
  BY <1>1
<1>3. Backwards(s) \in Seq(Pages)
  BY <1>1, <1>2 DEF Backwards
<1>4. Members(Backwards(s)) = Members(s)
  <2>1. DOMAIN Backwards(s) = 1..Len(s) /\ \A k \in 1..Len(s) : Backwards(s)[k] = s[Len(s) + 1 - k]
    BY <1>1 DEF Backwards
  <2>2. \A k \in 1..Len(s) : Backwards(s)[Len(s) + 1 - k] = s[k]
    BY <1>2, <2>1
  <2>3. Members(Backwards(s)) \subseteq Members(s)
    BY <1>1, <1>2, <2>1 DEF Members
  <2>4. Members(s) \subseteq Members(Backwards(s))
    BY <1>1, <1>2, <2>1, <2>2 DEF Members
  <2> QED
    BY <2>3, <2>4
<1>5. AtDepth(depth, s) \in Seq(Pages \X Nat) /\ Members(AtDepth(depth, s)) = {<<p, depth>> : p \in Members(s)}
  BY <1>1 DEF AtDepth, Members
<1> QED
  BY <1>3, <1>4, <1>5

-----------------------------------------------------------------------------
(* The crawl of a site: the inductive invariant.                           *)

Entries == Pages \X Nat

\* A record of a contact is of one that the site shows, and its key is one of the contact's.
Records == {r \in [contact : Contacts(site), key : UNION {Members(c) : c \in Contacts(site)}] :
              r.key \in Members(r.contact)}

CrawlTyped ==
    /\ IsSite(site)
    /\ frontier \in Seq(Entries)
    /\ DOMAIN visited \subseteq Pages
    /\ \A q \in DOMAIN visited : visited[q] \in 0..MaxDepth
    /\ found \in Seq(Records)

\* The page p at depth d is followed from a page that has been visited.
LinkedAt(p, d) ==
    /\ p \notin site.out /\ d <= MaxDepth
    /\ \E q \in DOMAIN visited : p \in site.links[q] /\ d = visited[q] + 1

\* What waits and what was visited are seeds, or were linked to.
Linked ==
    /\ \A e \in Members(frontier) : e \in Members(site.seeds) \/ LinkedAt(e[1], e[2])
    /\ \A p \in DOMAIN visited \ Seeds : LinkedAt(p, visited[p])

\* Links of the pages visited have been visited or wait.
Waiting == \A q \in DOMAIN visited : visited[q] < MaxDepth => \A p \in site.links[q] \ site.out :
    p \in DOMAIN visited \/ \E e \in Members(frontier) : e[1] = p /\ e[2] <= MaxDepth

\* No key makes two records, and each key that a page visited shows is in a contact of the list.
KeysOnce(list) == \A m, n \in DOMAIN list : list[m].key = list[n].key => m = n
Holds(list, contact) == \A i \in DOMAIN contact : \E n \in DOMAIN list : contact[i] \in Members(list[n].contact)
AllHeld ==
    /\ KeysOnce(found)
    /\ \A q \in DOMAIN visited : \A contact \in Members(site.shows[q]) : Holds(found, contact)

\* The page p is visited, or waits, at depth d or less.
InTime(p, d) ==
    \/ p \in DOMAIN visited /\ visited[p] <= d
    \/ \E e \in Members(frontier) : e[1] = p /\ e[2] <= d

\* From one host and without preference pages wait in the order of their depths, at most two of them.
InOrder(queue) == \A j, k \in DOMAIN queue : j <= k => queue[j][2] <= queue[k][2] /\ queue[k][2] <= queue[j][2] + 1
ByDepth == OneHost /\ site.high = {} =>
    /\ InOrder(frontier)
    /\ \A q \in DOMAIN visited : \A e \in Members(frontier) : visited[q] <= e[2]
    /\ \A q \in DOMAIN visited : visited[q] < MaxDepth =>
         \A p \in site.links[q] \ site.out : InTime(p, visited[q] + 1)
    /\ \A e \in Members(site.seeds) : e[2] <= MaxDepth => InTime(e[1], e[2])

CrawlInv == CrawlTyped /\ Linked /\ Waiting /\ AllHeld /\ ByDepth

-----------------------------------------------------------------------------
(* The crawl of a site: the steps.                                         *)

LEMMA CrawlInvStarts ==
  ASSUME NEW sites, \A s \in sites : IsSite(s), CrawlInit(sites)
  PROVE  CrawlInv
<1>1. /\ IsSite(site) /\ frontier = site.seeds /\ visited = <<>> /\ found = <<>>
      /\ DOMAIN visited = {} /\ DOMAIN found = {}
  BY DEF CrawlInit
<1>2. site.seeds \in Seq(Entries)
  <2>1. site.seeds \in Seq(Pages \X {0, 1})
    BY <1>1 DEF IsSite
  <2>2. Pages \X {0, 1} \subseteq Entries
    BY DEF Entries
  <2> QED
    BY <2>1, <2>2
<1>3. CrawlTyped
  <2>1. found \in Seq(Records)
    BY <1>1
  <2> QED
    BY <1>1, <1>2, <2>1 DEF CrawlTyped
<1>4. Linked /\ Waiting /\ AllHeld
  BY <1>1 DEF Linked, Waiting, AllHeld, KeysOnce
<1>5. ByDepth
  <2> SUFFICES ASSUME OneHost PROVE InOrder(frontier) /\ \A e \in Members(site.seeds) : InTime(e[1], e[2])
    BY <1>1 DEF ByDepth
  <2>1. \A k \in DOMAIN site.seeds : site.seeds[k][2] \in {0, 1} /\ (site.seeds[k][2] = 0 => k = 1) /\ k \in Nat \ {0}
    BY <1>1 DEF IsSite, OneHost
  <2>2. InOrder(frontier)
    BY <1>1, <2>1 DEF InOrder
  <2>3. \A e \in Members(site.seeds) : e[2] \in Nat
    BY <2>1 DEF Members
  <2>4. \A e \in Members(site.seeds) : InTime(e[1], e[2])
    BY <1>1, <2>3 DEF InTime
  <2> QED
    BY <2>2, <2>4
<1> QED
  BY <1>3, <1>4, <1>5 DEF CrawlInv

\* The entries for the links of a page.
LinkEntries(page, depth) ==
    IF depth >= MaxDepth THEN {} ELSE {<<p, depth + 1>> : p \in Followed(page)}

\* What the queue holds after the links of a page were put into it.
LEMMA EnqueuedItems ==
  ASSUME CrawlTyped, NEW queue \in Seq(Entries), NEW page \in Pages, NEW depth \in Nat
  PROVE  /\ Enqueued(queue, page, depth) \in Seq(Entries)
         /\ Members(Enqueued(queue, page, depth)) = Members(queue) \cup LinkEntries(page, depth)
<1>0. MaxDepth \in Nat
  BY CrawlAssumption
<1>1. CASE depth >= MaxDepth
  BY <1>1 DEF Enqueued, LinkEntries
<1>2. CASE ~ (depth >= MaxDepth)
  <2> DEFINE high == Followed(page) \cap site.high
             low == Followed(page) \ site.high
             front == AtDepth(depth + 1, Backwards(Ascending(high)))
             back == AtDepth(depth + 1, Ascending(low))
  <2>1. Followed(page) \subseteq Pages
    BY DEF CrawlTyped, IsSite, Followed
  <2>2. high \in SUBSET Pages /\ low \in SUBSET Pages /\ high \cup low = Followed(page)
    BY <2>1
  <2> HIDE DEF high, low
  <2>3. /\ Ascending(high) \in Seq(Pages) /\ Members(Ascending(high)) = high
        /\ Ascending(low) \in Seq(Pages) /\ Members(Ascending(low)) = low
    BY <2>2, AscendingHasAll
  <2>4. Backwards(Ascending(high)) \in Seq(Pages) /\ Members(Backwards(Ascending(high))) = high
    BY <2>3, SameItems
  <2>5. /\ front \in Seq(Entries) /\ Members(front) = {<<p, depth + 1>> : p \in high}
        /\ back \in Seq(Entries) /\ Members(back) = {<<p, depth + 1>> : p \in low}
    <3>1. depth + 1 \in Nat
      OBVIOUS
    <3>2. front \in Seq(Pages \X Nat) /\ Members(front) = {<<p, depth + 1>> : p \in high}
      <4> DEFINE pages == Backwards(Ascending(high))
      <4>1. pages \in Seq(Pages) /\ Members(pages) = high
        BY <2>4
      <4> HIDE DEF pages
      <4>2. /\ AtDepth(depth + 1, pages) \in Seq(Pages \X Nat)
            /\ Members(AtDepth(depth + 1, pages)) = {<<p, depth + 1>> : p \in Members(pages)}
        BY <3>1, <4>1, SameItems
      <4> QED
        BY <4>1, <4>2 DEF pages
    <3>3. back \in Seq(Pages \X Nat) /\ Members(back) = {<<p, depth + 1>> : p \in low}
      <4> DEFINE pages == Ascending(low)
      <4>1. pages \in Seq(Pages) /\ Members(pages) = low
        BY <2>3
      <4> HIDE DEF pages
      <4>2. /\ AtDepth(depth + 1, pages) \in Seq(Pages \X Nat)
            /\ Members(AtDepth(depth + 1, pages)) = {<<p, depth + 1>> : p \in Members(pages)}
        BY <3>1, <4>1, SameItems
      <4> QED
        BY <4>1, <4>2 DEF pages
    <3> QED
      BY <3>2, <3>3 DEF Entries
  <2>6. Enqueued(queue, page, depth) = front \o queue \o back
    BY <1>2 DEF Enqueued, high, low
  <2> HIDE DEF front, back
  <2>7. front \o queue \in Seq(Entries) /\ Members(front \o queue) = Members(front) \cup Members(queue)
    BY <2>5, ListOperations
  <2>8. /\ Enqueued(queue, page, depth) \in Seq(Entries)
        /\ Members(Enqueued(queue, page, depth)) = Members(front) \cup Members(queue) \cup Members(back)
    <3> DEFINE before == front \o queue
    <3>1. before \in Seq(Entries) /\ Enqueued(queue, page, depth) = before \o back
      BY <2>6, <2>7
    <3> HIDE DEF before
    <3>2. before \o back \in Seq(Entries) /\ Members(before \o back) = Members(before) \cup Members(back)
      BY <2>5, <3>1, ListOperations
    <3> QED
      BY <2>7, <3>1, <3>2 DEF before
  <2> QED
    BY <1>2, <2>2, <2>5, <2>8 DEF LinkEntries
<1> QED
  BY <1>1, <1>2

\* Without preference the links go to the end, and keep the order of depths.
LEMMA EnqueuedInOrder ==
  ASSUME CrawlTyped, NEW queue \in Seq(Entries), NEW page \in Pages, NEW depth \in Nat,
         site.high = {}, InOrder(queue), \A e \in Members(queue) : depth <= e[2] /\ e[2] <= depth + 1
  PROVE  InOrder(Enqueued(queue, page, depth))
<1>0. MaxDepth \in Nat
  BY CrawlAssumption
<1>1. CASE depth >= MaxDepth
  BY <1>1 DEF Enqueued
<1>2. CASE ~ (depth >= MaxDepth)
  <2> DEFINE links == Ascending(Followed(page))
             back == AtDepth(depth + 1, links)
  <2>0. Followed(page) \in SUBSET Pages /\ {} \in SUBSET Pages
    BY DEF CrawlTyped, IsSite, Followed
  <2>1. links \in Seq(Pages)
    BY <2>0, AscendingHasAll
  <2> HIDE DEF links
  <2>2. /\ Len(back) \in Nat /\ back \in Seq(Entries)
        /\ \A k \in 1..Len(back) : back[k][2] = depth + 1
    <3>1. Len(links) \in Nat /\ DOMAIN links = 1..Len(links) /\ depth + 1 \in Nat
      BY <2>1
    <3>2. back \in Seq(Pages \X Nat)
      BY <2>1, <3>1, SameItems
    <3>3. Len(back) = Len(links)
      BY <3>1 DEF AtDepth
    <3>4. \A k \in 1..Len(links) : back[k] = <<links[k], depth + 1>>
      BY <3>1 DEF AtDepth
    <3> QED
      BY <3>1, <3>2, <3>3, <3>4 DEF Entries
  <2>3. Enqueued(queue, page, depth) = queue \o back
    <3>1. Ascending({}) = <<>>
      BY <2>0, AscendingHasAll, ListOperations
    <3>2. AtDepth(depth + 1, Backwards(<<>>)) = <<>>
      BY DEF AtDepth, Backwards
    <3>3. Enqueued(queue, page, depth) = <<>> \o queue \o back
      <4>1. Followed(page) \cap site.high = {} /\ Followed(page) \ site.high = Followed(page)
        OBVIOUS
      <4> QED
        BY <1>2, <3>1, <3>2, <4>1 DEF Enqueued, links
    <3> QED
      BY <3>3, ConcatEmptySeq
  <2> HIDE DEF back
  <2>4. /\ Len(queue) \in Nat /\ DOMAIN queue = 1..Len(queue)
        /\ \A k \in 1..Len(queue) : /\ queue[k][2] \in Nat
                                    /\ depth <= queue[k][2] /\ queue[k][2] <= depth + 1
    BY DEF Members, Entries
  <2>5. /\ DOMAIN (queue \o back) = 1..Len(queue) + Len(back)
        /\ \A k \in 1..Len(queue) + Len(back) :
             (queue \o back)[k] = IF k <= Len(queue) THEN queue[k] ELSE back[k - Len(queue)]
    BY <2>2, <2>4
  <2> SUFFICES ASSUME NEW j \in 1..Len(queue) + Len(back), NEW k \in 1..Len(queue) + Len(back), j <= k
               PROVE  /\ (queue \o back)[j][2] <= (queue \o back)[k][2]
                      /\ (queue \o back)[k][2] <= (queue \o back)[j][2] + 1
    BY <2>3, <2>5 DEF InOrder
  <2>6. CASE k <= Len(queue)
    <3>1. j \in DOMAIN queue /\ k \in DOMAIN queue /\ j <= Len(queue)
      BY <2>2, <2>4, <2>6
    <3> QED
      BY <2>5, <2>6, <3>1 DEF InOrder
  <2>7. CASE ~ (k <= Len(queue))
    <3>1. (queue \o back)[k][2] = depth + 1
      BY <2>2, <2>4, <2>5, <2>7
    <3>2. CASE j <= Len(queue)
      <4>1. j \in 1..Len(queue) /\ (queue \o back)[j] = queue[j]
        BY <2>2, <2>4, <2>5, <3>2
      <4> QED
        BY <2>4, <3>1, <4>1
    <3>3. CASE ~ (j <= Len(queue))
      <4>1. j - Len(queue) \in 1..Len(back) /\ (queue \o back)[j] = back[j - Len(queue)]
        BY <2>2, <2>4, <2>5, <3>3
      <4>2. (queue \o back)[j][2] = depth + 1
        BY <2>2, <4>1
      <4> QED
        BY <3>1, <4>2
    <3> QED
      BY <3>2, <3>3
  <2> QED
    BY <2>6, <2>7
<1> QED
  BY <1>1, <1>2

\* The rest of a queue is in order as it was, and no deeper than its head and one more.
LEMMA TailInOrder ==
  ASSUME NEW queue \in Seq(Entries), queue # <<>>, InOrder(queue)
  PROVE  /\ InOrder(Tail(queue))
         /\ \A e \in Members(Tail(queue)) : queue[1][2] <= e[2] /\ e[2] <= queue[1][2] + 1
<1>1. Len(queue) \in Nat \ {0} /\ DOMAIN queue = 1..Len(queue)
  BY EmptySeq
<1>2. /\ DOMAIN Tail(queue) = 1..Len(queue) - 1
      /\ \A k \in 1..Len(queue) - 1 : Tail(queue)[k] = queue[k + 1]
  BY <1>1
<1>3. \A k \in 1..Len(queue) - 1 : k + 1 \in DOMAIN queue /\ 1 \in DOMAIN queue /\ 1 <= k + 1
  BY <1>1
<1>4. \A j, k \in 1..Len(queue) - 1 : j <= k => j + 1 <= k + 1
  BY <1>1
<1>5. InOrder(Tail(queue))
  BY <1>2, <1>3, <1>4 DEF InOrder
<1>6. ASSUME NEW k \in 1..Len(queue) - 1
      PROVE  queue[1][2] <= Tail(queue)[k][2] /\ Tail(queue)[k][2] <= queue[1][2] + 1
  BY <1>2, <1>3 DEF InOrder
<1> QED
  BY <1>2, <1>5, <1>6 DEF Members

\* An entry that needs no visit leaves the queue: its page has been visited, and not deeper.
LEMMA PassKeeps ==
  ASSUME CrawlInv, frontier # <<>>, UNCHANGED <<site, visited, found>>, frontier' = Tail(frontier),
         frontier[1][1] \in DOMAIN visited \/ frontier[1][2] > MaxDepth
  PROVE  CrawlInv'
<1> DEFINE e == frontier[1]
<1>0. CrawlTyped /\ Linked /\ Waiting /\ AllHeld /\ ByDepth /\ MaxDepth \in Nat
  BY CrawlAssumption DEF CrawlInv
<1>1. /\ e \in Entries /\ frontier' \in Seq(Entries) /\ Members(frontier) = {e} \cup Members(frontier')
      /\ Members(frontier) \subseteq Entries
  <2>1. frontier \in Seq(Entries)
    BY <1>0 DEF CrawlTyped
  <2> QED
    BY <2>1, ListOperations
<1>2. /\ e[1] \in DOMAIN visited \/ e[2] > MaxDepth
      /\ e[2] \in Nat
  BY <1>1 DEF Entries
<1>3. e = frontier[1]
  OBVIOUS
<1> HIDE DEF e
<1>4. CrawlTyped'
  BY <1>0, <1>1 DEF CrawlTyped, Records, Contacts
<1>5. Linked'
  BY <1>0, <1>1 DEF Linked, LinkedAt, Seeds
<1>6. Waiting'
  BY <1>0, <1>1, <1>2 DEF Waiting
<1>7. AllHeld'
  BY <1>0 DEF AllHeld, KeysOnce, Holds
<1>8. ByDepth'
  <2> SUFFICES ASSUME OneHost, site.high = {}
               PROVE  /\ InOrder(frontier)'
                      /\ \A q \in DOMAIN visited : \A x \in Members(frontier') : visited[q] <= x[2]
                      /\ \A q \in DOMAIN visited : visited[q] < MaxDepth =>
                           \A p \in site.links[q] \ site.out : InTime(p, visited[q] + 1)'
                      /\ \A x \in Members(site.seeds) : x[2] <= MaxDepth => InTime(x[1], x[2])'
    BY DEF ByDepth, OneHost
  <2>1. InOrder(frontier')
    BY <1>0, <1>3, TailInOrder DEF ByDepth, CrawlTyped
  <2>2. \A q \in DOMAIN visited : visited[q] <= e[2]
    BY <1>0, <1>1 DEF ByDepth
  <2>3. ASSUME NEW p, NEW d \in Nat, d <= MaxDepth, InTime(p, d)
        PROVE  InTime(p, d)'
    <3>1. CASE p \in DOMAIN visited /\ visited[p] <= d
      BY <3>1 DEF InTime
    <3>2. CASE e[1] = p /\ e[2] <= d
      <4>1. p \in DOMAIN visited /\ visited[p] <= e[2] /\ visited[p] \in Nat
        BY <1>0, <1>2, <2>2, <2>3, <3>2 DEF CrawlTyped
      <4>2. visited[p] <= d
        BY <1>2, <3>2, <4>1
      <4> QED
        BY <4>1, <4>2 DEF InTime
    <3>3. CASE \E x \in Members(frontier') : x[1] = p /\ x[2] <= d
      BY <3>3 DEF InTime
    <3> QED
      BY <1>1, <2>3, <3>1, <3>2, <3>3 DEF InTime
  <2>4. \A q \in DOMAIN visited : visited[q] < MaxDepth =>
          \A p \in site.links[q] \ site.out : InTime(p, visited[q] + 1)'
    <3> SUFFICES ASSUME NEW q \in DOMAIN visited, visited[q] < MaxDepth,
                        NEW p \in site.links[q] \ site.out
                 PROVE  InTime(p, visited[q] + 1)'
      OBVIOUS
    <3>0. PICK d : d = visited[q] + 1
      OBVIOUS
    <3>1. d \in Nat /\ d <= MaxDepth
      BY <1>0, <3>0 DEF CrawlTyped
    <3>2. InTime(p, d)
      BY <1>0, <3>0 DEF ByDepth
    <3> QED
      BY <2>3, <3>0, <3>1, <3>2
  <2>5. \A x \in Members(site.seeds) : x[2] <= MaxDepth => InTime(x[1], x[2])'
    <3>1. \A x \in Members(site.seeds) : x[2] \in Nat
      <4>1. site.seeds \in Seq(Pages \X {0, 1})
        BY <1>0 DEF CrawlTyped, IsSite
      <4>2. Members(site.seeds) \subseteq Pages \X {0, 1}
        BY <4>1, ListOperations
      <4> QED
        BY <4>2
    <3> QED
      BY <1>0, <2>3, <3>1 DEF ByDepth
  <2> QED
    BY <1>0, <1>1, <2>1, <2>4, <2>5 DEF ByDepth
<1> QED
  BY <1>4, <1>5, <1>6, <1>7, <1>8 DEF CrawlInv

\* A contact that is recorded leaves the list as it should be, and longer at most.
LEMMA RecordKeeps ==
  ASSUME CrawlTyped, NEW list \in Seq(Records), KeysOnce(list), NEW contact \in Contacts(site)
  PROVE  /\ Recorded(list, contact) \in Seq(Records) /\ KeysOnce(Recorded(list, contact))
         /\ \A other : Holds(list, other) => Holds(Recorded(list, contact), other)
         /\ Holds(Recorded(list, contact), contact)
<1>1. contact \in Seq(Members(contact)) /\ DOMAIN contact \in SUBSET Nat
  BY DEF CrawlTyped, IsSite
<1>2. \A n \in DOMAIN list : list[n] \in Records
  OBVIOUS
<1>3. \A n \in DOMAIN list : list[n].key \in Members(list[n].contact)
  BY <1>2 DEF Records
<1>4. CASE Unseen(list, contact) = {}
  <2>1. Recorded(list, contact) = list
    BY <1>4 DEF Recorded
  <2>2. Holds(list, contact)
    BY <1>3, <1>4 DEF Holds, Unseen, SeenKeys
  <2> QED
    BY <2>1, <2>2
<1>5. CASE Unseen(list, contact) # {}
  <2> DEFINE first == CHOOSE i \in Unseen(list, contact) : \A j \in Unseen(list, contact) : i <= j
             record == [contact |-> contact, key |-> contact[first]]
             new == Append(list, record)
  <2>1. Recorded(list, contact) = new
    BY <1>5 DEF Recorded
  <2>2. first \in Unseen(list, contact)
    <3>1. Unseen(list, contact) \in SUBSET Nat
      BY <1>1 DEF Unseen
    <3>2. \E i \in Unseen(list, contact) : \A j \in Unseen(list, contact) : i <= j
      BY <1>5, <3>1, LeastNatural
    <3> QED
      BY <3>2
  <2> HIDE DEF first
  <2>3. first \in DOMAIN contact /\ contact[first] \notin SeenKeys(list) /\ contact[first] \in Members(contact)
    BY <2>2 DEF Unseen, Members
  <2>4. /\ record \in Records /\ record.contact = contact /\ record.key = contact[first]
        /\ \A n \in DOMAIN list : list[n].key # record.key
    BY <2>3 DEF Records, SeenKeys
  <2> HIDE DEF record
  <2>5. /\ new \in Seq(Records) /\ Len(list) \in Nat
        /\ DOMAIN list = 1..Len(list) /\ DOMAIN new = 1..Len(list) + 1
        /\ \A n \in 1..Len(list) : new[n] = list[n]
        /\ new[Len(list) + 1] = record
    BY <2>4
  <2>6. DOMAIN new = DOMAIN list \cup {Len(list) + 1}
    BY <2>5
  <2> HIDE DEF new
  <2>7. KeysOnce(new)
    BY <2>4, <2>5, <2>6 DEF KeysOnce
  <2>8. \A other : Holds(list, other) => Holds(new, other)
    BY <2>5, <2>6 DEF Holds
  <2>9. Holds(new, contact)
    <3>1. \A i \in DOMAIN contact : contact[i] \in Members(contact)
      BY DEF Members
    <3> QED
      BY <2>4, <2>5, <2>6, <3>1 DEF Holds
  <2> QED
    BY <2>1, <2>5, <2>7, <2>8, <2>9
<1> QED
  BY <1>4, <1>5

\* One step of the recursion that defines HarvestedFirst.
HarvestStep(f, page, n) == IF n = 0 THEN found ELSE Recorded(f[n - 1], site.shows[page][n])

\* The recursion has a solution, so HarvestedFirst is one.
LEMMA HarvestEquation ==
  ASSUME NEW page, Len(site.shows[page]) \in Nat
  PROVE  \A n \in 0..Len(site.shows[page]) :
           HarvestedFirst(page)[n] = HarvestStep(HarvestedFirst(page), page, n)
<1> DEFINE Solves(f, m) == f = [n \in 0..m |-> HarvestStep(f, page, n)]
           M == {m \in Nat : \E f : Solves(f, m)}
<1>1. 0 \in M
  <2> DEFINE f == [n \in 0..0 |-> HarvestStep(<<>>, page, 0)]
  <2>1. Solves(f, 0)
    <3>1. \A n \in 0..0 : n = 0
      OBVIOUS
    <3>2. HarvestStep(f, page, 0) = HarvestStep(<<>>, page, 0)
      BY DEF HarvestStep
    <3> QED
      BY <3>1, <3>2
  <2> HIDE DEF Solves, f
  <2> QED
    BY <2>1
<1>2. ASSUME NEW m \in Nat, m \in M PROVE m + 1 \in M
  <2>1. PICK f : Solves(f, m)
    BY <1>2
  <2> DEFINE g == [n \in 0..m + 1 |-> IF n = m + 1 THEN HarvestStep(f, page, n) ELSE f[n]]
  <2>2. ASSUME NEW n \in 0..m + 1 PROVE g[n] = HarvestStep(g, page, n)
    <3>1. g[n] = HarvestStep(f, page, n)
      <4>1. n \in 0..m => f[n] = HarvestStep(f, page, n)
        BY <2>1
      <4> QED
        BY <4>1
    <3>2. n # 0 => g[n - 1] = f[n - 1]
      OBVIOUS
    <3> HIDE DEF g
    <3> QED
      BY <3>1, <3>2 DEF HarvestStep
  <2>3. Solves(g, m + 1)
    BY <2>2
  <2> HIDE DEF Solves, g
  <2> QED
    BY <2>3
<1>3. Len(site.shows[page]) \in M
  <2> HIDE DEF M
  <2>1. \A n \in Nat : n \in M
    BY <1>1, <1>2, SetInduction
  <2> QED
    BY <2>1
<1>4. Solves(HarvestedFirst(page), Len(site.shows[page]))
  BY <1>3 DEF HarvestedFirst, HarvestStep
<1> QED
  BY <1>4

\* What a page shows is recorded, and what was recorded before stays.
LEMMA HarvestKeeps ==
  ASSUME CrawlTyped, KeysOnce(found), NEW page \in Pages
  PROVE  /\ Harvested(page) \in Seq(Records) /\ KeysOnce(Harvested(page))
         /\ \A contact : Holds(found, contact) => Holds(Harvested(page), contact)
         /\ \A contact \in Members(site.shows[page]) : Holds(Harvested(page), contact)
<1> DEFINE shows == site.shows[page]
           H == HarvestedFirst(page)
           Kept(k) == /\ H[k] \in Seq(Records) /\ KeysOnce(H[k])
                      /\ \A contact : Holds(found, contact) => Holds(H[k], contact)
                      /\ \A n \in 1..k : Holds(H[k], shows[n])
           I == {k \in 0..Len(shows) : Kept(k)}
<1>1. /\ Len(shows) \in Nat /\ DOMAIN shows = 1..Len(shows)
      /\ \A n \in 1..Len(shows) : shows[n] \in Contacts(site)
  <2>1. shows \in Seq(Members(shows))
    BY DEF CrawlTyped, IsSite
  <2>2. Members(shows) \subseteq Contacts(site)
    BY DEF Contacts
  <2> HIDE DEF shows
  <2> QED
    BY <2>1, <2>2 DEF Members
<1>2. H[0] = found /\ \A k \in 1..Len(shows) : H[k] = Recorded(H[k - 1], shows[k])
  <2>1. \A k \in 0..Len(shows) : H[k] = HarvestStep(H, page, k)
    BY <1>1, HarvestEquation
  <2> HIDE DEF H
  <2>2. 0 \in 0..Len(shows) /\ \A k \in 1..Len(shows) : k \in 0..Len(shows) /\ k # 0
    BY <1>1
  <2> QED
    BY <2>1, <2>2 DEF HarvestStep
<1> HIDE DEF H, shows
<1>3. 0 \in I
  <2>1. Kept(0)
    BY <1>2 DEF CrawlTyped
  <2> HIDE DEF Kept
  <2> QED
    BY <1>1, <2>1
<1>4. ASSUME NEW k \in 0..Len(shows) - 1, k \in I PROVE k + 1 \in I
  <2>1. k \in Nat /\ k + 1 \in 0..Len(shows) /\ k + 1 \in 1..Len(shows) /\ (k + 1) - 1 = k
    BY <1>1
  <2>2. Kept(k)
    BY <1>4
  <2> DEFINE old == H[k]  new == H[k + 1]  contact == shows[k + 1]
  <2>3. old \in Seq(Records) /\ KeysOnce(old) /\ contact \in Contacts(site) /\ new = Recorded(old, contact)
    BY <1>1, <1>2, <2>1, <2>2
  <2> HIDE DEF old, new, contact
  <2>4. /\ new \in Seq(Records) /\ KeysOnce(new) /\ Holds(new, contact)
        /\ \A other : Holds(old, other) => Holds(new, other)
    BY <2>3, RecordKeeps
  <2>5. \A n \in 1..k + 1 : n = k + 1 \/ n \in 1..k
    BY <2>1
  <2>6. Kept(k + 1)
    BY <2>2, <2>4, <2>5 DEF old, new, contact
  <2> HIDE DEF Kept
  <2> QED
    BY <2>1, <2>6
<1>5. Len(shows) \in I
  <2> HIDE DEF I
  <2>1. \A k \in 0..Len(shows) : k \in I
    BY <1>1, <1>3, <1>4, BoundedInduction
  <2> QED
    BY <1>1, <2>1
<1>6. Kept(Len(shows)) /\ Harvested(page) = H[Len(shows)]
  BY <1>5 DEF Harvested, H, shows
<1>7. \A contact \in Members(shows) : \E n \in 1..Len(shows) : contact = shows[n]
  BY <1>1 DEF Members
<1> QED
  BY <1>6, <1>7 DEF shows

\* A page is visited: its links wait from now on, and its contacts are recorded.
LEMMA VisitKeeps ==
  ASSUME CrawlInv, frontier # <<>>, UNCHANGED site, NEW page, NEW depth,
         page = frontier[1][1], depth = frontier[1][2], page \notin DOMAIN visited, depth <= MaxDepth,
         visited' = [q \in DOMAIN visited \cup {page} |-> IF q = page THEN depth ELSE visited[q]],
         found' = Harvested(page), frontier' = Enqueued(Tail(frontier), page, depth)
  PROVE  CrawlInv'
<1> DEFINE rest == Tail(frontier)
<1>0. CrawlTyped /\ Linked /\ Waiting /\ AllHeld /\ ByDepth /\ MaxDepth \in Nat
  BY CrawlAssumption DEF CrawlInv
<1>1. /\ <<page, depth>> \in Entries /\ rest \in Seq(Entries)
      /\ Members(frontier) = {<<page, depth>>} \cup Members(rest) /\ Members(rest) \subseteq Entries
  <2>1. frontier \in Seq(Entries)
    BY <1>0 DEF CrawlTyped
  <2>2. /\ frontier[1] \in Entries /\ rest \in Seq(Entries)
        /\ Members(frontier) = {frontier[1]} \cup Members(rest)
    BY <2>1, ListOperations
  <2>3. frontier[1] = <<page, depth>>
    BY <2>2 DEF Entries
  <2>4. Members(rest) \subseteq Entries
    BY <2>2, ListOperations
  <2> QED
    BY <2>2, <2>3, <2>4
<1> HIDE DEF rest
<1>2. page \in Pages /\ depth \in 0..MaxDepth /\ depth \in Nat
  BY <1>0, <1>1 DEF Entries
<1>3. /\ frontier' \in Seq(Entries)
      /\ Members(frontier') = Members(rest) \cup LinkEntries(page, depth)
  <2>1. frontier' = Enqueued(rest, page, depth)
    BY DEF rest
  <2>2. /\ Enqueued(rest, page, depth) \in Seq(Entries)
        /\ Members(Enqueued(rest, page, depth)) = Members(rest) \cup LinkEntries(page, depth)
    BY <1>0, <1>1, <1>2, EnqueuedItems
  <2> QED
    BY <2>1, <2>2
<1>4. /\ DOMAIN visited' = DOMAIN visited \cup {page} /\ visited'[page] = depth
      /\ \A q \in DOMAIN visited : q # page /\ visited'[q] = visited[q]
  OBVIOUS
<1>5. /\ found' \in Seq(Records) /\ KeysOnce(found')
      /\ \A contact : Holds(found, contact) => Holds(found', contact)
      /\ \A contact \in Members(site.shows[page]) : Holds(found', contact)
  <2>1. found' = Harvested(page)
    OBVIOUS
  <2> QED
    BY <1>0, <1>2, <2>1, HarvestKeeps DEF AllHeld
<1>6. CrawlTyped'
  <2>1. Records' = Records
    BY DEF Records, Contacts
  <2> QED
    BY <1>0, <1>2, <1>3, <1>4, <1>5, <2>1 DEF CrawlTyped
<1>7. ASSUME NEW p, NEW d, LinkedAt(p, d) PROVE LinkedAt(p, d)'
  BY <1>4, <1>7 DEF LinkedAt
<1>8. Linked'
  <2>1. ASSUME NEW e \in Members(frontier') PROVE e \in Members(site.seeds) \/ LinkedAt(e[1], e[2])'
    <3>1. CASE e \in Members(rest)
      BY <1>0, <1>1, <1>7, <3>1 DEF Linked
    <3>2. CASE e \notin Members(rest)
      <4>1. PICK p \in Followed(page) : e = <<p, depth + 1>> /\ ~ (depth >= MaxDepth)
        BY <1>3, <2>1, <3>2 DEF LinkEntries
      <4>2. e[1] = p /\ e[2] = depth + 1
        BY <4>1
      <4>3. p \notin site.out /\ p \in site.links[page] /\ depth + 1 <= MaxDepth
        BY <1>0, <1>2, <4>1 DEF Followed
      <4>4. LinkedAt(p, depth + 1)'
        BY <1>4, <4>3 DEF LinkedAt
      <4> QED
        BY <4>2, <4>4
    <3> QED
      BY <3>1, <3>2
  <2>2. ASSUME NEW p \in DOMAIN visited' \ Seeds PROVE \A d : d = visited'[p] => LinkedAt(p, d)'
    <3> SUFFICES ASSUME NEW d, d = visited'[p] PROVE LinkedAt(p, d)'
      OBVIOUS
    <3>1. CASE p = page
      <4>1. <<page, depth>> \notin Members(site.seeds)
        <5>1. \A e \in Members(site.seeds) : e[1] \in Seeds
          BY DEF Members, Seeds
        <5> QED
          BY <2>2, <3>1, <5>1
      <4>2. LinkedAt(page, depth)
        BY <1>0, <1>1, <4>1 DEF Linked
      <4> QED
        <5>1. d = depth
          BY <1>4, <3>1
        <5> QED
          BY <1>7, <3>1, <4>2, <5>1
    <3>2. CASE p # page
      <4>1. p \in DOMAIN visited /\ visited'[p] = visited[p]
        BY <1>4, <2>2, <3>2
      <4>2. LinkedAt(p, d)
        BY <1>0, <2>2, <4>1 DEF Linked
      <4> QED
        BY <1>7, <4>2
    <3> QED
      BY <3>1, <3>2
  <2>3. Seeds' = Seeds
    BY DEF Seeds
  <2>4. ASSUME NEW p \in DOMAIN visited' \ Seeds' PROVE LinkedAt(p, visited[p])'
    <3>0. PICK d : d = visited'[p]
      OBVIOUS
    <3>1. LinkedAt(p, d)'
      BY <2>2, <2>3, <3>0
    <3> QED
      BY <3>0, <3>1 DEF LinkedAt
  <2>5. \A e \in Members(frontier') : e \in Members(site.seeds)' \/ LinkedAt(e[1], e[2])'
    BY <2>1
  <2> QED
    BY <2>4, <2>5 DEF Linked
<1>9. Waiting'
  <2> SUFFICES ASSUME NEW q \in DOMAIN visited', visited'[q] < MaxDepth,
                      NEW p \in site.links[q] \ site.out
               PROVE  p \in DOMAIN visited' \/ \E e \in Members(frontier') : e[1] = p /\ e[2] <= MaxDepth
    BY DEF Waiting
  <2>1. CASE q = page
    <3>1. p \in DOMAIN visited \/ p \in Followed(page)
      BY <2>1 DEF Followed
    <3>2. ~ (depth >= MaxDepth) /\ depth + 1 <= MaxDepth
      BY <1>0, <1>2, <1>4, <2>1
    <3>3. p \in Followed(page) => <<p, depth + 1>> \in Members(frontier')
      BY <1>3, <3>2 DEF LinkEntries
    <3> QED
      BY <1>4, <3>1, <3>2, <3>3
  <2>2. CASE q # page
    <3>1. q \in DOMAIN visited /\ visited[q] < MaxDepth
      BY <1>4, <2>2
    <3>2. p \in DOMAIN visited \/ \E e \in Members(frontier) : e[1] = p /\ e[2] <= MaxDepth
      BY <1>0, <3>1 DEF Waiting
    <3> QED
      BY <1>1, <1>3, <1>4, <3>2
  <2> QED
    BY <2>1, <2>2
<1>10. AllHeld'
  <2>1. ASSUME NEW q \in DOMAIN visited', NEW contact \in Members(site.shows[q]) PROVE Holds(found', contact)
    <3>1. CASE q = page
      BY <1>5, <2>1, <3>1
    <3>2. CASE q # page
      <4>1. Holds(found, contact)
        BY <1>0, <1>4, <2>1, <3>2 DEF AllHeld
      <4> QED
        BY <1>5, <4>1
    <3> QED
      BY <3>1, <3>2
  <2>2. KeysOnce(found)' /\ \A q \in DOMAIN visited' : \A contact \in Members(site.shows[q]) : Holds(found, contact)'
    BY <1>5, <2>1 DEF KeysOnce, Holds
  <2> QED
    BY <2>2 DEF AllHeld
<1>11. ByDepth'
  <2> SUFFICES ASSUME OneHost, site.high = {}
               PROVE  /\ InOrder(frontier)'
                      /\ \A q \in DOMAIN visited' : \A e \in Members(frontier') : visited'[q] <= e[2]
                      /\ \A q \in DOMAIN visited' : visited'[q] < MaxDepth =>
                           \A p \in site.links[q] \ site.out : InTime(p, visited[q] + 1)'
                      /\ \A e \in Members(site.seeds) : e[2] <= MaxDepth => InTime(e[1], e[2])'
    BY DEF ByDepth, OneHost
  <2>0. InOrder(rest) /\ \A e \in Members(rest) : depth <= e[2] /\ e[2] <= depth + 1
    BY <1>0, TailInOrder DEF ByDepth, CrawlTyped, rest
  <2>1. InOrder(frontier')
    <3>1. frontier' = Enqueued(rest, page, depth)
      BY DEF rest
    <3> QED
      BY <1>0, <1>1, <1>2, <2>0, <3>1, EnqueuedInOrder
  <2>2. \A q \in DOMAIN visited : visited[q] <= depth /\ visited[q] \in Nat
    <3>1. \A q \in DOMAIN visited : visited[q] <= <<page, depth>>[2]
      BY <1>0, <1>1 DEF ByDepth
    <3> QED
      BY <1>0, <3>1 DEF CrawlTyped
  <2>3. \A e \in Members(frontier') : depth <= e[2] /\ e[2] \in Nat
    <3>1. \A e \in Members(rest) : depth <= e[2] /\ e[2] \in Nat
      BY <1>1, <2>0 DEF Entries
    <3>2. \A p : depth <= <<p, depth + 1>>[2] /\ <<p, depth + 1>>[2] \in Nat
      BY <1>2
    <3> QED
      BY <1>3, <3>1, <3>2 DEF LinkEntries
  <2>4. \A q \in DOMAIN visited' : \A e \in Members(frontier') : visited'[q] <= e[2]
    <3>1. \A q \in DOMAIN visited' : visited'[q] <= depth /\ visited'[q] \in Nat
      BY <1>2, <1>4, <2>2
    <3> SUFFICES ASSUME NEW q \in DOMAIN visited', NEW e \in Members(frontier') PROVE visited'[q] <= e[2]
      OBVIOUS
    <3>2. depth <= e[2] /\ e[2] \in Nat /\ visited'[q] <= depth /\ visited'[q] \in Nat
      BY <2>3, <3>1
    <3> QED
      BY <1>2, <3>2
  <2>5. ASSUME NEW p, NEW d, InTime(p, d) PROVE InTime(p, d)'
    <3>1. CASE p \in DOMAIN visited /\ visited[p] <= d
      BY <1>4, <3>1 DEF InTime
    <3>2. CASE p = page /\ depth <= d
      BY <1>4, <3>2 DEF InTime
    <3>3. CASE \E e \in Members(rest) : e[1] = p /\ e[2] <= d
      BY <1>3, <3>3 DEF InTime
    <3> QED
      BY <1>1, <2>5, <3>1, <3>2, <3>3 DEF InTime
  <2>6. ASSUME NEW q \in DOMAIN visited', visited'[q] < MaxDepth, NEW p \in site.links[q] \ site.out,
               NEW d, d = visited'[q] + 1
        PROVE  InTime(p, d)'
    <3>1. CASE q = page
      <4>1. d = depth + 1 /\ d \in Nat /\ ~ (depth >= MaxDepth)
        BY <1>0, <1>2, <1>4, <2>6, <3>1
      <4>2. CASE p \in DOMAIN visited
        BY <1>4, <2>2, <1>2, <4>1, <4>2 DEF InTime
      <4>3. CASE p \notin DOMAIN visited
        <5>1. p \in Followed(page)
          BY <2>6, <3>1, <4>3 DEF Followed
        <5>2. <<p, depth + 1>> \in Members(frontier')
          BY <1>3, <4>1, <5>1 DEF LinkEntries
        <5> QED
          BY <4>1, <5>2 DEF InTime
      <4> QED
        BY <4>2, <4>3
    <3>2. CASE q # page
      <4>1. q \in DOMAIN visited /\ visited'[q] = visited[q]
        BY <1>4, <2>6, <3>2
      <4>2. InTime(p, d)
        BY <1>0, <2>6, <4>1 DEF ByDepth
      <4> QED
        BY <2>5, <4>2
    <3> QED
      BY <3>1, <3>2
  <2>7. \A q \in DOMAIN visited' : visited'[q] < MaxDepth =>
          \A p \in site.links[q] \ site.out : InTime(p, visited[q] + 1)'
    BY <2>6
  <2>8. \A e \in Members(site.seeds) : e[2] <= MaxDepth => InTime(e[1], e[2])'
    BY <1>0, <2>5 DEF ByDepth
  <2> QED
    BY <2>1, <2>4, <2>7, <2>8
<1> QED
  BY <1>6, <1>8, <1>9, <1>10, <1>11 DEF CrawlInv

LEMMA CrawlInvHolds ==
  ASSUME NEW sites, \A s \in sites : IsSite(s)
  PROVE  CrawlInit(sites) /\ [][CrawlNext]_crawlVars => []CrawlInv
<1>1. CrawlInit(sites) => CrawlInv
  BY CrawlInvStarts
<1>2. CrawlInv /\ [CrawlNext]_crawlVars => CrawlInv'
  <2> SUFFICES ASSUME CrawlInv, [CrawlNext]_crawlVars PROVE CrawlInv'
    OBVIOUS
  <2>1. CASE UNCHANGED crawlVars
    BY <2>1 DEF crawlVars, CrawlInv, CrawlTyped, Linked, LinkedAt, Waiting, AllHeld, ByDepth, InTime,
                KeysOnce, Holds, Records, Contacts, Seeds, OneHost
  <2>2. CASE CrawlNext
    <3>0. PICK page : page = frontier[1][1]
      OBVIOUS
    <3>0a. PICK depth : depth = frontier[1][2]
      OBVIOUS
    <3>0b. frontier # <<>> /\ UNCHANGED site
      BY <2>2 DEF CrawlNext, VisitPage
    <3>1. CASE page \in DOMAIN visited \/ depth > MaxDepth
      <4>1. frontier' = Tail(frontier) /\ UNCHANGED <<visited, found>>
        BY <2>2, <3>0, <3>0a, <3>1 DEF CrawlNext, VisitPage
      <4> QED
        BY <3>0, <3>0a, <3>0b, <3>1, <4>1, PassKeeps
    <3>2. CASE ~ (page \in DOMAIN visited \/ depth > MaxDepth)
      <4>1. /\ visited' = [q \in DOMAIN visited \cup {page} |-> IF q = page THEN depth ELSE visited[q]]
            /\ found' = Harvested(page) /\ frontier' = Enqueued(Tail(frontier), page, depth)
        BY <2>2, <3>0, <3>0a, <3>2 DEF CrawlNext, VisitPage
      <4>2. depth \in Nat /\ MaxDepth \in Nat
        <5>1. frontier \in Seq(Entries)
          BY DEF CrawlInv, CrawlTyped
        <5>2. frontier[1] \in Entries
          BY <3>0b, <5>1, ListOperations
        <5> QED
          BY <3>0a, <5>2, CrawlAssumption DEF Entries
      <4>3. page \notin DOMAIN visited /\ depth <= MaxDepth
        BY <3>2, <4>2
      <4> QED
        BY <3>0, <3>0a, <3>0b, <4>1, <4>3, VisitKeeps
    <3> QED
      BY <3>1, <3>2
  <2> QED
    BY <2>1, <2>2
<1> QED
  BY <1>1, <1>2, PTL

\* One step of the recursion that defines Reach.
ReachStep(f, n) ==
    {site.seeds[k][1] : k \in {k \in DOMAIN site.seeds : site.seeds[k][2] <= n}}
      \cup (IF n = 0 THEN {} ELSE UNION {site.links[p] \ site.out : p \in f[n - 1]})

\* The recursion has a solution, so Reach is one.
LEMMA ReachEquation == \A n \in 0..MaxDepth : Reach[n] = ReachStep(Reach, n)
<1> DEFINE Solves(f, m) == f = [n \in 0..m |-> ReachStep(f, n)]
           M == {m \in Nat : \E f : Solves(f, m)}
<1>1. 0 \in M
  <2> DEFINE f == [n \in 0..0 |-> ReachStep(<<>>, 0)]
  <2>1. Solves(f, 0)
    <3>1. \A n \in 0..0 : n = 0
      OBVIOUS
    <3>2. ReachStep(f, 0) = ReachStep(<<>>, 0)
      BY DEF ReachStep
    <3> QED
      BY <3>1, <3>2
  <2> HIDE DEF Solves, f
  <2> QED
    BY <2>1
<1>2. ASSUME NEW m \in Nat, m \in M PROVE m + 1 \in M
  <2>1. PICK f : Solves(f, m)
    BY <1>2
  <2> DEFINE g == [n \in 0..m + 1 |-> IF n = m + 1 THEN ReachStep(f, n) ELSE f[n]]
  <2>2. ASSUME NEW n \in 0..m + 1 PROVE g[n] = ReachStep(g, n)
    <3>1. g[n] = ReachStep(f, n)
      <4>1. n \in 0..m => f[n] = ReachStep(f, n)
        BY <2>1
      <4> QED
        BY <4>1
    <3>2. n # 0 => g[n - 1] = f[n - 1]
      OBVIOUS
    <3> HIDE DEF g
    <3> QED
      BY <3>1, <3>2 DEF ReachStep
  <2>3. Solves(g, m + 1)
    BY <2>2
  <2> HIDE DEF Solves, g
  <2> QED
    BY <2>3
<1>3. MaxDepth \in M
  <2> HIDE DEF M
  <2>1. \A n \in Nat : n \in M
    BY <1>1, <1>2, SetInduction
  <2> QED
    BY <2>1, CrawlAssumption
<1>4. Solves(Reach, MaxDepth)
  BY <1>3 DEF Reach, ReachStep
<1> QED
  BY <1>4

\* When nothing waits, the crawl has come as far as the links go, by depths.
LEMMA AllReached ==
  ASSUME CrawlInv, frontier = <<>>, OneHost, site.high = {}
  PROVE  Reach[MaxDepth] \subseteq DOMAIN visited
<1> DEFINE V(n) == {p \in DOMAIN visited : visited[p] <= n}
           I == {n \in 0..MaxDepth : Reach[n] \subseteq V(n)}
<1>0. /\ CrawlTyped /\ ByDepth /\ MaxDepth \in Nat /\ Members(frontier) = {}
      /\ \A n \in 0..MaxDepth : Reach[n] = ReachStep(Reach, n)
  BY CrawlAssumption, ReachEquation DEF CrawlInv, Members
<1>1. \A p, d : InTime(p, d) => p \in DOMAIN visited /\ visited[p] <= d
  BY <1>0 DEF InTime
<1>2. \A k \in DOMAIN site.seeds : site.seeds[k] \in Members(site.seeds) /\ site.seeds[k][2] \in Nat
  BY <1>0 DEF CrawlTyped, IsSite, Members
<1>3. ASSUME NEW n \in 0..MaxDepth, NEW k \in DOMAIN site.seeds, site.seeds[k][2] <= n
      PROVE  site.seeds[k][1] \in V(n)
  <2>1. InTime(site.seeds[k][1], site.seeds[k][2])
    BY <1>0, <1>2, <1>3 DEF ByDepth
  <2>2. site.seeds[k][1] \in DOMAIN visited /\ visited[site.seeds[k][1]] <= site.seeds[k][2]
    BY <1>1, <2>1
  <2>3. visited[site.seeds[k][1]] \in Nat
    BY <1>0, <2>2 DEF CrawlTyped
  <2> QED
    BY <1>2, <1>3, <2>2, <2>3
<1>4. 0 \in I
  <2>1. Reach[0] = {site.seeds[k][1] : k \in {k \in DOMAIN site.seeds : site.seeds[k][2] <= 0}}
    BY <1>0 DEF ReachStep
  <2>2. 0 \in 0..MaxDepth
    BY <1>0
  <2> HIDE DEF V
  <2>3. Reach[0] \subseteq V(0)
    BY <1>3, <2>1, <2>2
  <2> QED
    BY <2>2, <2>3
<1>5. ASSUME NEW n \in 0..MaxDepth - 1, n \in I PROVE n + 1 \in I
  <2>1. n \in Nat /\ n + 1 \in 0..MaxDepth /\ n < MaxDepth /\ n + 1 # 0 /\ (n + 1) - 1 = n
    BY <1>0
  <2>2. Reach[n + 1] = {site.seeds[k][1] : k \in {k \in DOMAIN site.seeds : site.seeds[k][2] <= n + 1}}
                         \cup UNION {site.links[p] \ site.out : p \in Reach[n]}
    BY <1>0, <2>1 DEF ReachStep
  <2>3. ASSUME NEW q \in Reach[n], NEW p \in site.links[q] \ site.out PROVE p \in V(n + 1)
    <3>1. q \in DOMAIN visited /\ visited[q] <= n /\ visited[q] \in Nat
      BY <1>0, <1>5 DEF CrawlTyped
    <3>2. visited[q] < MaxDepth
      BY <1>0, <2>1, <3>1
    <3>3. InTime(p, visited[q] + 1)
      BY <1>0, <3>1, <3>2 DEF ByDepth
    <3>4. p \in DOMAIN visited /\ visited[p] <= visited[q] + 1 /\ visited[p] \in Nat
      BY <1>0, <1>1, <3>3 DEF CrawlTyped
    <3> QED
      BY <2>1, <3>1, <3>4
  <2> HIDE DEF V
  <2>4. \A k \in DOMAIN site.seeds : site.seeds[k][2] <= n + 1 => site.seeds[k][1] \in V(n + 1)
    BY <1>3, <2>1
  <2>5. Reach[n + 1] \subseteq V(n + 1)
    BY <2>2, <2>3, <2>4
  <2> QED
    BY <2>1, <2>5
<1>6. MaxDepth \in I
  <2> HIDE DEF I
  <2>1. \A n \in 0..MaxDepth : n \in I
    BY <1>0, <1>4, <1>5, BoundedInduction
  <2> QED
    BY <1>0, <2>1
<1> QED
  BY <1>6

\* Whatever the pages link to and show and however far the crawl may go: it keeps within its bounds,
\* loses no key of a contact that a visited page shows, makes no two records by one key, and if it
\* ends with pages to spare it has come wherever links lead.
THEOREM CrawlsAreComplete ==
  ASSUME NEW sites, \A s \in sites : IsSite(s)
  PROVE  CrawlInit(sites) /\ [][CrawlNext]_crawlVars => []CrawlIsComplete
<1>1. CrawlInv => CrawlIsComplete
  <2> SUFFICES ASSUME CrawlInv PROVE CrawlIsComplete
    OBVIOUS
  <2>0. Linked /\ Waiting /\ AllHeld
    BY DEF CrawlInv
  <2>1. \A p \in DOMAIN visited \ Seeds :
          /\ p \notin site.out
          /\ visited[p] <= MaxDepth
          /\ \E q \in DOMAIN visited : p \in site.links[q] /\ visited[p] = visited[q] + 1
    BY <2>0 DEF Linked, LinkedAt
  <2>2. frontier = <<>> => \A q \in DOMAIN visited :
          visited[q] < MaxDepth => site.links[q] \ site.out \subseteq DOMAIN visited
    BY <2>0 DEF Waiting, Members
  <2>3. frontier = <<>> /\ OneHost /\ site.high = {} => Reach[MaxDepth] \subseteq DOMAIN visited
    BY AllReached
  <2> QED
    BY <2>0, <2>1, <2>2, <2>3 DEF CrawlIsComplete, AllHeld, KeysOnce, Holds
<1>2. CrawlInit(sites) /\ [][CrawlNext]_crawlVars => []CrawlInv
  BY CrawlInvHolds
<1> QED
  BY <1>1, <1>2, PTL
=============================================================================
