--------------------------- MODULE AlgorithmProofs ---------------------------
(***************************************************************************)
(* Proofs about the algorithms that MCComponents computes from one input:  *)
(* the reports of the ports and the findings made of them, the order of    *)
(* the triage, the resolution of identities, the order of versions and the *)
(* views and paths of the graph.                                           *)
(***************************************************************************)
EXTENDS MCComponents, SharedFacts, FunctionTheorems, FiniteSetTheorems, SequenceTheorems

-----------------------------------------------------------------------------
(* Ports                                                                   *)
\* The order of the probes does not matter: what one of them sees is what the last would see.
LEMMA ProbeSees ==
  ASSUME NEW p \in Ports, NEW w \in Wires
  PROVE  /\ Probe(p, w) = NoAnswer <=> w = "reset"
         /\ w # "reset" => Probe(p, w).port = p
         /\ w \in {"handshake", "lax"} => Probe(p, w) = Handshake(p, w)
         /\ w \in {"handshake", "lax", "greeting", "text"} => Probe(p, w).verified
         /\ w \in {"silent", "crumb"} => ~Probe(p, w).verified
<1>1. \A method, banner, verified, version, lax :
        Report(p, verified, method, banner, version, lax) # NoAnswer
  <2> SUFFICES ASSUME NEW method, NEW banner, NEW verified, NEW version, NEW lax
               PROVE  Report(p, verified, method, banner, version, lax) # NoAnswer
    OBVIOUS
  <2>1. Report(p, verified, method, banner, version, lax).answered /\ ~NoAnswer.answered
    BY DEF Report, NoAnswer
  <2> QED
    BY <2>1
<1>2. Handshake(p, w) # NoAnswer /\ Handshake(p, w).port = p /\ Handshake(p, w).verified
  BY <1>1 DEF Handshake, Report
<1>3. Probe(p, w) = GrabBanner(p, w)
  <2>1. ProbeWeb(p, w) # NoAnswer => ProbeWeb(p, w) = Handshake(p, w) /\ w \in {"handshake", "lax"}
    BY DEF ProbeWeb
  <2>2. ProbeProtocol(p, w) # NoAnswer => ProbeProtocol(p, w) = Handshake(p, w) /\ w \in {"handshake", "lax"}
    BY DEF ProbeProtocol
  <2>3. w \in {"handshake", "lax"} => GrabBanner(p, w) = Handshake(p, w)
    BY DEF GrabBanner
  <2> QED
    BY <2>1, <2>2, <2>3 DEF Probe
<1>4. CASE w = "reset"
  BY <1>3, <1>4 DEF GrabBanner
<1>5. CASE w = "silent"
  <2>1. GrabBanner(p, w) = Report(p, FALSE, "connect", "long", FALSE, FALSE)
    BY <1>5 DEF GrabBanner
  <2> QED
    BY <1>1, <1>3, <1>5, <2>1 DEF Report
<1>6. CASE w = "text"
  <2>1. GrabBanner(p, w) = Report(p, TRUE, "banner", "long", TRUE, FALSE)
    BY <1>6 DEF GrabBanner
  <2> QED
    BY <1>1, <1>3, <1>6, <2>1 DEF Report
<1>7. CASE w = "crumb"
  <2>1. GrabBanner(p, w) = Report(p, FALSE, "banner", "short", FALSE, FALSE)
    BY <1>7 DEF GrabBanner
  <2> QED
    BY <1>1, <1>3, <1>7, <2>1 DEF Report
<1>8. CASE w \in {"handshake", "lax", "greeting"}
  <2>1. GrabBanner(p, w) = Handshake(p, w)
    BY <1>8 DEF GrabBanner
  <2> QED
    BY <1>2, <1>3, <1>8, <2>1
<1> QED
  BY <1>4, <1>5, <1>6, <1>7, <1>8 DEF Wires

\* The parts of ScanPorts: the answers of the probes, those that are reported, and the ports
\* that remain.
AnswersOf(open_ports, wire) == {Probe(p, wire[p]) : p \in open_ports} \ {NoAnswer}
KeptReports(open_ports, wire) ==
    IF IsProxy(open_ports, AnswersOf(open_ports, wire)) THEN Verified(AnswersOf(open_ports, wire))
                                                       ELSE AnswersOf(open_ports, wire)
ActivePorts(open_ports, wire) ==
    IF IsProxy(open_ports, AnswersOf(open_ports, wire)) THEN {r.port : r \in KeptReports(open_ports, wire)} ELSE open_ports
NmapRecords(open_ports, wire, nmap) == {NmapReport(p, nmap[p]) : p \in ActivePorts(open_ports, wire) \cap DOMAIN nmap}

LEMMA ScanPortsIs ==
  ASSUME NEW open_ports, NEW wire, NEW nmap
  PROVE  ScanPorts(open_ports, wire, nmap) =
           IF NmapRecords(open_ports, wire, nmap) # {}
           THEN MergeNmap(NmapRecords(open_ports, wire, nmap), KeptReports(open_ports, wire))
           ELSE IF KeptReports(open_ports, wire) # {} THEN KeptReports(open_ports, wire)
           ELSE {Report(p, FALSE, "none", "none", FALSE, FALSE) : p \in ActivePorts(open_ports, wire)}
BY DEF ScanPorts, AnswersOf, KeptReports, ActivePorts, NmapRecords

\* What is kept comes from an open port, and a port that has proved its protocol is kept.
LEMMA KeptAnswers ==
  ASSUME NEW open_ports \in SUBSET Ports, NEW wire \in [Ports -> Wires]
  PROVE  /\ \A r \in KeptReports(open_ports, wire) :
              /\ r.port \in ActivePorts(open_ports, wire) /\ r.port \in open_ports
              /\ r = Probe(r.port, wire[r.port])
         /\ \A p \in open_ports : wire[p] \in {"handshake", "lax"} =>
              p \in ActivePorts(open_ports, wire) /\ Probe(p, wire[p]) \in KeptReports(open_ports, wire)
         /\ ActivePorts(open_ports, wire) \subseteq open_ports
         /\ IsProxy(open_ports, AnswersOf(open_ports, wire)) =>
              \A p \in ActivePorts(open_ports, wire) : wire[p] \notin {"silent", "crumb", "reset"}
<1> DEFINE A == AnswersOf(open_ports, wire)
           K == KeptReports(open_ports, wire)
           V == ActivePorts(open_ports, wire)
           proxy == IsProxy(open_ports, A)
<1>1. \A p \in open_ports : p \in Ports /\ wire[p] \in Wires
  OBVIOUS
<1>2. ASSUME NEW r \in A PROVE r.port \in open_ports /\ r = Probe(r.port, wire[r.port])
                               /\ (r.verified => wire[r.port] \notin {"silent", "crumb", "reset"})
  <2>1. PICK p \in open_ports : r = Probe(p, wire[p]) /\ r # NoAnswer
    BY <1>2 DEF AnswersOf
  <2>2. r.port = p
    BY <1>1, <2>1, ProbeSees
  <2> QED
    BY <1>1, <2>1, <2>2, ProbeSees
<1>3. ASSUME NEW p \in open_ports, wire[p] \in {"handshake", "lax"}
      PROVE  Probe(p, wire[p]) \in A /\ Probe(p, wire[p]).verified /\ Probe(p, wire[p]).port = p
  BY <1>1, <1>3, ProbeSees DEF AnswersOf
<1>4. K \subseteq A /\ \A r \in A : r.verified => r \in K
  BY DEF KeptReports, Verified
<1>5. proxy => \A r \in K : r.verified
  BY DEF KeptReports, Verified
<1>6. V = IF proxy THEN {r.port : r \in K} ELSE open_ports
  BY DEF ActivePorts
<1> HIDE DEF A, K, V, proxy
<1>7. \A r \in K : r.port \in V
  BY <1>2, <1>4, <1>6
<1>8. V \subseteq open_ports
  BY <1>2, <1>4, <1>6
<1>9. proxy => \A p \in V : wire[p] \notin {"silent", "crumb", "reset"}
  BY <1>2, <1>4, <1>5, <1>6
<1>10. ASSUME NEW p \in open_ports, wire[p] \in {"handshake", "lax"}
       PROVE  p \in V /\ Probe(p, wire[p]) \in K
  BY <1>3, <1>4, <1>7, <1>10
<1> QED
  BY <1>2, <1>4, <1>7, <1>8, <1>9, <1>10 DEF A, K, V, proxy

\* nmap's record of a port keeps its port, and takes the banner of the probe.
LEMMA CombinedReport ==
  ASSUME NEW p, NEW version, NEW r
  PROVE  /\ NmapReport(p, version).port = p
         /\ Combine(NmapReport(p, version), r).port = p
         /\ Combine(NmapReport(p, version), r).banner = r.banner
<1>1. NmapReport(p, version).port = p /\ NmapReport(p, version).banner = "none"
  BY DEF NmapReport, Report
<1>2. Combine(NmapReport(p, version), r).port = NmapReport(p, version).port
  BY DEF Combine, NmapReport, Report
<1>3. Combine(NmapReport(p, version), r).banner = r.banner
  BY <1>1 DEF Combine, NmapReport, Report
<1> QED
  BY <1>1, <1>2, <1>3

\* What comes out of a port that has proved its protocol, and that no port is reported twice.
LEMMA ReportedOnce ==
  ASSUME NEW open_ports \in SUBSET Ports, NEW wire \in [Ports -> Wires], NEW nmap
  PROVE  /\ \A r1, r2 \in ScanPorts(open_ports, wire, nmap) : r1.port = r2.port => r1 = r2
         /\ \A r \in ScanPorts(open_ports, wire, nmap) : r.port \in ActivePorts(open_ports, wire)
         /\ \A p \in open_ports : wire[p] \in {"handshake", "lax"} =>
              IF p \in DOMAIN nmap
              THEN Combine(NmapReport(p, nmap[p]), Handshake(p, wire[p])) \in ScanPorts(open_ports, wire, nmap)
              ELSE Handshake(p, wire[p]) \in ScanPorts(open_ports, wire, nmap)
<1> DEFINE K == KeptReports(open_ports, wire)
           V == ActivePorts(open_ports, wire)
           S == NmapRecords(open_ports, wire, nmap)
           Scan == ScanPorts(open_ports, wire, nmap)
           Answer(p) == Probe(p, wire[p])
           Both(p) == Combine(NmapReport(p, nmap[p]), Answer(p))
<1>1. \A p \in open_ports : wire[p] \in {"handshake", "lax"} =>
        Answer(p) = Handshake(p, wire[p]) /\ p \in V /\ Answer(p) \in K
  BY KeptAnswers, ProbeSees
<1>2. \A r \in K : r.port \in V /\ r = Answer(r.port)
  BY KeptAnswers
<1>3. \A n \in S : n.port \in V \cap DOMAIN nmap /\ n = NmapReport(n.port, nmap[n.port])
  BY CombinedReport DEF NmapRecords
<1>4. \A p \in V \cap DOMAIN nmap : NmapReport(p, nmap[p]) \in S /\ NmapReport(p, nmap[p]).port = p
  BY CombinedReport DEF NmapRecords
<1>5. \A p : NmapReport(p, nmap[p]).port = p /\ Both(p).port = p
  BY CombinedReport
<1>6. CASE S # {}
  <2>1. Scan = MergeNmap(S, K)
    BY <1>6, ScanPortsIs
  <2> HIDE DEF K, V, S, Scan, Answer
  <2>2. ASSUME NEW r \in Scan
        PROVE  /\ r.port \in V
               /\ r.port \in DOMAIN nmap /\ (\E k \in K : k.port = r.port) => r = Both(r.port)
               /\ r.port \in DOMAIN nmap /\ ~(\E k \in K : k.port = r.port) => r = NmapReport(r.port, nmap[r.port])
               /\ r.port \notin DOMAIN nmap => r = Answer(r.port)
    <3>1. CASE \E n \in S, k \in K : k.port = n.port /\ r = Combine(n, k)
      <4>1. PICK n \in S, k \in K : k.port = n.port /\ r = Combine(n, k)
        BY <3>1
      <4>2. k = Answer(n.port) /\ n = NmapReport(n.port, nmap[n.port]) /\ n.port \in V \cap DOMAIN nmap
        BY <1>2, <1>3, <4>1
      <4>3. r = Both(n.port)
        BY <4>1, <4>2
      <4>4. r.port = n.port
        BY <1>5, <4>3
      <4> HIDE DEF Both
      <4> QED
        BY <4>1, <4>2, <4>3, <4>4
    <3>2. CASE r \in S /\ \A k \in K : k.port # r.port
      BY <1>3, <3>2
    <3>3. CASE r \in K /\ \A n \in S : r.port # n.port
      BY <1>2, <1>4, <3>3
    <3> QED
      BY <2>1, <3>1, <3>2, <3>3 DEF MergeNmap
  <2>3. ASSUME NEW p \in open_ports, wire[p] \in {"handshake", "lax"}
        PROVE  IF p \in DOMAIN nmap THEN Both(p) \in Scan ELSE Answer(p) \in Scan
    <3>1. Answer(p) \in K /\ Answer(p).port = p /\ p \in V
      <4>1. Answer(p) \in K /\ Answer(p) = Handshake(p, wire[p]) /\ p \in V
        BY <1>1, <2>3
      <4>2. Handshake(p, wire[p]).port = p
        BY DEF Handshake, Report
      <4> QED
        BY <4>1, <4>2
    <3>2. CASE p \in DOMAIN nmap
      <4>1. NmapReport(p, nmap[p]) \in S /\ NmapReport(p, nmap[p]).port = p
        BY <1>4, <3>1, <3>2
      <4>2. Both(p) \in MergeNmap(S, K)
        BY <3>1, <4>1 DEF MergeNmap
      <4> QED
        BY <2>1, <3>2, <4>2
    <3>3. CASE p \notin DOMAIN nmap
      <4>1. \A n \in S : Answer(p).port # n.port
        BY <1>3, <3>1, <3>3
      <4> QED
        BY <2>1, <3>1, <3>3, <4>1 DEF MergeNmap
    <3> QED
      BY <3>2, <3>3
  <2> HIDE DEF Both
  <2>4. \A r1, r2 \in Scan : r1.port = r2.port => r1 = r2
    BY <2>2
  <2> QED
    BY <1>1, <2>2, <2>3, <2>4 DEF Scan, V, Both
<1>7. CASE S = {} /\ K # {}
  <2>1. Scan = K
    BY <1>7, ScanPortsIs
  <2>2. \A p \in V : p \notin DOMAIN nmap
    BY <1>4, <1>7
  <2> HIDE DEF K, V, S, Scan, Answer
  <2>3. \A r1, r2 \in Scan : r1.port = r2.port => r1 = r2
    BY <1>2, <2>1
  <2>4. \A r \in Scan : r.port \in V
    BY <1>2, <2>1
  <2>5. \A p \in open_ports : wire[p] \in {"handshake", "lax"} => p \notin DOMAIN nmap /\ Handshake(p, wire[p]) \in Scan
    BY <1>1, <2>1, <2>2
  <2> QED
    BY <2>3, <2>4, <2>5 DEF Scan, V
<1>8. CASE S = {} /\ K = {}
  <2> DEFINE Bare(p) == Report(p, FALSE, "none", "none", FALSE, FALSE)
  <2>1. Scan = {Bare(p) : p \in V}
    BY <1>8, ScanPortsIs
  <2>2. \A p : Bare(p).port = p
    BY DEF Report
  <2> HIDE DEF K, V, S, Scan, Answer, Bare
  <2>3. \A p \in open_ports : wire[p] \notin {"handshake", "lax"}
    BY <1>1, <1>8
  <2>4. \A r1, r2 \in Scan : r1.port = r2.port => r1 = r2
    BY <2>1, <2>2
  <2>5. \A r \in Scan : r.port \in V
    BY <2>1, <2>2
  <2> QED
    BY <2>3, <2>4, <2>5 DEF Scan, V
<1> QED
  BY <1>6, <1>7, <1>8

\* What the audit makes of one report.
LEMMA Audited ==
  ASSUME NEW r
  PROVE  /\ \A f \in Audit(r) : f.port = r.port
         /\ PortKind[r.port] = "database" /\ (r.verified \/ r.banner = "long") =>
              Finding("CONFIRMED", "critical", r.port) \in Audit(r)
         /\ r.lax => \E f \in Audit(r) : f.port = r.port /\ f.status = "CONFIRMED" /\ f.severity # "critical"
<1>1. \A status, severity : Finding(status, severity, r.port).port = r.port
                            /\ Finding(status, severity, r.port).status = status
                            /\ Finding(status, severity, r.port).severity = severity
  BY DEF Finding
<1>2. \A f \in AuditLax(r) : f.port = r.port
  BY <1>1 DEF AuditLax
<1>3. \A f \in Audit(r) : f.port = r.port
  BY <1>1, <1>2 DEF Audit
<1>4. ASSUME PortKind[r.port] = "database", r.verified \/ r.banner = "long"
      PROVE  Finding("CONFIRMED", "critical", r.port) \in Audit(r)
  BY <1>4 DEF Audit, DatabaseVerified
<1>5. ASSUME r.lax
      PROVE  \E f \in Audit(r) : f.port = r.port /\ f.status = "CONFIRMED" /\ f.severity # "critical"
  <2> DEFINE severity == IF PortKind[r.port] = "web" THEN "medium" ELSE "high"
  <2>1. Finding("CONFIRMED", severity, r.port) \in Audit(r)
    BY <1>5 DEF Audit, AuditLax
  <2>2. severity # "critical"
    OBVIOUS
  <2> HIDE DEF severity
  <2> QED
    BY <1>1, <2>1, <2>2
<1> QED
  BY <1>3, <1>4, <1>5

LEMMA EveryExposureReported ==
  ASSUME NEW open_ports \in SUBSET Ports, NEW wire \in [Ports -> Wires], NEW nmap
  PROVE  ExposuresReported(open_ports, wire, nmap)
<1> DEFINE reports == ScanPorts(open_ports, wire, nmap)
           findings == UNION {Audit(r) : r \in reports}
<1>0. \A p : Handshake(p, wire[p]).port = p /\ Handshake(p, wire[p]).banner = "long"
             /\ Handshake(p, wire[p]).verified /\ (wire[p] = "lax" => Handshake(p, wire[p]).lax)
  BY DEF Handshake, Report
<1>1. ASSUME NEW p \in open_ports, PortKind[p] = "database", wire[p] \in {"handshake", "lax"}
      PROVE  Finding("CONFIRMED", "critical", p) \in findings
  <2>1. PICK r \in reports : r.port = p /\ (r.verified \/ r.banner = "long")
    <3>1. CASE p \in DOMAIN nmap
      <4> DEFINE both == Combine(NmapReport(p, nmap[p]), Handshake(p, wire[p]))
      <4>1. both \in reports
        BY <1>1, <3>1, ReportedOnce
      <4>2. both.port = p /\ both.banner = "long"
        BY <1>0, CombinedReport
      <4> QED
        BY <4>1, <4>2
    <3>2. CASE p \notin DOMAIN nmap
      BY <1>0, <1>1, <3>2, ReportedOnce
    <3> QED
      BY <3>1, <3>2
  <2>2. Finding("CONFIRMED", "critical", p) \in Audit(r)
    BY <1>1, <2>1, Audited
  <2> QED
    BY <2>2
<1>2. ASSUME NEW p \in open_ports \ DOMAIN nmap, wire[p] = "lax"
      PROVE  \E f \in findings : f.port = p /\ f.status = "CONFIRMED" /\ f.severity # "critical"
  <2>1. Handshake(p, wire[p]) \in reports
    BY <1>2, ReportedOnce
  <2>2. PICK f \in Audit(Handshake(p, wire[p])) :
          f.port = Handshake(p, wire[p]).port /\ f.status = "CONFIRMED" /\ f.severity # "critical"
    BY <1>0, <1>2, Audited
  <2>3. f \in findings /\ f.port = p
    BY <1>0, <2>1, <2>2
  <2> QED
    BY <2>2, <2>3
<1>3. ASSUME IsProxy(open_ports, AnswersOf(open_ports, wire)), NEW f \in findings
      PROVE  wire[f.port] \notin {"silent", "crumb", "reset"}
  <2>1. PICK r \in reports : f \in Audit(r)
    BY <1>3
  <2>2. f.port = r.port /\ r.port \in ActivePorts(open_ports, wire)
    BY <2>1, Audited, ReportedOnce
  <2> QED
    BY <1>3, <2>2, KeptAnswers
<1>4. \A r1, r2 \in reports : r1.port = r2.port => r1 = r2
  BY ReportedOnce
<1> QED
  BY <1>1, <1>2, <1>3, <1>4 DEF ExposuresReported, AnswersOf

-----------------------------------------------------------------------------
(* Triage                                                                  *)

\* The order of the list agrees with the scores, which come from another table.
LEMMA ScoresFollowOrder ==
  ASSUME NEW f, NEW g, ~SortsBefore(g, f)
  PROVE  RiskScore(f) >= RiskScore(g)
<1>1. /\ TierPriority(f.status) \in 1..4 /\ TierPriority(g.status) \in 1..4
      /\ SeverityOrder(f.severity) \in Nat /\ SeverityOrder(g.severity) \in Nat
  BY DEF TierPriority, SeverityOrder
<1>2. CASE TierPriority(f.status) < TierPriority(g.status)
  BY <1>2 DEF TierPriority, RiskScore
<1>3. CASE /\ TierPriority(f.status) = TierPriority(g.status)
           /\ SeverityOrder(f.severity) <= SeverityOrder(g.severity)
  <2>1. f.severity = "critical" \/ g.severity # "critical"
    BY <1>3 DEF SeverityOrder
  <2>2. f.severity \in {"critical", "high"} \/ g.severity \notin {"critical", "high"}
    BY <1>3 DEF SeverityOrder
  <2> QED
    BY <1>3, <2>1, <2>2 DEF TierPriority, RiskScore
<1> QED
  BY <1>1, <1>2, <1>3 DEF SortsBefore

\* The place of each finding in the sorted list.
Precedes(findings, j, k) == \/ SortsBefore(findings[j], findings[k])
                            \/ ~SortsBefore(findings[k], findings[j]) /\ j < k
PlaceOf(findings, k) == 1 + Cardinality({j \in DOMAIN findings \ {k} : Precedes(findings, j, k)})

LEMMA PrecedesIsOrder ==
  ASSUME NEW findings, NEW j \in Nat, NEW k \in Nat
  PROVE  /\ j # k => Precedes(findings, j, k) \/ Precedes(findings, k, j)
         /\ ~Precedes(findings, j, j)
         /\ \A i \in Nat : Precedes(findings, i, j) /\ Precedes(findings, j, k) => Precedes(findings, i, k)
<1> DEFINE T(n) == TierPriority(findings[n].status)
           S(n) == SeverityOrder(findings[n].severity)
<1>1. \A n : T(n) \in Nat /\ S(n) \in Nat
  BY DEF TierPriority, SeverityOrder
<1>2. \A m, n : SortsBefore(findings[m], findings[n]) <=> T(m) < T(n) \/ (T(m) = T(n) /\ S(m) < S(n))
  BY DEF SortsBefore
<1> HIDE DEF T, S
<1> QED
  BY <1>1, <1>2 DEF Precedes

\* Places are the numbers of the list, each once, and who precedes comes first.
LEMMA PlacesAreDistinct ==
  ASSUME NEW findings, NEW n \in Nat, DOMAIN findings = 1..n
  PROVE  /\ \A k \in 1..n : PlaceOf(findings, k) \in 1..n
         /\ \A j, k \in 1..n : Precedes(findings, j, k) => PlaceOf(findings, j) < PlaceOf(findings, k)
         /\ \A j, k \in 1..n : PlaceOf(findings, j) = PlaceOf(findings, k) => j = k
         /\ \A place \in 1..n : \E k \in 1..n : PlaceOf(findings, k) = place
<1> DEFINE Ahead(k) == {j \in (1..n) \ {k} : Precedes(findings, j, k)}
<1>0. /\ \A j, k \in 1..n : /\ j # k => Precedes(findings, j, k) \/ Precedes(findings, k, j)
                            /\ ~Precedes(findings, j, j)
      /\ \A i, j, k \in 1..n : Precedes(findings, i, j) /\ Precedes(findings, j, k) => Precedes(findings, i, k)
  <2>1. \A k \in 1..n : k \in Nat
    OBVIOUS
  <2> QED
    BY <2>1, PrecedesIsOrder, Zenon
<1>1. IsFiniteSet(1..n) /\ Cardinality(1..n) = n
  BY FS_Interval
<1>2. ASSUME NEW k \in 1..n
      PROVE  IsFiniteSet(Ahead(k)) /\ Cardinality(Ahead(k)) \in 0..n - 1
             /\ PlaceOf(findings, k) = 1 + Cardinality(Ahead(k))
  <2>1. IsFiniteSet((1..n) \ {k}) /\ Cardinality((1..n) \ {k}) = n - 1
    BY <1>1, FS_RemoveElement
  <2>2. Ahead(k) \in SUBSET ((1..n) \ {k})
    OBVIOUS
  <2> HIDE DEF Ahead
  <2>3. IsFiniteSet(Ahead(k)) /\ Cardinality(Ahead(k)) <= n - 1
    BY <2>1, <2>2, FS_Subset
  <2>4. Cardinality(Ahead(k)) \in Nat
    BY <2>3, FS_CardinalityType
  <2>5. PlaceOf(findings, k) = 1 + Cardinality(Ahead(k))
    BY DEF PlaceOf, Ahead
  <2> QED
    BY <2>3, <2>4, <2>5
<1>3. ASSUME NEW k \in 1..n PROVE PlaceOf(findings, k) \in 1..n
  <2>1. \A c \in 0..n - 1 : 1 + c \in 1..n
    OBVIOUS
  <2> HIDE DEF Ahead
  <2>2. Cardinality(Ahead(k)) \in 0..n - 1 /\ PlaceOf(findings, k) = 1 + Cardinality(Ahead(k))
    BY <1>2
  <2> QED
    BY <2>1, <2>2
<1>4. ASSUME NEW j \in 1..n, NEW k \in 1..n, Precedes(findings, j, k)
      PROVE  PlaceOf(findings, j) < PlaceOf(findings, k)
  <2>1. j # k /\ j \notin Ahead(j)
    BY <1>0, <1>4
  <2>2. Ahead(j) \cup {j} \in SUBSET Ahead(k)
    <3>1. \A i \in Ahead(j) : i \in 1..n /\ Precedes(findings, i, k) /\ i # k
      BY <1>0, <1>4
    <3> QED
      BY <1>4, <2>1, <3>1
  <2> HIDE DEF Ahead
  <2>3. Cardinality(Ahead(j) \cup {j}) = Cardinality(Ahead(j)) + 1
    BY <1>2, <2>1, FS_AddElement
  <2>4. Cardinality(Ahead(j) \cup {j}) <= Cardinality(Ahead(k))
    BY <1>2, <2>2, FS_Subset
  <2> QED
    BY <1>2, <2>3, <2>4
<1>5. ASSUME NEW j \in 1..n, NEW k \in 1..n, PlaceOf(findings, j) = PlaceOf(findings, k)
      PROVE  j = k
  <2>1. j # k => Precedes(findings, j, k) \/ Precedes(findings, k, j)
    BY <1>0
  <2>2. PlaceOf(findings, j) \in Nat
    BY <1>3
  <2> QED
    BY <1>4, <1>5, <2>1, <2>2
<1>6. ASSUME NEW place \in 1..n PROVE \E k \in 1..n : PlaceOf(findings, k) = place
  <2> DEFINE f == [k \in 1..n |-> PlaceOf(findings, k)]
  <2>1. f \in [1..n -> 1..n] /\ \A a, b \in 1..n : f[a] = f[b] => a = b
    BY <1>3, <1>5
  <2>2. \A k \in 1..n : f[k] = PlaceOf(findings, k)
    OBVIOUS
  <2> HIDE DEF f
  <2>3. f \in Injection(1..n, 1..n)
    BY <2>1, Fun_IsInj
  <2>4. f \in Surjection(1..n, 1..n)
    BY <1>1, <2>3, FS_Injection
  <2>5. PICK k \in 1..n : f[k] = place
    BY <2>4 DEF Surjection
  <2> QED
    BY <2>2, <2>5
<1> QED
  BY <1>3, <1>4, <1>5, <1>6

\* The sorted list holds each finding at its place.
LEMMA SortedAtPlace ==
  ASSUME NEW findings, NEW n \in Nat, DOMAIN findings = 1..n
  PROVE  /\ DOMAIN SortFindings(findings) = 1..n
         /\ \A k \in 1..n : SortFindings(findings)[PlaceOf(findings, k)] = findings[k]
         /\ SortFindings(findings) \in [1..n -> {findings[k] : k \in 1..n}]
<1> DEFINE Holder(place) == CHOOSE k \in 1..n : PlaceOf(findings, k) = place
<1>1. \A place \in 1..n : Holder(place) \in 1..n /\ PlaceOf(findings, Holder(place)) = place
  BY PlacesAreDistinct
<1>2. SortFindings(findings) = [place \in 1..n |-> findings[Holder(place)]]
  BY DEF SortFindings, PlaceOf, Precedes
<1> HIDE DEF Holder
<1>3. ASSUME NEW k \in 1..n PROVE SortFindings(findings)[PlaceOf(findings, k)] = findings[k]
  <2>1. PlaceOf(findings, k) \in 1..n
    BY PlacesAreDistinct
  <2>2. Holder(PlaceOf(findings, k)) = k
    BY <1>1, <2>1, PlacesAreDistinct
  <2> QED
    BY <1>2, <2>1, <2>2
<1> QED
  BY <1>1, <1>2, <1>3

LEMMA EveryListInOrder ==
  ASSUME NEW T, NEW findings \in Seq(T)
  PROVE  InOrderOfRisk(findings)
<1> DEFINE n == Len(findings)
           sorted == SortFindings(findings)
           size == IF n < MaxFindings THEN n ELSE MaxFindings
           kept == SubSeq(sorted, 1, size)
           Place(k) == PlaceOf(findings, k)
           Count(f, s) == Cardinality({k \in DOMAIN s : s[k] = f})
<1>1. n \in Nat /\ DOMAIN findings = 1..n
  OBVIOUS
<1>2. DOMAIN sorted = 1..n /\ (\A k \in 1..n : sorted[Place(k)] = findings[k])
      /\ sorted \in [1..n -> {findings[k] : k \in 1..n}]
  BY <1>1, SortedAtPlace
<1>3. /\ \A k \in 1..n : Place(k) \in 1..n
      /\ \A j, k \in 1..n : Precedes(findings, j, k) => Place(j) < Place(k)
      /\ \A j, k \in 1..n : Place(j) = Place(k) => j = k
      /\ \A place \in 1..n : \E k \in 1..n : Place(k) = place
  BY <1>1, PlacesAreDistinct
<1>4. Len(sorted) = n /\ sorted \in Seq({findings[k] : k \in 1..n})
  BY <1>1, <1>2
<1>5. size \in Nat /\ size <= n
  BY <1>1, TriageAssumption
<1>6. Triage(NoReply, findings, {}).prioritized_findings = kept
  BY <1>4 DEF Triage, DeterministicTriage
<1>7. Len(kept) = size /\ DOMAIN kept = 1..size /\ \A k \in 1..size : kept[k] = sorted[k]
  <2> HIDE DEF sorted, size
  <2>0. \A i \in 1..size : i \in 1..n
    BY <1>1, <1>5
  <2>1. \A i \in 1..size : sorted[i] \in {findings[k] : k \in 1..n}
    BY <1>2, <2>0
  <2> QED
    BY <1>5, <2>1, SubSeqProperties
<1> HIDE DEF sorted, size, kept, Place
<1>8. ASSUME NEW p \in 1..n, NEW q \in 1..n, p < q
      PROVE  RiskScore(sorted[p]) >= RiskScore(sorted[q])
  <2>1. PICK j \in 1..n : Place(j) = p
    BY <1>3
  <2>2. PICK k \in 1..n : Place(k) = q
    BY <1>3
  <2>3. ~Precedes(findings, k, j)
    BY <1>3, <1>8, <2>1, <2>2
  <2>4. ~SortsBefore(findings[k], findings[j])
    BY <2>3 DEF Precedes
  <2>5. sorted[p] = findings[j] /\ sorted[q] = findings[k]
    BY <1>2, <2>1, <2>2
  <2> QED
    BY <2>4, <2>5, ScoresFollowOrder
<1>9. \A m \in 1..Len(kept) - 1 : RiskScore(kept[m]) >= RiskScore(kept[m + 1])
  <2> SUFFICES ASSUME NEW m \in 1..size - 1 PROVE RiskScore(kept[m]) >= RiskScore(kept[m + 1])
    BY <1>7
  <2>1. m \in 1..size /\ m + 1 \in 1..size /\ m \in 1..n /\ m + 1 \in 1..n /\ m < m + 1
    BY <1>1, <1>5
  <2> QED
    BY <1>7, <1>8, <2>1
<1>10. ASSUME NEW k \in 1..n, Count(findings[k], kept) < Count(findings[k], findings)
       PROVE  \A m \in DOMAIN kept : RiskScore(kept[m]) >= RiskScore(findings[k])
  <2> DEFINE f == findings[k]
             given == {j \in 1..n : findings[j] = f}
             shown == {m \in 1..size : kept[m] = f}
  <2>1. \E j \in given : Place(j) > size
    <3> SUFFICES ASSUME \A j \in given : Place(j) <= size PROVE FALSE
      BY <1>3, <1>5
    <3> DEFINE move == [j \in given |-> Place(j)]
    <3>1. \A j \in given : Place(j) \in shown
      BY <1>2, <1>3, <1>5, <1>7
    <3>2. move \in [given -> shown] /\ \A a, b \in given : move[a] = move[b] => a = b
      BY <1>3, <3>1
    <3>3. IsFiniteSet(shown) /\ IsFiniteSet(given)
      <4>1. shown \in SUBSET (1..size) /\ given \in SUBSET (1..n)
        OBVIOUS
      <4>2. IsFiniteSet(1..size) /\ IsFiniteSet(1..n)
        BY <1>1, <1>5, FS_Interval
      <4> QED
        BY <4>1, <4>2, FS_Subset
    <3>4. Count(f, kept) = Cardinality(shown) /\ Count(f, findings) = Cardinality(given)
      BY <1>1, <1>7
    <3> HIDE DEF move, given, shown, f
    <3>5. move \in Injection(given, shown)
      BY <3>2, Fun_IsInj
    <3>6. Cardinality(given) <= Cardinality(shown)
      BY <3>3, <3>5, FS_Injection
    <3>7. Cardinality(given) \in Nat /\ Cardinality(shown) \in Nat
      BY <3>3, FS_CardinalityType
    <3> QED
      BY <1>10, <3>4, <3>6, <3>7 DEF f
  <2>2. PICK j \in 1..n : findings[j] = f /\ Place(j) > size
    BY <2>1
  <2>3. Place(j) \in 1..n /\ sorted[Place(j)] = findings[k]
    BY <1>2, <1>3, <2>2
  <2>4. ASSUME NEW m \in 1..size PROVE RiskScore(kept[m]) >= RiskScore(findings[k])
    <3>1. m \in 1..n /\ m < Place(j) /\ kept[m] = sorted[m]
      BY <1>1, <1>5, <1>7, <2>2, <2>3
    <3> QED
      BY <1>8, <2>3, <3>1
  <2> QED
    BY <1>7, <2>4
<1> QED
  BY <1>1, <1>6, <1>9, <1>10 DEF InOrderOfRisk

-----------------------------------------------------------------------------
(* People                                                                  *)

\* What a person has of the candidates it is made of, and how the n-th of them has joined.
EvidenceOf(h, ev) == {h[ev[k]] : k \in DOMAIN ev}
Before(h, ev, n) == {h[ev[k]] : k \in 1..n - 1}

JoinedWell(h, ev, n, target) ==
    LET cand == h[ev[n]]
        employers == {c.org : c \in Before(h, ev, n)} \ {{}}
    IN /\ TiedTo(cand, h[ev[1]], Before(h, ev, n))
       /\ cand.org \in {{}, target} \/ employers = {} \/ \E org \in employers : Related(cand.org, org)

\* The signals of a person are those of a set of candidates.
MadeOf(person, first, E) ==
    /\ person.name = first.name
    /\ person.emails = {c.email : c \in E} \ {NoEmail}
    /\ person.usernames = {c.username : c \in E} \ {NoText}
    /\ person.organizations = {c.org : c \in E} \ {{}}

PersonSound(h, person, target) ==
    /\ person.evidence # <<>>
    /\ MadeOf(person, h[person.evidence[1]], EvidenceOf(h, person.evidence))
    /\ \A n \in 2..Len(person.evidence) : JoinedWell(h, person.evidence, n, target)

PersonRecord(h) ==
    [name : {h[k].name : k \in DOMAIN h}, emails : SUBSET {h[k].email : k \in DOMAIN h},
     usernames : SUBSET {h[k].username : k \in DOMAIN h}, organizations : SUBSET {h[k].org : k \in DOMAIN h},
     evidence : Seq(DOMAIN h), status : {"resolved", "possible_match"}]

\* A score of at least the threshold takes two ties, or one address, and no contradiction an employer in
\* common.
LEMMA ScoreTies ==
  ASSUME NEW cand, NEW person, NEW first, NEW E, NEW target, MadeOf(person, first, E),
         Score(cand, person) >= MergeThreshold, ~Contradicts(cand, person, target)
  PROVE  /\ TiedTo(cand, first, E)
         /\ LET employers == {c.org : c \in E} \ {{}}
            IN  cand.org \in {{}, target} \/ employers = {} \/ \E org \in employers : Related(cand.org, org)
<1> DEFINE address == cand.email # NoEmail /\ cand.email \in person.emails
           compatible == NamesCompatible(person.name, cand.name)
           company == cand.email.owned /\ compatible
           known == cand.username # NoText /\ cand.username \in person.usernames
           verified == cand.org # {} /\ \E org \in person.organizations : cand.org \subseteq org
           employer == SharesEmployer(cand, person)
<1>1. Score(cand, person) = (IF address THEN 90 ELSE 0) + (IF company THEN 90 ELSE 0)
                            + (IF compatible THEN 45 ELSE 0)
                            + (IF known THEN IF verified THEN 70 ELSE 45 ELSE 0)
                            + (IF employer THEN 45 ELSE 0)
  BY DEF Score, Points, WeightVeryStrong, WeightStrong, WeightMedium
<1>3. known => cand.username # NoText /\ \E c \in E : c.username = cand.username
  BY DEF MadeOf
<1>4. employer => \E c \in E : cand.org # {} /\ c.org # {} /\ Related(cand.org, c.org)
  BY DEF MadeOf, SharesEmployer
<1>5. verified => employer
  BY DEF SharesEmployer, Related
<1>6. compatible <=> NamesCompatible(first.name, cand.name)
  BY DEF MadeOf
<1>7. address => cand.email # NoEmail /\ \E c \in E : c.email = cand.email
  BY DEF MadeOf
<1>8. company <=> cand.email.owned /\ compatible
  OBVIOUS
<1>9. address \/ company \/ (compatible /\ known) \/ (compatible /\ employer) \/ (known /\ employer)
  <2> HIDE DEF address, company, compatible, known, verified, employer
  <2> QED
    BY <1>1, <1>5 DEF MergeThreshold
<1>10. TiedTo(cand, first, E)
  <2> HIDE DEF address, company, compatible, known, verified, employer
  <2> QED
    BY <1>3, <1>4, <1>6, <1>7, <1>8, <1>9 DEF TiedTo
<1>11. cand.org \in {{}, target} \/ {c.org : c \in E} \ {{}} = {}
       \/ \E org \in {c.org : c \in E} \ {{}} : Related(cand.org, org)
  <2>1. cand.org = {} \/ person.organizations = {} \/ SharesEmployer(cand, person) \/ cand.org = target
    BY DEF Contradicts
  <2> QED
    BY <2>1 DEF MadeOf, SharesEmployer
<1> QED
  BY <1>10, <1>11

\* The person that a candidate is compared with is one of the list.
LEMMA BestIsAPerson ==
  ASSUME NEW cand, NEW persons, DOMAIN persons \in SUBSET Nat
  PROVE  BestPerson(cand, persons) \in {0} \cup DOMAIN persons
<1> DEFINE best == {n \in DOMAIN persons :
                      \A k \in DOMAIN persons : Score(cand, persons[k]) <= Score(cand, persons[n])}
           scoring == {n \in best : Score(cand, persons[n]) > 0}
<1>1. scoring \in SUBSET Nat /\ scoring \in SUBSET DOMAIN persons
  OBVIOUS
<1>2. BestPerson(cand, persons) =
        IF scoring = {} THEN 0 ELSE CHOOSE n \in scoring : \A k \in scoring : n <= k
  BY DEF BestPerson
<1> HIDE DEF scoring
<1>3. scoring # {} => \E n \in scoring : \A k \in scoring : n <= k
  BY <1>1, LeastNatural
<1> QED
  BY <1>1, <1>2, <1>3

LEMMA NewPersonSound ==
  ASSUME NEW T, NEW h \in Seq(T), NEW k \in DOMAIN h, NEW target, NEW status \in {"resolved", "possible_match"}
  PROVE  /\ NewPerson(h[k], k, status) \in PersonRecord(h)
         /\ NewPerson(h[k], k, status).evidence = <<k>>
         /\ PersonSound(h, NewPerson(h[k], k, status), target)
<1> DEFINE person == NewPerson(h[k], k, status)
<1>1. /\ person.name = h[k].name /\ person.emails = {h[k].email} \ {NoEmail}
      /\ person.usernames = {h[k].username} \ {NoText} /\ person.organizations = {h[k].org} \ {{}}
      /\ person.evidence = <<k>>
  BY DEF NewPerson, Given
<1>2. person \in PersonRecord(h)
  BY DEF NewPerson, Given, PersonRecord
<1>3. DOMAIN <<k>> = {1} /\ <<k>>[1] = k /\ Len(<<k>>) = 1 /\ <<k>> # <<>>
  OBVIOUS
<1>4. EvidenceOf(h, <<k>>) = {h[k]}
  BY <1>3 DEF EvidenceOf
<1> HIDE DEF person
<1>5. MadeOf(person, h[k], {h[k]})
  BY <1>1 DEF MadeOf
<1>6. person.evidence # <<>> /\ person.evidence[1] = k /\ EvidenceOf(h, person.evidence) = {h[k]}
      /\ \A n \in 2..Len(person.evidence) : FALSE
  BY <1>1, <1>3, <1>4
<1>7. PersonSound(h, person, target)
  BY <1>5, <1>6 DEF PersonSound
<1> QED
  BY <1>1, <1>2, <1>7 DEF person

LEMMA MergedSound ==
  ASSUME NEW T, NEW h \in Seq(T), NEW k \in DOMAIN h, NEW target,
         NEW person \in PersonRecord(h), PersonSound(h, person, target),
         Score(h[k], person) >= MergeThreshold, ~Contradicts(h[k], person, target)
  PROVE  /\ Merged(person, h[k], k) \in PersonRecord(h)
         /\ Merged(person, h[k], k).evidence = Append(person.evidence, k)
         /\ PersonSound(h, Merged(person, h[k], k), target)
<1> DEFINE merged == Merged(person, h[k], k)
           ev == person.evidence
           more == Append(ev, k)
<1>1. /\ merged.name = person.name
      /\ merged.emails = person.emails \cup ({h[k].email} \ {NoEmail})
      /\ merged.usernames = person.usernames \cup ({h[k].username} \ {NoText})
      /\ merged.organizations = person.organizations \cup ({h[k].org} \ {{}})
      /\ merged.evidence = more
  BY DEF Merged, Given, PersonRecord
<1>2. merged \in PersonRecord(h)
  <2> DEFINE N == {h[j].name : j \in DOMAIN h}
             E == {h[j].email : j \in DOMAIN h}
             U == {h[j].username : j \in DOMAIN h}
             O == {h[j].org : j \in DOMAIN h}
  <2>1. person \in [name : N, emails : SUBSET E, usernames : SUBSET U, organizations : SUBSET O,
                    evidence : Seq(DOMAIN h), status : {"resolved", "possible_match"}]
    BY DEF PersonRecord
  <2>2. h[k].email \in E /\ h[k].username \in U /\ h[k].org \in O
    OBVIOUS
  <2> HIDE DEF N, E, U, O
  <2>3. /\ person.emails \cup ({h[k].email} \ {NoEmail}) \in SUBSET E
        /\ person.usernames \cup ({h[k].username} \ {NoText}) \in SUBSET U
        /\ person.organizations \cup ({h[k].org} \ {{}}) \in SUBSET O
        /\ Append(person.evidence, k) \in Seq(DOMAIN h)
    BY <2>1, <2>2
  <2>4. merged \in [name : N, emails : SUBSET E, usernames : SUBSET U, organizations : SUBSET O,
                    evidence : Seq(DOMAIN h), status : {"resolved", "possible_match"}]
    BY <2>1, <2>3 DEF Merged, Given
  <2> QED
    BY <2>4 DEF PersonRecord, N, E, U, O
<1>3. ev \in Seq(DOMAIN h) /\ ev # <<>>
  BY DEF PersonRecord, PersonSound
<1> HIDE DEF merged, ev
<1>4. /\ Len(ev) \in Nat \ {0} /\ DOMAIN ev = 1..Len(ev)
      /\ DOMAIN more = 1..Len(ev) + 1 /\ Len(more) = Len(ev) + 1 /\ more # <<>>
      /\ \A j \in 1..Len(ev) : more[j] = ev[j]
      /\ more[Len(ev) + 1] = k /\ more[1] = ev[1]
  <2>1. Len(ev) \in Nat \ {0}
    BY <1>3, EmptySeq
  <2> QED
    BY <1>3, <2>1
<1> HIDE DEF more
<1>5. EvidenceOf(h, more) = EvidenceOf(h, ev) \cup {h[k]}
  <2>1. 1..Len(ev) + 1 = (1..Len(ev)) \cup {Len(ev) + 1}
    BY <1>4
  <2> QED
    BY <1>4, <2>1 DEF EvidenceOf
<1>6. \A n \in 1..Len(ev) + 1 : Before(h, more, n) = Before(h, ev, n)
  <2> SUFFICES ASSUME NEW n \in 1..Len(ev) + 1 PROVE Before(h, more, n) = Before(h, ev, n)
    OBVIOUS
  <2>1. \A j \in 1..n - 1 : j \in 1..Len(ev)
    BY <1>4
  <2>2. \A j \in 1..n - 1 : more[j] = ev[j]
    BY <1>4, <2>1
  <2> QED
    BY <2>2 DEF Before
<1>7. Before(h, ev, Len(ev) + 1) = EvidenceOf(h, ev)
  <2>1. (Len(ev) + 1) - 1 = Len(ev)
    BY <1>4
  <2> QED
    BY <1>4, <2>1 DEF Before, EvidenceOf
<1>8. MadeOf(person, h[ev[1]], EvidenceOf(h, ev)) /\ \A n \in 2..Len(ev) : JoinedWell(h, ev, n, target)
  BY DEF PersonSound, ev
<1>9. MadeOf(merged, h[more[1]], EvidenceOf(h, more))
  <2> DEFINE E == EvidenceOf(h, ev)
  <2>1. /\ person.name = h[ev[1]].name /\ person.emails = {c.email : c \in E} \ {NoEmail}
        /\ person.usernames = {c.username : c \in E} \ {NoText}
        /\ person.organizations = {c.org : c \in E} \ {{}}
    BY <1>8 DEF MadeOf
  <2> HIDE DEF E
  <2>2. merged.emails = {c.email : c \in E \cup {h[k]}} \ {NoEmail}
    BY <1>1, <2>1
  <2>3. merged.usernames = {c.username : c \in E \cup {h[k]}} \ {NoText}
    BY <1>1, <2>1
  <2>4. merged.organizations = {c.org : c \in E \cup {h[k]}} \ {{}}
    BY <1>1, <2>1
  <2>5. merged.name = h[more[1]].name
    BY <1>1, <1>4, <2>1
  <2> QED
    BY <1>5, <2>2, <2>3, <2>4, <2>5 DEF MadeOf, E
<1>10. ASSUME NEW n \in 2..Len(more) PROVE JoinedWell(h, more, n, target)
  <2>1. n \in 1..Len(ev) + 1 /\ more[1] = ev[1]
    BY <1>4
  <2>2. Before(h, more, n) = Before(h, ev, n)
    BY <1>6, <2>1
  <2>3. CASE n \in 2..Len(ev)
    <3>1. more[n] = ev[n]
      BY <1>4, <2>3
    <3>2. JoinedWell(h, ev, n, target)
      BY <1>8, <2>3
    <3> QED
      BY <2>1, <2>2, <3>1, <3>2 DEF JoinedWell
  <2>4. CASE n = Len(ev) + 1
    <3>1. more[n] = k /\ Before(h, more, n) = EvidenceOf(h, ev)
      BY <1>4, <1>7, <2>2, <2>4
    <3>2. /\ TiedTo(h[k], h[ev[1]], EvidenceOf(h, ev))
          /\ LET employers == {c.org : c \in EvidenceOf(h, ev)} \ {{}}
             IN  h[k].org \in {{}, target} \/ employers = {} \/ \E org \in employers : Related(h[k].org, org)
      BY <1>8, ScoreTies
    <3> QED
      BY <2>1, <3>1, <3>2 DEF JoinedWell
  <2> QED
    BY <1>4, <2>3, <2>4
<1> QED
  BY <1>1, <1>2, <1>4, <1>9, <1>10 DEF PersonSound, merged, more, ev

\* The first k candidates are each the evidence of one person, once.
Holds(persons, p, n, k) ==
    p \in DOMAIN persons /\ n \in DOMAIN persons[p].evidence /\ persons[p].evidence[n] = k

Counted(persons, k) ==
    /\ \A p, n, j : Holds(persons, p, n, j) => j \in 1..k
    /\ \A j \in 1..k : \E p, n : Holds(persons, p, n, j)
    /\ \A p, n, q, m, j : Holds(persons, p, n, j) /\ Holds(persons, q, m, j) => q = p /\ m = n

ResolvedWell(h, persons, k, target) ==
    /\ persons \in Seq(PersonRecord(h))
    /\ \A p \in DOMAIN persons : PersonSound(h, persons[p], target)
    /\ Counted(persons, k)

\* With one more candidate as the evidence of one person more, or of one of them.
OneMore(persons, after, person, place, k) == \A p, n, j :
    Holds(after, p, n, j) <=> Holds(persons, p, n, j) \/ (p = person /\ n = place /\ j = k)

LEMMA OneMoreCounted ==
  ASSUME NEW persons, NEW after, NEW k \in Nat, NEW person, NEW place, Counted(persons, k),
         OneMore(persons, after, person, place, k + 1)
  PROVE  Counted(after, k + 1)
<1>0. \A p, n, j : Holds(after, p, n, j) <=> Holds(persons, p, n, j) \/ (p = person /\ n = place /\ j = k + 1)
  BY DEF OneMore
<1>1. \A j \in 1..k + 1 : j \in 1..k \/ j = k + 1
  OBVIOUS
<1>2. \A j \in 1..k : j \in 1..k + 1 /\ j # k + 1
  OBVIOUS
<1>3. k + 1 \in 1..k + 1
  OBVIOUS
<1>4. /\ \A p, n, j : Holds(persons, p, n, j) => j \in 1..k
      /\ \A j \in 1..k : \E p, n : Holds(persons, p, n, j)
      /\ \A p, n, q, m, j : Holds(persons, p, n, j) /\ Holds(persons, q, m, j) => q = p /\ m = n
  BY DEF Counted
<1>5. ASSUME NEW p, NEW n, NEW j, Holds(after, p, n, j) PROVE j \in 1..k + 1
  BY <1>0, <1>2, <1>3, <1>4, <1>5, Zenon
<1>6. ASSUME NEW j \in 1..k + 1 PROVE \E p, n : Holds(after, p, n, j)
  BY <1>0, <1>1, <1>4, Zenon
<1>7. ASSUME NEW p, NEW n, NEW q, NEW m, NEW j, Holds(after, p, n, j), Holds(after, q, m, j)
      PROVE  q = p /\ m = n
  <2>1. Holds(persons, p, n, j) \/ (p = person /\ n = place /\ j = k + 1)
    BY <1>0, <1>7, Zenon
  <2>2. Holds(persons, q, m, j) \/ (q = person /\ m = place /\ j = k + 1)
    BY <1>0, <1>7, Zenon
  <2>3. Holds(persons, p, n, j) \/ Holds(persons, q, m, j) => j # k + 1
    BY <1>2, <1>4, Zenon
  <2> QED
    BY <1>4, <2>1, <2>2, <2>3, Zenon
<1> QED
  BY <1>5, <1>6, <1>7 DEF Counted

LEMMA PersonAdded ==
  ASSUME NEW R, NEW persons \in Seq(R), NEW k \in Nat, NEW person \in R, person.evidence = <<k + 1>>,
         Counted(persons, k)
  PROVE  Counted(Append(persons, person), k + 1)
<1> DEFINE after == Append(persons, person)
<1>1. /\ Len(persons) \in Nat /\ DOMAIN persons = 1..Len(persons)
      /\ DOMAIN after = 1..Len(persons) + 1
      /\ \A p \in 1..Len(persons) : after[p] = persons[p]
      /\ after[Len(persons) + 1] = person
  OBVIOUS
<1>2. /\ \A p \in 1..Len(persons) + 1 : p \in 1..Len(persons) \/ p = Len(persons) + 1
      /\ \A p \in 1..Len(persons) : p \in 1..Len(persons) + 1 /\ p # Len(persons) + 1
      /\ Len(persons) + 1 \in 1..Len(persons) + 1
  BY <1>1
<1>3. DOMAIN <<k + 1>> = {1} /\ <<k + 1>>[1] = k + 1
  OBVIOUS
<1> HIDE DEF after
<1>4. ASSUME NEW p, NEW n, NEW j
      PROVE  Holds(after, p, n, j) <=> Holds(persons, p, n, j) \/ (p = Len(persons) + 1 /\ n = 1 /\ j = k + 1)
  <2>1. CASE p \in 1..Len(persons)
    <3>1. after[p] = persons[p] /\ p \in DOMAIN after /\ p \in DOMAIN persons /\ p # Len(persons) + 1
      BY <1>1, <1>2, <2>1
    <3> QED
      BY <3>1 DEF Holds
  <2>2. CASE p = Len(persons) + 1
    <3>1. after[p] = person /\ p \in DOMAIN after /\ p \notin DOMAIN persons
      BY <1>1, <1>2, <2>2
    <3> QED
      BY <1>3, <2>2, <3>1 DEF Holds
  <2>3. CASE p \notin 1..Len(persons) + 1
    BY <1>1, <1>2, <2>3 DEF Holds
  <2> QED
    BY <1>2, <2>1, <2>2, <2>3
<1>5. OneMore(persons, after, Len(persons) + 1, 1, k + 1)
  BY <1>4 DEF OneMore
<1>6. Counted(after, k + 1)
  BY <1>5, OneMoreCounted
<1> QED
  BY <1>6 DEF after

LEMMA PersonGrows ==
  ASSUME NEW R, NEW persons \in Seq(R), NEW k \in Nat, NEW p1 \in DOMAIN persons, NEW person \in R,
         NEW T, persons[p1].evidence \in Seq(T), k + 1 \in T,
         person.evidence = Append(persons[p1].evidence, k + 1), Counted(persons, k)
  PROVE  Counted([persons EXCEPT ![p1] = person], k + 1)
<1> DEFINE after == [persons EXCEPT ![p1] = person]
           ev == persons[p1].evidence
           more == Append(ev, k + 1)
<1>1. /\ DOMAIN after = DOMAIN persons
      /\ \A p \in DOMAIN persons : p # p1 => after[p] = persons[p]
      /\ after[p1] = person
  OBVIOUS
<1>2. ev \in Seq(T) /\ person.evidence = more
  OBVIOUS
<1> HIDE DEF ev, after
<1>3. /\ DOMAIN ev = 1..Len(ev) /\ Len(ev) \in Nat /\ DOMAIN more = 1..Len(ev) + 1
      /\ \A n \in 1..Len(ev) : more[n] = ev[n]
      /\ more[Len(ev) + 1] = k + 1
  BY <1>2
<1>4. /\ \A n \in 1..Len(ev) + 1 : n \in 1..Len(ev) \/ n = Len(ev) + 1
      /\ \A n \in 1..Len(ev) : n \in 1..Len(ev) + 1 /\ n # Len(ev) + 1
      /\ Len(ev) + 1 \in 1..Len(ev) + 1
  BY <1>3
<1> HIDE DEF more
<1>5. ASSUME NEW p, NEW n, NEW j
      PROVE  Holds(after, p, n, j) <=> Holds(persons, p, n, j) \/ (p = p1 /\ n = Len(ev) + 1 /\ j = k + 1)
  <2>1. CASE p \in DOMAIN persons /\ p # p1
    BY <1>1, <2>1 DEF Holds
  <2>2. CASE p \notin DOMAIN persons
    BY <1>1, <2>2 DEF Holds
  <2>3. CASE p = p1
    <3>1. Holds(after, p, n, j) <=> n \in DOMAIN more /\ more[n] = j
      BY <1>1, <1>2, <2>3 DEF Holds
    <3>2. Holds(persons, p, n, j) <=> n \in DOMAIN ev /\ ev[n] = j
      BY <2>3 DEF Holds, ev
    <3>3. n \in DOMAIN more /\ more[n] = j <=> (n \in DOMAIN ev /\ ev[n] = j) \/ (n = Len(ev) + 1 /\ j = k + 1)
      BY <1>3, <1>4
    <3> QED
      BY <2>3, <3>1, <3>2, <3>3
  <2> QED
    BY <2>1, <2>2, <2>3
<1>6. OneMore(persons, after, p1, Len(ev) + 1, k + 1)
  BY <1>5 DEF OneMore
<1>7. Counted(after, k + 1)
  BY <1>6, OneMoreCounted
<1> QED
  BY <1>7 DEF after

\* One candidate more.
LEMMA PersonsAfterWell ==
  ASSUME NEW T, NEW h \in Seq(T), NEW persons, NEW k \in Nat, k + 1 \in DOMAIN h, NEW target,
         ResolvedWell(h, persons, k, target)
  PROVE  ResolvedWell(h, PersonsAfter(persons, h[k + 1], k + 1, target), k + 1, target)
<1> DEFINE cand == h[k + 1]
           n == BestPerson(cand, persons)
           after == PersonsAfter(persons, cand, k + 1, target)
           R == PersonRecord(h)
<1>1. /\ persons \in Seq(R) /\ \A p \in DOMAIN persons : PersonSound(h, persons[p], target)
      /\ Counted(persons, k)
  BY DEF ResolvedWell
<1>2. DOMAIN persons \in SUBSET Nat /\ DOMAIN persons = 1..Len(persons) /\ Len(persons) \in Nat
  BY <1>1
<1>3. n \in {0} \cup DOMAIN persons
  BY <1>2, BestIsAPerson
<1> HIDE DEF n, R
<1>4. \/ \E status \in {"resolved", "possible_match"} :
           after = Append(persons, NewPerson(cand, k + 1, status))
      \/ /\ n \in DOMAIN persons /\ ~Contradicts(cand, persons[n], target)
         /\ Score(cand, persons[n]) >= MergeThreshold
         /\ after = [persons EXCEPT ![n] = Merged(persons[n], cand, k + 1)]
  <2>1. n = 0 \/ n \in DOMAIN persons
    BY <1>3
  <2> QED
    BY <2>1 DEF PersonsAfter, n
<1> HIDE DEF after
<1>5. ASSUME NEW status \in {"resolved", "possible_match"},
             after = Append(persons, NewPerson(cand, k + 1, status))
      PROVE  ResolvedWell(h, after, k + 1, target)
  <2> DEFINE person == NewPerson(cand, k + 1, status)
  <2>1. person \in R /\ person.evidence = <<k + 1>> /\ PersonSound(h, person, target)
    BY NewPersonSound DEF R
  <2> HIDE DEF person
  <2>2. after = Append(persons, person)
    BY <1>5 DEF person
  <2>3. Counted(after, k + 1)
    BY <1>1, <2>1, <2>2, PersonAdded
  <2>4. /\ after \in Seq(R) /\ DOMAIN after = (DOMAIN persons) \cup {Len(persons) + 1}
        /\ \A p \in DOMAIN persons : after[p] = persons[p]
        /\ after[Len(persons) + 1] = person
    BY <1>1, <1>2, <2>1, <2>2
  <2>5. \A p \in DOMAIN after : PersonSound(h, after[p], target)
    BY <1>1, <2>1, <2>4
  <2> QED
    BY <2>3, <2>4, <2>5 DEF ResolvedWell, R
<1>6. ASSUME n \in DOMAIN persons, ~Contradicts(cand, persons[n], target),
             Score(cand, persons[n]) >= MergeThreshold,
             after = [persons EXCEPT ![n] = Merged(persons[n], cand, k + 1)]
      PROVE  ResolvedWell(h, after, k + 1, target)
  <2> DEFINE person == Merged(persons[n], cand, k + 1)
  <2>1. persons[n] \in R /\ PersonSound(h, persons[n], target)
    BY <1>1, <1>6
  <2>2. /\ person \in R /\ person.evidence = Append(persons[n].evidence, k + 1)
        /\ PersonSound(h, person, target)
    BY <1>6, <2>1, MergedSound DEF R
  <2>3. persons[n].evidence \in Seq(DOMAIN h)
    BY <2>1 DEF R, PersonRecord
  <2> HIDE DEF person
  <2>4. after = [persons EXCEPT ![n] = person]
    BY <1>6 DEF person
  <2>5. Counted(after, k + 1)
    <3>1. Counted([persons EXCEPT ![n] = person], k + 1)
      BY <1>1, <1>6, <2>2, <2>3, PersonGrows, Zenon
    <3> QED
      BY <2>4, <3>1
  <2>6. /\ after \in Seq(R) /\ DOMAIN after = DOMAIN persons /\ after[n] = person
        /\ \A p \in DOMAIN persons : p # n => after[p] = persons[p]
    BY <1>1, <1>2, <1>6, <2>2, <2>4
  <2>7. \A p \in DOMAIN after : PersonSound(h, after[p], target)
    BY <1>1, <2>2, <2>6
  <2> QED
    BY <2>5, <2>6, <2>7 DEF ResolvedWell, R
<1> QED
  BY <1>4, <1>5, <1>6 DEF after

\* One step of the recursion that defines PersonsOf.
PersonsStep(f, h, target, n) == IF n = 0 THEN <<>> ELSE PersonsAfter(f[n - 1], h[n], n, target)

LEMMA PersonsEquation ==
  ASSUME NEW h, NEW target, Len(h) \in Nat
  PROVE  \A n \in 0..Len(h) : PersonsOf(h, target)[n] = PersonsStep(PersonsOf(h, target), h, target, n)
<1> DEFINE Solves(f, m) == f = [n \in 0..m |-> PersonsStep(f, h, target, n)]
           M == {m \in Nat : \E f : Solves(f, m)}
<1>1. 0 \in M
  <2> DEFINE f == [n \in 0..0 |-> <<>>]
  <2>1. Solves(f, 0)
    BY DEF PersonsStep
  <2> HIDE DEF Solves, f
  <2> QED
    BY <2>1
<1>2. ASSUME NEW m \in Nat, m \in M PROVE m + 1 \in M
  <2>1. PICK f : Solves(f, m)
    BY <1>2
  <2> DEFINE g == [n \in 0..m + 1 |-> IF n = m + 1 THEN PersonsStep(f, h, target, n) ELSE f[n]]
  <2>2. ASSUME NEW n \in 0..m + 1 PROVE g[n] = PersonsStep(g, h, target, n)
    <3>1. g[n] = PersonsStep(f, h, target, n)
      <4>1. n \in 0..m => f[n] = PersonsStep(f, h, target, n)
        BY <2>1
      <4> QED
        BY <4>1
    <3>2. n # 0 => g[n - 1] = f[n - 1]
      OBVIOUS
    <3> HIDE DEF g
    <3> QED
      BY <3>1, <3>2 DEF PersonsStep
  <2>3. Solves(g, m + 1)
    BY <2>2
  <2> HIDE DEF Solves, g
  <2> QED
    BY <2>3
<1>3. Len(h) \in M
  <2> HIDE DEF M
  <2>1. \A n \in Nat : n \in M
    BY <1>1, <1>2, SetInduction
  <2> QED
    BY <2>1
<1>4. Solves(PersonsOf(h, target), Len(h))
  BY <1>3 DEF PersonsOf, PersonsStep
<1> QED
  BY <1>4

LEMMA AllResolvedWell ==
  ASSUME NEW T, NEW h \in Seq(T), NEW target
  PROVE  ResolvedWell(h, ResolveIdentities(h, target), Len(h), target)
<1> DEFINE P == PersonsOf(h, target)
           I == {n \in 0..Len(h) : ResolvedWell(h, P[n], n, target)}
<1>0. Len(h) \in Nat /\ DOMAIN h = 1..Len(h)
  OBVIOUS
<1>1. \A n \in 0..Len(h) : P[n] = PersonsStep(P, h, target, n)
  BY <1>0, PersonsEquation
<1> HIDE DEF P
<1>2. 0 \in I
  <2>1. P[0] = <<>> /\ 0 \in 0..Len(h)
    BY <1>0, <1>1 DEF PersonsStep
  <2>2. <<>> \in Seq(PersonRecord(h)) /\ DOMAIN <<>> = {}
    OBVIOUS
  <2>3. Counted(<<>>, 0)
    <3>1. \A p, n, j : ~Holds(<<>>, p, n, j)
      BY <2>2 DEF Holds
    <3>2. \A j \in 1..0 : FALSE
      OBVIOUS
    <3> QED
      BY <3>1, <3>2 DEF Counted
  <2> QED
    BY <2>1, <2>2, <2>3 DEF ResolvedWell
<1>3. ASSUME NEW n \in 0..Len(h) - 1, n \in I PROVE n + 1 \in I
  <2>1. n + 1 \in 0..Len(h) /\ n + 1 \in DOMAIN h /\ n \in Nat /\ n + 1 # 0 /\ (n + 1) - 1 = n
    BY <1>0
  <2>2. P[n + 1] = PersonsAfter(P[n], h[n + 1], n + 1, target)
    BY <1>1, <2>1 DEF PersonsStep
  <2>3. ResolvedWell(h, P[n], n, target)
    BY <1>3
  <2>4. ResolvedWell(h, P[n + 1], n + 1, target)
    BY <2>1, <2>2, <2>3, PersonsAfterWell
  <2> QED
    BY <2>1, <2>4
<1>4. Len(h) \in I
  <2> HIDE DEF I
  <2>1. \A n \in 0..Len(h) : n \in I
    BY <1>0, <1>2, <1>3, BoundedInduction
  <2> QED
    BY <1>0, <2>1
<1> QED
  BY <1>4 DEF ResolveIdentities, P

LEMMA EveryResolutionSound ==
  ASSUME NEW T, NEW cands \in Seq(T), NEW target
  PROVE  Sound(cands, target)
<1> DEFINE h == Humans(cands)
           persons == ResolveWithFootprint(cands, target).resolved_persons
<1>1. h \in Seq(T)
  BY AmongProperties DEF Humans
<1>2. persons = ResolveIdentities(h, target)
  BY DEF ResolveWithFootprint
<1> HIDE DEF h, persons
<1>3. ResolvedWell(h, persons, Len(h), target)
  BY <1>1, <1>2, AllResolvedWell
<1>4. DOMAIN h = 1..Len(h)
  BY <1>1
<1>5. ASSUME NEW k \in DOMAIN h
      PROVE  \E p \in DOMAIN persons : \E n \in DOMAIN persons[p].evidence :
               /\ persons[p].evidence[n] = k
               /\ \A q \in DOMAIN persons : \A m \in DOMAIN persons[q].evidence :
                    persons[q].evidence[m] = k => q = p /\ m = n
  <2>1. PICK p, n : Holds(persons, p, n, k)
    BY <1>3, <1>4 DEF ResolvedWell, Counted
  <2>2. \A q, m : Holds(persons, q, m, k) => q = p /\ m = n
    BY <1>3, <2>1 DEF ResolvedWell, Counted
  <2> QED
    BY <2>1, <2>2 DEF Holds
<1>6. ASSUME NEW p \in DOMAIN persons, NEW n \in 2..Len(persons[p].evidence)
      PROVE  JoinedWell(h, persons[p].evidence, n, target)
  BY <1>3 DEF ResolvedWell, PersonSound
<1> QED
  BY <1>5, <1>6 DEF Sound, JoinedWell, Before, h, persons

-----------------------------------------------------------------------------
(* Versions                                                                *)

Characters == {"~", "+", "."} \cup Letters \cup Digits
NoDigit(chunk) == \A k \in DOMAIN chunk : chunk[k] \notin Digits
Piece == {chunk \in Seq(Characters) : IsNumber(chunk) \/ NoDigit(chunk)}

\* A comparison of the first with the third that goes with those of the first with the second and of
\* the second with the third.
Agree(ab, bc, ac) ==
    /\ ab <= 0 /\ bc <= 0 => ac <= 0
    /\ (ab < 0 /\ bc <= 0) \/ (ab <= 0 /\ bc < 0) => ac < 0
    /\ ab = 0 /\ bc = 0 => ac = 0

LEMMA SignsAgree ==
  ASSUME NEW x \in Int, NEW y \in Int, NEW z \in Int
  PROVE  /\ Sign(x, y) \in Int /\ Sign(x, y) = -Sign(y, x)
         /\ Sign(x, y) < 0 <=> x < y
         /\ Sign(x, y) <= 0 <=> x <= y
         /\ Agree(Sign(x, y), Sign(y, z), Sign(x, z))
BY DEF Sign, Agree

\* The first difference of a list of comparisons.
LEMMA FirstDifferenceIs ==
  ASSUME NEW n \in Nat, NEW compare, \A k \in 1..n : compare[k] \in Int
  PROVE  \/ FirstDifference(compare, n) = 0 /\ \A k \in 1..n : compare[k] = 0
         \/ \E k \in 1..n : /\ FirstDifference(compare, n) = compare[k] /\ compare[k] # 0
                            /\ \A j \in 1..k - 1 : compare[j] = 0
<1> DEFINE differs == {k \in 1..n : compare[k] # 0}
           first == CHOOSE k \in differs : \A j \in differs : k <= j
<1>1. FirstDifference(compare, n) = IF differs = {} THEN 0 ELSE compare[first]
  BY DEF FirstDifference
<1>2. CASE differs = {}
  BY <1>1, <1>2
<1>3. CASE differs # {}
  <2>1. differs \in SUBSET Nat
    OBVIOUS
  <2>2. first \in differs /\ \A j \in differs : first <= j
    <3> HIDE DEF differs
    <3>1. \E k \in differs : \A j \in differs : k <= j
      BY <1>3, <2>1, LeastNatural
    <3> QED
      BY <3>1
  <2>3. first \in 1..n /\ compare[first] # 0
    BY <2>2
  <2> HIDE DEF first
  <2>4. \A j \in 1..first - 1 : j \in 1..n /\ ~(first <= j)
    BY <2>3
  <2>5. \A j \in 1..first - 1 : compare[j] = 0
    BY <2>2, <2>4
  <2> QED
    BY <1>1, <1>3, <2>3, <2>5
<1> QED
  BY <1>2, <1>3

\* It is none other.
LEMMA FirstDifferenceAt ==
  ASSUME NEW n \in Nat, NEW compare, \A k \in 1..n : compare[k] \in Int
  PROVE  /\ FirstDifference(compare, n) \in Int
         /\ (\A k \in 1..n : compare[k] = 0) => FirstDifference(compare, n) = 0
         /\ \A k \in 1..n : compare[k] # 0 /\ (\A j \in 1..k - 1 : compare[j] = 0)
              => FirstDifference(compare, n) = compare[k]
<1>1. FirstDifference(compare, n) \in Int /\ ((\A k \in 1..n : compare[k] = 0) => FirstDifference(compare, n) = 0)
  BY FirstDifferenceIs
<1>2. ASSUME NEW k \in 1..n, compare[k] # 0, \A j \in 1..k - 1 : compare[j] = 0
      PROVE  FirstDifference(compare, n) = compare[k]
  <2>1. PICK i \in 1..n : /\ FirstDifference(compare, n) = compare[i] /\ compare[i] # 0
                          /\ \A j \in 1..i - 1 : compare[j] = 0
    BY <1>2, FirstDifferenceIs
  <2>2. i < k => i \in 1..k - 1
    OBVIOUS
  <2>3. k < i => k \in 1..i - 1
    OBVIOUS
  <2>4. i = k
    BY <1>2, <2>1, <2>2, <2>3
  <2> QED
    BY <2>1, <2>4
<1> QED
  BY <1>1, <1>2

\* Comparisons beyond the end that find nothing may be added.
Pads(padded, m, compare, n) ==
    /\ \A k \in 1..n : compare[k] \in Int /\ padded[k] = compare[k]
    /\ \A k \in n + 1..m : padded[k] = 0

LEMMA PaddedDifference ==
  ASSUME NEW n \in Nat, NEW m \in Nat, n <= m, NEW compare, NEW padded, Pads(padded, m, compare, n)
  PROVE  FirstDifference(padded, m) = FirstDifference(compare, n)
<1>0. /\ \A k \in 1..n : compare[k] \in Int /\ padded[k] = compare[k]
      /\ \A k \in n + 1..m : padded[k] = 0
  BY DEF Pads
<1>1. \A k \in 1..m : k \in 1..n \/ k \in n + 1..m
  OBVIOUS
<1>2. \A k \in 1..m : padded[k] \in Int
  BY <1>0, <1>1
<1>3. CASE \A k \in 1..n : compare[k] = 0
  <2>1. \A k \in 1..m : padded[k] = 0
    BY <1>0, <1>1, <1>3
  <2>2. FirstDifference(padded, m) = 0
    BY <1>2, <2>1, FirstDifferenceAt
  <2>3. FirstDifference(compare, n) = 0
    BY <1>0, <1>3, FirstDifferenceAt
  <2> QED
    BY <2>2, <2>3
<1>4. CASE ~ \A k \in 1..n : compare[k] = 0
  <2>1. PICK k \in 1..n : /\ FirstDifference(compare, n) = compare[k] /\ compare[k] # 0
                          /\ \A j \in 1..k - 1 : compare[j] = 0
    BY <1>0, <1>4, FirstDifferenceIs
  <2>2. k \in 1..m /\ \A j \in 1..k - 1 : j \in 1..n
    OBVIOUS
  <2>3. padded[k] = compare[k] /\ \A j \in 1..k - 1 : padded[j] = 0
    BY <1>0, <2>1, <2>2
  <2>4. FirstDifference(padded, m) = padded[k]
    BY <1>2, <2>1, <2>2, <2>3, FirstDifferenceAt
  <2> QED
    BY <2>1, <2>3, <2>4
<1> QED
  BY <1>3, <1>4

\* What is opposed at each place is opposed as a whole.
Opposed(ab, ba, n) == \A k \in 1..n : ab[k] \in Int /\ ba[k] = -ab[k]

LEMMA DifferencesOpposed ==
  ASSUME NEW n \in Nat, NEW ab, NEW ba, Opposed(ab, ba, n)
  PROVE  FirstDifference(ab, n) = -FirstDifference(ba, n)
<1>0. \A k \in 1..n : ab[k] \in Int /\ ba[k] = -ab[k]
  BY DEF Opposed
<1>1. \A k \in 1..n : ba[k] \in Int /\ (ab[k] = 0 <=> ba[k] = 0)
  BY <1>0
<1>2. CASE \A k \in 1..n : ab[k] = 0
  <2>1. FirstDifference(ab, n) = 0
    BY <1>0, <1>2, FirstDifferenceAt
  <2>2. FirstDifference(ba, n) = 0
    <3>1. \A k \in 1..n : ba[k] = 0
      BY <1>1, <1>2
    <3> QED
      BY <1>1, <3>1, FirstDifferenceAt
  <2> DEFINE x == FirstDifference(ab, n)
             y == FirstDifference(ba, n)
  <2>3. x = 0 /\ y = 0
    BY <2>1, <2>2
  <2> HIDE DEF x, y
  <2>4. \A i, j \in Int : i <= 0 /\ 0 <= i /\ j <= 0 /\ 0 <= j => i = -j
    OBVIOUS
  <2>5. x \in Int /\ y \in Int /\ x <= 0 /\ 0 <= x /\ y <= 0 /\ 0 <= y
    BY <2>3
  <2>6. x = -y
    BY <2>4, <2>5
  <2> QED
    BY <2>6 DEF x, y
<1>3. CASE ~ \A k \in 1..n : ab[k] = 0
  <2>1. PICK k \in 1..n : /\ FirstDifference(ab, n) = ab[k] /\ ab[k] # 0
                          /\ \A j \in 1..k - 1 : ab[j] = 0
    BY <1>0, <1>3, FirstDifferenceIs
  <2>2. \A j \in 1..k - 1 : j \in 1..n
    OBVIOUS
  <2>3. ba[k] # 0 /\ \A j \in 1..k - 1 : ba[j] = 0
    BY <1>1, <2>1, <2>2
  <2>4. FirstDifference(ba, n) = ba[k]
    BY <1>1, <2>3, FirstDifferenceAt
  <2> QED
    BY <1>0, <2>1, <2>4
<1> QED
  BY <1>2, <1>3

\* What agrees at each place agrees as a whole.
AllAgree(ab, bc, ac, n) ==
    \A k \in 1..n : ab[k] \in Int /\ bc[k] \in Int /\ ac[k] \in Int /\ Agree(ab[k], bc[k], ac[k])

LEMMA DifferencesAgree ==
  ASSUME NEW n \in Nat, NEW ab, NEW bc, NEW ac, AllAgree(ab, bc, ac, n)
  PROVE  Agree(FirstDifference(ab, n), FirstDifference(bc, n), FirstDifference(ac, n))
<1> DEFINE AB == FirstDifference(ab, n)
           BC == FirstDifference(bc, n)
           AC == FirstDifference(ac, n)
<1>0. \A k \in 1..n : ab[k] \in Int /\ bc[k] \in Int /\ ac[k] \in Int /\ Agree(ab[k], bc[k], ac[k])
  BY DEF AllAgree
<1>1. /\ \/ AB = 0 /\ \A k \in 1..n : ab[k] = 0
         \/ \E k \in 1..n : AB = ab[k] /\ ab[k] # 0 /\ \A j \in 1..k - 1 : ab[j] = 0
      /\ \/ BC = 0 /\ \A k \in 1..n : bc[k] = 0
         \/ \E k \in 1..n : BC = bc[k] /\ bc[k] # 0 /\ \A j \in 1..k - 1 : bc[j] = 0
  BY <1>0, FirstDifferenceIs
<1>2. /\ (\A k \in 1..n : ac[k] = 0) => AC = 0
      /\ \A k \in 1..n : ac[k] # 0 /\ (\A j \in 1..k - 1 : ac[j] = 0) => AC = ac[k]
  BY <1>0, FirstDifferenceAt
<1>3. \A k \in 1..n : \A j \in 1..k - 1 : j \in 1..n
  OBVIOUS
<1> HIDE DEF AB, BC, AC
<1>4. \A k \in 1..n : ab[k] = 0 /\ bc[k] = 0 => ac[k] = 0
  BY <1>0 DEF Agree
<1>5. CASE (\A k \in 1..n : ab[k] = 0) /\ (\A k \in 1..n : bc[k] = 0)
  <2>0. \A k \in 1..n : ac[k] = 0
    BY <1>4, <1>5
  <2>1. AC = 0 /\ AB = 0 /\ BC = 0
    BY <1>1, <1>2, <1>5, <2>0
  <2>2. Agree(AB, BC, AC)
    BY <2>1 DEF Agree
  <2> QED
    BY <2>2 DEF AB, BC, AC
<1>6. ASSUME NEW k \in 1..n, \A j \in 1..k - 1 : ab[j] = 0 /\ bc[j] = 0,
             (AB = ab[k] /\ bc[k] = 0 /\ ab[k] # 0) \/ (BC = bc[k] /\ ab[k] = 0 /\ bc[k] # 0)
               \/ (AB = ab[k] /\ BC = bc[k] /\ ab[k] # 0 /\ bc[k] # 0),
             AB <= 0, BC <= 0
      PROVE  AC < 0
  <2>1. \A j \in 1..k - 1 : ac[j] = 0
    BY <1>3, <1>4, <1>6
  <2>2. ac[k] < 0
    BY <1>0, <1>6 DEF Agree
  <2>3. AC = ac[k]
    BY <1>0, <1>2, <2>1, <2>2
  <2> QED
    BY <2>2, <2>3
<1>7. ASSUME AB <= 0, BC <= 0, ~((\A k \in 1..n : ab[k] = 0) /\ (\A k \in 1..n : bc[k] = 0))
      PROVE  AC < 0
  <2>1. CASE \A k \in 1..n : bc[k] = 0
    <3>1. PICK k \in 1..n : AB = ab[k] /\ ab[k] # 0 /\ \A j \in 1..k - 1 : ab[j] = 0
      BY <1>1, <1>7, <2>1
    <3>2. \A j \in 1..k - 1 : ab[j] = 0 /\ bc[j] = 0
      BY <1>3, <2>1, <3>1
    <3> QED
      BY <1>6, <1>7, <2>1, <3>1, <3>2
  <2>2. CASE \A k \in 1..n : ab[k] = 0
    <3>1. PICK k \in 1..n : BC = bc[k] /\ bc[k] # 0 /\ \A j \in 1..k - 1 : bc[j] = 0
      BY <1>1, <1>7, <2>2
    <3>2. \A j \in 1..k - 1 : ab[j] = 0 /\ bc[j] = 0
      BY <1>3, <2>2, <3>1
    <3> QED
      BY <1>6, <1>7, <2>2, <3>1, <3>2
  <2>3. CASE (~ \A k \in 1..n : ab[k] = 0) /\ (~ \A k \in 1..n : bc[k] = 0)
    <3>1. PICK k \in 1..n : AB = ab[k] /\ ab[k] # 0 /\ \A j \in 1..k - 1 : ab[j] = 0
      BY <1>1, <2>3
    <3>2. PICK m \in 1..n : BC = bc[m] /\ bc[m] # 0 /\ \A j \in 1..m - 1 : bc[j] = 0
      BY <1>1, <2>3
    <3>3. CASE k < m
      <4>1. k \in 1..m - 1 /\ \A j \in 1..k - 1 : j \in 1..m - 1
        BY <3>3
      <4>2. bc[k] = 0 /\ \A j \in 1..k - 1 : ab[j] = 0 /\ bc[j] = 0
        BY <3>1, <3>2, <4>1
      <4> QED
        BY <1>6, <1>7, <3>1, <4>2
    <3>4. CASE m < k
      <4>1. m \in 1..k - 1 /\ \A j \in 1..m - 1 : j \in 1..k - 1
        BY <3>4
      <4>2. ab[m] = 0 /\ \A j \in 1..m - 1 : ab[j] = 0 /\ bc[j] = 0
        BY <3>1, <3>2, <4>1
      <4> QED
        BY <1>6, <1>7, <3>2, <4>2
    <3>5. CASE k = m
      <4>1. \A j \in 1..k - 1 : ab[j] = 0 /\ bc[j] = 0
        BY <3>1, <3>2, <3>5
      <4> QED
        BY <1>6, <1>7, <3>1, <3>2, <3>5, <4>1
    <3> QED
      BY <3>3, <3>4, <3>5
  <2> QED
    BY <1>7, <2>1, <2>2, <2>3
<1>8. AB \in Int /\ BC \in Int /\ AC \in Int
  BY <1>0, FirstDifferenceAt DEF AB, BC, AC
<1>9. CASE ~((\A k \in 1..n : ab[k] = 0) /\ (\A k \in 1..n : bc[k] = 0))
  <2>1. AB <= 0 /\ BC <= 0 => AC < 0
    BY <1>7, <1>9, Zenon
  <2>2. AB # 0 \/ BC # 0
    BY <1>1, <1>9
  <2>3. Agree(AB, BC, AC)
    BY <1>8, <2>1, <2>2 DEF Agree
  <2> QED
    BY <2>3 DEF AB, BC, AC
<1> QED
  BY <1>5, <1>9

-----------------------------------------------------------------------------
(* Pieces of a version                                                     *)

\* The digits have an interval of the order for themselves, around which all other characters lie.
LEMMA OrderOfCharacters ==
  ASSUME NEW c \in Characters
  PROVE  /\ OrderChar(c) \in Int /\ OrderChar(c) # 0
         /\ c \in Digits <=> OrderChar(c) \in 1048..1051
<1>1. DOMAIN Ord = Characters /\ \A d \in Digits : Ord[d] = 48 + DigitValue[d] /\ DigitValue[d] \in 0..3
  BY DEF Ord, Characters, Letters, Digits, DigitValue
<1>2. Ord["~"] = 126 /\ Ord["+"] = 43 /\ Ord["."] = 46 /\ Ord["a"] = 97 /\ Ord["b"] = 98
  BY DEF Ord, Letters, Digits
<1>3. CASE c \in Digits
  <2>1. c # "~" /\ c \notin Letters
    BY <1>3 DEF Digits, Letters
  <2>2. OrderChar(c) = Ord[c] + 1000
    BY <1>3, <2>1 DEF OrderChar
  <2> QED
    BY <1>1, <1>3, <2>2
<1>4. CASE c \notin Digits
  BY <1>2, <1>4 DEF OrderChar, Characters, Letters
<1> QED
  BY <1>3, <1>4

\* One step of the recursion that defines NumberTo.
NumberStep(f, chunk, n) == IF n = 0 THEN 0 ELSE 10 * f[n - 1] + DigitValue[chunk[n]]

LEMMA NumberEquation ==
  ASSUME NEW chunk, Len(chunk) \in Nat
  PROVE  \A n \in 0..Len(chunk) : NumberTo(chunk)[n] = NumberStep(NumberTo(chunk), chunk, n)
<1> DEFINE Solves(f, m) == f = [n \in 0..m |-> NumberStep(f, chunk, n)]
           M == {m \in Nat : \E f : Solves(f, m)}
<1>1. 0 \in M
  <2> DEFINE f == [n \in 0..0 |-> 0]
  <2>1. Solves(f, 0)
    BY DEF NumberStep
  <2> HIDE DEF Solves, f
  <2> QED
    BY <2>1
<1>2. ASSUME NEW m \in Nat, m \in M PROVE m + 1 \in M
  <2>1. PICK f : Solves(f, m)
    BY <1>2
  <2> DEFINE g == [n \in 0..m + 1 |-> IF n = m + 1 THEN NumberStep(f, chunk, n) ELSE f[n]]
  <2>2. ASSUME NEW n \in 0..m + 1 PROVE g[n] = NumberStep(g, chunk, n)
    <3>1. g[n] = NumberStep(f, chunk, n)
      <4>1. n \in 0..m => f[n] = NumberStep(f, chunk, n)
        BY <2>1
      <4> QED
        BY <4>1
    <3>2. n # 0 => g[n - 1] = f[n - 1]
      OBVIOUS
    <3> HIDE DEF g
    <3> QED
      BY <3>1, <3>2 DEF NumberStep
  <2>3. Solves(g, m + 1)
    BY <2>2
  <2> HIDE DEF Solves, g
  <2> QED
    BY <2>3
<1>3. Len(chunk) \in M
  <2> HIDE DEF M
  <2>1. \A n \in Nat : n \in M
    BY <1>1, <1>2, SetInduction
  <2> QED
    BY <2>1
<1>4. Solves(NumberTo(chunk), Len(chunk))
  BY <1>3 DEF NumberTo, NumberStep
<1> QED
  BY <1>4

LEMMA NumberIsNatural ==
  ASSUME NEW chunk \in Seq(Characters), IsNumber(chunk)
  PROVE  NumberOf(chunk) \in Nat
<1> DEFINE V == NumberTo(chunk)
           I == {n \in 0..Len(chunk) : V[n] \in Nat}
<1>1. Len(chunk) \in Nat /\ DOMAIN chunk = 1..Len(chunk) /\ \A k \in 1..Len(chunk) : chunk[k] \in Digits
  BY DEF IsNumber
<1>2. \A n \in 0..Len(chunk) : V[n] = NumberStep(V, chunk, n)
  BY <1>1, NumberEquation
<1>3. \A d \in Digits : DigitValue[d] \in Nat
  BY DEF DigitValue, Digits
<1> HIDE DEF V
<1>4. 0 \in I
  BY <1>1, <1>2 DEF NumberStep
<1>5. ASSUME NEW n \in 0..Len(chunk) - 1, n \in I PROVE n + 1 \in I
  <2>1. n + 1 \in 0..Len(chunk) /\ n + 1 # 0 /\ (n + 1) - 1 = n /\ DigitValue[chunk[n + 1]] \in Nat
    BY <1>1, <1>3
  <2>2. V[n + 1] = 10 * V[n] + DigitValue[chunk[n + 1]]
    BY <1>2, <2>1 DEF NumberStep
  <2>3. V[n] \in Nat
    BY <1>5
  <2>4. V[n + 1] \in Nat
    BY <2>1, <2>2, <2>3
  <2> QED
    BY <2>1, <2>4
<1>6. Len(chunk) \in I
  <2> HIDE DEF I
  <2>1. \A n \in 0..Len(chunk) : n \in I
    BY <1>1, <1>4, <1>5, BoundedInduction
  <2> QED
    BY <1>1, <2>1
<1> QED
  BY <1>6 DEF NumberOf, V

LEMMA LongerIs ==
  ASSUME NEW T, NEW a \in Seq(T), NEW b \in Seq(T)
  PROVE  /\ Longer(a, b) \in Nat /\ Len(a) <= Longer(a, b) /\ Len(b) <= Longer(a, b)
         /\ Longer(a, b) = Longer(b, a) /\ (Longer(a, b) = Len(a) \/ Longer(a, b) = Len(b))
<1>1. Len(a) \in Nat /\ Len(b) \in Nat
  OBVIOUS
<1> QED
  BY <1>1 DEF Longer

\* The comparison of two chunks, character by character and with any number of places.
LEMMA WeightsCompared ==
  ASSUME NEW a \in Seq(Characters), NEW b \in Seq(Characters)
  PROVE  /\ \A k \in Nat : Weight(a, k) \in Int
         /\ CompareWeights(a, b) \in Int /\ CompareWeights(a, b) = -CompareWeights(b, a)
         /\ \A m \in Nat : Longer(a, b) <= m =>
              CompareWeights(a, b) = FirstDifference([k \in 1..m |-> Sign(Weight(a, k), Weight(b, k))], m)
         /\ (1 \in DOMAIN a \/ 1 \in DOMAIN b) /\ Weight(a, 1) # Weight(b, 1) =>
              CompareWeights(a, b) = Sign(Weight(a, 1), Weight(b, 1))
<1>1. /\ Len(a) \in Nat /\ Len(b) \in Nat /\ DOMAIN a = 1..Len(a) /\ DOMAIN b = 1..Len(b)
      /\ \A k \in DOMAIN a : a[k] \in Characters
      /\ \A k \in DOMAIN b : b[k] \in Characters
  OBVIOUS
<1>2. \A k \in Nat : Weight(a, k) \in Int /\ Weight(b, k) \in Int
  BY <1>1, OrderOfCharacters DEF Weight
<1>3. /\ Longer(a, b) \in Nat /\ Longer(b, a) = Longer(a, b)
      /\ Len(a) <= Longer(a, b) /\ Len(b) <= Longer(a, b)
  BY <1>1 DEF Longer
<1> DEFINE n == Longer(a, b)
           ab(m) == [k \in 1..m |-> Sign(Weight(a, k), Weight(b, k))]
           ba(m) == [k \in 1..m |-> Sign(Weight(b, k), Weight(a, k))]
<1>4. CompareWeights(a, b) = FirstDifference(ab(n), n) /\ CompareWeights(b, a) = FirstDifference(ba(n), n)
  BY <1>3 DEF CompareWeights
<1>5. /\ \A m \in Nat : \A k \in 1..m : ab(m)[k] = Sign(Weight(a, k), Weight(b, k))
      /\ \A m \in Nat : \A k \in 1..m : ba(m)[k] = Sign(Weight(b, k), Weight(a, k))
  OBVIOUS
<1> HIDE DEF ab, ba, n
<1>6. \A k \in Nat : /\ Sign(Weight(a, k), Weight(b, k)) \in Int
                     /\ Sign(Weight(b, k), Weight(a, k)) = -Sign(Weight(a, k), Weight(b, k))
  BY <1>2, SignsAgree
<1>7. \A m \in Nat : \A k \in 1..m : ab(m)[k] \in Int /\ ba(m)[k] \in Int /\ ba(m)[k] = -ab(m)[k]
  <2>1. \A m \in Nat : \A k \in 1..m : k \in Nat
    OBVIOUS
  <2> QED
    BY <1>5, <1>6, <2>1
<1>8. n \in Nat
  BY <1>3 DEF n
<1>9. CompareWeights(a, b) \in Int
  BY <1>4, <1>7, <1>8, FirstDifferenceAt
<1>10. CompareWeights(a, b) = -CompareWeights(b, a)
  <2>1. Opposed(ab(n), ba(n), n)
    BY <1>7, <1>8 DEF Opposed
  <2> QED
    BY <1>4, <1>8, <2>1, DifferencesOpposed
<1>11. ASSUME NEW m \in Nat, n <= m PROVE CompareWeights(a, b) = FirstDifference(ab(m), m)
  <2>1. \A k \in 1..n : k \in 1..m /\ ab(n)[k] \in Int /\ ab(m)[k] = ab(n)[k]
    BY <1>5, <1>7, <1>8, <1>11
  <2>2. ASSUME NEW k \in n + 1..m PROVE ab(m)[k] = 0
    <3>1. k \in 1..m /\ k \notin DOMAIN a /\ k \notin DOMAIN b
      BY <1>1, <1>3, <1>8 DEF n
    <3>2. Weight(a, k) = 0 /\ Weight(b, k) = 0
      BY <3>1 DEF Weight
    <3> QED
      BY <1>5, <3>1, <3>2 DEF Sign
  <2>3. Pads(ab(m), m, ab(n), n)
    BY <2>1, <2>2 DEF Pads
  <2> QED
    BY <1>4, <1>8, <1>11, <2>3, PaddedDifference
<1>12. ASSUME 1 \in DOMAIN a \/ 1 \in DOMAIN b, Weight(a, 1) # Weight(b, 1)
       PROVE  CompareWeights(a, b) = Sign(Weight(a, 1), Weight(b, 1))
  <2>1. 1 \in 1..n /\ \A j \in 1..1 - 1 : FALSE
    BY <1>1, <1>3, <1>12 DEF n
  <2>2. ab(n)[1] = Sign(Weight(a, 1), Weight(b, 1)) /\ ab(n)[1] # 0
    <3>1. Sign(Weight(a, 1), Weight(b, 1)) # 0
      BY <1>2, <1>12 DEF Sign
    <3> QED
      BY <1>5, <1>8, <2>1, <3>1
  <2>3. FirstDifference(ab(n), n) = ab(n)[1]
    BY <1>7, <1>8, <2>1, <2>2, FirstDifferenceAt
  <2> QED
    BY <1>4, <2>2, <2>3
<1> QED
  BY <1>2, <1>9, <1>10, <1>11, <1>12 DEF ab, n

LEMMA WeightsAgree ==
  ASSUME NEW a \in Seq(Characters), NEW b \in Seq(Characters), NEW c \in Seq(Characters)
  PROVE  Agree(CompareWeights(a, b), CompareWeights(b, c), CompareWeights(a, c))
<1> DEFINE m == Longer(a, b) + Longer(b, c)
           signs(x, y) == [k \in 1..m |-> Sign(Weight(x, k), Weight(y, k))]
<1>1. m \in Nat /\ Longer(a, b) <= m /\ Longer(b, c) <= m /\ Longer(a, c) <= m
  <2>1. /\ Longer(a, b) \in Nat /\ Len(a) <= Longer(a, b) /\ Len(b) <= Longer(a, b)
        /\ Longer(b, c) \in Nat /\ Len(b) <= Longer(b, c) /\ Len(c) <= Longer(b, c)
        /\ Longer(a, c) \in Nat /\ (Longer(a, c) = Len(a) \/ Longer(a, c) = Len(c))
    BY LongerIs
  <2> QED
    BY <2>1
<1> HIDE DEF m
<1>2. /\ CompareWeights(a, b) = FirstDifference(signs(a, b), m)
      /\ CompareWeights(b, c) = FirstDifference(signs(b, c), m)
      /\ CompareWeights(a, c) = FirstDifference(signs(a, c), m)
  BY <1>1, WeightsCompared
<1>3. \A k \in 1..m : Weight(a, k) \in Int /\ Weight(b, k) \in Int /\ Weight(c, k) \in Int
  <2>1. \A k \in 1..m : k \in Nat
    BY <1>1
  <2>2. \A k \in Nat : Weight(a, k) \in Int /\ Weight(b, k) \in Int /\ Weight(c, k) \in Int
    BY WeightsCompared
  <2> QED
    BY <2>1, <2>2
<1>4. \A x, y : \A k \in 1..m : signs(x, y)[k] = Sign(Weight(x, k), Weight(y, k))
  OBVIOUS
<1> HIDE DEF signs
<1>5. AllAgree(signs(a, b), signs(b, c), signs(a, c), m)
  <2>1. \A x, y, z \in Int : /\ Sign(x, y) \in Int /\ Sign(y, z) \in Int /\ Sign(x, z) \in Int
                            /\ Agree(Sign(x, y), Sign(y, z), Sign(x, z))
    BY SignsAgree
  <2>2. ASSUME NEW k \in 1..m
        PROVE  /\ signs(a, b)[k] \in Int /\ signs(b, c)[k] \in Int /\ signs(a, c)[k] \in Int
               /\ Agree(signs(a, b)[k], signs(b, c)[k], signs(a, c)[k])
    <3>1. Weight(a, k) \in Int /\ Weight(b, k) \in Int /\ Weight(c, k) \in Int
      BY <1>3
    <3>2. /\ signs(a, b)[k] = Sign(Weight(a, k), Weight(b, k))
          /\ signs(b, c)[k] = Sign(Weight(b, k), Weight(c, k))
          /\ signs(a, c)[k] = Sign(Weight(a, k), Weight(c, k))
      BY <1>4
    <3> QED
      BY <2>1, <3>1, <3>2
  <2> QED
    BY <2>2 DEF AllAgree
<1> QED
  BY <1>1, <1>2, <1>5, DifferencesAgree

\* Against a piece that is none, a number is compared by its first digit.
LEMMA FirstWeight ==
  ASSUME NEW a \in Piece
  PROVE  /\ a \in Seq(Characters)
         /\ IsNumber(a) => 1 \in DOMAIN a
         /\ IsNumber(a) <=> Weight(a, 1) \in 1048..1051
         /\ Weight(a, 1) \in Int
<1>1. a \in Seq(Characters) /\ (IsNumber(a) \/ NoDigit(a))
  BY DEF Piece
<1>2. Len(a) \in Nat /\ DOMAIN a = 1..Len(a) /\ \A k \in DOMAIN a : a[k] \in Characters
  BY <1>1
<1>3. IsNumber(a) => 1 \in DOMAIN a
  <2>1. a # <<>> => Len(a) # 0
    BY <1>1, EmptySeq
  <2> QED
    BY <1>2, <2>1 DEF IsNumber
<1>4. CASE IsNumber(a)
  BY <1>1, <1>2, <1>3, <1>4, OrderOfCharacters DEF Weight, IsNumber
<1>5. CASE ~IsNumber(a)
  BY <1>1, <1>2, <1>5, OrderOfCharacters DEF Weight, NoDigit
<1> QED
  BY <1>4, <1>5

LEMMA ChunksCompared ==
  ASSUME NEW a \in Piece, NEW b \in Piece
  PROVE  /\ CompareChunks(a, b) \in Int
         /\ CompareChunks(a, b) = -CompareChunks(b, a)
         /\ IsNumber(a) /\ IsNumber(b) => CompareChunks(a, b) = Sign(NumberOf(a), NumberOf(b))
         /\ ~(IsNumber(a) /\ IsNumber(b)) => CompareChunks(a, b) = CompareWeights(a, b)
         /\ IsNumber(a) # IsNumber(b) => CompareChunks(a, b) = Sign(Weight(a, 1), Weight(b, 1))
<1>1. a \in Seq(Characters) /\ b \in Seq(Characters)
  BY FirstWeight
<1>2. CompareWeights(a, b) \in Int /\ CompareWeights(a, b) = -CompareWeights(b, a)
  BY <1>1, WeightsCompared
<1>3. CASE IsNumber(a) /\ IsNumber(b)
  <2>1. NumberOf(a) \in Int /\ NumberOf(b) \in Int
    BY <1>1, <1>3, NumberIsNatural
  <2> QED
    BY <1>3, <2>1, SignsAgree DEF CompareChunks
<1>4. CASE ~(IsNumber(a) /\ IsNumber(b))
  <2>1. CompareChunks(a, b) = CompareWeights(a, b) /\ CompareChunks(b, a) = CompareWeights(b, a)
    BY <1>4 DEF CompareChunks
  <2>2. IsNumber(a) # IsNumber(b) => CompareWeights(a, b) = Sign(Weight(a, 1), Weight(b, 1))
    <3>1. ASSUME IsNumber(a) # IsNumber(b)
          PROVE  (1 \in DOMAIN a \/ 1 \in DOMAIN b) /\ Weight(a, 1) # Weight(b, 1)
      <4>1. CASE IsNumber(a) /\ ~IsNumber(b)
        BY <4>1, FirstWeight
      <4>2. CASE IsNumber(b) /\ ~IsNumber(a)
        BY <4>2, FirstWeight
      <4> QED
        BY <3>1, <4>1, <4>2, Zenon DEF IsNumber
    <3> QED
      BY <1>1, <3>1, WeightsCompared
  <2> QED
    BY <1>2, <1>4, <2>1, <2>2
<1> QED
  BY <1>3, <1>4

LEMMA ChunksAgree ==
  ASSUME NEW a \in Piece, NEW b \in Piece, NEW c \in Piece
  PROVE  Agree(CompareChunks(a, b), CompareChunks(b, c), CompareChunks(a, c))
<1> DEFINE w(x) == Weight(x, 1)
<1>1. /\ IsNumber(a) <=> w(a) \in 1048..1051
      /\ IsNumber(b) <=> w(b) \in 1048..1051
      /\ IsNumber(c) <=> w(c) \in 1048..1051
      /\ w(a) \in Int /\ w(b) \in Int /\ w(c) \in Int
      /\ a \in Seq(Characters) /\ b \in Seq(Characters) /\ c \in Seq(Characters)
  BY FirstWeight
<1> HIDE DEF w
<1>2. /\ CompareChunks(a, b) \in Int /\ CompareChunks(b, c) \in Int /\ CompareChunks(a, c) \in Int
      /\ (~IsNumber(a) /\ IsNumber(b)) \/ (IsNumber(a) /\ ~IsNumber(b)) => CompareChunks(a, b) = Sign(w(a), w(b))
      /\ (~IsNumber(b) /\ IsNumber(c)) \/ (IsNumber(b) /\ ~IsNumber(c)) => CompareChunks(b, c) = Sign(w(b), w(c))
      /\ (~IsNumber(a) /\ IsNumber(c)) \/ (IsNumber(a) /\ ~IsNumber(c)) => CompareChunks(a, c) = Sign(w(a), w(c))
  BY ChunksCompared DEF w
<1>3. CASE IsNumber(a) /\ IsNumber(b) /\ IsNumber(c)
  <2>1. NumberOf(a) \in Int /\ NumberOf(b) \in Int /\ NumberOf(c) \in Int
    BY <1>1, <1>3, NumberIsNatural
  <2>2. /\ CompareChunks(a, b) = Sign(NumberOf(a), NumberOf(b))
        /\ CompareChunks(b, c) = Sign(NumberOf(b), NumberOf(c))
        /\ CompareChunks(a, c) = Sign(NumberOf(a), NumberOf(c))
    BY <1>3, ChunksCompared
  <2>3. Agree(Sign(NumberOf(a), NumberOf(b)), Sign(NumberOf(b), NumberOf(c)), Sign(NumberOf(a), NumberOf(c)))
    BY <2>1, SignsAgree
  <2> QED
    BY <2>2, <2>3
<1>4. CASE IsNumber(a) /\ ~IsNumber(b) /\ IsNumber(c)
  <2>1. CompareChunks(a, b) = Sign(w(a), w(b)) /\ CompareChunks(b, c) = Sign(w(b), w(c))
    <3>1. CompareChunks(a, b) = Sign(w(a), w(b))
      BY <1>2, <1>4, Zenon
    <3>2. CompareChunks(b, c) = Sign(w(b), w(c))
      BY <1>2, <1>4, Zenon
    <3> QED
      BY <3>1, <3>2
  <2>2. ~(CompareChunks(a, b) <= 0 /\ CompareChunks(b, c) <= 0)
    BY <1>1, <1>4, <2>1 DEF Sign
  <2> QED
    BY <1>2, <2>2 DEF Agree
<1>5. CASE IsNumber(a) /\ IsNumber(b) /\ ~IsNumber(c)
  <2>1. CompareChunks(a, c) = Sign(w(a), w(c)) /\ CompareChunks(b, c) = Sign(w(b), w(c))
    BY <1>2, <1>5
  <2>2. CompareChunks(b, c) <= 0 => CompareChunks(b, c) < 0 /\ CompareChunks(a, c) < 0
    BY <1>1, <1>5, <2>1 DEF Sign
  <2>3. \A i, j, k \in Int : (j <= 0 => j < 0 /\ k < 0) => Agree(i, j, k)
    BY DEF Agree
  <2> QED
    BY <1>2, <2>2, <2>3
<1>6. CASE ~IsNumber(a) /\ IsNumber(b) /\ IsNumber(c)
  <2>1. CompareChunks(a, b) = Sign(w(a), w(b)) /\ CompareChunks(a, c) = Sign(w(a), w(c))
    <3>1. CompareChunks(a, b) = Sign(w(a), w(b))
      BY <1>2, <1>6, Zenon
    <3>2. CompareChunks(a, c) = Sign(w(a), w(c))
      BY <1>2, <1>6, Zenon
    <3> QED
      BY <3>1, <3>2
  <2>2. CompareChunks(a, b) <= 0 => CompareChunks(a, b) < 0 /\ CompareChunks(a, c) < 0
    BY <1>1, <1>6, <2>1 DEF Sign
  <2>3. \A i, j, k \in Int : (i <= 0 => i < 0 /\ k < 0) => Agree(i, j, k)
    BY DEF Agree
  <2> QED
    BY <1>2, <2>2, <2>3
<1>7. CASE /\ ~(IsNumber(a) /\ IsNumber(b)) /\ ~(IsNumber(b) /\ IsNumber(c)) /\ ~(IsNumber(a) /\ IsNumber(c))
  <2>1. /\ CompareChunks(a, b) = CompareWeights(a, b) /\ CompareChunks(b, c) = CompareWeights(b, c)
        /\ CompareChunks(a, c) = CompareWeights(a, c)
    BY <1>7, ChunksCompared
  <2> QED
    BY <1>1, <2>1, WeightsAgree
<1> QED
  BY <1>3, <1>4, <1>5, <1>6, <1>7, Zenon

-----------------------------------------------------------------------------
(* Parts of a version                                                      *)

\* The chunks of a part are numbers or have no digit, in turns, and the first and the last of them
\* are what the part begins and ends with.
InTurns(part, chunks) ==
    /\ \A n \in 1..Len(chunks) : chunks[n] # <<>>
    /\ \A n \in 1..Len(chunks) - 1 : IsNumber(chunks[n + 1]) <=> ~IsNumber(chunks[n])
    /\ part # <<>> => /\ Len(chunks) >= 1
                      /\ IsNumber(chunks[1]) <=> part[1] \in Digits
                      /\ IsNumber(chunks[Len(chunks)]) <=> part[Len(part)] \in Digits

LEMMA ChunksInTurns ==
  ASSUME NEW part \in Seq(Characters)
  PROVE  Chunks(part) \in Seq(Piece) /\ InTurns(part, Chunks(part))
<1> DEFINE Turns == {k \in DOMAIN part : k = 1 \/ (part[k] \in Digits) # (part[k - 1] \in Digits)}
           all == [k \in DOMAIN part |-> k]
           starts == Among(all, Turns)
           size == Len(starts)
           end(n) == IF n = size THEN Len(part) ELSE starts[n + 1] - 1
<1>1. Len(part) \in Nat /\ DOMAIN part = 1..Len(part) /\ \A k \in 1..Len(part) : part[k] \in Characters
  OBVIOUS
<1>2. /\ all \in Seq(1..Len(part)) /\ Len(all) = Len(part)
      /\ \A k \in 1..Len(part) : all[k] = k
      /\ Members(all) = 1..Len(part)
  <2>1. all \in [1..Len(part) -> 1..Len(part)]
    BY <1>1
  <2>2. all \in Seq(1..Len(part)) /\ Len(all) = Len(part) /\ \A k \in 1..Len(part) : all[k] = k
    BY <1>1, <2>1
  <2>3. DOMAIN all = 1..Len(part)
    BY <1>1
  <2> HIDE DEF all
  <2> QED
    BY <2>2, <2>3 DEF Members
<1>3. Chunks(part) = [n \in DOMAIN starts |-> SubSeq(part, starts[n], end(n))]
  BY DEF Chunks
<1>4. \A k \in 1..Len(part) : k \notin Turns => k # 1 /\ ((part[k] \in Digits) <=> (part[k - 1] \in Digits))
  BY <1>1
<1>5. /\ Turns \subseteq 1..Len(part) /\ (1 <= Len(part) => 1 \in Turns)
      /\ \A k \in Turns : k # 1 => ((part[k] \in Digits) <=> part[k - 1] \notin Digits)
  BY <1>1
<1> HIDE DEF Turns, all
<1>0. /\ Among(all, Turns) \in Seq(1..Len(part)) /\ Members(Among(all, Turns)) = Members(all) \cap Turns
      /\ \E place \in [1..Len(Among(all, Turns)) -> 1..Len(all)] :
           /\ \A j \in 1..Len(Among(all, Turns)) : Among(all, Turns)[j] = all[place[j]]
           /\ \A i, j \in 1..Len(Among(all, Turns)) : i < j => place[i] < place[j]
  BY <1>2, AmongProperties
<1>6. /\ starts \in Seq(1..Len(part)) /\ Members(starts) = (1..Len(part)) \cap Turns
      /\ \E place \in [1..size -> 1..Len(part)] :
           /\ \A j \in 1..size : starts[j] = all[place[j]]
           /\ \A i, j \in 1..size : i < j => place[i] < place[j]
  BY <1>0, <1>2
<1> HIDE DEF starts
<1>7. size \in Nat /\ DOMAIN starts = 1..size /\ \A n \in 1..size : starts[n] \in 1..Len(part)
  BY <1>6
<1>8. \A i, j \in 1..size : i < j => starts[i] < starts[j]
  BY <1>2, <1>6
<1>9. \A k \in Turns : \E n \in 1..size : starts[n] = k
  <2>1. Turns \subseteq Members(starts)
    BY <1>5, <1>6
  <2> QED
    BY <1>7, <2>1 DEF Members
<1> HIDE DEF size
<1>10. ASSUME NEW n \in 1..size 
       PROVE  /\ SubSeq(part, starts[n], end(n)) \in Piece /\ SubSeq(part, starts[n], end(n)) # <<>>
              /\ IsNumber(SubSeq(part, starts[n], end(n))) <=> part[starts[n]] \in Digits
              /\ (part[end(n)] \in Digits) <=> (part[starts[n]] \in Digits)
  <2> DEFINE s == starts[n]
             e == end(n)
             chunk == SubSeq(part, s, e)
             same == {i \in 0..e - s : (part[s + i] \in Digits) <=> (part[s] \in Digits)}
  <2>1. s \in 1..Len(part) /\ e \in s..Len(part)
    <3>1. CASE n = size
      BY <1>1, <1>7, <3>1
    <3>2. CASE n # size
      <4>1. n + 1 \in 1..size /\ n < n + 1
        BY <1>7, <1>10, <3>2
      <4>2. starts[n + 1] \in 1..Len(part) /\ s < starts[n + 1]
        BY <1>7, <1>8, <4>1
      <4> QED
        BY <1>1, <1>7, <3>2, <4>2
    <3> QED
      BY <3>1, <3>2
  <2>2. ASSUME NEW k \in s + 1..e PROVE k \notin Turns
    <3> SUFFICES ASSUME k \in Turns PROVE FALSE
      OBVIOUS
    <3>1. PICK j \in 1..size : starts[j] = k
      BY <1>9
    <3>2. s < k /\ k <= e
      BY <1>1, <2>1, <2>2
    <3>3. n < j
      <4>1. CASE j = n
        BY <1>1, <2>1, <3>1, <3>2, <4>1
      <4>2. CASE j < n
        <5>1. starts[j] < s
          BY <1>8, <4>2
        <5> QED
          BY <1>1, <2>1, <3>1, <3>2, <5>1
      <4> QED
        BY <1>7, <4>1, <4>2
    <3>4. n # size /\ n + 1 \in 1..size /\ e = starts[n + 1] - 1
      BY <1>7, <3>3
    <3>5. starts[n + 1] <= starts[j]
      <4>1. CASE j = n + 1
        BY <1>7, <4>1
      <4>2. CASE n + 1 < j
        <5>1. starts[n + 1] < starts[j]
          BY <1>8, <3>4, <4>2
        <5> QED
          BY <1>7, <3>4, <5>1
      <4> QED
        BY <1>7, <3>3, <4>1, <4>2
    <3> QED
      BY <1>7, <3>1, <3>2, <3>4, <3>5
  <2> HIDE DEF s, e
  <2>3. \A i \in 0..e - s : i \in same
    <3>1. e - s \in Nat
      BY <1>1, <2>1
    <3>2. 0 \in same
      <4>1. s + 0 = s
        BY <1>1, <2>1
      <4> QED
        BY <3>1, <4>1
    <3>3. ASSUME NEW i \in 0..(e - s) - 1, i \in same PROVE i + 1 \in same
      <4>1. /\ s + (i + 1) \in s + 1..e /\ s + (i + 1) \in 1..Len(part)
            /\ (s + (i + 1)) - 1 = s + i /\ i + 1 \in 0..e - s
        BY <1>1, <2>1
      <4>2. (part[s + (i + 1)] \in Digits) <=> (part[s + i] \in Digits)
        BY <1>4, <2>2, <4>1
      <4>3. (part[s + i] \in Digits) <=> (part[s] \in Digits)
        BY <3>3
      <4> QED
        BY <4>1, <4>2, <4>3
    <3> HIDE DEF same
    <3> QED
      BY <3>1, <3>2, <3>3, BoundedInduction
  <2>4. /\ chunk \in Seq(Characters) /\ Len(chunk) = (e - s) + 1 /\ DOMAIN chunk = 1..(e - s) + 1
        /\ \A i \in 1..(e - s) + 1 : chunk[i] = part[s + (i - 1)]
    <3>1. s \in Nat /\ e \in Nat /\ s <= e /\ e - s \in Nat
      BY <1>1, <2>1
    <3>2. \A i \in s..e : part[i] \in Characters
      BY <1>1, <2>1
    <3>3. /\ Len(chunk) = (e - s) + 1 /\ chunk \in Seq(Characters)
          /\ \A i \in 1..(e - s) + 1 : chunk[i] = part[s + i - 1]
      BY <3>1, <3>2, SubSeqProperties
    <3> QED
      BY <3>1, <3>3
  <2>5. chunk # <<>> /\ \A i \in DOMAIN chunk : (chunk[i] \in Digits) <=> (part[s] \in Digits)
    <3>1. \A i \in 1..(e - s) + 1 : i - 1 \in 0..e - s
      BY <1>1, <2>1
    <3>2. Len(chunk) # 0
      BY <1>1, <2>1, <2>4
    <3> HIDE DEF chunk
    <3> QED
      BY <2>3, <2>4, <3>1, <3>2
  <2>6. chunk \in Piece /\ (IsNumber(chunk) <=> part[s] \in Digits)
    <3> HIDE DEF chunk
    <3>0. 1 \in DOMAIN chunk
      BY <1>1, <2>1, <2>4
    <3>1. CASE part[s] \in Digits
      BY <2>4, <2>5, <3>1 DEF Piece, IsNumber
    <3>2. CASE part[s] \notin Digits
      BY <2>4, <2>5, <3>0, <3>2 DEF Piece, NoDigit, IsNumber
    <3> QED
      BY <3>1, <3>2
  <2>7. (part[e] \in Digits) <=> (part[s] \in Digits)
    <3>1. e - s \in 0..e - s /\ s + (e - s) = e
      BY <1>1, <2>1
    <3> QED
      BY <2>3, <3>1
  <2> QED
    BY <2>5, <2>6, <2>7 DEF chunk, s, e
<1>11. \A n \in 1..size : n # size => end(n) = starts[n + 1] - 1
  OBVIOUS
<1>12. end(size) = Len(part)
  OBVIOUS
<1> HIDE DEF end
<1> DEFINE chunks == [n \in 1..size |-> SubSeq(part, starts[n], end(n))]
<1>13. /\ chunks \in Seq(Piece) /\ Len(chunks) = size
       /\ \A n \in 1..size : /\ chunks[n] # <<>> /\ (IsNumber(chunks[n]) <=> part[starts[n]] \in Digits)
                             /\ (part[end(n)] \in Digits) <=> (part[starts[n]] \in Digits)
  <2>1. \A n \in 1..size : chunks[n] = SubSeq(part, starts[n], end(n))
    OBVIOUS
  <2>2. chunks \in [1..size -> Piece]
    BY <1>10
  <2>3. chunks \in Seq(Piece) /\ Len(chunks) = size
    BY <1>7, <2>2
  <2> HIDE DEF chunks
  <2> QED
    BY <1>10, <2>1, <2>3
<1>14. Chunks(part) = chunks
  BY <1>3, <1>7
<1> HIDE DEF chunks
<1>15. \A n \in 1..size - 1 : IsNumber(chunks[n + 1]) <=> ~IsNumber(chunks[n])
  <2> SUFFICES ASSUME NEW n \in 1..size - 1 PROVE IsNumber(chunks[n + 1]) <=> ~IsNumber(chunks[n])
    OBVIOUS
  <2>1. n \in 1..size /\ n + 1 \in 1..size /\ n < n + 1 /\ n # size
    BY <1>7
  <2>2. starts[n + 1] \in Turns /\ starts[n + 1] # 1
    <3>1. starts[n + 1] \in Members(starts)
      BY <1>7, <2>1 DEF Members
    <3>2. starts[n] < starts[n + 1]
      BY <1>8, <2>1
    <3> QED
      BY <1>1, <1>6, <1>7, <2>1, <3>1, <3>2
  <2>3. (part[starts[n + 1]] \in Digits) <=> part[end(n)] \notin Digits
    BY <1>5, <1>11, <2>1, <2>2
  <2> QED
    BY <1>13, <2>1, <2>3
<1>16. ASSUME part # <<>>
       PROVE  /\ size >= 1
              /\ IsNumber(chunks[1]) <=> part[1] \in Digits
              /\ IsNumber(chunks[size]) <=> part[Len(part)] \in Digits
  <2>1. 1 <= Len(part)
    BY <1>1, <1>16, EmptySeq
  <2>2. PICK n \in 1..size : starts[n] = 1
    BY <1>5, <1>9, <2>1
  <2>3. 1 \in 1..size /\ size \in 1..size /\ size >= 1
    BY <1>7
  <2>4. n = 1
    <3>1. 1 < n => starts[1] < 1
      BY <1>8, <2>2, <2>3
    <3> QED
      BY <1>1, <1>7, <2>3, <3>1
  <2> QED
    BY <1>12, <1>13, <2>2, <2>3, <2>4
<1> QED
  BY <1>13, <1>14, <1>15, <1>16 DEF InTurns

LEMMA ChunksArePieces ==
  ASSUME NEW part \in Seq(Characters)
  PROVE  Chunks(part) \in Seq(Piece)
BY ChunksInTurns

LEMMA NoneIsPiece == <<>> \in Piece /\ CompareChunks(<<>>, <<>>) = 0
<1>1. <<>> \in Seq(Characters) /\ DOMAIN <<>> = {} /\ Len(<<>>) = 0
  BY EmptySeq
<1>2. Longer(<<>>, <<>>) = 0 /\ ~IsNumber(<<>>) /\ <<>> \in Piece
  BY <1>1 DEF Longer, IsNumber, NoDigit, Piece
<1> DEFINE compare == [k \in 1..0 |-> Sign(Weight(<<>>, k), Weight(<<>>, k))]
<1>3. CompareChunks(<<>>, <<>>) = FirstDifference(compare, 0)
  BY <1>2 DEF CompareChunks, CompareWeights
<1>4. \A k \in 1..0 : FALSE
  OBVIOUS
<1> HIDE DEF compare
<1>5. FirstDifference(compare, 0) = 0
  BY <1>4, FirstDifferenceAt
<1> QED
  BY <1>2, <1>3, <1>5

\* The comparison of two parts, with any number of places.
PartsCompared(ca, cb) == [k \in Nat |-> CompareChunks(At(ca, k), At(cb, k))]

LEMMA PlacesCompared ==
  ASSUME NEW ca \in Seq(Piece), NEW cb \in Seq(Piece)
  PROVE  /\ \A k \in Nat : /\ At(ca, k) \in Piece
                           /\ PartsCompared(ca, cb)[k] = CompareChunks(At(ca, k), At(cb, k))
                           /\ PartsCompared(ca, cb)[k] \in Int
                           /\ PartsCompared(cb, ca)[k] = -PartsCompared(ca, cb)[k]
         /\ \A k \in Nat : k > Longer(ca, cb) => PartsCompared(ca, cb)[k] = 0
<1>1. /\ Len(ca) \in Nat /\ Len(cb) \in Nat /\ DOMAIN ca = 1..Len(ca) /\ DOMAIN cb = 1..Len(cb)
      /\ \A k \in DOMAIN ca : ca[k] \in Piece
      /\ \A k \in DOMAIN cb : cb[k] \in Piece
  OBVIOUS
<1>2. \A k \in Nat : At(ca, k) \in Piece /\ At(cb, k) \in Piece
  BY <1>1, NoneIsPiece DEF At
<1>3. ASSUME NEW k \in Nat
      PROVE  /\ PartsCompared(ca, cb)[k] = CompareChunks(At(ca, k), At(cb, k))
             /\ PartsCompared(cb, ca)[k] = CompareChunks(At(cb, k), At(ca, k))
  BY DEF PartsCompared
<1>4. ASSUME NEW k \in Nat
      PROVE  PartsCompared(ca, cb)[k] \in Int /\ PartsCompared(cb, ca)[k] = -PartsCompared(ca, cb)[k]
  <2>1. /\ CompareChunks(At(ca, k), At(cb, k)) \in Int
        /\ CompareChunks(At(cb, k), At(ca, k)) = -CompareChunks(At(ca, k), At(cb, k))
    BY <1>2, ChunksCompared
  <2> QED
    BY <1>3, <2>1
<1>5. ASSUME NEW k \in Nat, k > Longer(ca, cb) PROVE PartsCompared(ca, cb)[k] = 0
  <2>1. k \notin DOMAIN ca /\ k \notin DOMAIN cb
    BY <1>1, <1>5, LongerIs
  <2>2. At(ca, k) = <<>> /\ At(cb, k) = <<>>
    BY <2>1 DEF At
  <2> QED
    BY <1>3, <2>2, NoneIsPiece
<1> QED
  BY <1>2, <1>3, <1>4, <1>5

LEMMA PartCompared ==
  ASSUME NEW a \in Seq(Characters), NEW b \in Seq(Characters)
  PROVE  /\ ComparePart(a, b) \in Int /\ ComparePart(a, b) = -ComparePart(b, a)
         /\ \A m \in Nat : Longer(Chunks(a), Chunks(b)) <= m =>
              ComparePart(a, b) = FirstDifference(PartsCompared(Chunks(a), Chunks(b)), m)
<1> DEFINE n == Longer(Chunks(a), Chunks(b))
           ab == [k \in 1..n |-> CompareChunks(At(Chunks(a), k), At(Chunks(b), k))]
           ba == [k \in 1..n |-> CompareChunks(At(Chunks(b), k), At(Chunks(a), k))]
           all == PartsCompared(Chunks(a), Chunks(b))
           back == PartsCompared(Chunks(b), Chunks(a))
<1>1. Chunks(a) \in Seq(Piece) /\ Chunks(b) \in Seq(Piece)
  BY ChunksArePieces
<1>2. n \in Nat /\ Longer(Chunks(b), Chunks(a)) = n
  BY <1>1, LongerIs
<1>3. ComparePart(a, b) = FirstDifference(ab, n) /\ ComparePart(b, a) = FirstDifference(ba, n)
  BY <1>2 DEF ComparePart
<1>4. /\ \A k \in Nat : all[k] \in Int /\ back[k] = -all[k]
      /\ \A k \in Nat : k > n => all[k] = 0
      /\ \A k \in Nat : all[k] = CompareChunks(At(Chunks(a), k), At(Chunks(b), k))
      /\ \A k \in Nat : back[k] = CompareChunks(At(Chunks(b), k), At(Chunks(a), k))
  BY <1>1, PlacesCompared
<1>5. \A k \in 1..n : /\ ab[k] = CompareChunks(At(Chunks(a), k), At(Chunks(b), k))
                      /\ ba[k] = CompareChunks(At(Chunks(b), k), At(Chunks(a), k))
  OBVIOUS
<1> HIDE DEF n, ab, ba, all, back
<1>6. \A k \in 1..n : k \in Nat
  BY <1>2
<1>7. \A k \in 1..n : ab[k] \in Int /\ all[k] = ab[k] /\ ba[k] = -ab[k]
  BY <1>4, <1>5, <1>6
<1>8. ComparePart(a, b) \in Int
  BY <1>2, <1>3, <1>7, FirstDifferenceAt
<1>9. ComparePart(a, b) = -ComparePart(b, a)
  <2>1. Opposed(ab, ba, n)
    BY <1>7 DEF Opposed
  <2> QED
    BY <1>2, <1>3, <2>1, DifferencesOpposed
<1>10. ASSUME NEW m \in Nat, n <= m PROVE ComparePart(a, b) = FirstDifference(all, m)
  <2>1. \A k \in n + 1..m : k \in Nat /\ k > n
    BY <1>2
  <2>2. Pads(all, m, ab, n)
    BY <1>4, <1>7, <2>1 DEF Pads
  <2> QED
    BY <1>2, <1>3, <1>10, <2>2, PaddedDifference
<1> QED
  BY <1>8, <1>9, <1>10 DEF n, all

LEMMA PartsAgree ==
  ASSUME NEW a \in Seq(Characters), NEW b \in Seq(Characters), NEW c \in Seq(Characters)
  PROVE  Agree(ComparePart(a, b), ComparePart(b, c), ComparePart(a, c))
<1> DEFINE A == Chunks(a)
           B == Chunks(b)
           C == Chunks(c)
           m == Longer(A, B) + Longer(B, C)
<1>1. A \in Seq(Piece) /\ B \in Seq(Piece) /\ C \in Seq(Piece)
  BY ChunksArePieces
<1>2. m \in Nat /\ Longer(A, B) <= m /\ Longer(B, C) <= m /\ Longer(A, C) <= m
  <2> HIDE DEF A, B, C
  <2>1. /\ Longer(A, B) \in Nat /\ Len(A) <= Longer(A, B) /\ Len(B) <= Longer(A, B)
        /\ Longer(B, C) \in Nat /\ Len(B) <= Longer(B, C) /\ Len(C) <= Longer(B, C)
        /\ Longer(A, C) \in Nat /\ (Longer(A, C) = Len(A) \/ Longer(A, C) = Len(C))
    BY <1>1, LongerIs
  <2> QED
    BY <2>1
<1> HIDE DEF m
<1>3. /\ ComparePart(a, b) = FirstDifference(PartsCompared(A, B), m)
      /\ ComparePart(b, c) = FirstDifference(PartsCompared(B, C), m)
      /\ ComparePart(a, c) = FirstDifference(PartsCompared(A, C), m)
  BY <1>2, PartCompared
<1> HIDE DEF A, B, C
<1>4. ASSUME NEW k \in Nat
      PROVE  /\ PartsCompared(A, B)[k] \in Int /\ PartsCompared(B, C)[k] \in Int /\ PartsCompared(A, C)[k] \in Int
             /\ Agree(PartsCompared(A, B)[k], PartsCompared(B, C)[k], PartsCompared(A, C)[k])
  <2>1. /\ At(A, k) \in Piece /\ At(B, k) \in Piece /\ At(C, k) \in Piece
        /\ PartsCompared(A, B)[k] = CompareChunks(At(A, k), At(B, k)) /\ PartsCompared(A, B)[k] \in Int
        /\ PartsCompared(B, C)[k] = CompareChunks(At(B, k), At(C, k)) /\ PartsCompared(B, C)[k] \in Int
        /\ PartsCompared(A, C)[k] = CompareChunks(At(A, k), At(C, k)) /\ PartsCompared(A, C)[k] \in Int
    BY <1>1, PlacesCompared
  <2>2. Agree(CompareChunks(At(A, k), At(B, k)), CompareChunks(At(B, k), At(C, k)), CompareChunks(At(A, k), At(C, k)))
    BY <2>1, ChunksAgree
  <2> QED
    BY <2>1, <2>2
<1>5. AllAgree(PartsCompared(A, B), PartsCompared(B, C), PartsCompared(A, C), m)
  <2>1. \A k \in 1..m : k \in Nat
    BY <1>2
  <2> QED
    BY <1>4, <2>1 DEF AllAgree
<1> QED
  BY <1>2, <1>3, <1>5, DifferencesAgree

LEMMA OrderOfParts ==
  ASSUME NEW a \in Seq(Characters), NEW b \in Seq(Characters)
  PROVE  /\ ComparePart(a, a) = 0
         /\ CompareVersions([epoch |-> 0, upstream |-> a, revision |-> <<>>],
                            [epoch |-> 0, upstream |-> b, revision |-> <<>>]) = ComparePart(a, b)
<1>1. ASSUME NEW p \in Seq(Characters) PROVE ComparePart(p, p) = 0
  <2>1. ComparePart(p, p) \in Int /\ ComparePart(p, p) = -ComparePart(p, p)
    BY PartCompared
  <2>2. \A i \in Int : i = -i => i = 0
    OBVIOUS
  <2> QED
    BY <2>1, <2>2
<1> DEFINE three == <<Sign(0, 0), ComparePart(a, b), ComparePart(<<>>, <<>>)>>
<1>2. Sign(0, 0) = 0 /\ ComparePart(<<>>, <<>>) = 0 /\ ComparePart(a, b) \in Int
  <2>1. Sign(0, 0) = 0
    BY DEF Sign
  <2>2. <<>> \in Seq(Characters)
    OBVIOUS
  <2> QED
    BY <1>1, <2>1, <2>2, PartCompared
<1>3. three[1] = 0 /\ three[2] = ComparePart(a, b) /\ three[3] = 0
  BY <1>2
<1>4. CompareVersions([epoch |-> 0, upstream |-> a, revision |-> <<>>],
                      [epoch |-> 0, upstream |-> b, revision |-> <<>>]) = FirstDifference(three, 3)
  BY DEF CompareVersions
<1> HIDE DEF three
<1>5. \A k \in 1..3 : three[k] \in Int /\ (k = 2 \/ three[k] = 0)
  BY <1>2, <1>3
<1>6. CASE ComparePart(a, b) = 0
  <2>1. \A k \in 1..3 : three[k] = 0
    BY <1>3, <1>5, <1>6
  <2>2. FirstDifference(three, 3) = 0
    BY <1>5, <2>1, FirstDifferenceAt
  <2> QED
    BY <1>1, <1>4, <1>6, <2>2
<1>7. CASE ComparePart(a, b) # 0
  <2>1. 2 \in 1..3 /\ three[2] # 0 /\ \A j \in 1..2 - 1 : three[j] = 0
    <3>1. \A j \in 1..2 - 1 : j = 1
      OBVIOUS
    <3> QED
      BY <1>3, <1>7, <3>1
  <2>2. FirstDifference(three, 3) = three[2]
    BY <1>5, <2>1, FirstDifferenceAt
  <2> QED
    BY <1>1, <1>3, <1>4, <2>2
<1> QED
  BY <1>6, <1>7

-----------------------------------------------------------------------------
(* The order of versions                                                   *)

\* A package is cleared exactly from the one fixed revision on, so that it has its release's fix if
\* that is no later, and is cleared if it has the fix and that is no earlier.
LEMMA EveryVerdictFollows ==
  ASSUME NEW revision \in Seq(Characters), NEW own \in Seq(Characters), NEW fixed \in Seq(Characters)
  PROVE  FollowsRelease(revision, own, fixed)
<1> DEFINE cleared(distro) == Verdict("backported", distro, revision, fixed, FALSE, "table") = "not vulnerable"
<1>1. ASSUME NEW distro \in {"ubuntu", "debian"}
      PROVE  cleared(distro) <=> revision # <<>> /\ ComparePart(revision, fixed) >= 0
  <2>1. CompareVersions([epoch |-> 0, upstream |-> revision, revision |-> <<>>],
                        [epoch |-> 0, upstream |-> fixed, revision |-> <<>>]) = ComparePart(revision, fixed)
    BY OrderOfParts
  <2> QED
    BY <2>1 DEF Verdict
<1> HIDE DEF cleared
<1>2. /\ ComparePart(revision, fixed) \in Int /\ ComparePart(revision, fixed) = -ComparePart(fixed, revision)
      /\ ComparePart(revision, own) \in Int /\ ComparePart(revision, own) = -ComparePart(own, revision)
      /\ ComparePart(fixed, revision) \in Int /\ ComparePart(own, revision) \in Int
  BY PartCompared
<1>3. ASSUME NEW distro \in {"ubuntu", "debian"}, ComparePart(own, fixed) <= 0, cleared(distro)
      PROVE  ComparePart(revision, own) >= 0
  <2>1. ComparePart(fixed, revision) <= 0
    BY <1>1, <1>2, <1>3
  <2>2. ComparePart(own, revision) <= 0
    BY <1>3, <2>1, PartsAgree DEF Agree
  <2> QED
    BY <1>2, <2>2
<1>4. ASSUME NEW distro \in {"ubuntu", "debian"}, ComparePart(fixed, own) <= 0,
             ComparePart(revision, own) >= 0, revision # <<>>
      PROVE  cleared(distro)
  <2>1. ComparePart(own, revision) <= 0
    BY <1>2, <1>4
  <2>2. ComparePart(fixed, revision) <= 0
    BY <1>4, <2>1, PartsAgree DEF Agree
  <2> QED
    BY <1>1, <1>2, <1>4, <2>2
<1> QED
  BY <1>3, <1>4 DEF FollowsRelease, cleared

LEMMA EveryComparisonOrders ==
  ASSUME NEW a \in Seq(Characters), NEW b \in Seq(Characters), NEW between \in SUBSET Seq(Characters)
  PROVE  OrdersAll(a, b, between)
<1>1. ComparePart(a, b) = -ComparePart(b, a)
  BY PartCompared
<1>2. ASSUME NEW c \in between, ComparePart(a, c) <= 0, ComparePart(c, b) <= 0 PROVE ComparePart(a, b) <= 0
  BY <1>2, PartsAgree DEF Agree
<1> QED
  BY <1>1, <1>2 DEF OrdersAll

-----------------------------------------------------------------------------
(* The order of dpkg                                                       *)

OneOf == {-1, 0, 1}

\* A first difference is an early one where the comparisons before it find none.
LEMMA FirstIsLess ==
  ASSUME NEW n \in Nat, NEW compare, \A k \in 1..n : compare[k] \in OneOf
  PROVE  /\ FirstDifference(compare, n) \in OneOf
         /\ FirstDifference(compare, n) = -1
              <=> \E k \in 1..n : compare[k] = -1 /\ \A j \in 1..k - 1 : compare[j] = 0
<1>1. \A k \in 1..n : compare[k] \in Int
  BY DEF OneOf
<1>2. FirstDifference(compare, n) \in OneOf
  BY <1>1, FirstDifferenceIs DEF OneOf
<1>3. FirstDifference(compare, n) = -1
        => \E k \in 1..n : compare[k] = -1 /\ \A j \in 1..k - 1 : compare[j] = 0
  BY <1>1, FirstDifferenceIs
<1>4. ASSUME NEW k \in 1..n, compare[k] = -1, \A j \in 1..k - 1 : compare[j] = 0
      PROVE  FirstDifference(compare, n) = -1
  <2>1. compare[k] # 0
    BY <1>4
  <2> QED
    BY <1>1, <1>4, <2>1, FirstDifferenceAt
<1> QED
  BY <1>2, <1>3, <1>4

\* Character by character a piece comes first if its text does.
LEMMA WeightsAreTexts ==
  ASSUME NEW a \in Seq(Characters), NEW b \in Seq(Characters)
  PROVE  CompareWeights(a, b) \in OneOf /\ (CompareWeights(a, b) = -1 <=> TextLess(a, b))
<1> DEFINE n == Longer(a, b)
           compare == [k \in 1..n |-> Sign(Weight(a, k), Weight(b, k))]
<1>1. n \in Nat
  BY LongerIs
<1>2. CompareWeights(a, b) = FirstDifference(compare, n)
  BY DEF CompareWeights
<1>3. \A k \in 1..n : compare[k] = Sign(Weight(a, k), Weight(b, k))
  OBVIOUS
<1>4. TextLess(a, b) <=> \E k \in 1..n : /\ Weight(a, k) < Weight(b, k)
                                         /\ \A j \in 1..k - 1 : Weight(a, j) = Weight(b, j)
  BY DEF TextLess
<1> HIDE DEF compare, n
<1>5. \A k \in 1..n : k \in Nat
  BY <1>1
<1>6. \A k \in 1..n : Weight(a, k) \in Int /\ Weight(b, k) \in Int
  BY <1>5, WeightsCompared
<1>7. \A k \in 1..n : /\ compare[k] \in OneOf
                      /\ compare[k] = -1 <=> Weight(a, k) < Weight(b, k)
                      /\ compare[k] = 0 <=> Weight(a, k) = Weight(b, k)
  BY <1>3, <1>6 DEF Sign, OneOf
<1>8. \A k \in 1..n : \A j \in 1..k - 1 : j \in 1..n
  BY <1>1
<1>9. /\ FirstDifference(compare, n) \in OneOf
      /\ FirstDifference(compare, n) = -1
           <=> \E k \in 1..n : compare[k] = -1 /\ \A j \in 1..k - 1 : compare[j] = 0
  BY <1>1, <1>7, FirstIsLess
<1>10. \A k \in 1..n : (compare[k] = -1 /\ \A j \in 1..k - 1 : compare[j] = 0)
         <=> (Weight(a, k) < Weight(b, k) /\ \A j \in 1..k - 1 : Weight(a, j) = Weight(b, j))
  BY <1>7, <1>8
<1> QED
  BY <1>2, <1>4, <1>9, <1>10

\* The order of two blocks, of texts at odd places and of numbers at even ones.
BlockLess(x, y, n) == IF n % 2 = 0 THEN NumberOf(x) < NumberOf(y) ELSE TextLess(x, y)

LEMMA PiecesAreBlocks ==
  ASSUME NEW x \in Piece, NEW y \in Piece, NEW n \in Nat,
         n % 2 = 0 => IsNumber(x) /\ IsNumber(y),
         n % 2 # 0 => ~IsNumber(x) /\ ~IsNumber(y)
  PROVE  CompareChunks(x, y) \in OneOf /\ (CompareChunks(x, y) = -1 <=> BlockLess(x, y, n))
<1>1. x \in Seq(Characters) /\ y \in Seq(Characters)
  BY FirstWeight
<1>2. CASE n % 2 = 0
  <2>1. NumberOf(x) \in Nat /\ NumberOf(y) \in Nat
    BY <1>1, <1>2, NumberIsNatural
  <2>2. CompareChunks(x, y) = Sign(NumberOf(x), NumberOf(y))
    BY <1>2, ChunksCompared
  <2>3. BlockLess(x, y, n) <=> NumberOf(x) < NumberOf(y)
    BY <1>2 DEF BlockLess
  <2>4. \A i, j \in Int : Sign(i, j) \in OneOf /\ (Sign(i, j) = -1 <=> i < j)
    BY DEF Sign, OneOf
  <2> QED
    BY <2>1, <2>2, <2>3, <2>4
<1>3. CASE n % 2 # 0
  <2>1. CompareChunks(x, y) = CompareWeights(x, y)
    BY <1>3 DEF CompareChunks
  <2>2. BlockLess(x, y, n) <=> TextLess(x, y)
    BY <1>3 DEF BlockLess
  <2> QED
    BY <1>1, <2>1, <2>2, WeightsAreTexts
<1> QED
  BY <1>2, <1>3

\* A text is not the same as none.
LEMMA TextIsSomething ==
  ASSUME NEW x \in Piece, x # <<>>, ~IsNumber(x)
  PROVE  CompareChunks(<<>>, x) # 0 /\ CompareChunks(x, <<>>) # 0
<1>1. x \in Seq(Characters) /\ <<>> \in Seq(Characters) /\ <<>> \in Piece /\ ~IsNumber(<<>>)
  BY FirstWeight, NoneIsPiece DEF IsNumber
<1>2. 1 \in DOMAIN x /\ x[1] \in Characters
  <2>1. Len(x) \in Nat /\ Len(x) # 0
    BY <1>1, EmptySeq
  <2> QED
    BY <1>1, <2>1
<1>3. DOMAIN <<>> = {}
  BY EmptySeq
<1>4. Weight(x, 1) \in Int /\ Weight(x, 1) # 0 /\ Weight(<<>>, 1) = 0
  BY <1>2, <1>3, OrderOfCharacters DEF Weight
<1>5. /\ CompareWeights(x, <<>>) = Sign(Weight(x, 1), Weight(<<>>, 1))
      /\ CompareWeights(<<>>, x) = Sign(Weight(<<>>, 1), Weight(x, 1))
  <2>1. Weight(x, 1) # Weight(<<>>, 1)
    BY <1>4
  <2>2. CompareWeights(x, <<>>) = Sign(Weight(x, 1), Weight(<<>>, 1))
    BY <1>1, <1>2, <2>1, WeightsCompared
  <2>3. CompareWeights(<<>>, x) = Sign(Weight(<<>>, 1), Weight(x, 1))
    BY <1>1, <1>2, <2>1, WeightsCompared
  <2> QED
    BY <2>2, <2>3
<1>6. CompareChunks(x, <<>>) = CompareWeights(x, <<>>) /\ CompareChunks(<<>>, x) = CompareWeights(<<>>, x)
  BY <1>1 DEF CompareChunks
<1>7. \A i \in Int : i # 0 => Sign(i, 0) # 0 /\ Sign(0, i) # 0
  BY DEF Sign
<1> QED
  BY <1>4, <1>5, <1>6, <1>7

\* The chunks of a part that begins and ends with a digit are numbers at odd places and texts at even
\* ones, and its blocks are an empty text and these.
Alternating(chunks) ==
    /\ chunks \in Seq(Piece) /\ Len(chunks) % 2 = 1
    /\ \A k \in 1..Len(chunks) : chunks[k] # <<>> /\ (IsNumber(chunks[k]) <=> k % 2 = 1)

LEMMA WellFormedBlocks ==
  ASSUME NEW part \in Seq(Characters), WellFormed(part)
  PROVE  /\ Alternating(Chunks(part))
         /\ Len(Blocks(part)) = Len(Chunks(part)) + 1
         /\ At(Blocks(part), 1) = <<>>
         /\ \A k \in Nat \ {0} : At(Blocks(part), k + 1) = At(Chunks(part), k)
<1> DEFINE c == Chunks(part)
           size == Len(c)
           turned == {n \in 0..size - 1 : IsNumber(c[n + 1]) <=> (n + 1) % 2 = 1}
<1>1. part # <<>> /\ part[1] \in Digits /\ part[Len(part)] \in Digits
  BY DEF WellFormed
<1>2. c \in Seq(Piece) /\ InTurns(part, c)
  BY ChunksInTurns
<1>3. Blocks(part) = <<<<>>>> \o c
  BY <1>1 DEF Blocks
<1> HIDE DEF c
<1>4. size \in Nat /\ DOMAIN c = 1..size
  BY <1>2
<1>5. /\ \A n \in 1..size : c[n] # <<>>
      /\ \A n \in 1..size - 1 : IsNumber(c[n + 1]) <=> ~IsNumber(c[n])
      /\ size >= 1 /\ IsNumber(c[1]) /\ IsNumber(c[size])
  BY <1>1, <1>2 DEF InTurns
<1>6. <<<<>>>> \in Seq(Piece) /\ Len(<<<<>>>>) = 1 /\ <<<<>>>>[1] = <<>>
  BY NoneIsPiece
<1> HIDE DEF size
<1>7. \A n \in 0..size - 1 : n \in turned
  <2>1. size - 1 \in Nat
    BY <1>4, <1>5
  <2>2. 0 \in turned
    BY <1>5, <2>1
  <2>3. ASSUME NEW n \in 0..(size - 1) - 1, n \in turned PROVE n + 1 \in turned
    <3>1. n + 1 \in 1..size - 1 /\ n + 1 \in 0..size - 1
      BY <1>4
    <3>2. IsNumber(c[(n + 1) + 1]) <=> ~IsNumber(c[n + 1])
      BY <1>5, <3>1
    <3>3. IsNumber(c[n + 1]) <=> (n + 1) % 2 = 1
      BY <2>3
    <3>4. (n + 1) % 2 = 1 <=> ~(((n + 1) + 1) % 2 = 1)
      BY <1>4
    <3>5. IsNumber(c[(n + 1) + 1]) <=> ((n + 1) + 1) % 2 = 1
      BY <3>2, <3>3, <3>4
    <3> QED
      BY <3>1, <3>5
  <2> HIDE DEF turned
  <2> QED
    BY <2>1, <2>2, <2>3, BoundedInduction
<1>8. \A k \in 1..size : IsNumber(c[k]) <=> k % 2 = 1
  <2> SUFFICES ASSUME NEW k \in 1..size PROVE IsNumber(c[k]) <=> k % 2 = 1
    OBVIOUS
  <2>1. k - 1 \in 0..size - 1 /\ (k - 1) + 1 = k
    BY <1>4
  <2>2. k - 1 \in turned
    BY <1>7, <2>1
  <2>3. IsNumber(c[(k - 1) + 1]) <=> ((k - 1) + 1) % 2 = 1
    BY <2>2
  <2> QED
    BY <2>1, <2>3
<1>9. size % 2 = 1
  BY <1>4, <1>5, <1>8
<1>10. Alternating(c)
  BY <1>2, <1>5, <1>8, <1>9 DEF Alternating, size
<1>11. /\ Len(Blocks(part)) = size + 1 /\ DOMAIN Blocks(part) = 1..size + 1 /\ Blocks(part)[1] = <<>>
       /\ \A k \in 1..size : Blocks(part)[k + 1] = c[k]
  BY <1>2, <1>3, <1>4, <1>6 DEF size
<1>12. At(Blocks(part), 1) = <<>>
  BY <1>4, <1>11 DEF At
<1>13. ASSUME NEW k \in Nat \ {0} PROVE At(Blocks(part), k + 1) = At(c, k)
  <2>1. k + 1 \in 1..size + 1 <=> k \in 1..size
    BY <1>4
  <2> QED
    BY <1>4, <1>11, <2>1 DEF At
<1> QED
  BY <1>10, <1>11, <1>12, <1>13 DEF c, size

\* Where the chunks of two such parts differ first: no later than one after the end of the shorter.
Decided(ca, cb) ==
    IF Len(ca) = Len(cb) THEN Len(ca) ELSE IF Len(ca) < Len(cb) THEN Len(ca) + 1 ELSE Len(cb) + 1

LEMMA DecidedThere ==
  ASSUME NEW ca, Alternating(ca), NEW cb, Alternating(cb)
  PROVE  /\ Decided(ca, cb) \in 1..Longer(ca, cb) /\ Longer(ca, cb) \in Nat
         /\ \A k \in 1..Decided(ca, cb) :
              /\ CompareChunks(At(ca, k), At(cb, k)) \in OneOf
              /\ CompareChunks(At(ca, k), At(cb, k)) = -1 <=> BlockLess(At(ca, k), At(cb, k), k + 1)
         /\ Decided(ca, cb) # Longer(ca, cb) =>
              CompareChunks(At(ca, Decided(ca, cb)), At(cb, Decided(ca, cb))) # 0
<1>1. /\ ca \in Seq(Piece) /\ Len(ca) % 2 = 1
      /\ \A k \in 1..Len(ca) : ca[k] # <<>> /\ (IsNumber(ca[k]) <=> k % 2 = 1)
      /\ cb \in Seq(Piece) /\ Len(cb) % 2 = 1
      /\ \A k \in 1..Len(cb) : cb[k] # <<>> /\ (IsNumber(cb[k]) <=> k % 2 = 1)
  BY DEF Alternating
<1> DEFINE la == Len(ca)
           lb == Len(cb)
           r == Decided(ca, cb)
           m == Longer(ca, cb)
<1>2. la \in Nat /\ lb \in Nat /\ DOMAIN ca = 1..la /\ DOMAIN cb = 1..lb /\ la % 2 = 1 /\ lb % 2 = 1
  BY <1>1
<1>3. /\ r = IF la = lb THEN la ELSE IF la < lb THEN la + 1 ELSE lb + 1
      /\ m = IF la < lb THEN lb ELSE la
  BY DEF Decided, Longer
<1>4. /\ \A k \in Nat : k \in 1..la => At(ca, k) = ca[k]
      /\ \A k \in Nat : k \notin 1..la => At(ca, k) = <<>>
      /\ \A k \in Nat : k \in 1..lb => At(cb, k) = cb[k]
      /\ \A k \in Nat : k \notin 1..lb => At(cb, k) = <<>>
  BY <1>2 DEF At
<1>5. \A k \in Nat : At(ca, k) \in Piece /\ At(cb, k) \in Piece
  BY <1>1, PlacesCompared
<1>6. ~IsNumber(<<>>)
  BY DEF IsNumber
<1> HIDE DEF la, lb, r, m
<1>7. r \in 1..m /\ m \in Nat
  BY <1>2, <1>3
<1>8. \A k \in 1..r : (k \in 1..la /\ k \in 1..lb) \/ (k % 2 = 0 /\ k = r /\ la # lb)
  <2>1. \A i \in Nat : i % 2 = 1 => (i + 1) % 2 = 0
    OBVIOUS
  <2>2. CASE la = lb
    BY <1>2, <1>3, <2>2
  <2>3. CASE la < lb
    BY <1>2, <1>3, <2>1, <2>3
  <2>4. CASE lb < la
    BY <1>2, <1>3, <2>1, <2>4
  <2> QED
    BY <1>2, <2>2, <2>3, <2>4
<1>9. ASSUME NEW k \in 1..r
      PROVE  /\ CompareChunks(At(ca, k), At(cb, k)) \in OneOf
             /\ CompareChunks(At(ca, k), At(cb, k)) = -1 <=> BlockLess(At(ca, k), At(cb, k), k + 1)
  <2>1. k \in Nat /\ k + 1 \in Nat /\ ((k + 1) % 2 = 0 <=> k % 2 = 1)
    BY <1>7
  <2>2. /\ k \in 1..la => (IsNumber(ca[k]) <=> k % 2 = 1)
        /\ k \in 1..lb => (IsNumber(cb[k]) <=> k % 2 = 1)
    BY <1>1 DEF la, lb
  <2>3. k % 2 = 1 => IsNumber(At(ca, k)) /\ IsNumber(At(cb, k))
    BY <1>4, <1>8, <2>1, <2>2
  <2>4. k % 2 # 1 => ~IsNumber(At(ca, k)) /\ ~IsNumber(At(cb, k))
    BY <1>4, <1>6, <2>1, <2>2
  <2>5. /\ (k + 1) % 2 = 0 => IsNumber(At(ca, k)) /\ IsNumber(At(cb, k))
        /\ (k + 1) % 2 # 0 => ~IsNumber(At(ca, k)) /\ ~IsNumber(At(cb, k))
    BY <2>1, <2>3, <2>4
  <2> QED
    BY <1>5, <2>1, <2>5, PiecesAreBlocks
<1>10. ASSUME r # m PROVE CompareChunks(At(ca, r), At(cb, r)) # 0
  <2>1. r \in Nat /\ r % 2 = 0 /\ la # lb
    <3>1. la # lb
      BY <1>2, <1>3, <1>10
    <3>2. \A i \in Nat : i % 2 = 1 => (i + 1) % 2 = 0
      OBVIOUS
    <3> QED
      BY <1>2, <1>3, <1>7, <3>1, <3>2
  <2>2. CASE la < lb
    <3>1. r \in 1..lb /\ r \notin 1..la
      BY <1>2, <1>3, <2>2
    <3>2. At(ca, r) = <<>> /\ At(cb, r) = cb[r] /\ cb[r] # <<>> /\ ~IsNumber(cb[r])
      BY <1>1, <1>4, <2>1, <3>1 DEF lb
    <3> QED
      BY <1>5, <2>1, <3>2, TextIsSomething
  <2>3. CASE lb < la
    <3>1. r \in 1..la /\ r \notin 1..lb
      BY <1>2, <1>3, <2>3
    <3>2. At(cb, r) = <<>> /\ At(ca, r) = ca[r] /\ ca[r] # <<>> /\ ~IsNumber(ca[r])
      BY <1>1, <1>4, <2>1, <3>1 DEF la
    <3> QED
      BY <1>5, <2>1, <3>2, TextIsSomething
  <2> QED
    BY <1>2, <2>1, <2>2, <2>3
<1> QED
  BY <1>7, <1>9, <1>10 DEF r, m

\* So on parts that begin and end with a digit the comparison is the order of dpkg.
LEMMA EveryPartAsDpkg ==
  ASSUME NEW a \in Seq(Characters), NEW b \in Seq(Characters)
  PROVE  AsDpkg(a, b)
<1> SUFFICES ASSUME WellFormed(a), WellFormed(b) PROVE ComparePart(a, b) = -1 <=> DpkgLess(a, b)
  BY DEF AsDpkg
<1> DEFINE ca == Chunks(a)
           cb == Chunks(b)
           m == Longer(ca, cb)
           r == Decided(ca, cb)
           D(k) == CompareChunks(At(ca, k), At(cb, k))
           Less(n) == BlockLess(At(Blocks(a), n), At(Blocks(b), n), n)
           More(n) == BlockLess(At(Blocks(b), n), At(Blocks(a), n), n)
<1>1. /\ Alternating(ca) /\ Alternating(cb)
      /\ Len(Blocks(a)) = Len(ca) + 1 /\ Len(Blocks(b)) = Len(cb) + 1
      /\ At(Blocks(a), 1) = <<>> /\ At(Blocks(b), 1) = <<>>
      /\ \A k \in Nat \ {0} : At(Blocks(a), k + 1) = At(ca, k)
      /\ \A k \in Nat \ {0} : At(Blocks(b), k + 1) = At(cb, k)
  BY WellFormedBlocks
<1>2. ca \in Seq(Piece) /\ cb \in Seq(Piece) /\ Len(ca) \in Nat /\ Len(cb) \in Nat
  <2>1. \A c : Alternating(c) => c \in Seq(Piece)
    BY DEF Alternating
  <2> HIDE DEF ca, cb
  <2>2. ca \in Seq(Piece) /\ cb \in Seq(Piece)
    BY <1>1, <2>1
  <2> QED
    BY <2>2
<1>3. Longer(Blocks(a), Blocks(b)) = m + 1
  <2> DEFINE la == Len(ca)
             lb == Len(cb)
  <2>1. la \in Nat /\ lb \in Nat /\ Len(Blocks(a)) = la + 1 /\ Len(Blocks(b)) = lb + 1
    BY <1>1, <1>2
  <2>2. /\ m = IF la < lb THEN lb ELSE la
        /\ Longer(Blocks(a), Blocks(b)) = IF Len(Blocks(a)) < Len(Blocks(b)) THEN Len(Blocks(b)) ELSE Len(Blocks(a))
    BY DEF Longer
  <2> HIDE DEF la, lb, m
  <2> QED
    BY <2>1, <2>2
<1>4. DpkgLess(a, b) <=> \E n \in 1..m + 1 : Less(n) /\ \A j \in 1..n - 1 : ~Less(j) /\ ~More(j)
  BY <1>3 DEF DpkgLess, BlockLess
<1>5. /\ r \in 1..m /\ m \in Nat
      /\ \A k \in 1..r : D(k) \in OneOf
      /\ \A k \in 1..r : D(k) = -1 <=> BlockLess(At(ca, k), At(cb, k), k + 1)
      /\ r # m => D(r) # 0
  BY <1>1, DecidedThere
<1>6. \A k \in 1..r : CompareChunks(At(cb, k), At(ca, k)) = -1 <=> BlockLess(At(cb, k), At(ca, k), k + 1)
  <2>1. Decided(cb, ca) = r
    <3> DEFINE la == Len(ca)
               lb == Len(cb)
    <3>1. la \in Nat /\ lb \in Nat
      BY <1>2
    <3>2. /\ r = IF la = lb THEN la ELSE IF la < lb THEN la + 1 ELSE lb + 1
          /\ Decided(cb, ca) = IF lb = la THEN lb ELSE IF lb < la THEN lb + 1 ELSE la + 1
      BY DEF Decided
    <3> HIDE DEF la, lb, r
    <3> QED
      BY <3>1, <3>2
  <2> QED
    BY <1>1, <2>1, DecidedThere
<1>7. /\ \A k \in Nat : D(k) \in Int
      /\ \A k \in Nat : CompareChunks(At(cb, k), At(ca, k)) = -D(k)
      /\ \A k \in Nat : PartsCompared(ca, cb)[k] = D(k)
  <2>1. \A k \in Nat : At(ca, k) \in Piece /\ At(cb, k) \in Piece /\ PartsCompared(ca, cb)[k] = D(k)
    BY <1>2, PlacesCompared
  <2> QED
    BY <2>1, ChunksCompared
<1>8. \A k \in Nat \ {0} : /\ Less(k + 1) <=> BlockLess(At(ca, k), At(cb, k), k + 1)
                           /\ More(k + 1) <=> BlockLess(At(cb, k), At(ca, k), k + 1)
  BY <1>1
<1>9. ~Less(1) /\ ~More(1)
  <2>1. Longer(<<>>, <<>>) = 0
    BY EmptySeq DEF Longer
  <2>2. ~TextLess(<<>>, <<>>)
    BY <2>1 DEF TextLess
  <2>3. ~BlockLess(<<>>, <<>>, 1)
    BY <2>2 DEF BlockLess
  <2> QED
    BY <1>1, <2>3
<1>10. ComparePart(a, b) = FirstDifference(PartsCompared(ca, cb), m)
  BY <1>5, PartCompared
<1> HIDE DEF D, Less, More, m, r, ca, cb
<1>11. \A k \in 1..r : k \in Nat \ {0}
  BY <1>5
<1>12. \A k \in 1..r : /\ Less(k + 1) <=> D(k) = -1
                       /\ More(k + 1) <=> -D(k) = -1
  BY <1>5, <1>6, <1>7, <1>8, <1>11
<1>13. \A k \in 1..r : /\ Less(k + 1) <=> D(k) = -1
                       /\ D(k) = 0 <=> ~Less(k + 1) /\ ~More(k + 1)
  BY <1>5, <1>12 DEF OneOf
<1>14. ComparePart(a, b) = -1 <=> \E k \in 1..r : D(k) = -1 /\ \A j \in 1..k - 1 : D(j) = 0
  <2>0. \A k \in 1..m : k \in Nat
    BY <1>5
  <2>1. \A k \in 1..m : PartsCompared(ca, cb)[k] \in Int /\ PartsCompared(ca, cb)[k] = D(k)
    BY <1>7, <2>0
  <2>2. ASSUME ComparePart(a, b) = -1
        PROVE  \E k \in 1..r : D(k) = -1 /\ \A j \in 1..k - 1 : D(j) = 0
    <3> DEFINE P == PartsCompared(ca, cb)
    <3>0. /\ m \in Nat /\ FirstDifference(P, m) = -1 /\ -1 # 0
          /\ \A k \in 1..m : P[k] \in Int
      BY <1>5, <1>10, <2>1, <2>2
    <3> HIDE DEF P
    <3>1. PICK k \in 1..m : P[k] = -1 /\ \A j \in 1..k - 1 : P[j] = 0
      BY <3>0, FirstDifferenceIs
    <3>2. \A j \in 1..k - 1 : j \in 1..m
      BY <1>5
    <3>3. D(k) = -1 /\ \A j \in 1..k - 1 : D(j) = 0
      BY <2>1, <3>1, <3>2 DEF P
    <3>4. k \in 1..r
      <4>1. r < k => r \in 1..k - 1 /\ r # m
        BY <1>5
      <4> QED
        BY <1>5, <3>3, <4>1
    <3> QED
      BY <3>3, <3>4
  <2>3. ASSUME NEW k \in 1..r, D(k) = -1, \A j \in 1..k - 1 : D(j) = 0
        PROVE  ComparePart(a, b) = -1
    <3>1. k \in 1..m /\ \A j \in 1..k - 1 : j \in 1..m
      BY <1>5
    <3>2. /\ PartsCompared(ca, cb)[k] = -1 /\ PartsCompared(ca, cb)[k] # 0
          /\ \A j \in 1..k - 1 : PartsCompared(ca, cb)[j] = 0
      BY <2>1, <2>3, <3>1
    <3> QED
      BY <1>5, <1>10, <2>1, <3>1, <3>2, FirstDifferenceAt
  <2> QED
    BY <2>2, <2>3
<1>15. ASSUME NEW k \in 1..r, D(k) = -1, \A j \in 1..k - 1 : D(j) = 0
       PROVE  DpkgLess(a, b)
  <2>1. k + 1 \in 1..m + 1 /\ Less(k + 1)
    BY <1>5, <1>13, <1>15
  <2>2. ASSUME NEW j \in 1..(k + 1) - 1 PROVE ~Less(j) /\ ~More(j)
    <3>1. CASE j = 1
      BY <1>9, <3>1
    <3>2. CASE j # 1
      <4>1. j - 1 \in 1..k - 1 /\ j - 1 \in 1..r /\ (j - 1) + 1 = j
        BY <1>5, <3>2
      <4>2. D(j - 1) = 0
        BY <1>15, <4>1
      <4>3. ~Less((j - 1) + 1) /\ ~More((j - 1) + 1)
        BY <1>13, <4>1, <4>2
      <4> QED
        BY <4>1, <4>3
    <3> QED
      BY <3>1, <3>2
  <2> QED
    BY <1>4, <2>1, <2>2
<1>16. ASSUME DpkgLess(a, b)
       PROVE  \E k \in 1..r : D(k) = -1 /\ \A j \in 1..k - 1 : D(j) = 0
  <2>1. PICK n \in 1..m + 1 : Less(n) /\ \A j \in 1..n - 1 : ~Less(j) /\ ~More(j)
    BY <1>4, <1>16
  <2> DEFINE k == n - 1
  <2>2. k \in 1..m /\ k + 1 = n
    BY <1>5, <1>9, <2>1
  <2> HIDE DEF k
  <2>3. ASSUME NEW j \in 1..r, j < k PROVE D(j) = 0
    <3>1. j + 1 \in 1..n - 1
      BY <1>5, <2>2, <2>3
    <3> QED
      BY <1>13, <2>1, <3>1
  <2>4. k \in 1..r
    <3>1. r < k => r \in 1..r /\ r # m
      BY <1>5, <2>2
    <3> QED
      BY <1>5, <2>2, <2>3, <3>1
  <2>5. D(k) = -1
    BY <1>13, <2>1, <2>2, <2>4
  <2>6. \A j \in 1..k - 1 : j \in 1..r /\ j < k
    BY <1>5, <2>4
  <2> QED
    BY <2>3, <2>4, <2>5, <2>6
<1> QED
  BY <1>14, <1>15, <1>16

-----------------------------------------------------------------------------
(* Views                                                                   *)

Distinct(s) == \A i, j \in DOMAIN s : s[i] = s[j] => i = j

\* What a list has of members.
LEMMA ListEmpty ==
  ASSUME NEW T, NEW s \in Seq(T)
  PROVE  /\ Len(s) \in Nat /\ DOMAIN s = 1..Len(s) /\ \A k \in 1..Len(s) : s[k] \in T
         /\ Members(s) \subseteq T
         /\ (s = <<>>) <=> (Members(s) = {})
         /\ s # <<>> => 1 \in 1..Len(s) /\ s[1] \in Members(s)
<1>1. Len(s) \in Nat /\ DOMAIN s = 1..Len(s) /\ \A k \in 1..Len(s) : s[k] \in T
  OBVIOUS
<1>2. s = <<>> => Members(s) = {}
  BY DEF Members
<1>3. s # <<>> => Len(s) # 0
  BY <1>1, EmptySeq
<1>4. Members(s) \subseteq T
  BY <1>1 DEF Members
<1>5. s # <<>> => 1 \in 1..Len(s)
  BY <1>1, <1>3
<1>6. s # <<>> => s[1] \in Members(s)
  BY <1>1, <1>5 DEF Members
<1> QED
  BY <1>1, <1>2, <1>4, <1>5, <1>6

\* What is selected from a list without repetition is one.
LEMMA Selected ==
  ASSUME NEW T, NEW s \in Seq(T), NEW S
  PROVE  /\ Among(s, S) \in Seq(T) /\ Members(Among(s, S)) = Members(s) \cap S
         /\ Distinct(s) => Distinct(Among(s, S))
<1>1. PICK place \in [1..Len(Among(s, S)) -> 1..Len(s)] :
        /\ \A j \in 1..Len(Among(s, S)) : Among(s, S)[j] = s[place[j]]
        /\ \A i, j \in 1..Len(Among(s, S)) : i < j => place[i] < place[j]
  BY AmongProperties
<1>2. Among(s, S) \in Seq(T) /\ Members(Among(s, S)) = Members(s) \cap S
  BY AmongProperties
<1>3. ASSUME Distinct(s), NEW i \in DOMAIN Among(s, S), NEW j \in DOMAIN Among(s, S),
             Among(s, S)[i] = Among(s, S)[j]
      PROVE  i = j
  <2>1. /\ DOMAIN Among(s, S) = 1..Len(Among(s, S)) /\ Len(Among(s, S)) \in Nat
        /\ DOMAIN s = 1..Len(s) /\ Len(s) \in Nat
    BY <1>2
  <2>2. place[i] \in 1..Len(s) /\ place[j] \in 1..Len(s) /\ s[place[i]] = s[place[j]]
    BY <1>1, <1>3, <2>1
  <2>3. place[i] = place[j]
    BY <1>3, <2>1, <2>2 DEF Distinct
  <2>4. ~(i < j) /\ ~(j < i)
    <3>1. ~(place[i] < place[j]) /\ ~(place[j] < place[i])
      BY <2>2, <2>3
    <3> QED
      BY <1>1, <1>3, <2>1, <3>1
  <2> QED
    BY <1>3, <2>1, <2>4
<1> QED
  BY <1>2, <1>3 DEF Distinct

\* The front and the back of a list are all of it, and without repetition each member is in one.
LEMMA FrontAndBack ==
  ASSUME NEW T, NEW s \in Seq(T), NEW n \in Nat
  PROVE  /\ Front(s, n) \in Seq(T) /\ Back(s, n) \in Seq(T)
         /\ Members(Front(s, n)) \cup Members(Back(s, n)) = Members(s)
         /\ Distinct(s) => Distinct(Front(s, n)) /\ Distinct(Back(s, n))
                           /\ Members(Front(s, n)) \cap Members(Back(s, n)) = {}
         /\ n = 0 \/ s = <<>> \/ (Front(s, n) # <<>> /\ s[1] \in Members(Front(s, n)))
         /\ n = 1 /\ s # <<>> => Members(Front(s, n)) = {s[1]}
<1> DEFINE L == Len(s)
           m == IF L < n THEN L ELSE n
           rest == IF n < L THEN L - n ELSE 0
           f == SubSeq(s, 1, m)
           b == SubSeq(s, n + 1, L)
<1>0. L \in Nat /\ DOMAIN s = 1..L /\ \A k \in 1..L : s[k] \in T
  OBVIOUS
<1>4. Front(s, n) = f /\ Back(s, n) = b
  BY DEF Front, Back
<1>6. s # <<>> => 1 \in 1..L
  BY ListEmpty
<1> HIDE DEF L
<1>1. /\ m \in Nat /\ m <= L /\ m <= n /\ (m = L \/ m = n)
      /\ rest \in Nat /\ (n < L => rest = L - n) /\ (L <= n => rest = 0)
  BY <1>0
<1> HIDE DEF m, rest
<1>2. f \in Seq(T) /\ DOMAIN f = 1..m /\ \A k \in 1..m : f[k] = s[k]
  <2>1. \A k \in 1..m : s[k] \in T
    BY <1>0, <1>1
  <2>2. /\ Len(f) = IF 1 <= m THEN m - 1 + 1 ELSE 0
        /\ \A k \in 1..m - 1 + 1 : f[k] = s[1 + k - 1]
        /\ f \in Seq(T)
    BY <1>1, <2>1, SubSeqProperties
  <2> HIDE DEF f
  <2>3. Len(f) = m
    BY <1>1, <2>2
  <2>4. ASSUME NEW k \in 1..m PROVE f[k] = s[k]
    <3>1. k \in 1..m - 1 + 1 /\ 1 + k - 1 = k
      BY <1>1
    <3>2. f[k] = s[1 + k - 1]
      BY <2>2, <3>1
    <3> QED
      BY <3>1, <3>2, Zenon
  <2>5. f \in Seq(T) /\ DOMAIN f = 1..m
    BY <2>2, <2>3
  <2> QED
    BY <2>4, <2>5
<1>3. b \in Seq(T) /\ DOMAIN b = 1..rest /\ \A k \in 1..rest : b[k] = s[n + k]
  <2>1. /\ \A k \in n + 1..L : k \in 1..L
        /\ n + 1 \in Int /\ L \in Int
    BY <1>0
  <2>2. \A k \in n + 1..L : s[k] \in T
    BY <1>0, <2>1
  <2>3. /\ Len(b) = IF n + 1 <= L THEN L - (n + 1) + 1 ELSE 0
        /\ \A k \in 1..L - (n + 1) + 1 : b[k] = s[(n + 1) + k - 1]
        /\ b \in Seq(T)
    BY <2>1, <2>2, SubSeqProperties
  <2> HIDE DEF b
  <2>4. Len(b) = rest
    BY <1>0, <1>1, <2>3
  <2>5. \A k \in 1..rest : k \in 1..L - (n + 1) + 1 /\ (n + 1) + k - 1 = n + k
    BY <1>0, <1>1
  <2> QED
    BY <2>3, <2>4, <2>5
<1> HIDE DEF f, b
<1>5. /\ \A k \in 1..m : k \in 1..L /\ k <= n
      /\ \A k \in 1..rest : n + k \in 1..L /\ n + k > n
      /\ \A k \in 1..L : k \in 1..m \/ (k - n \in 1..rest /\ n + (k - n) = k)
      /\ \A j, k \in 1..rest : n + j = n + k => j = k
      /\ \A j \in 1..m : \A k \in 1..rest : j # n + k
  BY <1>0, <1>1
<1>7. n = 1 => \A k \in 1..m : k = 1
  BY <1>1
<1>8. Members(f) \cup Members(b) = Members(s)
  <2>1. ASSUME NEW x \in Members(f) \cup Members(b) PROVE x \in Members(s)
    <3>1. CASE x \in Members(f)
      <4>1. PICK k \in 1..m : x = f[k]
        BY <1>2, <3>1 DEF Members
      <4> QED
        BY <1>0, <1>2, <1>5, <4>1 DEF Members
    <3>2. CASE x \in Members(b)
      <4>1. PICK k \in 1..rest : x = b[k]
        BY <1>3, <3>2 DEF Members
      <4> QED
        BY <1>0, <1>3, <1>5, <4>1 DEF Members
    <3> QED
      BY <2>1, <3>1, <3>2
  <2>2. ASSUME NEW k \in 1..L PROVE s[k] \in Members(f) \cup Members(b)
    <3>1. CASE k \in 1..m
      BY <1>2, <3>1 DEF Members
    <3>2. CASE k - n \in 1..rest /\ n + (k - n) = k
      <4>1. b[k - n] = s[k]
        BY <1>3, <3>2
      <4> QED
        BY <1>3, <3>2, <4>1 DEF Members
    <3> QED
      BY <1>5, <3>1, <3>2
  <2> QED
    BY <1>0, <2>1, <2>2 DEF Members
<1>9. ASSUME Distinct(s) PROVE Distinct(f) /\ Distinct(b) /\ Members(f) \cap Members(b) = {}
  <2>1. \A i, j \in 1..L : s[i] = s[j] => i = j
    BY <1>0, <1>9 DEF Distinct
  <2>2. Distinct(f)
    BY <1>2, <1>5, <2>1 DEF Distinct
  <2>3. Distinct(b)
    BY <1>3, <1>5, <2>1 DEF Distinct
  <2>4. ASSUME NEW i \in 1..m, NEW j \in 1..rest PROVE f[i] # b[j]
    <3>1. f[i] = s[i] /\ b[j] = s[n + j] /\ i \in 1..L /\ n + j \in 1..L /\ i # n + j
      BY <1>2, <1>3, <1>5
    <3> QED
      BY <2>1, <3>1
  <2> QED
    BY <1>2, <1>3, <2>2, <2>3, <2>4 DEF Members
<1>10. ASSUME n # 0, s # <<>> PROVE f # <<>> /\ s[1] \in Members(f)
  <2>1. 1 \in DOMAIN f /\ f[1] = s[1]
    BY <1>0, <1>1, <1>2, <1>6, <1>10
  <2> QED
    BY <2>1 DEF Members
<1>11. ASSUME n = 1, s # <<>> PROVE Members(f) = {s[1]}
  <2>1. \A k \in DOMAIN f : f[k] = s[1]
    BY <1>2, <1>7, <1>11
  <2>2. s[1] \in Members(f)
    BY <1>10, <1>11
  <2> QED
    BY <2>1, <2>2 DEF Members
<1> QED
  BY <1>2, <1>3, <1>4, <1>8, <1>9, <1>10, <1>11

\* The first of a list, and the rest.
LEMMA FirstAndRest ==
  ASSUME NEW T, NEW s \in Seq(T)
  PROVE  /\ Front(s, 1) \in Seq(T) /\ Back(s, 1) \in Seq(T)
         /\ Members(Front(s, 1)) \cup Members(Back(s, 1)) = Members(s)
         /\ Distinct(s) => Distinct(Back(s, 1)) /\ Members(Front(s, 1)) \cap Members(Back(s, 1)) = {}
         /\ s = <<>> => FirstOf(s) = {}
         /\ s # <<>> => Front(s, 1) # <<>> /\ FirstOf(s) = {s[1]} /\ s[1] \in Members(s)
<1>1. /\ Front(s, 1) \in Seq(T) /\ Back(s, 1) \in Seq(T)
      /\ Members(Front(s, 1)) \cup Members(Back(s, 1)) = Members(s)
      /\ Distinct(s) => Distinct(Back(s, 1)) /\ Members(Front(s, 1)) \cap Members(Back(s, 1)) = {}
  BY FrontAndBack
<1>2. s # <<>> => Members(Front(s, 1)) = {s[1]} /\ Front(s, 1) # <<>>
  <2>1. 1 \in Nat /\ 1 > 0 /\ 1 = 1
    OBVIOUS
  <2> QED
    BY <2>1, FrontAndBack
<1>3. (s = <<>> <=> Members(s) = {}) /\ (s # <<>> => s[1] \in Members(s))
  BY ListEmpty
<1> QED
  BY <1>1, <1>2, <1>3 DEF FirstOf

\* A list that is not empty has a front, which begins with its first.
LEMMA FrontIs ==
  ASSUME NEW T, NEW s \in Seq(T), NEW n \in Nat
  PROVE  /\ Front(s, n) \in Seq(T) /\ Members(Front(s, n)) \subseteq Members(s)
         /\ n > 0 /\ s # <<>> => /\ Front(s, n) # <<>> /\ Members(Front(s, n)) # {}
                                 /\ FirstOf(s) \subseteq Members(Front(s, n))
         /\ FirstOf(s) \subseteq Members(s)
         /\ s # <<>> => FirstOf(s) # {}
<1>1. Front(s, n) \in Seq(T) /\ Members(Front(s, n)) \cup Members(Back(s, n)) = Members(s)
  BY FrontAndBack
<1>2. n = 0 \/ s = <<>> \/ (Front(s, n) # <<>> /\ s[1] \in Members(Front(s, n)))
  BY FrontAndBack
<1>3. (s = <<>> => FirstOf(s) = {}) /\ (s # <<>> => FirstOf(s) = {s[1]} /\ s[1] \in Members(s))
  BY FirstAndRest
<1>4. ASSUME n > 0, s # <<>>
      PROVE  /\ Front(s, n) # <<>> /\ Members(Front(s, n)) # {}
             /\ FirstOf(s) \subseteq Members(Front(s, n))
  <2>1. n # 0
    BY <1>4
  <2> QED
    BY <1>2, <1>3, <1>4, <2>1
<1>5. FirstOf(s) \subseteq Members(s) /\ (s # <<>> => FirstOf(s) # {})
  BY <1>3
<1> QED
  BY <1>1, <1>4, <1>5

\* The lists of a graph that is read without repetition.
IsGraph(graph) == graph \in Seq(Position) /\ Distinct(graph)

LEMMA TypedList ==
  ASSUME NEW graph, IsGraph(graph), NEW type
  PROVE  /\ Typed(graph, type) \in Seq(Position) /\ Distinct(Typed(graph, type))
         /\ \A p : p \in Members(Typed(graph, type)) <=>
              p \in Members(graph) /\ p \in Position /\ Pool[p].type = type
<1>1. graph \in Seq(Position) /\ Distinct(graph)
  BY DEF IsGraph
<1>2. Members(Among(graph, {e \in Position : Pool[e].type = type}))
        = Members(graph) \cap {e \in Position : Pool[e].type = type}
  BY <1>1, Selected
<1>3. Typed(graph, type) \in Seq(Position) /\ Distinct(Typed(graph, type))
  BY <1>1, Selected DEF Typed
<1> QED
  BY <1>2, <1>3 DEF Typed

LEMMA MarkedList ==
  ASSUME NEW s \in Seq(Position), NEW mark
  PROVE  /\ Marked(s, mark) \in Seq(Position) /\ NotMarked(s, mark) \in Seq(Position)
         /\ Distinct(s) => Distinct(Marked(s, mark)) /\ Distinct(NotMarked(s, mark))
         /\ Members(Marked(s, mark)) = {e \in Members(s) : Pool[e].mark = mark}
         /\ Members(NotMarked(s, mark)) = {e \in Members(s) : Pool[e].mark # mark}
<1>1. Members(s) \subseteq Position
  BY ListEmpty
<1>2. /\ Members(Among(s, {e \in Position : Pool[e].mark = mark}))
           = Members(s) \cap {e \in Position : Pool[e].mark = mark}
      /\ Members(Among(s, {e \in Position : Pool[e].mark # mark}))
           = Members(s) \cap {e \in Position : Pool[e].mark # mark}
  BY Selected
<1>3. /\ Marked(s, mark) \in Seq(Position) /\ NotMarked(s, mark) \in Seq(Position)
      /\ Distinct(s) => Distinct(Marked(s, mark)) /\ Distinct(NotMarked(s, mark))
  BY Selected DEF Marked, NotMarked
<1>4. Members(Marked(s, mark)) = {e \in Members(s) : Pool[e].mark = mark}
  BY <1>1, <1>2 DEF Marked
<1>5. Members(NotMarked(s, mark)) = {e \in Members(s) : Pool[e].mark # mark}
  BY <1>1, <1>2 DEF NotMarked
<1> QED
  BY <1>3, <1>4, <1>5

\* The hierarchy of the executive lens divides the people, and has somebody at its head.
Divided(h, people) ==
    /\ h.chiefs \in Seq(Position) /\ h.leads \in Seq(Position) /\ h.staff \in Seq(Position)
    /\ Distinct(h.leads)
    /\ Members(h.chiefs) \cup Members(h.leads) \cup Members(h.staff) = Members(people)
    /\ Members(h.chiefs) \cap Members(h.leads) = {}
    /\ Members(h.chiefs) \cap Members(h.staff) = {}
    /\ Members(h.leads) \cap Members(h.staff) = {}
    /\ Members(people) # {} => h.chiefs # <<>>

LEMMA HierarchyDivides ==
  ASSUME NEW people \in Seq(Position), Distinct(people)
  PROVE  Divided(Hierarchy(people), people)
<1> DEFINE chiefs == Marked(people, "executive")
           leads == Marked(people, "lead")
           others == NotMarked(people, "executive")
           staff == NotMarked(others, "lead")
           h == Hierarchy(people)
<1>1. /\ chiefs \in Seq(Position) /\ leads \in Seq(Position) /\ staff \in Seq(Position)
      /\ Distinct(chiefs) /\ Distinct(leads) /\ Distinct(staff)
      /\ Members(chiefs) = {e \in Members(people) : Pool[e].mark = "executive"}
      /\ Members(leads) = {e \in Members(people) : Pool[e].mark = "lead"}
      /\ Members(staff) = {e \in Members(people) : Pool[e].mark # "executive" /\ Pool[e].mark # "lead"}
  <2>1. others \in Seq(Position) /\ Distinct(others)
        /\ Members(others) = {e \in Members(people) : Pool[e].mark # "executive"}
    BY MarkedList
  <2> HIDE DEF others
  <2>2. staff \in Seq(Position) /\ Distinct(staff) /\ Members(staff) = {e \in Members(others) : Pool[e].mark # "lead"}
    BY <2>1, MarkedList
  <2>3. /\ chiefs \in Seq(Position) /\ leads \in Seq(Position) /\ Distinct(chiefs) /\ Distinct(leads)
        /\ Members(chiefs) = {e \in Members(people) : Pool[e].mark = "executive"}
        /\ Members(leads) = {e \in Members(people) : Pool[e].mark = "lead"}
    BY MarkedList
  <2> HIDE DEF chiefs, leads, staff
  <2> QED
    BY <2>1, <2>2, <2>3
<1>2. /\ chiefs # <<>> => h = [chiefs |-> chiefs, leads |-> leads, staff |-> staff]
      /\ chiefs = <<>> /\ leads # <<>>
           => h = [chiefs |-> Front(leads, 1), leads |-> Back(leads, 1), staff |-> staff]
      /\ chiefs = <<>> /\ leads = <<>>
           => h = [chiefs |-> Front(staff, 1), leads |-> <<>>, staff |-> Back(staff, 1)]
  BY DEF Hierarchy
<1> HIDE DEF chiefs, leads, others, staff, h
<1>3. /\ Members(chiefs) \cup Members(leads) \cup Members(staff) = Members(people)
      /\ Members(chiefs) \cap Members(leads) = {}
      /\ Members(chiefs) \cap Members(staff) = {}
      /\ Members(leads) \cap Members(staff) = {}
  BY <1>1
<1>4. /\ chiefs = <<>> <=> Members(chiefs) = {}
      /\ leads = <<>> <=> Members(leads) = {}
      /\ staff = <<>> <=> Members(staff) = {}
  BY <1>1, ListEmpty
<1>5. CASE chiefs # <<>>
  <2>1. h.chiefs = chiefs /\ h.leads = leads /\ h.staff = staff
    BY <1>2, <1>5
  <2>2. Divided(h, people)
    BY <1>1, <1>3, <1>5, <2>1 DEF Divided
  <2> QED
    BY <2>2 DEF h
<1>6. CASE chiefs = <<>> /\ leads # <<>>
  <2>1. h.chiefs = Front(leads, 1) /\ h.leads = Back(leads, 1) /\ h.staff = staff
    BY <1>2, <1>6
  <2>2. /\ Front(leads, 1) \in Seq(Position) /\ Back(leads, 1) \in Seq(Position)
        /\ Members(Front(leads, 1)) \cup Members(Back(leads, 1)) = Members(leads)
        /\ Members(Front(leads, 1)) \cap Members(Back(leads, 1)) = {}
        /\ Distinct(Back(leads, 1)) /\ Front(leads, 1) # <<>>
    BY <1>1, <1>6, FirstAndRest
  <2>3. Divided(h, people)
    BY <1>1, <1>3, <1>4, <1>6, <2>1, <2>2 DEF Divided
  <2> QED
    BY <2>3 DEF h
<1>7. CASE chiefs = <<>> /\ leads = <<>>
  <2>1. h.chiefs = Front(staff, 1) /\ h.leads = <<>> /\ h.staff = Back(staff, 1)
    BY <1>2, <1>7
  <2>2. /\ Front(staff, 1) \in Seq(Position) /\ Back(staff, 1) \in Seq(Position)
        /\ Members(Front(staff, 1)) \cup Members(Back(staff, 1)) = Members(staff)
        /\ Members(Front(staff, 1)) \cap Members(Back(staff, 1)) = {}
        /\ staff # <<>> => Front(staff, 1) # <<>>
    BY <1>1, FirstAndRest
  <2>3. <<>> \in Seq(Position) /\ Distinct(<<>>) /\ Members(<<>>) = {}
    BY DEF Distinct, Members
  <2>4. Members(people) # {} => Front(staff, 1) # <<>>
    BY <1>3, <1>4, <1>7, <2>2
  <2>5. Divided(h, people)
    BY <1>3, <1>4, <1>7, <2>1, <2>2, <2>3, <2>4 DEF Divided
  <2> QED
    BY <2>5 DEF h
<1> QED
  BY <1>5, <1>6, <1>7

Caps == {"leads", "chiefs", "composite_leads", "documents", "subdomains", "origins", "composite_subdomains"}

LEMMA CapsArePositive ==
  /\ \A c \in Caps : Cap[c] \in Nat /\ Cap[c] > 0
  /\ "leads" \in Caps /\ "chiefs" \in Caps /\ "composite_leads" \in Caps /\ "documents" \in Caps
  /\ "subdomains" \in Caps /\ "origins" \in Caps /\ "composite_subdomains" \in Caps
BY ViewAssumption DEF Caps

\* The roster and the gateway are no entities.
LEMMA MadeUp == Roster \notin Position /\ Gateway \notin Position /\ Roster # Gateway
<1>1. Len(Pool) \in Nat /\ Position = 1..Len(Pool)
  BY ViewAssumption DEF Position
<1> QED
  BY <1>1 DEF Roster, Gateway

\* What the cap cuts off the leads is on the roster, which there is since somebody is at the head.
LEMMA ExecutiveDivides ==
  ASSUME NEW graph, IsGraph(graph)
  PROVE  Divides(Lens(graph, {}, "executive"), PeopleOf(Members(graph)))
<1> DEFINE people == Typed(graph, "person")
           h == Hierarchy(people)
           shown == Front(h.leads, Cap.leads)
           later == Back(h.leads, Cap.leads)
           staff == Members(h.staff) \cup Members(later)
           view == ExecutiveView(graph)
           others == Members(Typed(graph, "organization")) \cup PrimaryDomain(graph)
                       \cup Members(Typed(graph, "document"))
<1>1. people \in Seq(Position) /\ Distinct(people) /\ Members(people) = PeopleOf(Members(graph))
  <2>1. \A p : p \in Members(people) <=> p \in PeopleOf(Members(graph))
    BY TypedList DEF PeopleOf
  <2> QED
    BY <2>1, TypedList
<1>2. Divided(h, people)
  BY <1>1, HierarchyDivides
<1>3. \E roster \in SUBSET {Roster} :
        /\ view.nodes = others \cup Members(h.chiefs) \cup Members(shown) \cup roster
        /\ view.staff = IF roster = {} THEN {} ELSE staff
        /\ staff # {} /\ h.chiefs # <<>> => roster # {}
  <2> DEFINE parent == IF h.chiefs # <<>> THEN FirstOf(h.chiefs) ELSE FirstOf(Typed(graph, "organization"))
             roster == IF staff # {} /\ parent # {} THEN {Roster} ELSE {}
  <2>1. /\ view.nodes = Members(Typed(graph, "organization")) \cup PrimaryDomain(graph) \cup Members(h.chiefs)
                          \cup Members(shown) \cup roster \cup Members(Typed(graph, "document"))
        /\ view.staff = IF roster = {} THEN {} ELSE staff
    BY DEF ExecutiveView, View
  <2>2. h.chiefs # <<>> => FirstOf(h.chiefs) # {}
    <3>1. h.chiefs \in Seq(Position)
      BY <1>2 DEF Divided
    <3>2. \A s \in Seq(Position) : s # <<>> => FirstOf(s) = {s[1]}
      BY FirstAndRest
    <3> HIDE DEF h
    <3> QED
      BY <3>1, <3>2
  <2> HIDE DEF h, shown, later, staff, view
  <2>3. roster \in SUBSET {Roster} /\ (staff # {} /\ h.chiefs # <<>> => roster # {})
    BY <2>2
  <2> HIDE DEF roster
  <2> QED
    BY <2>1, <2>3
<1>4. \A p \in others : p \in Position => Pool[p].type # "person"
  <2>1. \A p \in Members(Typed(graph, "organization")) \cup Members(Typed(graph, "document")) : Pool[p].type # "person"
    BY TypedList
  <2>2. \A p \in PrimaryDomain(graph) : Pool[p].type # "person"
    <3>1. PrimaryDomain(graph) \subseteq Members(Typed(graph, "domain"))
      BY DEF PrimaryDomain, Members
    <3> QED
      BY <3>1, TypedList
  <2> QED
    BY <2>1, <2>2
<1>5. /\ Members(shown) \cup Members(later) = Members(h.leads)
      /\ Members(shown) \cap Members(later) = {}
  <2>1. h.leads \in Seq(Position) /\ Distinct(h.leads) /\ Cap.leads \in Nat
    BY <1>2, CapsArePositive DEF Divided
  <2> HIDE DEF h
  <2> QED
    BY <2>1, FrontAndBack
<1>6. Lens(graph, {}, "executive") = OrRaw(view, graph, {})
  BY DEF Lens
<1> HIDE DEF people, h, shown, later, others, view
<1>7. PICK roster \in SUBSET {Roster} :
        /\ view.nodes = others \cup Members(h.chiefs) \cup Members(shown) \cup roster
        /\ view.staff = IF roster = {} THEN {} ELSE staff
        /\ staff # {} /\ h.chiefs # <<>> => roster # {}
  BY <1>3
<1>8. /\ Members(h.chiefs) \cup Members(h.leads) \cup Members(h.staff) = Members(people)
      /\ Members(h.chiefs) \cap Members(h.leads) = {}
      /\ Members(h.chiefs) \cap Members(h.staff) = {}
      /\ Members(h.leads) \cap Members(h.staff) = {}
      /\ Members(people) # {} => h.chiefs # <<>>
  BY <1>2 DEF Divided
<1>9. PeopleOf(view.nodes) = Members(h.chiefs) \cup Members(shown)
  <2>1. \A p \in Members(people) : p \in Position /\ Pool[p].type = "person"
    BY <1>1 DEF PeopleOf
  <2>2. \A p : p \in PeopleOf(view.nodes) <=> p \in view.nodes /\ p \in Position /\ Pool[p].type = "person"
    BY DEF PeopleOf
  <2>3. ASSUME NEW p \in PeopleOf(view.nodes) PROVE p \in Members(h.chiefs) \cup Members(shown)
    <3>1. p \in view.nodes /\ p \in Position /\ Pool[p].type = "person"
      BY <2>2
    <3>2. p \notin others /\ p \notin roster
      BY <1>4, <3>1, MadeUp
    <3> QED
      BY <1>7, <3>1, <3>2
  <2>4. ASSUME NEW p \in Members(h.chiefs) \cup Members(shown) PROVE p \in PeopleOf(view.nodes)
    <3>1. p \in Members(people)
      BY <1>5, <1>8
    <3> QED
      BY <1>7, <2>1, <2>2, <3>1
  <2> QED
    BY <2>3, <2>4
<1>10. staff \subseteq Members(people) /\ view.staff = staff
  <2>1. staff \subseteq Members(people)
    BY <1>5, <1>8
  <2>2. staff # {} => roster # {}
    BY <1>7, <1>8, <2>1
  <2> QED
    BY <1>7, <2>1, <2>2
<1>11. Divides(view, Members(people))
  BY <1>5, <1>8, <1>9, <1>10 DEF Divides
<1>12. CASE view.nodes = {}
  <2>1. Members(people) = {}
    <3>1. Members(h.chiefs) = {} /\ h.chiefs \in Seq(Position)
      BY <1>2, <1>7, <1>12 DEF Divided
    <3> QED
      BY <1>8, <3>1, ListEmpty
  <2>2. /\ Lens(graph, {}, "executive").nodes = Members(graph)
        /\ Lens(graph, {}, "executive").staff = {}
    BY <1>6, <1>12 DEF OrRaw, RawView, View
  <2> QED
    BY <1>1, <2>1, <2>2 DEF Divides
<1>13. CASE view.nodes # {}
  <2>1. Lens(graph, {}, "executive") = view
    BY <1>6, <1>13 DEF OrRaw
  <2> QED
    BY <1>1, <1>11, <2>1
<1> QED
  BY <1>12, <1>13

LEMMA PrimaryIsDomain ==
  ASSUME NEW graph, IsGraph(graph)
  PROVE  PrimaryDomain(graph) \subseteq Members(Typed(graph, "domain"))
BY DEF PrimaryDomain, Members

\* The hierarchy of the composite lens is one of its people, and has somebody at its head.
LEMMA CompositeHierarchyIs ==
  ASSUME NEW people \in Seq(Position)
  PROVE  /\ CompositeHierarchy(people).chiefs \in Seq(Position) /\ CompositeHierarchy(people).leads \in Seq(Position)
         /\ Members(CompositeHierarchy(people).chiefs) \subseteq Members(people)
         /\ Members(CompositeHierarchy(people).leads) \subseteq Members(people)
         /\ people # <<>> => CompositeHierarchy(people).chiefs # <<>>
         /\ people = <<>> => CompositeHierarchy(people).chiefs = <<>>
<1> DEFINE h == CompositeHierarchy(people)
           chiefs == Marked(people, "executive")
           leads == Marked(people, "lead")
           next == IF Len(people) > 1 THEN Front(Back(people, 1), 3) ELSE leads
<1>1. /\ chiefs \in Seq(Position) /\ leads \in Seq(Position)
      /\ Members(chiefs) \subseteq Members(people) /\ Members(leads) \subseteq Members(people)
  BY MarkedList
<1>2. /\ Front(people, 1) \in Seq(Position) /\ Back(people, 1) \in Seq(Position)
      /\ Members(Front(people, 1)) \subseteq Members(people) /\ Members(Back(people, 1)) \subseteq Members(people)
      /\ people # <<>> => Front(people, 1) # <<>>
  BY FirstAndRest
<1>3. Front(Back(people, 1), 3) \in Seq(Position) /\ Members(Front(Back(people, 1), 3)) \subseteq Members(Back(people, 1))
  BY <1>2, FrontIs
<1>4. /\ chiefs = <<>> /\ people # <<>> => h.chiefs = Front(people, 1) /\ h.leads = next
      /\ ~(chiefs = <<>> /\ people # <<>>) => h.chiefs = chiefs /\ h.leads = leads
  BY DEF CompositeHierarchy
<1>5. next \in Seq(Position) /\ Members(next) \subseteq Members(people)
  <2> HIDE DEF leads
  <2> QED
    BY <1>1, <1>2, <1>3
<1>6. people = <<>> => chiefs = <<>>
  <2>1. people = <<>> => Members(people) = {}
    BY ListEmpty
  <2>2. Members(chiefs) = {} => chiefs = <<>>
    BY <1>1, ListEmpty
  <2> QED
    BY <1>1, <2>1, <2>2
<1> HIDE DEF h, chiefs, leads, next
<1>7. /\ h.chiefs \in Seq(Position) /\ h.leads \in Seq(Position)
      /\ Members(h.chiefs) \subseteq Members(people) /\ Members(h.leads) \subseteq Members(people)
      /\ people # <<>> => h.chiefs # <<>>
      /\ people = <<>> => h.chiefs = <<>>
  BY <1>1, <1>2, <1>4, <1>5, <1>6
<1> QED
  BY <1>7 DEF h

\* The roster is whoever is not shown.
LEMMA CompositeDivides ==
  ASSUME NEW graph, IsGraph(graph)
  PROVE  Divides(Lens(graph, {}, "composite"), PeopleOf(Members(graph)))
<1> DEFINE people == Typed(graph, "person")
           h == CompositeHierarchy(people)
           shown == Members(Front(h.chiefs, Cap.chiefs)) \cup Members(Front(h.leads, Cap.composite_leads))
           staff == Members(people) \ shown
           view == CompositeView(graph)
           parent == IF h.chiefs # <<>> THEN FirstOf(h.chiefs) ELSE FirstOf(Typed(graph, "organization"))
           roster == IF staff # {} /\ parent # {} THEN {Roster} ELSE {}
           domain == FirstOf(Typed(graph, "domain"))
           own == Typed(graph, "subdomain")
           sensitive == Marked(own, "sensitive")
           docs == Members(Front(Typed(graph, "document"), Cap.documents))
           subs == Members(Front(IF sensitive # <<>> THEN sensitive ELSE own, Cap.composite_subdomains))
           host == IF domain # {} THEN FirstOf(Origins(graph)) ELSE {}
           vulns == {v \in Members(Typed(graph, "vulnerability")) : Pool[v].mark = "grave"}
           others == Members(Typed(graph, "organization")) \cup PrimaryDomain(graph) \cup docs
                       \cup subs \cup host \cup vulns
<1>1. people \in Seq(Position) /\ Members(people) = PeopleOf(Members(graph))
  <2>1. \A p : p \in Members(people) <=> p \in PeopleOf(Members(graph))
    BY TypedList DEF PeopleOf
  <2> QED
    BY <2>1, TypedList
<1>2. /\ h.chiefs \in Seq(Position) /\ h.leads \in Seq(Position)
      /\ Members(h.chiefs) \subseteq Members(people) /\ Members(h.leads) \subseteq Members(people)
      /\ people # <<>> => h.chiefs # <<>>
  BY <1>1, CompositeHierarchyIs
<1>3. view.nodes = Members(Typed(graph, "organization")) \cup PrimaryDomain(graph) \cup shown \cup roster \cup docs
                     \cup subs \cup host \cup vulns
  BY DEF CompositeView, View
<1>4. view.staff = IF roster = {} THEN {} ELSE staff
  BY DEF CompositeView, View
<1>5. Lens(graph, {}, "composite") = OrRaw(view, graph, {})
  BY DEF Lens
<1>6. \A s \in Seq(Position), c \in Caps :
        /\ Front(s, Cap[c]) \in Seq(Position)
        /\ \A p \in Members(Front(s, Cap[c])) : p \in Members(s)
        /\ s # <<>> => Members(Front(s, Cap[c])) # {}
  BY CapsArePositive, FrontIs
<1>7. \A s \in Seq(Position) : /\ FirstOf(s) \subseteq Members(s)
                               /\ s # <<>> => FirstOf(s) # {}
  <2>1. 0 \in Nat
    OBVIOUS
  <2> QED
    BY <2>1, FrontIs
<1>8. \A p \in others : Pool[p].type # "person"
  <2>1. \A p \in docs : Pool[p].type # "person"
    <3>1. Typed(graph, "document") \in Seq(Position) /\ \A p \in Members(Typed(graph, "document")) : Pool[p].type = "document"
      BY TypedList
    <3>2. docs \subseteq Members(Typed(graph, "document"))
      BY <1>6, <3>1, CapsArePositive
    <3> QED
      BY <3>1, <3>2
  <2>2. \A p \in subs : Pool[p].type # "person"
    <3>1. own \in Seq(Position) /\ \A p \in Members(own) : Pool[p].type = "subdomain"
      BY TypedList
    <3>2. sensitive \in Seq(Position) /\ Members(sensitive) \subseteq Members(own)
      BY <3>1, MarkedList
    <3> HIDE DEF own, sensitive
    <3> QED
      BY <1>6, <3>1, <3>2, CapsArePositive
  <2>3. \A p \in host : Pool[p].type # "person"
    <3>1. Typed(graph, "ip") \in Seq(Position) /\ \A p \in Members(Typed(graph, "ip")) : Pool[p].type = "ip"
      BY TypedList
    <3>2. Origins(graph) \in Seq(Position) /\ Members(Origins(graph)) \subseteq Members(Typed(graph, "ip"))
      BY <3>1, MarkedList DEF Origins
    <3>3. host \subseteq FirstOf(Origins(graph))
      OBVIOUS
    <3> HIDE DEF host
    <3> QED
      BY <1>7, <3>1, <3>2, <3>3
  <2>4. \A p \in vulns : Pool[p].type # "person"
    BY TypedList
  <2>5. \A p \in Members(Typed(graph, "organization")) \cup PrimaryDomain(graph) : Pool[p].type # "person"
    BY PrimaryIsDomain, TypedList
  <2> HIDE DEF docs, subs, host, vulns
  <2> QED
    BY <2>1, <2>2, <2>3, <2>4, <2>5
<1>9. shown \subseteq Members(people)
  <2> HIDE DEF h
  <2>1. /\ Members(Front(h.chiefs, Cap.chiefs)) \subseteq Members(h.chiefs)
        /\ Members(Front(h.leads, Cap.composite_leads)) \subseteq Members(h.leads)
    BY <1>2, <1>6, CapsArePositive
  <2> QED
    BY <1>2, <2>1
<1>10. staff # {} => roster # {}
  <2> HIDE DEF h, shown, people
  <2>1. staff # {} => people # <<>>
    BY <1>1, ListEmpty
  <2> QED
    BY <1>2, <1>7, <2>1
<1>11. roster \in SUBSET {Roster}
  OBVIOUS
<1>12. shown # {} \/ Members(people) = {}
  <2> HIDE DEF h, people
  <2>2. people # <<>> => Members(Front(h.chiefs, Cap.chiefs)) # {}
    BY <1>2, <1>6, CapsArePositive
  <2>3. people = <<>> => Members(people) = {}
    BY <1>1, ListEmpty
  <2> QED
    BY <2>2, <2>3
<1> HIDE DEF roster, view
<1>13. view.nodes = others \cup shown \cup roster
  BY <1>3
<1> HIDE DEF people, h, shown, others
<1>14. PeopleOf(view.nodes) = shown
  <2>1. \A p \in Members(people) : p \in Position /\ Pool[p].type = "person"
    BY <1>1 DEF PeopleOf
  <2>2. \A p : p \in PeopleOf(view.nodes) <=> p \in view.nodes /\ p \in Position /\ Pool[p].type = "person"
    BY DEF PeopleOf
  <2>3. ASSUME NEW p \in PeopleOf(view.nodes) PROVE p \in shown
    <3>1. p \in view.nodes /\ p \in Position /\ Pool[p].type = "person"
      BY <2>2
    <3>2. p \notin others /\ p \notin roster
      BY <1>8, <1>11, <3>1, MadeUp
    <3> QED
      BY <1>13, <3>1, <3>2
  <2>4. ASSUME NEW p \in shown PROVE p \in PeopleOf(view.nodes)
    BY <1>9, <1>13, <2>1, <2>2
  <2> QED
    BY <2>3, <2>4
<1>15. Divides(view, Members(people))
  BY <1>4, <1>9, <1>10, <1>14 DEF Divides
<1>16. CASE view.nodes = {}
  <2>1. Members(people) = {}
    BY <1>12, <1>13, <1>16
  <2>2. /\ Lens(graph, {}, "composite").nodes = Members(graph)
        /\ Lens(graph, {}, "composite").staff = {}
    BY <1>5, <1>16 DEF OrRaw, RawView, View
  <2> QED
    BY <1>1, <2>1, <2>2 DEF Divides
<1>17. CASE view.nodes # {}
  <2>1. Lens(graph, {}, "composite") = view
    BY <1>5, <1>17 DEF OrRaw
  <2> QED
    BY <1>1, <1>15, <2>1
<1> QED
  BY <1>16, <1>17

LEMMA EverybodyAccountedFor ==
  ASSUME NEW graph, IsGraph(graph)
  PROVE  AllAccountedFor(graph)
BY ExecutiveDivides, CompositeDivides DEF AllAccountedFor

\* What is reached from the root of a view in at most three steps.
Beyond(view, B) == B \cup {e[2] : e \in {x \in view.edges : x[1] \in B}}
Linked(view, a, b) == <<a, b>> \in view.edges
Chained(view, root, n) ==
    \/ n = root
    \/ Linked(view, root, n)
    \/ \E a : Linked(view, root, a) /\ Linked(view, a, n)
    \/ \E a, b : Linked(view, root, a) /\ Linked(view, a, b) /\ Linked(view, b, n)

\* Three rounds of Reached, written out.
LEMMA ReachedIs ==
  ASSUME NEW view, NEW root
  PROVE  Reached(view, root) = Beyond(view, Beyond(view, Beyond(view, {root})))
<1> DEFINE Solves(f) == f = [n \in 0..3 |-> IF n = 0 THEN {root} ELSE Beyond(view, f[n - 1])]
           one == Beyond(view, {root})
           two == Beyond(view, one)
           three == Beyond(view, two)
           known == [n \in 0..3 |-> IF n = 0 THEN {root} ELSE IF n = 1 THEN one ELSE IF n = 2 THEN two ELSE three]
<1>1. Solves(known)
  <2>1. known[0] = {root} /\ known[1] = one /\ known[2] = two /\ known[3] = three
    OBVIOUS
  <2>2. \A n \in 0..3 : n = 0 \/ n = 1 \/ n = 2 \/ n = 3
    OBVIOUS
  <2>3. ASSUME NEW n \in 0..3 PROVE known[n] = IF n = 0 THEN {root} ELSE Beyond(view, known[n - 1])
    <3> HIDE DEF known
    <3>1. CASE n = 0
      BY <2>1, <3>1
    <3>2. CASE n = 1
      BY <2>1, <3>2
    <3>3. CASE n = 2
      BY <2>1, <3>3
    <3>4. CASE n = 3
      BY <2>1, <3>4
    <3> QED
      BY <2>2, <3>1, <3>2, <3>3, <3>4
  <2> HIDE DEF one, two, three
  <2> QED
    BY <2>3
<1> DEFINE ball == CHOOSE f : Solves(f)
<1>2. Solves(ball)
  <2> HIDE DEF Solves, known
  <2> QED
    BY <1>1
<1>3. Reached(view, root) = ball[3]
  BY DEF Reached, Beyond
<1> HIDE DEF ball
<1>4. ball[0] = {root} /\ ball[1] = Beyond(view, ball[0]) /\ ball[2] = Beyond(view, ball[1]) /\ ball[3] = Beyond(view, ball[2])
  <2>1. \A n \in 0..3 : ball[n] = IF n = 0 THEN {root} ELSE Beyond(view, ball[n - 1])
    BY <1>2
  <2>2. ball[0] = {root} /\ ball[1] = Beyond(view, ball[1 - 1]) /\ ball[2] = Beyond(view, ball[2 - 1]) /\ ball[3] = Beyond(view, ball[3 - 1])
    BY <2>1
  <2> QED
    BY <2>2
<1> QED
  BY <1>3, <1>4

\* Chains of at most three edges to all nodes hang a view together.
LEMMA ChainsReach ==
  ASSUME NEW view, NEW root, root \in view.nodes,
         \A e \in view.edges : e[2] \in view.nodes,
         \A n \in view.nodes : Chained(view, root, n)
  PROVE  Rooted(view, root)
<1> DEFINE one == Beyond(view, {root})
           two == Beyond(view, one)
           three == Beyond(view, two)
<1>1. \A B : /\ B \subseteq Beyond(view, B)
             /\ \A a, b : a \in B /\ Linked(view, a, b) => b \in Beyond(view, B)
             /\ B \subseteq view.nodes => Beyond(view, B) \subseteq view.nodes
  <2> TAKE B
  <2>1. \A a, b : a \in B /\ Linked(view, a, b) => b \in Beyond(view, B)
    <3> SUFFICES ASSUME NEW a, NEW b, a \in B, Linked(view, a, b) PROVE b \in Beyond(view, B)
      OBVIOUS
    <3>1. <<a, b>> \in {x \in view.edges : x[1] \in B} /\ <<a, b>>[2] = b
      BY DEF Linked
    <3>2. <<a, b>>[2] \in {e[2] : e \in {x \in view.edges : x[1] \in B}}
      BY <3>1
    <3> QED
      BY <3>1, <3>2 DEF Beyond
  <2>2. B \subseteq Beyond(view, B) /\ (B \subseteq view.nodes => Beyond(view, B) \subseteq view.nodes)
    BY DEF Beyond
  <2> QED
    BY <2>1, <2>2
<1>2. Reached(view, root) = three
  BY ReachedIs
<1>3. three \subseteq view.nodes
  <2>1. {root} \subseteq view.nodes
    OBVIOUS
  <2>2. one \subseteq view.nodes
    BY <1>1, <2>1
  <2> HIDE DEF one
  <2>3. two \subseteq view.nodes
    BY <1>1, <2>2
  <2> HIDE DEF two
  <2> QED
    BY <1>1, <2>3
<1>4. ASSUME NEW n \in view.nodes PROVE n \in three
  <2>1. root \in one /\ (\A a : Linked(view, root, a) => a \in one)
    BY <1>1
  <2> HIDE DEF one
  <2>2. one \subseteq two /\ (\A a, b : a \in one /\ Linked(view, a, b) => b \in two)
    BY <1>1
  <2> HIDE DEF two
  <2>3. two \subseteq three /\ (\A a, b : a \in two /\ Linked(view, a, b) => b \in three)
    BY <1>1
  <2> HIDE DEF three
  <2>4. Chained(view, root, n)
    OBVIOUS
  <2> QED
    BY <2>1, <2>2, <2>3, <2>4 DEF Chained
<1>5. three = view.nodes
  <2> HIDE DEF three
  <2> QED
    BY <1>3, <1>4
<1> QED
  BY <1>2, <1>5 DEF Rooted

\* An edge of a view.
LEMMA ViewIs ==
  ASSUME NEW nodes, NEW edges, NEW staff
  PROVE  /\ View(nodes, edges, staff).nodes = nodes
         /\ \A a, b : a \in nodes /\ b \in nodes /\ <<a, b>> \in edges => Linked(View(nodes, edges, staff), a, b)
         /\ \A e \in View(nodes, edges, staff).edges : e[2] \in View(nodes, edges, staff).nodes
<1>1. ASSUME NEW a \in nodes, NEW b \in nodes, <<a, b>> \in edges PROVE Linked(View(nodes, edges, staff), a, b)
  <2>1. <<a, b>>[1] = a /\ <<a, b>>[2] = b
    OBVIOUS
  <2>2. <<a, b>> \in {e \in edges : e[1] \in nodes /\ e[2] \in nodes}
    BY <1>1, <2>1
  <2> QED
    BY <2>2 DEF View, Linked
<1> QED
  BY <1>1 DEF View

\* The only member of a list.
LEMMA OnlyMember ==
  ASSUME NEW T, NEW s \in Seq(T), Len(s) = 1
  PROVE  Members(s) = {s[1]} /\ FirstOf(s) = {s[1]} /\ s[1] \in T /\ s # <<>>
<1>1. DOMAIN s = 1..1 /\ 1..1 = {1}
  OBVIOUS
<1>2. Members(s) = {s[1]}
  BY <1>1 DEF Members
<1>3. s # <<>>
  BY <1>2, ListEmpty
<1> QED
  BY <1>2, <1>3, ListEmpty, FirstAndRest

\* The only domain is the primary one.
LEMMA OnlyDomain ==
  ASSUME NEW graph, IsGraph(graph), Len(Typed(graph, "domain")) = 1
  PROVE  PrimaryDomain(graph) = {Typed(graph, "domain")[1]} /\ FirstOf(Typed(graph, "domain")) = {Typed(graph, "domain")[1]}
<1> DEFINE domains == Typed(graph, "domain")
           first == {k \in DOMAIN domains : \A j \in DOMAIN domains :
                       \/ Pool[domains[k]].len < Pool[domains[j]].len
                       \/ Pool[domains[k]].len = Pool[domains[j]].len /\ k <= j}
<1>1. domains \in Seq(Position)
  BY TypedList
<1>2. PrimaryDomain(graph) = {domains[k] : k \in first}
  BY DEF PrimaryDomain
<1> HIDE DEF domains
<1>3. DOMAIN domains = {1}
  <2>1. Len(domains) = 1
    BY DEF domains
  <2> QED
    BY <1>1, <2>1
<1>4. first = {1}
  BY <1>3
<1>5. FirstOf(domains) = {domains[1]}
  <2>1. Len(domains) = 1
    BY DEF domains
  <2> QED
    BY <1>1, <2>1, OnlyMember
<1> HIDE DEF first
<1> QED
  BY <1>2, <1>4, <1>5 DEF domains

\* Each lens has a chain to each kind of node; what hangs on the first of a list hangs on a node that is
\* shown, since no cap is zero.
LEMMA AttackSurfaceHangs ==
  ASSUME NEW graph, IsGraph(graph), Len(Typed(graph, "domain")) = 1
  PROVE  Rooted(Lens(graph, {}, "attack_surface"), Typed(graph, "domain")[1])
<1> DEFINE d == Typed(graph, "domain")[1]
           root == PrimaryDomain(graph)
           origins == Origins(graph)
           subs == Members(Front(RankedSubdomains(graph), Cap.subdomains))
           hosts == Members(Front(origins, Cap.origins))
           gateway == IF root # {} /\ Marked(Typed(graph, "ip"), "cdn") # <<>> THEN {Gateway} ELSE {}
           anchor == IF origins # <<>> THEN FirstOf(origins) ELSE root
           vulns == {v \in Members(Typed(graph, "vulnerability")) : Pool[v].mark \in {"grave", "medium"}}
           nodes == root \cup subs \cup hosts \cup gateway \cup vulns
           edges == From(root, subs \cup hosts \cup gateway) \cup From(anchor, vulns)
           view == View(nodes, edges, {})
<1>1. root = {d}
  BY OnlyDomain
<1>2. origins \in Seq(Position)
  BY TypedList, MarkedList DEF Origins
<1>3. Lens(graph, {}, "attack_surface") = OrRaw(view, graph, {})
  BY DEF Lens, AttackSurfaceView
<1>4. origins # <<>> => FirstOf(origins) # {} /\ FirstOf(origins) \subseteq hosts
  <2>1. Cap.origins \in Nat /\ Cap.origins > 0
    BY CapsArePositive DEF Caps
  <2> HIDE DEF origins
  <2> QED
    BY <1>2, <2>1, FrontIs
<1> HIDE DEF d, root, origins, subs, hosts, gateway, vulns
<1>5. /\ anchor # {}
      /\ \A a \in anchor : a = d \/ a \in hosts
  BY <1>1, <1>4
<1> HIDE DEF anchor
<1>6. /\ \A n \in nodes : n = d \/ n \in subs \cup hosts \cup gateway \/ n \in vulns
      /\ d \in nodes
      /\ \A n \in subs \cup hosts \cup gateway : n \in nodes /\ <<d, n>> \in edges
      /\ \A a \in anchor, n \in vulns : n \in nodes /\ a \in nodes /\ <<a, n>> \in edges
  BY <1>1, <1>5 DEF From
<1> HIDE DEF nodes, edges
<1>7. /\ view.nodes = nodes
      /\ \A a, b : a \in nodes /\ b \in nodes /\ <<a, b>> \in edges => Linked(view, a, b)
      /\ \A e \in view.edges : e[2] \in view.nodes
  BY ViewIs
<1> HIDE DEF view
<1>8. ASSUME NEW n \in view.nodes PROVE Chained(view, d, n)
  <2>1. CASE n = d
    BY <2>1 DEF Chained
  <2>2. CASE n \in subs \cup hosts \cup gateway
    BY <1>6, <1>7, <2>2 DEF Chained
  <2>3. CASE n \in vulns
    <3>1. PICK a \in anchor : a = d \/ a \in hosts
      BY <1>5
    <3>2. Linked(view, a, n)
      BY <1>6, <1>7, <2>3
    <3>3. a = d \/ Linked(view, d, a)
      BY <1>6, <1>7, <3>1
    <3> QED
      BY <3>2, <3>3 DEF Chained
  <2> QED
    BY <1>6, <1>7, <2>1, <2>2, <2>3
<1>9. Lens(graph, {}, "attack_surface") = view
  BY <1>3, <1>6, <1>7 DEF OrRaw
<1>10. Rooted(view, d)
  BY <1>6, <1>7, <1>8, ChainsReach
<1> QED
  BY <1>9, <1>10 DEF d

LEMMA ExecutiveHangs ==
  ASSUME NEW graph, IsGraph(graph),
         Len(Typed(graph, "organization")) = 1, Len(Typed(graph, "domain")) = 1
  PROVE  Rooted(Lens(graph, {}, "executive"), Typed(graph, "organization")[1])
<1> DEFINE o == Typed(graph, "organization")[1]
           people == Typed(graph, "person")
           orgs == Typed(graph, "organization")
           domain == PrimaryDomain(graph)
           docs == Members(Typed(graph, "document"))
           h == Hierarchy(people)
           list == Front(h.leads, Cap.leads)
           chiefs == Members(h.chiefs)
           shown == Members(list)
           staff == Members(h.staff) \cup Members(Back(h.leads, Cap.leads))
           parent == IF h.chiefs # <<>> THEN FirstOf(h.chiefs) ELSE FirstOf(orgs)
           anchor == IF h.leads # <<>> THEN FirstOf(h.leads) ELSE parent
           roster == IF staff # {} /\ parent # {} THEN {Roster} ELSE {}
           credited == {e \in docs : AuthorOf(graph, e) # {} /\ AuthorOf(graph, e) \subseteq chiefs \cup shown}
           signed == UNION {From(AuthorOf(graph, e), {e}) : e \in credited}
           nodes == Members(orgs) \cup domain \cup chiefs \cup shown \cup roster \cup docs
           edges == From(FirstOf(orgs), domain \cup chiefs)
                      \cup From(parent, shown)
                      \cup From(anchor, roster)
                      \cup signed
                      \cup From(FirstOf(Typed(graph, "domain")), docs \ credited)
           view == View(nodes, edges, IF roster = {} THEN {} ELSE staff)
<1>1. /\ Members(orgs) = {o} /\ FirstOf(orgs) = {o}
      /\ FirstOf(Typed(graph, "domain")) = domain /\ domain # {}
  <2>1. orgs \in Seq(Position)
    BY TypedList
  <2>2. Members(orgs) = {orgs[1]} /\ FirstOf(orgs) = {orgs[1]}
    BY <2>1, OnlyMember
  <2>3. domain = {Typed(graph, "domain")[1]} /\ FirstOf(Typed(graph, "domain")) = {Typed(graph, "domain")[1]}
    BY OnlyDomain
  <2> QED
    BY <2>2, <2>3
<1>2. h.chiefs \in Seq(Position) /\ h.leads \in Seq(Position)
  <2>1. people \in Seq(Position) /\ Distinct(people)
    BY TypedList
  <2> HIDE DEF people
  <2> QED
    BY <2>1, HierarchyDivides DEF Divided
<1>3. Lens(graph, {}, "executive") = OrRaw(view, graph, {})
  <2>1. ExecutiveView(graph) = view
    BY DEF ExecutiveView
  <2>2. Lens(graph, {}, "executive") = OrRaw(ExecutiveView(graph), graph, {})
    BY DEF Lens
  <2> HIDE DEF view
  <2> QED
    BY <2>1, <2>2
<1>4. h.leads # <<>> => FirstOf(h.leads) # {} /\ FirstOf(h.leads) \subseteq shown
  <2>1. Cap.leads \in Nat /\ Cap.leads > 0
    BY CapsArePositive DEF Caps
  <2> HIDE DEF h
  <2> QED
    BY <1>2, <2>1, FrontIs
<1>5. h.chiefs # <<>> => FirstOf(h.chiefs) # {} /\ FirstOf(h.chiefs) \subseteq chiefs
  <2>1. 0 \in Nat
    OBVIOUS
  <2> HIDE DEF h
  <2> QED
    BY <1>2, <2>1, FrontIs
<1>6. \A e \in credited : \E a \in chiefs \cup shown : <<a, e>> \in signed
  <2> SUFFICES ASSUME NEW e \in credited PROVE \E a \in chiefs \cup shown : <<a, e>> \in signed
    OBVIOUS
  <2>1. AuthorOf(graph, e) # {} /\ AuthorOf(graph, e) \subseteq chiefs \cup shown
    OBVIOUS
  <2>2. PICK a \in AuthorOf(graph, e) : TRUE
    BY <2>1
  <2>3. <<a, e>> \in From(AuthorOf(graph, e), {e})
    BY DEF From
  <2> HIDE DEF credited
  <2>4. <<a, e>> \in signed
    BY <2>3
  <2> QED
    BY <2>1, <2>4
<1>7. credited \subseteq docs
  OBVIOUS
<1> HIDE DEF o, people, orgs, domain, docs, h, list, chiefs, shown, staff, roster, credited, signed
<1>8. /\ parent # {}
      /\ \A a \in parent : a = o \/ a \in chiefs
  BY <1>1, <1>5
<1> HIDE DEF parent
<1>9. /\ anchor # {}
      /\ \A a \in anchor : a \in parent \/ a \in shown
  BY <1>4, <1>8
<1> HIDE DEF anchor
<1>10. /\ \A n \in nodes : n = o \/ n \in domain \cup chiefs \/ n \in shown \/ n \in roster
                             \/ n \in credited \/ n \in docs \ credited
       /\ o \in nodes
       /\ \A n \in domain \cup chiefs : n \in nodes /\ <<o, n>> \in edges
       /\ \A a \in parent, n \in shown : n \in nodes /\ <<a, n>> \in edges
       /\ \A a \in anchor, n \in roster : n \in nodes /\ <<a, n>> \in edges
       /\ \A a \in domain, n \in docs \ credited : n \in nodes /\ <<a, n>> \in edges
       /\ \A a \in chiefs \cup shown, n \in credited :
            <<a, n>> \in signed => n \in nodes /\ a \in nodes /\ <<a, n>> \in edges
  BY <1>1, <1>7 DEF From
<1> HIDE DEF nodes, edges
<1>11. /\ view.nodes = nodes
       /\ \A a, b : a \in nodes /\ b \in nodes /\ <<a, b>> \in edges => Linked(view, a, b)
       /\ \A e \in view.edges : e[2] \in view.nodes
  BY ViewIs
<1> HIDE DEF view
<1>12. /\ \A n \in domain \cup chiefs : Linked(view, o, n)
       /\ \A a \in parent : a = o \/ Linked(view, o, a)
       /\ \A a \in parent, n \in shown : Linked(view, a, n)
  BY <1>8, <1>10, <1>11
<1>13. \A n \in shown : Linked(view, o, n) \/ \E a : Linked(view, o, a) /\ Linked(view, a, n)
  BY <1>8, <1>12
<1>14. \A a \in anchor, n \in roster : Linked(view, a, n)
  BY <1>8, <1>9, <1>10, <1>11
<1>15. ASSUME NEW n \in view.nodes PROVE Chained(view, o, n)
  <2>1. CASE n = o
    BY <2>1 DEF Chained
  <2>2. CASE n \in domain \cup chiefs
    BY <1>12, <2>2 DEF Chained
  <2>3. CASE n \in shown
    BY <1>13, <2>3 DEF Chained
  <2>4. CASE n \in roster
    <3>1. PICK a \in anchor : a \in parent \/ a \in shown
      BY <1>9
    <3>2. Linked(view, a, n)
      BY <1>14, <2>4
    <3> QED
      BY <1>12, <1>13, <3>1, <3>2 DEF Chained
  <2>5. CASE n \in credited
    <3>1. PICK a \in chiefs \cup shown : <<a, n>> \in signed
      BY <1>6, <2>5
    <3>2. Linked(view, a, n)
      BY <1>10, <1>11, <2>5, <3>1
    <3> QED
      BY <1>12, <1>13, <3>1, <3>2 DEF Chained
  <2>6. CASE n \in docs \ credited
    <3>1. PICK a \in domain : TRUE
      BY <1>1
    <3>2. Linked(view, o, a) /\ Linked(view, a, n)
      BY <1>10, <1>11, <1>12, <2>6
    <3> QED
      BY <3>2 DEF Chained
  <2> QED
    BY <1>10, <1>11, <2>1, <2>2, <2>3, <2>4, <2>5, <2>6
<1>16. Lens(graph, {}, "executive") = view
  BY <1>3, <1>10, <1>11 DEF OrRaw
<1>17. Rooted(view, o)
  BY <1>10, <1>11, <1>15, ChainsReach
<1> QED
  BY <1>16, <1>17 DEF o

LEMMA CompositeHangs ==
  ASSUME NEW graph, IsGraph(graph),
         Len(Typed(graph, "organization")) = 1, Len(Typed(graph, "domain")) = 1
  PROVE  Rooted(Lens(graph, {}, "composite"), Typed(graph, "organization")[1])
<1> DEFINE o == Typed(graph, "organization")[1]
           orgs == Typed(graph, "organization")
           people == Typed(graph, "person")
           primary == PrimaryDomain(graph)
           h == CompositeHierarchy(people)
           chiefs == Members(Front(h.chiefs, Cap.chiefs))
           leads == Members(Front(h.leads, Cap.composite_leads))
           staff == Members(people) \ (chiefs \cup leads)
           parent == IF h.chiefs # <<>> THEN FirstOf(h.chiefs) ELSE FirstOf(orgs)
           roster == IF staff # {} /\ parent # {} THEN {Roster} ELSE {}
           docs == Members(Front(Typed(graph, "document"), Cap.documents))
           domain == FirstOf(Typed(graph, "domain"))
           own == Typed(graph, "subdomain")
           sensitive == Marked(own, "sensitive")
           subs == Members(Front(IF sensitive # <<>> THEN sensitive ELSE own, Cap.composite_subdomains))
           origins == Origins(graph)
           host == IF domain # {} THEN FirstOf(origins) ELSE {}
           anchor == IF origins # <<>> THEN FirstOf(origins) ELSE domain
           signer == IF h.chiefs # <<>> THEN FirstOf(h.chiefs) ELSE domain
           vulns == {v \in Members(Typed(graph, "vulnerability")) : Pool[v].mark = "grave"}
           nodes == Members(orgs) \cup primary \cup (chiefs \cup leads) \cup roster \cup docs
                      \cup subs \cup host \cup vulns
           edges == From(FirstOf(orgs), primary \cup chiefs)
                      \cup From(parent, roster \cup leads)
                      \cup From(signer, docs)
                      \cup From(domain, subs \cup host)
                      \cup From(anchor, vulns)
           view == View(nodes, edges, IF roster = {} THEN {} ELSE staff)
<1>1. /\ Members(orgs) = {o} /\ FirstOf(orgs) = {o}
      /\ domain = primary /\ domain # {}
  <2>1. orgs \in Seq(Position)
    BY TypedList
  <2>2. Members(orgs) = {orgs[1]} /\ FirstOf(orgs) = {orgs[1]}
    BY <2>1, OnlyMember
  <2>3. primary = {Typed(graph, "domain")[1]} /\ domain = {Typed(graph, "domain")[1]}
    BY OnlyDomain
  <2> QED
    BY <2>2, <2>3
<1>2. h.chiefs \in Seq(Position)
  <2>1. people \in Seq(Position)
    BY TypedList
  <2> HIDE DEF people
  <2> QED
    BY <2>1, CompositeHierarchyIs
<1>3. Lens(graph, {}, "composite") = OrRaw(view, graph, {})
  <2>1. CompositeView(graph) = view
    BY DEF CompositeView
  <2>2. Lens(graph, {}, "composite") = OrRaw(CompositeView(graph), graph, {})
    BY DEF Lens
  <2> HIDE DEF view
  <2> QED
    BY <2>1, <2>2
<1>4. h.chiefs # <<>> => FirstOf(h.chiefs) # {} /\ FirstOf(h.chiefs) \subseteq chiefs
  <2>1. Cap.chiefs \in Nat /\ Cap.chiefs > 0
    BY CapsArePositive DEF Caps
  <2> HIDE DEF h
  <2> QED
    BY <1>2, <2>1, FrontIs
<1>5. origins # <<>> => FirstOf(origins) # {}
  <2>1. origins \in Seq(Position) /\ 0 \in Nat
    BY TypedList, MarkedList DEF Origins
  <2> HIDE DEF origins
  <2> QED
    BY <2>1, FrontIs
<1> HIDE DEF o, orgs, people, primary, h, chiefs, leads, staff, roster, docs, domain, subs, origins, vulns
<1>6. /\ parent # {}
      /\ \A a \in parent : a = o \/ a \in chiefs
      /\ signer # {}
      /\ \A a \in signer : a \in chiefs \/ a \in domain
      /\ anchor # {}
      /\ \A a \in anchor : a \in host \/ a \in domain
  BY <1>1, <1>4, <1>5
<1> HIDE DEF parent, signer, host, anchor
<1>7. /\ \A n \in nodes : n = o \/ n \in domain \cup chiefs \/ n \in leads \cup roster
                            \/ n \in docs \/ n \in subs \cup host \/ n \in vulns
      /\ o \in nodes
      /\ \A n \in domain \cup chiefs : n \in nodes /\ <<o, n>> \in edges
      /\ \A a \in parent, n \in leads \cup roster : n \in nodes /\ <<a, n>> \in edges
      /\ \A a \in signer, n \in docs : n \in nodes /\ <<a, n>> \in edges
      /\ \A a \in domain, n \in subs \cup host : n \in nodes /\ <<a, n>> \in edges
      /\ \A n \in host : n \in nodes
      /\ \A a \in anchor, n \in vulns : n \in nodes /\ <<a, n>> \in edges
  BY <1>1 DEF From
<1> HIDE DEF nodes, edges
<1>8. /\ view.nodes = nodes
      /\ \A a, b : a \in nodes /\ b \in nodes /\ <<a, b>> \in edges => Linked(view, a, b)
      /\ \A e \in view.edges : e[2] \in view.nodes
  BY ViewIs
<1> HIDE DEF view
<1>9. /\ \A n \in domain \cup chiefs : Linked(view, o, n)
      /\ \A a \in parent, n \in leads \cup roster : Linked(view, a, n)
      /\ \A a \in signer, n \in docs : Linked(view, a, n)
      /\ \A a \in domain, n \in subs \cup host : Linked(view, a, n)
      /\ \A a \in anchor, n \in vulns : Linked(view, a, n)
  BY <1>6, <1>7, <1>8
<1>10. ASSUME NEW n \in view.nodes PROVE Chained(view, o, n)
  <2>1. CASE n = o
    BY <2>1 DEF Chained
  <2>2. CASE n \in domain \cup chiefs
    BY <1>9, <2>2 DEF Chained
  <2>3. CASE n \in leads \cup roster
    <3>1. PICK a \in parent : a = o \/ a \in chiefs
      BY <1>6
    <3> QED
      BY <1>9, <2>3, <3>1 DEF Chained
  <2>4. CASE n \in docs
    <3>1. PICK a \in signer : a \in chiefs \/ a \in domain
      BY <1>6
    <3> QED
      BY <1>9, <2>4, <3>1 DEF Chained
  <2>5. CASE n \in subs \cup host
    <3>1. PICK a \in domain : TRUE
      BY <1>1
    <3> QED
      BY <1>9, <2>5, <3>1 DEF Chained
  <2>6. CASE n \in vulns
    <3>1. PICK a \in anchor : a \in host \/ a \in domain
      BY <1>6
    <3>2. PICK d \in domain : TRUE
      BY <1>1
    <3>3. Linked(view, a, n) /\ Linked(view, o, d)
      BY <1>9, <2>6
    <3>4. Linked(view, o, a) \/ Linked(view, d, a)
      BY <1>9, <3>1
    <3> QED
      BY <3>3, <3>4 DEF Chained
  <2> QED
    BY <1>7, <1>8, <2>1, <2>2, <2>3, <2>4, <2>5, <2>6
<1>11. Lens(graph, {}, "composite") = view
  BY <1>3, <1>7, <1>8 DEF OrRaw
<1>12. Rooted(view, o)
  BY <1>7, <1>8, <1>10, ChainsReach
<1> QED
  BY <1>11, <1>12 DEF o

LEMMA ViewHangs ==
  ASSUME NEW graph, IsGraph(graph)
  PROVE  HangsTogether(graph)
BY AttackSurfaceHangs, ExecutiveHangs, CompositeHangs DEF HangsTogether

-----------------------------------------------------------------------------
(* Paths                                                                   *)

Beside(stored, B) == B \cup UNION {Neighbours(stored, m) : m \in B}
BallStep(f, stored, source, n) == IF n = 0 THEN {source} ELSE Beside(stored, f[n - 1])

\* The recursion of Within has a solution, so that Within is one.
LEMMA WithinEquation ==
  ASSUME NEW stored, NEW source, NEW depth \in Nat
  PROVE  \A n \in 0..depth : Within(stored, source, depth)[n]
                               = BallStep(Within(stored, source, depth), stored, source, n)
<1> DEFINE Solves(f, m) == f = [n \in 0..m |-> BallStep(f, stored, source, n)]
           M == {m \in Nat : \E f : Solves(f, m)}
<1>1. 0 \in M
  <2> DEFINE f == [n \in 0..0 |-> {source}]
  <2>1. Solves(f, 0)
    BY DEF BallStep
  <2> HIDE DEF Solves, f
  <2> QED
    BY <2>1
<1>2. ASSUME NEW m \in Nat, m \in M PROVE m + 1 \in M
  <2>1. PICK f : Solves(f, m)
    BY <1>2
  <2> DEFINE g == [n \in 0..m + 1 |-> IF n = m + 1 THEN BallStep(f, stored, source, n) ELSE f[n]]
  <2>2. ASSUME NEW n \in 0..m + 1 PROVE g[n] = BallStep(g, stored, source, n)
    <3>1. g[n] = BallStep(f, stored, source, n)
      <4>1. n \in 0..m => f[n] = BallStep(f, stored, source, n)
        BY <2>1
      <4> QED
        BY <4>1
    <3>2. n # 0 => g[n - 1] = f[n - 1]
      OBVIOUS
    <3> HIDE DEF g
    <3> QED
      BY <3>1, <3>2 DEF BallStep
  <2>3. Solves(g, m + 1)
    BY <2>2
  <2> HIDE DEF Solves, g
  <2> QED
    BY <2>3
<1>3. depth \in M
  <2> HIDE DEF M
  <2>1. \A n \in Nat : n \in M
    BY <1>1, <1>2, SetInduction
  <2> QED
    BY <2>1
<1>4. Solves(Within(stored, source, depth), depth)
  BY <1>3 DEF Within, BallStep, Beside
<1> QED
  BY <1>4

\* The nodes within n relationships are those within fewer, and their neighbours.
IsBall(W, stored, source, depth) ==
    /\ source \in W[0] /\ \A x \in W[0] : x = source
    /\ \A n \in 0..depth : \A x \in W[n] : x = source \/ x \in Position
    /\ \A n \in 0..depth - 1 : \A x :
         x \in W[n + 1] <=> x \in W[n] \/ \E m \in W[n] : x \in Neighbours(stored, m)
    /\ \A i, j \in 0..depth : i <= j => \A x \in W[i] : x \in W[j]

LEMMA WithinIsBall ==
  ASSUME NEW stored, NEW source, NEW depth \in Nat
  PROVE  IsBall(Within(stored, source, depth), stored, source, depth)
<1> DEFINE W == Within(stored, source, depth)
<1>1. \A n \in 0..depth : W[n] = BallStep(W, stored, source, n)
  BY WithinEquation
<1> HIDE DEF W
<1>2. W[0] = {source}
  BY <1>1 DEF BallStep
<1>3. ASSUME NEW n \in 0..depth - 1 PROVE W[n + 1] = Beside(stored, W[n])
  <2>1. n + 1 \in 0..depth /\ n + 1 # 0 /\ (n + 1) - 1 = n
    OBVIOUS
  <2>2. W[n + 1] = BallStep(W, stored, source, n + 1)
    BY <1>1, <2>1
  <2> QED
    BY <2>1, <2>2 DEF BallStep
<1>4. \A n \in 0..depth - 1 : \A x :
         x \in W[n + 1] <=> x \in W[n] \/ \E m \in W[n] : x \in Neighbours(stored, m)
  BY <1>3 DEF Beside
<1>5. ASSUME NEW i \in 0..depth PROVE \A j \in 0..depth : i <= j => \A x \in W[i] : x \in W[j]
  <2> DEFINE S == {j \in 0..depth : i <= j => \A x \in W[i] : x \in W[j]}
  <2>1. 0 \in S
    <3>1. i <= 0 => i = 0
      OBVIOUS
    <3> QED
      BY <3>1
  <2>2. ASSUME NEW j \in 0..depth - 1, j \in S PROVE j + 1 \in S
    <3>1. j + 1 \in 0..depth /\ (i <= j + 1 => i <= j \/ i = j + 1)
      OBVIOUS
    <3>2. \A x \in W[j] : x \in W[j + 1]
      BY <1>4
    <3> QED
      BY <2>2, <3>1, <3>2
  <2> HIDE DEF S
  <2>3. \A j \in 0..depth : j \in S
    BY <2>1, <2>2, BoundedInduction
  <2> QED
    BY <2>3 DEF S
<1>6. \A n \in 0..depth : \A x \in W[n] : x = source \/ x \in Position
  <2> DEFINE S == {n \in 0..depth : \A x \in W[n] : x = source \/ x \in Position}
  <2>1. 0 \in S
    BY <1>2
  <2>2. ASSUME NEW n \in 0..depth - 1, n \in S PROVE n + 1 \in S
    <3>1. \A m : \A x \in Neighbours(stored, m) : x \in Position
      BY DEF Neighbours
    <3>2. n + 1 \in 0..depth
      OBVIOUS
    <3> QED
      BY <1>4, <2>2, <3>1, <3>2
  <2> HIDE DEF S
  <2>3. \A n \in 0..depth : n \in S
    BY <2>1, <2>2, BoundedInduction
  <2> QED
    BY <2>3 DEF S
<1>7. IsBall(W, stored, source, depth)
  BY <1>2, <1>4, <1>5, <1>6 DEF IsBall
<1> QED
  BY <1>7 DEF W

\* The recursion of the search has a solution.
Begin(source) == [queue |-> <<<<source>>>>, visited |-> {source}, found |-> <<>>]
Turn(f, stored, source, target, depth, k) ==
    IF k = 0 THEN Begin(source)
    ELSE IF f[k - 1].queue = <<>> \/ f[k - 1].found # <<>> THEN f[k - 1]
    ELSE BfsStep(stored, target, depth, f[k - 1])

IsSearch(run, graph, stored, source, target, depth) ==
    /\ \A k \in 0..Len(Pool) + 1 : run[k] = Turn(run, stored, source, target, depth, k)
    /\ FindPath(graph, stored, source, target, depth) = run[Len(Pool) + 1].found

LEMMA SearchEquation ==
  ASSUME NEW graph, NEW stored, NEW source \in Members(graph), NEW target \in Members(graph), NEW depth,
         source # target
  PROVE  \E run : IsSearch(run, graph, stored, source, target, depth)
<1> DEFINE Solves(f, m) == f = [k \in 0..m |-> Turn(f, stored, source, target, depth, k)]
           M == {m \in Nat : \E f : Solves(f, m)}
<1>1. 0 \in M
  <2> DEFINE f == [k \in 0..0 |-> Begin(source)]
  <2>1. Solves(f, 0)
    BY DEF Turn
  <2> HIDE DEF Solves, f
  <2> QED
    BY <2>1
<1>2. ASSUME NEW m \in Nat, m \in M PROVE m + 1 \in M
  <2>1. PICK f : Solves(f, m)
    BY <1>2
  <2> DEFINE g == [k \in 0..m + 1 |-> IF k = m + 1 THEN Turn(f, stored, source, target, depth, k) ELSE f[k]]
  <2>2. ASSUME NEW k \in 0..m + 1 PROVE g[k] = Turn(g, stored, source, target, depth, k)
    <3>1. g[k] = Turn(f, stored, source, target, depth, k)
      <4>1. k \in 0..m => f[k] = Turn(f, stored, source, target, depth, k)
        BY <2>1
      <4> QED
        BY <4>1
    <3>2. k # 0 => g[k - 1] = f[k - 1]
      OBVIOUS
    <3> HIDE DEF g
    <3> QED
      BY <3>1, <3>2 DEF Turn
  <2>3. Solves(g, m + 1)
    BY <2>2
  <2> HIDE DEF Solves, g
  <2> QED
    BY <2>3
<1>3. Len(Pool) + 1 \in M
  <2>1. Len(Pool) + 1 \in Nat
    BY ViewAssumption
  <2> HIDE DEF M
  <2>2. \A n \in Nat : n \in M
    BY <1>1, <1>2, SetInduction
  <2> QED
    BY <2>1, <2>2
<1> DEFINE run == CHOOSE f : Solves(f, Len(Pool) + 1)
<1>4. Solves(run, Len(Pool) + 1)
  <2>1. \E f : Solves(f, Len(Pool) + 1)
    BY <1>3
  <2> HIDE DEF Solves
  <2> QED
    BY <2>1
<1>5. FindPath(graph, stored, source, target, depth) = run[Len(Pool) + 1].found
  BY DEF FindPath, Turn, Begin
<1> HIDE DEF run
<1>6. \A k \in 0..Len(Pool) + 1 : run[k] = Turn(run, stored, source, target, depth, k)
  BY <1>4
<1> QED
  BY <1>5, <1>6 DEF IsSearch

\* A path along relationships, which ends where no shorter one does.
IsPath(stored, source, p) ==
    /\ p \in Seq(Position) /\ Len(p) >= 1 /\ p[1] = source
    /\ \A k \in 1..Len(p) - 1 : p[k + 1] \in Neighbours(stored, p[k])
EndsShort(W, depth, p) ==
    /\ Len(p) - 1 \in 0..depth /\ p[Len(p)] \in W[Len(p) - 1]
    /\ \A n \in 0..depth : p[Len(p)] \in W[n] => Len(p) - 1 <= n

LEMMA LongerPath ==
  ASSUME NEW stored, NEW source, NEW depth \in Nat, NEW W, IsBall(W, stored, source, depth),
         NEW p, IsPath(stored, source, p), EndsShort(W, depth, p), Len(p) - 1 < depth,
         NEW x \in Neighbours(stored, p[Len(p)]), x \notin W[Len(p) - 1]
  PROVE  /\ IsPath(stored, source, Append(p, x)) /\ EndsShort(W, depth, Append(p, x))
         /\ Len(Append(p, x)) = Len(p) + 1 /\ Append(p, x)[Len(p) + 1] = x
<1> DEFINE L == Len(p)
           more == Append(p, x)
<1>1. L \in Nat /\ L >= 1 /\ p \in Seq(Position) /\ x \in Position
  BY DEF IsPath, Neighbours
<1>2. /\ more \in Seq(Position) /\ Len(more) = L + 1 /\ more[L + 1] = x
      /\ \A k \in 1..L : more[k] = p[k]
  BY <1>1
<1> HIDE DEF more
<1>3. L - 1 \in 0..depth - 1 /\ L \in 0..depth /\ p[L] \in W[L - 1] /\ (L - 1) + 1 = L
  BY <1>1 DEF EndsShort
<1>4. \A k \in 1..L - 1 : p[k + 1] \in Neighbours(stored, p[k])
  BY DEF IsPath
<1>5. p[1] = source
  BY DEF IsPath
<1>6. x \in Neighbours(stored, p[L]) /\ x \notin W[L - 1]
  OBVIOUS
<1> HIDE DEF L
<1>7. IsPath(stored, source, more)
  <2>1. ASSUME NEW k \in 1..L PROVE more[k + 1] \in Neighbours(stored, more[k])
    <3>1. CASE k = L
      BY <1>1, <1>2, <1>6, <3>1
    <3>2. CASE k # L
      <4>1. k \in 1..L - 1 /\ k + 1 \in 1..L
        BY <1>1, <3>2
      <4> QED
        BY <1>2, <1>4, <4>1
    <3> QED
      BY <3>1, <3>2
  <2>2. Len(more) - 1 = L /\ Len(more) >= 1 /\ 1 \in 1..L
    BY <1>1, <1>2
  <2> QED
    BY <1>2, <1>5, <2>1, <2>2 DEF IsPath
<1>8. x \in W[L]
  BY <1>3, <1>6 DEF IsBall
<1>9. ASSUME NEW n \in 0..depth, x \in W[n] PROVE L <= n
  <2>1. CASE n <= L - 1
    <3>1. L - 1 \in 0..depth
      BY <1>3
    <3>2. x \in W[L - 1]
      BY <1>9, <2>1, <3>1 DEF IsBall
    <3> QED
      BY <1>6, <3>2
  <2> QED
    BY <1>1, <2>1
<1>10. EndsShort(W, depth, more)
  <2>1. Len(more) - 1 = L /\ more[Len(more)] = x
    BY <1>1, <1>2
  <2> QED
    BY <1>3, <1>8, <1>9, <2>1 DEF EndsShort
<1> QED
  BY <1>2, <1>7, <1>10 DEF more, L

\* What the search waits for: a node it has seen is the end of a path in the queue, or its neighbours
\* have been seen, or it is too far away to be left.
Left(W, stored, depth, seen, v) ==
    \/ \A x \in Neighbours(stored, v) : x \in seen
    \/ \A n \in 0..depth - 1 : v \notin W[n]
Awaited(queue, v) == \E i \in DOMAIN queue : queue[i][Len(queue[i])] = v
AllSeen(W, stored, source, depth, queue, seen) ==
    /\ source \in seen
    /\ \A v \in seen : Awaited(queue, v) \/ Left(W, stored, depth, seen, v)

\* So the search has seen everything that is nearer than the ends of the paths in its queue.
LEMMA NearerIsSeen ==
  ASSUME NEW stored, NEW source, NEW depth \in Nat, NEW W, IsBall(W, stored, source, depth),
         NEW queue, NEW seen, AllSeen(W, stored, source, depth, queue, seen),
         \A i \in DOMAIN queue : EndsShort(W, depth, queue[i]),
         NEW l \in 0..depth, \A i \in DOMAIN queue : l <= Len(queue[i]) - 1
  PROVE  \A n \in 0..l : \A x \in W[n] : x \in seen
<1> DEFINE S == {n \in 0..l : \A x \in W[n] : x \in seen}
<1>1. 0 \in S
  BY DEF IsBall, AllSeen
<1>2. ASSUME NEW n \in 0..l - 1, n \in S PROVE n + 1 \in S
  <2>1. n \in 0..depth - 1 /\ n \in 0..depth /\ n < l /\ n + 1 \in 0..l
    OBVIOUS
  <2>2. ASSUME NEW m \in W[n] PROVE \A x \in Neighbours(stored, m) : x \in seen
    <3>1. m \in seen
      BY <1>2
    <3>2. ~Awaited(queue, m)
      <4> SUFFICES ASSUME NEW i \in DOMAIN queue, queue[i][Len(queue[i])] = m PROVE FALSE
        BY DEF Awaited
      <4>1. Len(queue[i]) - 1 <= n /\ l <= Len(queue[i]) - 1 /\ Len(queue[i]) - 1 \in 0..depth
        BY <2>1 DEF EndsShort
      <4> QED
        BY <2>1, <4>1
    <3>3. Left(W, stored, depth, seen, m)
      BY <3>1, <3>2 DEF AllSeen
    <3> QED
      BY <2>1, <3>3 DEF Left
  <2>3. ASSUME NEW x \in W[n + 1] PROVE x \in seen
    <3>1. x \in W[n] \/ \E m \in W[n] : x \in Neighbours(stored, m)
      BY <2>1 DEF IsBall
    <3> QED
      BY <1>2, <2>2, <3>1
  <2> QED
    BY <2>1, <2>3
<1> HIDE DEF S
<1>3. l \in Nat
  OBVIOUS
<1>4. \A n \in 0..l : n \in S
  BY <1>1, <1>2, <1>3, BoundedInduction
<1> QED
  BY <1>4 DEF S

\* A queue from which the first is taken and to which others are added.
LEMMA QueueAfter ==
  ASSUME NEW T, NEW queue \in Seq(T), queue # <<>>, NEW more \in Seq(T)
  PROVE  /\ Head(queue) = queue[1] /\ Len(queue) \in Nat \ {0} /\ DOMAIN queue = 1..Len(queue)
         /\ Len(more) \in Nat /\ DOMAIN more = 1..Len(more)
         /\ Tail(queue) \o more \in Seq(T)
         /\ Len(Tail(queue) \o more) = (Len(queue) - 1) + Len(more)
         /\ DOMAIN (Tail(queue) \o more) = 1..(Len(queue) - 1) + Len(more)
         /\ \A i \in 1..Len(queue) - 1 : (Tail(queue) \o more)[i] = queue[i + 1]
         /\ \A i \in 1..Len(more) : (Tail(queue) \o more)[(Len(queue) - 1) + i] = more[i]
<1>1. Len(queue) \in Nat \ {0} /\ Head(queue) = queue[1] /\ DOMAIN queue = 1..Len(queue)
  BY EmptySeq
<1>2. Len(more) \in Nat /\ DOMAIN more = 1..Len(more)
  OBVIOUS
<1>3. /\ Tail(queue) \in Seq(T) /\ Len(Tail(queue)) = Len(queue) - 1
      /\ \A i \in 1..Len(queue) - 1 : Tail(queue)[i] = queue[i + 1]
  BY <1>1
<1> DEFINE rest == Tail(queue)
<1> HIDE DEF rest
<1>4. rest \in Seq(T) /\ Len(rest) = Len(queue) - 1
  BY <1>3 DEF rest
<1>5. /\ rest \o more \in Seq(T) /\ Len(rest \o more) = Len(rest) + Len(more)
      /\ \A i \in 1..Len(rest) : (rest \o more)[i] = rest[i]
      /\ \A i \in 1..Len(more) : (rest \o more)[Len(rest) + i] = more[i]
  BY <1>2, <1>4
<1>6. DOMAIN (rest \o more) = 1..Len(rest) + Len(more)
  BY <1>5
<1> QED
  BY <1>1, <1>2, <1>3, <1>4, <1>5, <1>6 DEF rest

\* The ends of the paths in the queue are by at most one further away than its first, in order.
Graded(queue) == \A i, j \in DOMAIN queue :
    /\ i <= j => Len(queue[i]) <= Len(queue[j])
    /\ Len(queue[j]) <= Len(queue[i]) + 1

SearchState == [queue : Seq(Seq(Position)), visited : SUBSET Position, found : Seq(Position)]

\* What holds after k turns of a search that has not ended: with each turn a path leaves the queue, and
\* no node enters it twice.
Searching(W, stored, source, target, depth, st, k) ==
    /\ st \in SearchState /\ st.found = <<>>
    /\ \A i \in DOMAIN st.queue : IsPath(stored, source, st.queue[i]) /\ EndsShort(W, depth, st.queue[i])
    /\ Graded(st.queue)
    /\ target \notin st.visited
    /\ AllSeen(W, stored, source, depth, st.queue, st.visited)
    /\ st.queue = <<>> \/ k + Len(st.queue) <= Cardinality(st.visited)

LEMMA PositionsAreFinite == IsFiniteSet(Position) /\ Cardinality(Position) = Len(Pool) /\ Len(Pool) \in Nat
<1>1. Len(Pool) \in Nat /\ Position = 1..Len(Pool)
  BY ViewAssumption DEF Position
<1>2. IsFiniteSet(1..Len(Pool)) /\ Cardinality(1..Len(Pool)) = IF 1 > Len(Pool) THEN 0 ELSE Len(Pool) - 1 + 1
  BY <1>1, FS_Interval
<1> QED
  BY <1>1, <1>2

LEMMA SearchGoesOn ==
  ASSUME NEW stored, NEW source, NEW target, NEW depth \in Nat, NEW W, NEW k \in Nat,
         NEW st, Searching(W, stored, source, target, depth, st, k), st.queue # <<>>,
         NEW more \in Seq(Seq(Position)), NEW seen \in SUBSET Position,
         \A i \in DOMAIN more : /\ IsPath(stored, source, more[i]) /\ EndsShort(W, depth, more[i])
                                /\ Len(more[i]) = Len(st.queue[1]) + 1,
         \A v \in st.visited : v \in seen,
         \A v \in seen : v \in st.visited \/ Awaited(more, v),
         target \notin seen,
         Left(W, stored, depth, seen, st.queue[1][Len(st.queue[1])]),
         Cardinality(st.visited) + Len(more) <= Cardinality(seen)
  PROVE  Searching(W, stored, source, target, depth,
                   [queue |-> Tail(st.queue) \o more, visited |-> seen, found |-> <<>>], k + 1)
<1> DEFINE Q == st.queue
           new == Tail(st.queue) \o more
           n == Len(Q)
           m == Len(more)
           first == Q[1]
<1>1. Q \in Seq(Seq(Position)) /\ st.visited \in SUBSET Position
  BY DEF Searching, SearchState
<1>2. /\ n \in Nat \ {0} /\ DOMAIN Q = 1..n /\ m \in Nat /\ DOMAIN more = 1..m
      /\ new \in Seq(Seq(Position)) /\ Len(new) = (n - 1) + m /\ DOMAIN new = 1..(n - 1) + m
      /\ \A i \in 1..n - 1 : new[i] = Q[i + 1]
      /\ \A i \in 1..m : new[(n - 1) + i] = more[i]
  <2> DEFINE T == Seq(Position)
  <2>1. Q \in Seq(T) /\ Q # <<>> /\ more \in Seq(T)
    BY <1>1
  <2> HIDE DEF T, Q
  <2>2. /\ Len(Q) \in Nat \ {0} /\ DOMAIN Q = 1..Len(Q) /\ Len(more) \in Nat /\ DOMAIN more = 1..Len(more)
        /\ Tail(Q) \o more \in Seq(T) /\ Len(Tail(Q) \o more) = (Len(Q) - 1) + Len(more)
        /\ DOMAIN (Tail(Q) \o more) = 1..(Len(Q) - 1) + Len(more)
        /\ \A i \in 1..Len(Q) - 1 : (Tail(Q) \o more)[i] = Q[i + 1]
        /\ \A i \in 1..Len(more) : (Tail(Q) \o more)[(Len(Q) - 1) + i] = more[i]
    BY <2>1, QueueAfter
  <2>3. new = Tail(Q) \o more
    BY DEF Q
  <2> HIDE DEF new
  <2> QED
    BY <2>2, <2>3 DEF T
<1>3. /\ \A i \in 1..n : IsPath(stored, source, Q[i]) /\ EndsShort(W, depth, Q[i]) /\ Len(Q[i]) \in Nat
      /\ \A i, j \in 1..n : i <= j => Len(Q[i]) <= Len(Q[j])
      /\ \A i, j \in 1..n : Len(Q[j]) <= Len(Q[i]) + 1
  <2>1. /\ \A i \in DOMAIN Q : IsPath(stored, source, Q[i]) /\ EndsShort(W, depth, Q[i])
        /\ Graded(Q)
    BY DEF Searching
  <2>2. DOMAIN Q = 1..n
    BY <1>2
  <2> HIDE DEF Q, n
  <2>3. \A p : IsPath(stored, source, p) => Len(p) \in Nat
    BY DEF IsPath
  <2> QED
    BY <2>1, <2>2, <2>3 DEF Graded
<1>4. \A i \in 1..m : /\ IsPath(stored, source, more[i]) /\ EndsShort(W, depth, more[i])
                      /\ Len(more[i]) = Len(first) + 1
  BY <1>2
<1>5. /\ source \in st.visited
      /\ \A v \in st.visited : Awaited(Q, v) \/ Left(W, stored, depth, st.visited, v)
  BY DEF Searching, AllSeen
<1>6. k + n <= Cardinality(st.visited)
  BY DEF Searching
<1>7. Left(W, stored, depth, seen, first[Len(first)]) /\ Cardinality(st.visited) + m <= Cardinality(seen)
  OBVIOUS
<1> HIDE DEF Q, new, n, m, first
<1>8. \A i \in 1..(n - 1) + m : i \in 1..n - 1 \/ \E j \in 1..m : i = (n - 1) + j
  <2> SUFFICES ASSUME NEW i \in 1..(n - 1) + m, i \notin 1..n - 1 PROVE \E j \in 1..m : i = (n - 1) + j
    OBVIOUS
  <2>1. i - (n - 1) \in 1..m /\ i = (n - 1) + (i - (n - 1))
    BY <1>2
  <2> QED
    BY <2>1
<1>9. /\ 1 \in 1..n /\ Len(first) \in Nat /\ first = Q[1]
      /\ \A i \in 1..n - 1 : i + 1 \in 1..n /\ i \in 1..(n - 1) + m
      /\ \A j \in 1..m : (n - 1) + j \in 1..(n - 1) + m
  <2>1. n \in Nat \ {0} /\ m \in Nat
    BY <1>2
  <2>2. /\ 1 \in 1..n
        /\ \A i \in 1..n - 1 : i + 1 \in 1..n /\ i \in 1..(n - 1) + m
        /\ \A j \in 1..m : (n - 1) + j \in 1..(n - 1) + m
    BY <2>1
  <2>3. Len(Q[1]) \in Nat
    BY <1>3, <2>2
  <2> QED
    BY <2>2, <2>3 DEF first
<1>10. ASSUME NEW i \in 1..(n - 1) + m
       PROVE  /\ IsPath(stored, source, new[i]) /\ EndsShort(W, depth, new[i])
              /\ Len(new[i]) \in Nat /\ Len(first) <= Len(new[i]) /\ Len(new[i]) <= Len(first) + 1
              /\ i \notin 1..n - 1 => Len(new[i]) = Len(first) + 1
  <2>1. CASE i \in 1..n - 1
    <3>1. new[i] = Q[i + 1] /\ i + 1 \in 1..n /\ 1 <= i + 1
      BY <1>2, <1>9, <2>1
    <3>2. Len(Q[1]) <= Len(Q[i + 1]) /\ Len(Q[i + 1]) <= Len(Q[1]) + 1
      BY <1>3, <1>9, <3>1
    <3> QED
      BY <1>3, <1>9, <2>1, <3>1, <3>2
  <2>2. CASE \E j \in 1..m : i = (n - 1) + j
    <3>1. PICK j \in 1..m : i = (n - 1) + j
      BY <2>2
    <3>2. new[i] = more[j]
      BY <1>2, <3>1
    <3> QED
      BY <1>4, <1>9, <3>2
  <2> QED
    BY <1>8, <2>1, <2>2
<1>11. ASSUME NEW i \in 1..(n - 1) + m, NEW j \in 1..(n - 1) + m
       PROVE  (i <= j => Len(new[i]) <= Len(new[j])) /\ Len(new[j]) <= Len(new[i]) + 1
  <2>1. Len(new[j]) <= Len(new[i]) + 1
    BY <1>9, <1>10
  <2>2. ASSUME i <= j PROVE Len(new[i]) <= Len(new[j])
    <3>1. CASE j \notin 1..n - 1
      BY <1>10, <3>1
    <3>2. CASE j \in 1..n - 1
      <4>1. i \in 1..n - 1
        BY <1>2, <2>2, <3>2
      <4>2. i + 1 \in 1..n /\ j + 1 \in 1..n /\ i + 1 <= j + 1 /\ new[i] = Q[i + 1] /\ new[j] = Q[j + 1]
        BY <1>2, <1>9, <2>2, <3>2, <4>1
      <4> QED
        BY <1>3, <4>2
    <3> QED
      BY <3>1, <3>2
  <2> QED
    BY <2>1, <2>2
<1>12. Graded(new)
  BY <1>2, <1>11 DEF Graded
<1>13. \A v : Awaited(more, v) => Awaited(new, v)
  <2> SUFFICES ASSUME NEW v, NEW j \in 1..m, more[j][Len(more[j])] = v PROVE Awaited(new, v)
    BY <1>2 DEF Awaited
  <2>1. new[(n - 1) + j] = more[j] /\ (n - 1) + j \in DOMAIN new
    BY <1>2, <1>9
  <2> QED
    BY <2>1 DEF Awaited
<1>14. \A v : Awaited(Q, v) => Awaited(new, v) \/ v = first[Len(first)]
  <2> SUFFICES ASSUME NEW v, NEW j \in 1..n, Q[j][Len(Q[j])] = v, v # first[Len(first)] PROVE Awaited(new, v)
    BY <1>2 DEF Awaited
  <2>1. j # 1
    BY <1>9
  <2>2. j - 1 \in 1..n - 1 /\ (j - 1) + 1 = j
    BY <1>2, <2>1
  <2>3. new[j - 1] = Q[j] /\ j - 1 \in DOMAIN new
    <3>1. new[j - 1] = Q[(j - 1) + 1] /\ j - 1 \in DOMAIN new
      BY <1>2, <1>9, <2>2
    <3> QED
      BY <2>2, <3>1
  <2> QED
    BY <2>3 DEF Awaited
<1>15. \A v : Left(W, stored, depth, st.visited, v) => Left(W, stored, depth, seen, v)
  BY DEF Left
<1>16. AllSeen(W, stored, source, depth, new, seen)
  <2>1. ASSUME NEW v \in seen PROVE Awaited(new, v) \/ Left(W, stored, depth, seen, v)
    <3>1. CASE Awaited(more, v)
      BY <1>13, <3>1
    <3>2. CASE v \in st.visited
      BY <1>5, <1>7, <1>14, <1>15, <3>2
    <3> QED
      BY <3>1, <3>2
  <2> QED
    BY <1>5, <2>1 DEF AllSeen
<1>17. (k + 1) + Len(new) <= Cardinality(seen)
  <2>1. Cardinality(st.visited) \in Nat /\ Cardinality(seen) \in Nat
    <3>1. IsFiniteSet(st.visited) /\ IsFiniteSet(seen)
      BY <1>1, PositionsAreFinite, FS_Subset
    <3> QED
      BY <3>1, FS_CardinalityType
  <2> QED
    BY <1>2, <1>6, <1>7, <2>1
<1> DEFINE after == [queue |-> new, visited |-> seen, found |-> <<>>]
<1>18. after \in SearchState
  BY <1>2 DEF SearchState
<1>19. after.queue = new /\ after.visited = seen /\ after.found = <<>>
  OBVIOUS
<1> HIDE DEF after
<1>20. Searching(W, stored, source, target, depth, after, k + 1)
  BY <1>2, <1>10, <1>12, <1>16, <1>17, <1>18, <1>19 DEF Searching
<1> QED
  BY <1>20 DEF after, new

\* The neighbours that are queued: each once.
LEMMA OrderedIs ==
  ASSUME NEW S \in SUBSET Position
  PROVE  /\ Ordered(S) \in Seq(Position) /\ Members(Ordered(S)) = S
         /\ Len(Ordered(S)) = Cardinality(S)
<1> DEFINE all == [k \in Position |-> k]
           s == Ordered(S)
<1>1. Len(Pool) \in Nat /\ Position = 1..Len(Pool)
  BY ViewAssumption DEF Position
<1>2. all \in Seq(Position) /\ Distinct(all) /\ Members(all) = Position
  <2>1. all \in [1..Len(Pool) -> Position] /\ DOMAIN all = Position /\ \A k \in Position : all[k] = k
    BY <1>1
  <2> HIDE DEF all
  <2>2. all \in Seq(Position)
    BY <1>1, <2>1
  <2> QED
    BY <2>1, <2>2 DEF Distinct, Members
<1>3. s = Among(all, S)
  BY DEF Ordered
<1> HIDE DEF all, s
<1>4. s \in Seq(Position) /\ Distinct(s) /\ Members(s) = S
  <2>1. /\ Among(all, S) \in Seq(Position) /\ Members(Among(all, S)) = Members(all) \cap S
        /\ Distinct(Among(all, S))
    BY <1>2, Selected
  <2> QED
    BY <1>2, <1>3, <2>1
<1>5. Len(s) \in Nat /\ DOMAIN s = 1..Len(s)
  BY <1>4
<1>6. s \in [1..Len(s) -> S] /\ \A x \in S : \E k \in 1..Len(s) : s[k] = x
  BY <1>4, <1>5 DEF Members
<1>7. IsFiniteSet(1..Len(s)) /\ Cardinality(1..Len(s)) = Len(s)
  <2> DEFINE n == Len(s)
  <2>1. n \in Nat
    BY <1>5
  <2> HIDE DEF n
  <2>2. IsFiniteSet(1..n) /\ Cardinality(1..n) = n
    BY <2>1, FS_Interval
  <2> QED
    BY <2>2 DEF n
<1>8. s \in Injection(1..Len(s), S)
  <2>1. \A i, j \in 1..Len(s) : s[i] = s[j] => i = j
    BY <1>4, <1>5 DEF Distinct
  <2> QED
    BY <1>6, <2>1, Fun_IsInj
<1>9. s \in Surjection(1..Len(s), S)
  BY <1>6 DEF Surjection
<1>10. ExistsBijection(1..Len(s), S)
  BY <1>8, <1>9 DEF ExistsBijection, Bijection
<1>11. Cardinality(S) = Len(s)
  BY <1>7, <1>10, FS_Bijection
<1> QED
  BY <1>4, <1>11 DEF s

\* A path that is found ends at the target, as near as it is.
Finds(W, stored, source, target, depth, path) ==
    IsPath(stored, source, path) /\ EndsShort(W, depth, path) /\ path[Len(path)] = target

\* A turn of the search: the path is left if it is long enough, is the answer with the target added,
\* or is continued to each neighbour not yet seen.
LEMMA SearchTurns ==
  ASSUME NEW stored, NEW source, NEW target \in Position, NEW depth \in Nat, NEW W,
         IsBall(W, stored, source, depth), NEW k \in Nat,
         NEW st, Searching(W, stored, source, target, depth, st, k), st.queue # <<>>
  PROVE  \/ Searching(W, stored, source, target, depth, BfsStep(stored, target, depth, st), k + 1)
         \/ Finds(W, stored, source, target, depth, BfsStep(stored, target, depth, st).found)
<1> DEFINE path == st.queue[1]
           L == Len(path)
           next == Neighbours(stored, path[L])
           fresh == Ordered(next \ st.visited)
           more == [j \in DOMAIN fresh |-> Append(path, fresh[j])]
           after == BfsStep(stored, target, depth, st)
           T == Seq(Position)
<1>1. /\ st \in SearchState /\ st.queue \in Seq(T) /\ st.visited \in SUBSET Position /\ st.found = <<>>
      /\ target \notin st.visited
      /\ AllSeen(W, stored, source, depth, st.queue, st.visited)
  BY DEF Searching, SearchState
<1>2. /\ Head(st.queue) = path /\ 1 \in DOMAIN st.queue /\ DOMAIN st.queue = 1..Len(st.queue)
      /\ Len(st.queue) \in Nat /\ Tail(st.queue) \in Seq(T)
  <2> HIDE DEF T
  <2>1. <<>> \in Seq(T) /\ Tail(st.queue) \in Seq(T)
    BY <1>1
  <2>2. Head(st.queue) = st.queue[1] /\ Len(st.queue) \in Nat \ {0} /\ DOMAIN st.queue = 1..Len(st.queue)
    BY <1>1, <2>1, QueueAfter
  <2> QED
    BY <2>1, <2>2
<1>3. after = IF L - 1 >= depth THEN [st EXCEPT !.queue = Tail(@)]
              ELSE IF target \in next THEN [st EXCEPT !.found = Append(path, target)]
              ELSE [queue |-> Tail(st.queue) \o more, visited |-> st.visited \cup next, found |-> <<>>]
  BY <1>2 DEF BfsStep
<1>4. IsPath(stored, source, path) /\ EndsShort(W, depth, path)
  BY <1>2 DEF Searching
<1>5. L \in Nat /\ L >= 1 /\ L - 1 \in 0..depth /\ next \in SUBSET Position
  BY <1>4 DEF IsPath, EndsShort, Neighbours
<1>6. \A i \in DOMAIN st.queue : EndsShort(W, depth, st.queue[i]) /\ L <= Len(st.queue[i]) /\ Len(st.queue[i]) \in Nat
  <2>1. /\ \A i \in DOMAIN st.queue : IsPath(stored, source, st.queue[i]) /\ EndsShort(W, depth, st.queue[i])
        /\ Graded(st.queue)
    BY DEF Searching
  <2>2. \A p : IsPath(stored, source, p) => Len(p) \in Nat
    BY DEF IsPath
  <2>3. \A i \in DOMAIN st.queue : 1 <= i
    BY <1>2
  <2>4. \A i \in DOMAIN st.queue : Len(st.queue[1]) <= Len(st.queue[i])
    BY <1>2, <2>1, <2>3 DEF Graded
  <2> QED
    BY <2>1, <2>2, <2>4
<1>7. \A x \in W[L - 1] : x \in st.visited
  <2> DEFINE l == L - 1
             Q == st.queue
             V == st.visited
  <2>1. \A i \in DOMAIN Q : EndsShort(W, depth, Q[i]) /\ l <= Len(Q[i]) - 1
    BY <1>5, <1>6
  <2>2. l \in 0..l /\ l \in 0..depth /\ AllSeen(W, stored, source, depth, Q, V)
    BY <1>1, <1>5
  <2> HIDE DEF l, Q, V
  <2>3. \A n \in 0..l : \A x \in W[n] : x \in V
    BY <2>1, <2>2, NearerIsSeen
  <2> USE DEF l, V
  <2> QED
    BY <2>2, <2>3
<1>8. ASSUME L - 1 < depth, NEW x \in next, x \notin st.visited
      PROVE  /\ IsPath(stored, source, Append(path, x)) /\ EndsShort(W, depth, Append(path, x))
             /\ Len(Append(path, x)) = L + 1 /\ Append(path, x)[L + 1] = x
  <2>1. x \notin W[L - 1]
    BY <1>7, <1>8
  <2> HIDE DEF path
  <2> QED
    BY <1>4, <1>8, <2>1, LongerPath
<1>9. CASE L - 1 >= depth
  <2> DEFINE none == <<>>
             new == [queue |-> Tail(st.queue) \o none, visited |-> st.visited, found |-> <<>>]
  <2>1. after = new
    <3>1. after = [st EXCEPT !.queue = Tail(@)]
      BY <1>3, <1>9
    <3>2. Tail(st.queue) \o none = Tail(st.queue)
      <4> HIDE DEF T
      <4> QED
        BY <1>2
    <3> QED
      BY <1>1, <3>1, <3>2 DEF SearchState
  <2>2. \A n \in 0..depth - 1 : path[L] \notin W[n]
    <3> SUFFICES ASSUME NEW n \in 0..depth - 1, path[L] \in W[n] PROVE FALSE
      OBVIOUS
    <3>1. L - 1 <= n
      BY <1>4 DEF EndsShort
    <3> QED
      BY <1>5, <1>9, <3>1
  <2>3. Left(W, stored, depth, st.visited, path[L])
    BY <2>2 DEF Left
  <2>4. Cardinality(st.visited) \in Nat
    BY <1>1, PositionsAreFinite, FS_Subset, FS_CardinalityType
  <2>5. none \in Seq(T) /\ DOMAIN none = {} /\ Len(none) = 0
    OBVIOUS
  <2>6. Cardinality(st.visited) + Len(none) <= Cardinality(st.visited)
    BY <2>4, <2>5
  <2> HIDE DEF none, L, path
  <2>7. Searching(W, stored, source, target, depth, new, k + 1)
    BY <1>1, <2>3, <2>5, <2>6, SearchGoesOn DEF path, L, T
  <2> QED
    BY <2>1, <2>7
<1>10. CASE L - 1 < depth /\ target \in next
  <2>1. after = [st EXCEPT !.found = Append(path, target)]
    BY <1>3, <1>5, <1>10
  <2> HIDE DEF path, after
  <2>2. after.found = Append(path, target)
    BY <1>1, <2>1 DEF SearchState
  <2>3. Finds(W, stored, source, target, depth, Append(path, target))
    BY <1>1, <1>8, <1>10 DEF Finds
  <2> QED
    BY <2>2, <2>3 DEF after
<1>11. CASE L - 1 < depth /\ target \notin next
  <2> DEFINE seen == st.visited \cup next
             new == [queue |-> Tail(st.queue) \o more, visited |-> seen, found |-> <<>>]
  <2>1. after = new
    BY <1>3, <1>5, <1>11
  <2>2. next \ st.visited \in SUBSET Position
    BY <1>5
  <2>3. /\ fresh \in Seq(Position) /\ Members(fresh) = next \ st.visited
        /\ Len(fresh) = Cardinality(next \ st.visited) /\ Len(fresh) \in Nat /\ DOMAIN fresh = 1..Len(fresh)
    BY <2>2, OrderedIs
  <2>4. \A j \in DOMAIN fresh : fresh[j] \in next /\ fresh[j] \notin st.visited
    BY <2>3 DEF Members
  <2>5. \A x \in next \ st.visited : \E j \in DOMAIN fresh : fresh[j] = x
    BY <2>3 DEF Members
  <2>6. Cardinality(st.visited) + Len(fresh) <= Cardinality(seen)
    <3> DEFINE V == st.visited
               N == next \ st.visited
               n == Len(fresh)
    <3>1. IsFiniteSet(V) /\ IsFiniteSet(N)
      BY <1>1, <2>2, PositionsAreFinite, FS_Subset
    <3>2. V \cup N = seen /\ V \cap N = {} /\ n = Cardinality(N)
      BY <2>3
    <3> HIDE DEF V, N, n, seen
    <3>3. Cardinality(V \cup N) = Cardinality(V) + Cardinality(N) - Cardinality(V \cap N)
      BY <3>1, FS_Union
    <3>4. Cardinality(V \cap N) = 0
      BY <3>2, FS_EmptySet
    <3>5. Cardinality(V) \in Nat /\ Cardinality(N) \in Nat
      BY <3>1, FS_CardinalityType
    <3>6. Cardinality(V) + n <= Cardinality(seen)
      <4>1. Cardinality(seen) = Cardinality(V) + Cardinality(N) - 0
        BY <3>2, <3>3, <3>4
      <4>2. \A a, b, c, d \in Nat : a = c /\ d = b + c - 0 => b + a <= d
        OBVIOUS
      <4>3. Cardinality(seen) \in Nat /\ n \in Nat
        BY <3>2, <3>5, <4>1
      <4> QED
        BY <3>2, <3>5, <4>1, <4>2, <4>3
    <3> QED
      BY <3>6 DEF V, n
  <2> HIDE DEF fresh, next, path, L
  <2>7. ASSUME NEW j \in DOMAIN fresh
        PROVE  /\ IsPath(stored, source, Append(path, fresh[j])) /\ EndsShort(W, depth, Append(path, fresh[j]))
               /\ Len(Append(path, fresh[j])) = L + 1 /\ Append(path, fresh[j])[L + 1] = fresh[j]
               /\ Append(path, fresh[j]) \in T
    <3>1. fresh[j] \in next /\ fresh[j] \notin st.visited
      BY <2>4
    <3>2. /\ IsPath(stored, source, Append(path, fresh[j])) /\ EndsShort(W, depth, Append(path, fresh[j]))
          /\ Len(Append(path, fresh[j])) = L + 1 /\ Append(path, fresh[j])[L + 1] = fresh[j]
      BY <1>8, <1>11, <3>1
    <3> QED
      BY <3>2 DEF IsPath
  <2>8. DOMAIN more = DOMAIN fresh /\ \A j \in DOMAIN more : more[j] = Append(path, fresh[j])
    OBVIOUS
  <2>9. more \in Seq(T) /\ Len(more) = Len(fresh)
    <3> DEFINE n == Len(fresh)
    <3>1. n \in Nat /\ DOMAIN fresh = 1..n
      BY <2>3
    <3>2. \A j \in DOMAIN more : more[j] \in T
      BY <2>7, <2>8
    <3>3. more = [j \in 1..n |-> more[j]]
      BY <3>1
    <3> HIDE DEF T, n, more
    <3>4. more \in [1..n -> T]
      BY <2>8, <3>1, <3>2, <3>3
    <3>5. more \in Seq(T) /\ Len(more) = n
      BY <3>1, <3>4
    <3> QED
      BY <3>5 DEF n
  <2> HIDE DEF more
  <2>10. \A i \in DOMAIN more : /\ IsPath(stored, source, more[i]) /\ EndsShort(W, depth, more[i])
                                /\ Len(more[i]) = L + 1
    BY <2>7, <2>8
  <2>11. ASSUME NEW v \in seen, v \notin st.visited PROVE Awaited(more, v)
    <3>1. PICK j \in DOMAIN fresh : fresh[j] = v
      BY <2>5, <2>11
    <3>2. j \in DOMAIN more /\ more[j][Len(more[j])] = v
      BY <2>7, <2>8, <3>1
    <3> QED
      BY <3>2 DEF Awaited
  <2>12. Left(W, stored, depth, seen, path[L])
    BY DEF Left, next
  <2>13. seen \in SUBSET Position /\ (\A v \in st.visited : v \in seen) /\ target \notin seen
    BY <1>1, <1>5, <1>11
  <2>14. Cardinality(st.visited) + Len(more) <= Cardinality(seen)
    BY <2>6, <2>9
  <2> HIDE DEF seen
  <2>15. Searching(W, stored, source, target, depth, new, k + 1)
    BY <2>9, <2>10, <2>11, <2>12, <2>13, <2>14, SearchGoesOn DEF path, L, T
  <2> QED
    BY <2>1, <2>15
<1> QED
  BY <1>5, <1>9, <1>10, <1>11

LEMMA SearchBegins ==
  ASSUME NEW stored, NEW source \in Position, NEW target, target # source, NEW depth \in Nat,
         NEW W, IsBall(W, stored, source, depth)
  PROVE  Searching(W, stored, source, target, depth, Begin(source), 0)
<1> DEFINE p == <<source>>
           Q == <<p>>
<1>1. p \in Seq(Position) /\ Len(p) = 1 /\ p[1] = source
  OBVIOUS
<1>2. Q \in Seq(Seq(Position)) /\ DOMAIN Q = {1} /\ Q[1] = p /\ Len(Q) = 1
  OBVIOUS
<1> HIDE DEF p, Q
<1>3. IsPath(stored, source, p)
  BY <1>1 DEF IsPath
<1>4. EndsShort(W, depth, p)
  <2>1. p[Len(p)] = source /\ Len(p) - 1 = 0 /\ source \in W[0]
    BY <1>1 DEF IsBall
  <2>2. 0 \in 0..depth /\ \A n \in 0..depth : 0 <= n
    OBVIOUS
  <2> QED
    BY <2>1, <2>2 DEF EndsShort
<1>5. Graded(Q)
  BY <1>1, <1>2 DEF Graded
<1>6. AllSeen(W, stored, source, depth, Q, {source})
  BY <1>1, <1>2 DEF AllSeen, Awaited
<1>7. Cardinality({source}) = 1
  BY FS_Singleton
<1> DEFINE st == Begin(source)
<1>8. st.queue = Q /\ st.visited = {source} /\ st.found = <<>> /\ st \in SearchState
  BY <1>2 DEF Begin, SearchState, Q, p
<1> HIDE DEF st
<1>9. 0 + Len(Q) <= Cardinality({source})
  BY <1>2, <1>7
<1>10. Searching(W, stored, source, target, depth, st, 0)
  BY <1>2, <1>3, <1>4, <1>5, <1>6, <1>8, <1>9 DEF Searching
<1> QED
  BY <1>10 DEF st

\* After as many turns as there are entities and one, the search has found a shortest path, or has seen
\* all that is in reach.
LEMMA SearchEnds ==
  ASSUME NEW graph, graph \in Seq(Position), NEW stored, NEW source \in Members(graph),
         NEW target \in Members(graph), source # target, NEW depth \in Nat,
         NEW W, IsBall(W, stored, source, depth)
  PROVE  LET path == FindPath(graph, stored, source, target, depth)
         IN \/ Finds(W, stored, source, target, depth, path)
            \/ path = <<>> /\ target \notin W[depth]
<1> DEFINE path == FindPath(graph, stored, source, target, depth)
           N == Len(Pool) + 1
<1>1. PICK run : /\ \A k \in 0..N : run[k] = Turn(run, stored, source, target, depth, k)
                 /\ path = run[N].found
  <2>1. \E run : IsSearch(run, graph, stored, source, target, depth)
    BY SearchEquation
  <2> QED
    BY <2>1 DEF IsSearch
<1>2. Members(graph) \subseteq Position /\ source \in Position /\ target \in Position
  BY ListEmpty
<1>3. N \in Nat
  BY ViewAssumption
<1> HIDE DEF path, N
<1> DEFINE Goes(k) == Searching(W, stored, source, target, depth, run[k], k)
           Done(k) == Finds(W, stored, source, target, depth, run[k].found)
           I == {k \in 0..N : Goes(k) \/ Done(k)}
<1>4. 0 \in I
  <2>1. run[0] = Begin(source)
    BY <1>1, <1>3 DEF Turn
  <2>2. Searching(W, stored, source, target, depth, Begin(source), 0)
    BY <1>2, SearchBegins
  <2> QED
    BY <1>3, <2>1, <2>2
<1>5. ASSUME NEW k \in 0..N - 1, k \in I PROVE k + 1 \in I
  <2>1. k \in Nat /\ k + 1 \in 0..N /\ k + 1 # 0 /\ (k + 1) - 1 = k
    BY <1>3
  <2>2. run[k + 1] = Turn(run, stored, source, target, depth, k + 1)
    BY <1>1, <2>1
  <2>3. /\ run[k].queue = <<>> \/ run[k].found # <<>> => run[k + 1] = run[k]
        /\ ~(run[k].queue = <<>> \/ run[k].found # <<>>) => run[k + 1] = BfsStep(stored, target, depth, run[k])
    BY <2>1, <2>2 DEF Turn
  <2>4. CASE Done(k)
    <3>1. Len(run[k].found) >= 1
      BY <2>4 DEF Finds, IsPath
    <3>2. run[k].found # <<>>
      BY <3>1
    <3> QED
      BY <2>1, <2>3, <2>4, <3>2
  <2>5. CASE Goes(k) /\ run[k].queue = <<>>
    <3>1. run[k + 1] = run[k]
      BY <2>3, <2>5
    <3>2. Searching(W, stored, source, target, depth, run[k], k + 1)
      BY <2>5 DEF Searching
    <3> QED
      BY <2>1, <3>1, <3>2
  <2>6. CASE Goes(k) /\ run[k].queue # <<>>
    <3>1. run[k + 1] = BfsStep(stored, target, depth, run[k])
      BY <2>3, <2>6 DEF Searching
    <3>2. \/ Searching(W, stored, source, target, depth, BfsStep(stored, target, depth, run[k]), k + 1)
          \/ Finds(W, stored, source, target, depth, BfsStep(stored, target, depth, run[k]).found)
      BY <1>2, <2>1, <2>6, SearchTurns
    <3> QED
      BY <2>1, <3>1, <3>2
  <2> QED
    BY <1>5, <2>4, <2>5, <2>6
<1>6. N \in I
  <2> HIDE DEF I
  <2>1. \A k \in 0..N : k \in I
    BY <1>3, <1>4, <1>5, BoundedInduction
  <2> QED
    BY <1>3, <2>1
<1>7. ASSUME Goes(N) PROVE path = <<>> /\ target \notin W[depth]
  <2> DEFINE Q == run[N].queue
             V == run[N].visited
  <2>1. /\ path = <<>> /\ V \in SUBSET Position /\ target \notin V
        /\ AllSeen(W, stored, source, depth, Q, V)
        /\ Q \in Seq(Seq(Position)) /\ (Q = <<>> \/ N + Len(Q) <= Cardinality(V))
    BY <1>1, <1>7 DEF Searching, SearchState
  <2>2. Q = <<>>
    <3>1. Cardinality(V) \in Nat /\ Cardinality(V) <= Len(Pool) /\ Len(Pool) \in Nat
      BY <2>1, PositionsAreFinite, FS_Subset, FS_CardinalityType
    <3>2. Len(Q) \in Nat
      BY <2>1
    <3> HIDE DEF Q, V
    <3> QED
      BY <2>1, <3>1, <3>2 DEF N
  <2>3. DOMAIN Q = {}
    BY <2>2
  <2>4. depth \in 0..depth
    OBVIOUS
  <2> HIDE DEF Q, V
  <2>5. \A n \in 0..depth : \A x \in W[n] : x \in V
    BY <2>1, <2>3, <2>4, NearerIsSeen
  <2> QED
    BY <2>1, <2>4, <2>5
<1> QED
  BY <1>1, <1>6, <1>7 DEF path

LEMMA EveryPathShortest ==
  ASSUME NEW graph, IsGraph(graph), NEW stored, stored \subseteq Members(graph) \X Members(graph),
         NEW source \in Members(graph), NEW target \in Members(graph), NEW depth \in Nat
  PROVE  ShortestPath(graph, stored, source, target, depth)
<1> DEFINE W == Within(stored, source, depth)
           path == FindPath(graph, stored, source, target, depth)
<1>1. IsBall(W, stored, source, depth)
  BY WithinIsBall
<1>2. graph \in Seq(Position) /\ Members(graph) \subseteq Position
  BY ListEmpty DEF IsGraph
<1>3. SUFFICES IF target \notin W[depth] THEN path = <<>>
               ELSE /\ path # <<>> /\ path[1] = source /\ path[Len(path)] = target
                    /\ Len(path) = 1 \/ target \notin W[Len(path) - 2]
                    /\ \A k \in 1..Len(path) - 1 : path[k + 1] \in Expand(graph, stored, path[k]).nodes
  BY DEF ShortestPath
<1>4. CASE source = target
  <2>1. path = <<source>>
    BY <1>4 DEF FindPath
  <2> HIDE DEF path, W
  <2>2. source \in W[0] /\ 0 \in 0..depth /\ depth \in 0..depth /\ 0 <= depth
    BY <1>1 DEF IsBall
  <2>3. source \in W[depth]
    BY <1>1, <2>2 DEF IsBall
  <2>4. path # <<>> /\ Len(path) = 1 /\ path[1] = source /\ 1..Len(path) - 1 = {}
    BY <2>1
  <2> QED
    BY <1>4, <2>3, <2>4
<1>5. CASE source # target
  <2>1. \/ Finds(W, stored, source, target, depth, path)
        \/ path = <<>> /\ target \notin W[depth]
    BY <1>1, <1>2, <1>5, SearchEnds
  <2> HIDE DEF path, W
  <2>2. ASSUME Finds(W, stored, source, target, depth, path)
        PROVE  /\ target \in W[depth]
               /\ path # <<>> /\ path[1] = source /\ path[Len(path)] = target
               /\ Len(path) = 1 \/ target \notin W[Len(path) - 2]
               /\ \A k \in 1..Len(path) - 1 : path[k + 1] \in Expand(graph, stored, path[k]).nodes
    <3> DEFINE L == Len(path)
    <3>1. /\ path \in Seq(Position) /\ L \in Nat /\ L >= 1 /\ path[1] = source /\ path[L] = target
          /\ \A k \in 1..L - 1 : path[k + 1] \in Neighbours(stored, path[k])
          /\ L - 1 \in 0..depth /\ target \in W[L - 1]
          /\ \A n \in 0..depth : target \in W[n] => L - 1 <= n
      <4>1. IsPath(stored, source, path) /\ EndsShort(W, depth, path) /\ path[L] = target
        BY <2>2 DEF Finds
      <4>2. /\ path \in Seq(Position) /\ L >= 1 /\ path[1] = source
            /\ \A k \in 1..L - 1 : path[k + 1] \in Neighbours(stored, path[k])
        BY <4>1 DEF IsPath
      <4>3. L - 1 \in 0..depth /\ path[L] \in W[L - 1] /\ \A n \in 0..depth : path[L] \in W[n] => L - 1 <= n
        BY <4>1 DEF EndsShort
      <4>4. L \in Nat
        BY <4>2
      <4> QED
        BY <4>1, <4>2, <4>3, <4>4
    <3>2. path # <<>>
      BY <3>1
    <3> HIDE DEF L
    <3>3. target \in W[depth]
      <4>1. depth \in 0..depth /\ L - 1 <= depth
        BY <3>1
      <4> QED
        BY <1>1, <3>1, <4>1 DEF IsBall
    <3>4. L = 1 \/ target \notin W[L - 2]
      <4> SUFFICES ASSUME L # 1, target \in W[L - 2] PROVE FALSE
        OBVIOUS
      <4>1. L - 2 \in 0..depth /\ ~(L - 1 <= L - 2)
        BY <3>1
      <4> QED
        BY <3>1, <4>1
    <3>5. \A m, n : n \in Neighbours(stored, m) =>
             /\ m \in Members(graph) /\ n \in Members(graph)
             /\ n \in Expand(graph, stored, m).nodes
      <4> SUFFICES ASSUME NEW m, NEW n, n \in Neighbours(stored, m)
                   PROVE  /\ m \in Members(graph) /\ n \in Members(graph)
                          /\ n \in Expand(graph, stored, m).nodes
        OBVIOUS
      <4>1. PICK e \in stored : e = <<m, n>> \/ e = <<n, m>>
        BY DEF Neighbours
      <4>2. /\ {e[1], e[2]} = {m, n}
            /\ m \in Members(graph) /\ n \in Members(graph)
        BY <4>1
      <4> DEFINE incident == {x \in stored : m \in {x[1], x[2]}}
                 others == UNION {{x[1], x[2]} : x \in incident}
      <4>3. e \in incident
        BY <4>2
      <4>4. n \in others
        <5> HIDE DEF incident
        <5>1. {e[1], e[2]} \in {{x[1], x[2]} : x \in incident}
          BY <4>3
        <5> QED
          BY <4>2, <5>1
      <4>5. others \subseteq Expand(graph, stored, m).nodes
        BY <4>2 DEF Expand
      <4> QED
        BY <4>2, <4>4, <4>5
    <3>6. \A k \in 1..L - 1 : path[k + 1] \in Expand(graph, stored, path[k]).nodes
      BY <3>1, <3>5
    <3> QED
      BY <3>1, <3>2, <3>3, <3>4, <3>6 DEF L
  <2> QED
    BY <2>1, <2>2
<1> QED
  BY <1>4, <1>5

-----------------------------------------------------------------------------
(* The runs                                                                *)

\* The input of a run is what it has been at first.
LEMMA InputKept == [Next]_vars => UNCHANGED input
BY DEF Next, vars, Rest

InputIs(part, data) == Is(part) => input.data \in data

InputsAsGiven ==
    /\ InputIs("ports", [Ports -> Wires])
    /\ InputIs("triage", AllFindings \X AllFindings)
    /\ InputIs("people", MCCandidates \X MCCandidates)
    /\ InputIs("version", Words(Alphabet, 3))
    /\ InputIs("path", SUBSET Joins)

LEMMA InputsTyped == Spec => []InputsAsGiven
<1>1. Init => InputsAsGiven
  <2> SUFFICES ASSUME Init PROVE InputsAsGiven
    OBVIOUS
  <2>1. \A part, data : input \in Inputs(part, data) => input.part = part /\ input.data \in data
    BY DEF Inputs
  <2>2. \/ \E part \in {"components", "view"} : \E data : input \in Inputs(part, data)
        \/ input \in Inputs("ports", [Ports -> Wires])
        \/ input \in Inputs("triage", AllFindings \X AllFindings)
        \/ input \in Inputs("people", MCCandidates \X MCCandidates)
        \/ input \in Inputs("version", Words(Alphabet, 3))
        \/ input \in Inputs("path", SUBSET Joins)
    BY DEF Init
  <2> HIDE DEF Inputs
  <2> QED
    BY <2>1, <2>2 DEF InputsAsGiven, InputIs, Is
<1>2. InputsAsGiven /\ [Next]_vars => InputsAsGiven'
  BY InputKept DEF InputsAsGiven, InputIs, Is
<1> QED
  BY <1>1, <1>2, PTL DEF Spec

LEMMA PairAndOne ==
  ASSUME NEW T, NEW pair \in T \X T, NEW x \in T
  PROVE  Append(pair, x) \in Seq(T)
<1>1. \A g, h \in T : <<g, h>> \in Seq(T)
  OBVIOUS
<1>2. PICK g \in T, h \in T : pair = <<g, h>>
  OBVIOUS
<1> QED
  BY <1>1, <1>2

\* The entities of a set, in the order of the query, are a graph.
LEMMA InOrderIsGraph ==
  ASSUME NEW S
  PROVE  IsGraph(InOrder(S)) /\ Members(InOrder(S)) = S \cap Position
<1> DEFINE all == [k \in Position |-> k]
<1>1. Len(Pool) \in Nat /\ Position = 1..Len(Pool)
  BY ViewAssumption DEF Position
<1>2. all \in Seq(Position) /\ Distinct(all) /\ Members(all) = Position
  <2>1. all \in [1..Len(Pool) -> Position] /\ DOMAIN all = Position /\ \A k \in Position : all[k] = k
    BY <1>1
  <2> HIDE DEF all
  <2>2. all \in Seq(Position)
    BY <1>1, <2>1
  <2> QED
    BY <2>1, <2>2 DEF Distinct, Members
<1>3. InOrder(S) = Among(all, S)
  BY DEF InOrder
<1> HIDE DEF all
<1> QED
  BY <1>2, <1>3, Selected DEF IsGraph

\* The words of the run are texts.
LEMMA WordsAreTexts ==
  ASSUME NEW n \in Nat
  PROVE  Words(Alphabet, n) \subseteq Seq(Characters)
<1>1. Alphabet \subseteq Characters
  BY DEF Alphabet, Characters, Letters, Digits
<1>2. \A k \in 0..n : \A w \in [1..k -> Alphabet] : w \in Seq(Characters)
  <2> SUFFICES ASSUME NEW k \in 0..n, NEW w \in [1..k -> Alphabet]
               PROVE  w \in Seq(Characters)
    OBVIOUS
  <2>1. k \in Nat /\ w \in [1..k -> Characters]
    BY <1>1
  <2> QED
    BY <2>1
<1> QED
  BY <1>2 DEF Words

LEMMA OpenedArePorts == Opened \subseteq SUBSET Ports
BY DEF Opened, Sweep

\* Whatever ports are open, whatever they do on the wire and whatever nmap sees, what a database or a
\* careless service has shown of itself becomes a confirmed finding, a silent port of a proxy becomes
\* none, and no port is reported twice (scan_ports_and_services and audit_host_misconfigurations).
THEOREM ExposuresAlwaysReported ==
  /\ \A open_ports \in SUBSET Ports, wire \in [Ports -> Wires] : \A nmap : ExposuresReported(open_ports, wire, nmap)
  /\ Spec => []PortsAccountedFor
<1>1. \A open_ports \in SUBSET Ports, wire \in [Ports -> Wires] : \A nmap : ExposuresReported(open_ports, wire, nmap)
  BY EveryExposureReported
<1>2. InputsAsGiven => PortsAccountedFor
  BY <1>1, OpenedArePorts DEF PortsAccountedFor, InputsAsGiven, InputIs
<1>3. Spec => []PortsAccountedFor
  BY <1>2, InputsTyped, PTL
<1> QED
  BY <1>1, <1>3

\* Any list of findings is shown in the order of the scores, which another table gives than the one it
\* is sorted by, and what the limit leaves out scores no higher than what is shown
\* (deterministic_triage_findings).
THEOREM TriageAlwaysInOrder ==
  /\ \A T : \A findings \in Seq(T) : InOrderOfRisk(findings)
  /\ Spec => []RiskInOrder
<1>1. \A T : \A findings \in Seq(T) : InOrderOfRisk(findings)
  BY EveryListInOrder
<1>2. InputsAsGiven => RiskInOrder
  <2> SUFFICES ASSUME Is("triage"), input.data \in AllFindings \X AllFindings, NEW f \in AllFindings
               PROVE  InOrderOfRisk(Append(input.data, f))
    BY DEF RiskInOrder, InputsAsGiven, InputIs
  <2> HIDE DEF AllFindings
  <2>1. Append(input.data, f) \in Seq(AllFindings)
    BY PairAndOne
  <2> QED
    BY <1>1, <2>1
<1>3. Spec => []RiskInOrder
  BY <1>2, InputsTyped, PTL
<1> QED
  BY <1>1, <1>3

\* Whatever the candidates and their order, each human is evidence of one person and once only; whoever
\* joins a person has an address of it, or one of the target's and its name, or two of its name, user
\* names and employers; and has no employer unlike all of the person's but the target (resolve_identities
\* and resolve_identities_and_footprint).
THEOREM IdentitiesAlwaysSound ==
  /\ \A T : \A cands \in Seq(T) : \A target : Sound(cands, target)
  /\ Spec => []IdentitiesSound
<1>1. \A T : \A cands \in Seq(T) : \A target : Sound(cands, target)
  BY EveryResolutionSound
<1>2. InputsAsGiven => IdentitiesSound
  <2> SUFFICES ASSUME Is("people"), input.data \in MCCandidates \X MCCandidates, NEW c \in MCCandidates
               PROVE  Sound(Append(input.data, c), Acme)
    BY DEF IdentitiesSound, InputsAsGiven, InputIs
  <2> HIDE DEF MCCandidates
  <2>1. Append(input.data, c) \in Seq(MCCandidates)
    BY PairAndOne
  <2> QED
    BY <1>1, <2>1
<1>3. Spec => []IdentitiesSound
  BY <1>2, InputsTyped, PTL
<1> QED
  BY <1>1, <1>3

\* The comparison of versions is an order of all texts, those no release would have included: what is
\* before is not after, and what is no later than what is no later is no later.  So the verdict on a
\* backported fix is right for a release whose own fixed revision is the one that the program compares
\* with, and wrong in one direction only for every other: a release that has the fix earlier is
\* reported too long, one that has it later is cleared too soon (compare_dpkg_versions and
\* evaluate_distro_security_status).
THEOREM VersionsAlwaysOrdered ==
  /\ \A a, b \in Seq(Characters) : \A between \in SUBSET Seq(Characters) : OrdersAll(a, b, between)
  /\ \A revision, own, fixed \in Seq(Characters) : FollowsRelease(revision, own, fixed)
  /\ Spec => []VerdictsFollowReleases
<1>1. \A a, b \in Seq(Characters) : \A between \in SUBSET Seq(Characters) : OrdersAll(a, b, between)
  BY EveryComparisonOrders
<1>2. \A revision, own, fixed \in Seq(Characters) : FollowsRelease(revision, own, fixed)
  BY EveryVerdictFollows
<1>3. Words(Alphabet, 3) \subseteq Seq(Characters)
  BY WordsAreTexts
<1>4. MCFixed \in Seq(Characters)
  <2>1. "1" \in Characters /\ "a" \in Characters
    BY DEF Characters, Letters, Digits
  <2> QED
    BY <2>1 DEF MCFixed
<1>5. InputsAsGiven => VerdictsFollowReleases
  BY <1>2, <1>3, <1>4 DEF VerdictsFollowReleases, InputsAsGiven, InputIs
<1>6. Spec => []VerdictsFollowReleases
  BY <1>5, InputsTyped, PTL
<1> QED
  BY <1>1, <1>2, <1>6

\* Parts of a version that begin and end with a digit are compared as dpkg compares them, whatever
\* their length: the chunks of such parts are the blocks of dpkg but for an empty text in front, and
\* where one part has ended a text of the other decides, so that no number is compared with none
\* (compare_dpkg_versions).
THEOREM VersionsAlwaysAsDpkg ==
  /\ \A a, b \in Seq(Characters) : AsDpkg(a, b)
  /\ Spec => []VersionsAsDpkg
<1>1. \A a, b \in Seq(Characters) : AsDpkg(a, b)
  BY EveryPartAsDpkg
<1>2. Words(Alphabet, 3) \subseteq Seq(Characters) /\ Words(Alphabet, 2) \subseteq Seq(Characters)
  BY WordsAreTexts
<1>3. \A v, w : Between(v, w) \in SUBSET Seq(Characters)
  BY <1>2 DEF Between
<1>4. InputsAsGiven => VersionsAsDpkg
  <2> SUFFICES ASSUME Is("version"), input.data \in Words(Alphabet, 3), NEW w \in Words(Alphabet, 3)
               PROVE  AsDpkg(input.data, w) /\ OrdersAll(input.data, w, Between(input.data, w))
    BY DEF VersionsAsDpkg, InputsAsGiven, InputIs
  <2>1. input.data \in Seq(Characters) /\ w \in Seq(Characters)
    BY <1>2
  <2> QED
    BY <1>1, <1>3, <2>1, EveryComparisonOrders
<1>5. Spec => []VersionsAsDpkg
  BY <1>4, InputsTyped, PTL
<1> QED
  BY <1>1, <1>5

\* However the people of a graph are titled, and whatever the limits of the lenses, the executive and
\* the composite lens lose none of them and show none twice: each is a node or on the roster of the
\* staff, also when a lens selects nothing and falls back to what is stored (get_investigation_graph).
THEOREM NobodyEverLost ==
  /\ \A graph : IsGraph(graph) => AllAccountedFor(graph)
  /\ Spec => []PeopleAccountedFor
<1>1. \A graph : IsGraph(graph) => AllAccountedFor(graph)
  BY EverybodyAccountedFor
<1>2. PeopleAccountedFor
  BY <1>1, InOrderIsGraph DEF PeopleAccountedFor
<1>3. Spec => []PeopleAccountedFor
  BY <1>2, PTL
<1> QED
  BY <1>1, <1>3

\* Whatever the entities and the limits of the lenses, every node of the executive and of the composite
\* view is reached from the one organization, and every node of the attack surface from the one domain,
\* along at most three edges between nodes that are shown: nothing hangs on a person, a host or a lead
\* that the limit has cut (get_investigation_graph).
THEOREM ViewsAlwaysHangTogether ==
  /\ \A graph : IsGraph(graph) => HangsTogether(graph)
  /\ Spec => []ViewsHangTogether
<1>1. \A graph : IsGraph(graph) => HangsTogether(graph)
  BY ViewHangs
<1>2. ViewsHangTogether
  BY <1>1, InOrderIsGraph DEF ViewsHangTogether
<1>3. Spec => []ViewsHangTogether
  BY <1>2, PTL
<1> QED
  BY <1>1, <1>3

\* Between any entities of any graph a path is found exactly when one of at most the given number of
\* relationships exists, and no other is shorter; each step of it is a relationship that the expansion
\* of the node shows (find_entity_path and expand_graph_node).
THEOREM PathsAlwaysShortest ==
  /\ \A graph : IsGraph(graph) =>
       \A stored \in SUBSET (Members(graph) \X Members(graph)) :
         \A source, target \in Members(graph), depth \in Nat : ShortestPath(graph, stored, source, target, depth)
  /\ Spec => []PathsAreShortest
<1>1. \A graph : IsGraph(graph) =>
        \A stored \in SUBSET (Members(graph) \X Members(graph)) :
          \A source, target \in Members(graph), depth \in Nat : ShortestPath(graph, stored, source, target, depth)
  BY EveryPathShortest
<1>2. InputsAsGiven => PathsAreShortest
  <2> SUFFICES ASSUME Is("path"), input.data \in SUBSET Joins, NEW target \in Places, NEW depth \in 0..3
               PROVE  ShortestPath(InOrder(Places), input.data, 1, target, depth)
    BY DEF PathsAreShortest, InputsAsGiven, InputIs
  <2>1. IsGraph(InOrder(Places)) /\ Members(InOrder(Places)) = Places
    BY InOrderIsGraph, PlacesAreEntities
  <2>2. 1 \in Places /\ depth \in Nat
    BY DEF Places
  <2>3. input.data \in SUBSET (Places \X Places)
    BY DEF Joins
  <2> QED
    BY <1>1, <2>1, <2>2, <2>3
<1>3. Spec => []PathsAreShortest
  BY <1>2, InputsTyped, PTL
<1> QED
  BY <1>1, <1>3
=============================================================================
