--------------------------- MODULE FindingTriage ---------------------------
(***************************************************************************)
(* From the reports of the ports to the priorities of the report:          *)
(* the audit of exposed services and the evaluation of known               *)
(* vulnerabilities (vuln/vulnerability_engine.py), and the deterministic   *)
(* triage of all findings (ai/triage.py).                                  *)
(*                                                                         *)
(* A finding is a record [status, severity, port]: its finding_status,     *)
(* which the template scanners do not give, and the port it is about.  Of  *)
(* its other fields the triage reads evidence_tier and status where there  *)
(* is no finding_status: they are not modelled.                            *)
(***************************************************************************)
EXTENDS PortScan, DistroMatcher

CONSTANT MaxFindings    \* findings of a triage at most

ASSUME TriageAssumption == MaxFindings \in Nat

Finding(status, severity, port) == [status |-> status, severity |-> severity, port |-> port]
Unrated == "no finding_status"

-----------------------------------------------------------------------------
(* Exposed services *)

\* Whether the audit takes a database for verified: by the flag, by the method, or by a banner that is
\* long or names a protocol.
DatabaseVerified(r) == r.verified \/ r.method = "handshake" \/ r.banner \in {"long", "telnet"}

\* The banner of a telnet service has to name it, or ask for a login.
TelnetVerified(r) == r.verified \/ r.banner = "telnet"

\* Dangerous methods of the web, or anonymous access.
AuditLax(r) == IF r.lax THEN {Finding("CONFIRMED", IF PortKind[r.port] = "web" THEN "medium" ELSE "high", r.port)}
                        ELSE {}

\* audit_host_misconfigurations of one port.
Audit(r) == AuditLax(r) \cup
    CASE PortKind[r.port] \in {"database", "store"} ->
           {IF DatabaseVerified(r) THEN Finding("CONFIRMED", "critical", r.port)
                                   ELSE Finding("POTENTIALLY_AFFECTED", "medium", r.port)}
      [] PortKind[r.port] = "telnet" ->
           {IF TelnetVerified(r) THEN Finding("CONFIRMED", "high", r.port)
                                 ELSE Finding("POTENTIALLY_AFFECTED", "medium", r.port)}
      [] OTHER -> {}

-----------------------------------------------------------------------------
(* Known vulnerabilities *)

\* _infer_host_os: what the host is known to run, or else the first of the systems that the banner or
\* the product hints at; a product hints at Linux or Windows only.
InferHostOs(context, banner, product) ==
    LET systems == <<"linux", "windows", "darwin", "bsd">>
        hinted == {k \in 1..4 : systems[k] \in banner \cup (product \cap {"linux", "windows"})}
    IN IF context # "unknown" THEN context
       ELSE IF hinted = {} THEN "unknown" ELSE systems[CHOOSE k \in hinted : \A j \in hinted : k <= j]

\* The system is known and none of those the vulnerability needs; unix stands for three of them.
PlatformMismatch(required, os) ==
    /\ required # {} /\ os # "unknown"
    /\ os \notin required
    /\ ~("unix" \in required /\ os \in {"linux", "bsd", "darwin"})

StatusOf(verdict) ==
    CASE verdict = "confirmed" -> "CONFIRMED"
      [] verdict = "not vulnerable" -> "NOT_VULNERABLE"
      [] verdict = "likely vulnerable" -> "LIKELY_VULNERABLE"
      [] OTHER -> "POTENTIALLY_AFFECTED"

\* A vulnerability of an optional module stays a possibility until the configuration is seen.
WithPrerequisite(status, module, configured) ==
    IF module /\ status \notin {"NOT_VULNERABLE", "CONFIRMED"} /\ ~configured
    THEN "POTENTIALLY_AFFECTED" ELSE status

\* The severity that is reported: nominal if proved or likely, and a mere possibility is never critical.
ReportedSeverity(status, severity) ==
    CASE status \in {"CONFIRMED", "LIKELY_VULNERABLE"} -> severity
      [] status \in {"NOT_VULNERABLE", "NOT_APPLICABLE"} -> "info"
      [] OTHER -> IF severity = "critical" THEN "medium" ELSE severity

\* evaluate_vulnerabilities for one signature [severity, required, module] whose versions match, on
\* a host, with the verdict of the distribution's tracker.
Evaluate(sig, os, verdict, configured, port) ==
    LET status == IF PlatformMismatch(sig.required, os) THEN "NOT_APPLICABLE"
                  ELSE WithPrerequisite(StatusOf(verdict), sig.module, configured)
    IN Finding(status, ReportedSeverity(status, sig.severity), port)

-----------------------------------------------------------------------------
(* Triage *)

TierPriority(status) ==
    CASE status = "CONFIRMED" -> 1
      [] status = "LIKELY_VULNERABLE" -> 2
      [] status = "NOT_VULNERABLE" -> 4
      [] OTHER -> 3

SeverityOrder(severity) ==
    CASE severity = "critical" -> 1 [] severity = "high" -> 2 [] severity = "medium" -> 3
      [] severity = "low" -> 4 [] severity = "info" -> 5 [] OTHER -> 99

\* Mutant: the severity is compared before the tier.
SortsBefore_Severity(f, g) ==
    \/ SeverityOrder(f.severity) < SeverityOrder(g.severity)
    \/ SeverityOrder(f.severity) = SeverityOrder(g.severity) /\ TierPriority(f.status) < TierPriority(g.status)

\* finding_sort_key
SortsBefore(f, g) ==
    \/ TierPriority(f.status) < TierPriority(g.status)
    \/ TierPriority(f.status) = TierPriority(g.status) /\ SeverityOrder(f.severity) < SeverityOrder(g.severity)

\* sorted() is stable.
SortFindings(findings) ==
    LET before(j, k) == \/ SortsBefore(findings[j], findings[k])
                        \/ ~SortsBefore(findings[k], findings[j]) /\ j < k
        place(k) == 1 + Cardinality({j \in DOMAIN findings \ {k} : before(j, k)})
    IN [n \in DOMAIN findings |-> findings[CHOOSE k \in DOMAIN findings : place(k) = n]]

\* The risk score of a finding, in tenths.  One without finding_status counts as a possibility here and
\* in the order: the code falls back on status here and on evidence_tier there, but the producers that
\* are modelled give neither without a finding_status.
RiskScore(f) ==
    CASE f.status = "CONFIRMED" -> IF f.severity = "critical" THEN 98 ELSE 85
      [] f.status = "LIKELY_VULNERABLE" -> IF f.severity = "critical" THEN 85 ELSE 70
      [] f.status = "NOT_VULNERABLE" -> 10
      [] OTHER -> IF f.severity \in {"critical", "high"} THEN 50 ELSE 35

\* The attack vectors that the report proposes: what the scan has found of hosts for staging, people
\* and addresses behind the CDN, or else the general one.
AttackVectors(found) == IF found = {} THEN {"perimeter"} ELSE found

\* deterministic_triage_findings of a job's findings and of what else it has found.
DeterministicTriage(findings, found) ==
    LET sorted == SortFindings(findings)
        kept == IF Len(sorted) < MaxFindings THEN Len(sorted) ELSE MaxFindings
    IN [prioritized_findings |-> SubSeq(sorted, 1, kept),
        attack_vectors |-> AttackVectors(found)]

NoReply == [prioritized_findings |-> <<>>, attack_vectors |-> {}]

\* triage_findings: the reply of a language model, if one can be read; a gateway that fails, text
\* that is not JSON and JSON without findings give none.
Triage(reply, findings, found) == IF reply = NoReply THEN DeterministicTriage(findings, found) ELSE reply

-----------------------------------------------------------------------------
(* Properties *)

\* Without a language model the list of the report is in the order of the scores it shows, and
\* nothing that is left out scores higher than what is kept.
InOrderOfRisk(findings) ==
    LET kept == Triage(NoReply, findings, {}).prioritized_findings
        Count(f, s) == Cardinality({k \in DOMAIN s : s[k] = f})
    IN /\ \A n \in 1..Len(kept) - 1 : RiskScore(kept[n]) >= RiskScore(kept[n + 1])
       /\ \A k \in DOMAIN findings : Count(findings[k], kept) < Count(findings[k], findings)
             => \A n \in DOMAIN kept : RiskScore(kept[n]) >= RiskScore(findings[k])

\* What a database port has proved with its protocol reaches the findings as confirmed, whatever nmap
\* adds to it and however many of the other ports stay silent; so do dangerous methods and anonymous
\* access, if nmap does not report the port (its record replaces that of the probe and has neither);
\* and on a host that is taken for a proxy no port that has said nothing becomes a finding.
ExposuresReported(open_ports, wire, nmap) ==
    LET reports == ScanPorts(open_ports, wire, nmap)
        findings == UNION {Audit(r) : r \in reports}
        answers == {Probe(p, wire[p]) : p \in open_ports} \ {NoAnswer}
    IN /\ \A p \in open_ports : PortKind[p] = "database" /\ wire[p] \in {"handshake", "lax"}
             => Finding("CONFIRMED", "critical", p) \in findings
       /\ \A p \in open_ports \ DOMAIN nmap : wire[p] = "lax"
             => \E f \in findings : f.port = p /\ f.status = "CONFIRMED" /\ f.severity # "critical"
       /\ IsProxy(open_ports, answers) => \A f \in findings : wire[f.port] \notin {"silent", "crumb", "reset"}
       /\ \A r1, r2 \in reports : r1.port = r2.port => r1 = r2

\* A database is confirmed to be exposed only if it has answered: "Verified daemon responding to
\* active Layer 7 protocol handshake".
ConfirmedHasAnswered(open_ports, wire, nmap) ==
    \A f \in UNION {Audit(r) : r \in ScanPorts(open_ports, wire, nmap)} :
        PortKind[f.port] \in {"database", "store"} /\ f.status = "CONFIRMED"
            => wire[f.port] \notin {"silent", "reset"}
=============================================================================
