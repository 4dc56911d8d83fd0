------------------------------ MODULE PortScan ------------------------------
(***************************************************************************)
(* The scan of the ports of one address (recon/ports.py): a sweep finds    *)
(* the ports that accept a connection, each of them is probed with its     *)
(* protocol, a host on which most of many ports stay silent is taken for   *)
(* a proxy, and what nmap has found is merged with the probes.             *)
(*                                                                         *)
(* What a port does on the wire is one of Wires; what is reported of it is *)
(* a record [port, verified, method, banner, version, lax].                *)
(***************************************************************************)
EXTENDS Naturals, Sequences, FiniteSets

CONSTANTS
    PortKind,       \* the kind of each port: web, telnet, a database with a probe of its own, a store
                    \* (a database without one), or plain
    GhostLimit,     \* a host with more accepting ports may be a proxy
    NmapLimit       \* ports that nmap is given at most

Ports == DOMAIN PortKind

\* handshake: the port speaks the protocol it is assigned to; lax: it also offers dangerous methods of
\* the web, or lets anyone in; greeting: some known protocol; text and crumb: a long and a short text
\* of none; silent: it closes the connection without a word; reset: an error, or no word in time.
Wires == {"handshake", "lax", "greeting", "text", "crumb", "silent", "reset"}

NoAnswer == [answered |-> FALSE]
Report(port, verified, method, banner, version, lax) ==
    [answered |-> TRUE, port |-> port, verified |-> verified, method |-> method,
     banner |-> banner, version |-> version, lax |-> lax]
Handshake(port, wire) == Report(port, TRUE, "handshake", "long", TRUE, wire = "lax")

\* The request for a web page, over TLS or not, and the one for the methods.
ProbeWeb(port, wire) ==
    IF PortKind[port] = "web" /\ wire \in {"handshake", "lax"} THEN Handshake(port, wire) ELSE NoAnswer

\* The probes of postgres, telnet, redis, mysql and rdp; the one of redis sees whether it lets anyone in.
ProbeProtocol(port, wire) ==
    IF \/ PortKind[port] = "database" /\ wire \in {"handshake", "lax"}
       \/ PortKind[port] = "telnet" /\ wire = "handshake"
    THEN Handshake(port, wire) ELSE NoAnswer

\* What the port says by itself; a connection that is closed in silence is reported with a banner that
\* says so, and an FTP server is asked to let anyone in.
GrabBanner(port, wire) ==
    CASE wire = "reset" -> NoAnswer
      [] wire = "silent" -> Report(port, FALSE, "connect", "long", FALSE, FALSE)
      [] wire = "text" -> Report(port, TRUE, "banner", "long", TRUE, FALSE)
      [] wire = "crumb" -> Report(port, FALSE, "banner", "short", FALSE, FALSE)
      [] OTHER -> Handshake(port, wire)

\* probe_port_service_native: the first that answers.
Probe(port, wire) ==
    LET web == ProbeWeb(port, wire)
        protocol == ProbeProtocol(port, wire)
    IN IF web # NoAnswer THEN web ELSE IF protocol # NoAnswer THEN protocol ELSE GrabBanner(port, wire)

\* The sweep: masscan if it is there and finds anything, else connections to the ports of the profile.
Sweep(masscan, accepting, profile) == IF masscan = {} THEN accepting \cap profile ELSE masscan

Verified(reports) == {r \in reports : r.verified}

\* Mostly silent, and too many ports.
IsProxy(open_ports, reports) ==
    Cardinality(open_ports) > GhostLimit /\ 2 * Cardinality(Verified(reports)) < Cardinality(open_ports)

\* The ports that nmap may report on: of those the sweep has found as many as it is asked for.
NmapSees == {seen \in SUBSET Ports : Cardinality(seen) <= NmapLimit}

\* What nmap reports: no verification and no banner, with or without a version, and nothing lax, since
\* none of the command lines runs the scripts that the parser would read it from.
NmapReport(port, version) == Report(port, FALSE, "nmap", "none", version, FALSE)

\* Mutant: the merge keeps nmap's record of a port as it is.
Combine_NmapOnly(nmap, probed) == nmap

\* nmap's record of a port takes the version and the banner that it lacks, and nothing else.
Combine(nmap, probed) ==
    [nmap EXCEPT !.version = @ \/ probed.version,
                 !.banner = IF @ = "none" THEN probed.banner ELSE @]

\* Stage 3: the ports that either has found; nmap gives versions of some of the ports it is asked for.
MergeNmap(nmap, reports) ==
    (UNION {{Combine(n, r) : r \in {x \in reports : x.port = n.port}} : n \in nmap})
      \cup {n \in nmap : \A r \in reports : r.port # n.port}
      \cup {r \in reports : \A n \in nmap : r.port # n.port}

\* scan_ports_and_services of an address that is no edge of a CDN; "nmap" maps the ports it reports to
\* whether it knows a version.
ScanPorts(open_ports, wire, nmap) ==
    LET answers == {Probe(p, wire[p]) : p \in open_ports} \ {NoAnswer}
        reports == IF IsProxy(open_ports, answers) THEN Verified(answers) ELSE answers
        active == IF IsProxy(open_ports, answers) THEN {r.port : r \in reports} ELSE open_ports
        seen == {NmapReport(p, nmap[p]) : p \in active \cap DOMAIN nmap}
    IN IF seen # {} THEN MergeNmap(seen, reports)
       ELSE IF reports # {} THEN reports
       ELSE {Report(p, FALSE, "none", "none", FALSE, FALSE) : p \in active}
=============================================================================
