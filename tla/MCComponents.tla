---------------------------- MODULE MCComponents ----------------------------
(***************************************************************************)
(* Instances of the components that work on their own, for TLC.  A         *)
(* behaviour chooses its input first: either one of the components with a  *)
(* state, which then runs while the others rest, or the arguments of one   *)
(* of the algorithms.                                                      *)
(***************************************************************************)
EXTENDS EvidenceGraph, GraphViews, SearchTiers, LoginLimiter, ThreatCaches, AppAudit, SiteCrawler,
        FindingTriage, IdentityResolution, TLC

VARIABLE input      \* [part, ...]: what runs, or what is computed and from what

vars == <<graphVars, searchVars, limiterVars, cacheVars, auditVars, crawlVars, input>>

Is(part) == input.part = part
Inputs(part, data) == {[part |-> part, data |-> d] : d \in data}

-----------------------------------------------------------------------------
(* The graph: views of the subsets of a pool of entities, paths of sets of relationships *)

Entity(type, mark, len, author) == [type |-> type, mark |-> mark, len |-> len, author |-> author]

\* The shorter domain comes second, one document is signed by a member of the staff.
MCPool == <<Entity("organization", "none", 1, 0), Entity("domain", "none", 2, 0), Entity("domain", "none", 1, 0),
            Entity("person", "none", 1, 0), Entity("person", "executive", 1, 0), Entity("person", "lead", 1, 0),
            Entity("person", "lead", 1, 0), Entity("document", "none", 1, 4), Entity("ip", "cdn", 1, 0),
            Entity("ip", "none", 1, 0), Entity("vulnerability", "grave", 1, 0),
            Entity("subdomain", "sensitive", 1, 0), Entity("port", "none", 1, 0)>>
MCCap == [leads |-> 1, chiefs |-> 1, composite_leads |-> 1, documents |-> 1, subdomains |-> 1,
          origins |-> 1, composite_subdomains |-> 1]

\* A graph of the entities of a set, in the order of the query.
InOrder(S) == Among([k \in Position |-> k], S)

\* Stored relationships between five of the entities, in either direction.
Places == 1..5
ASSUME PlacesAreEntities == Places \subseteq Position
Joins == {e \in Places \X Places : IF (e[1] + e[2]) % 2 = 0 THEN e[1] < e[2] ELSE e[1] > e[2]}

PeopleAccountedFor == Is("view") => AllAccountedFor(InOrder(input.data))
ViewsHangTogether == Is("view") => HangsTogether(InOrder(input.data))
PathsAreShortest == Is("path") =>
    \A target \in Places, depth \in 0..3 : ShortestPath(InOrder(Places), input.data, 1, target, depth)

-----------------------------------------------------------------------------
(* Versions of packages *)

\* All texts of at most n of the characters.
Words(chars, n) == UNION {[1..k -> chars] : k \in 0..n}
Alphabet == {"~", "a", ".", "0", "1"}
MCFixed == <<"1", "a", "1">>

Between(v, w) == IF Len(v) + Len(w) <= 3 THEN Words(Alphabet, 2) ELSE {}

VersionsAsDpkg == Is("version") =>
    \A w \in Words(Alphabet, 3) : AsDpkg(input.data, w) /\ OrdersAll(input.data, w, Between(input.data, w))
VerdictsFollowReleases == Is("version") => \A own \in Words(Alphabet, 3) : FollowsRelease(input.data, own, MCFixed)

-----------------------------------------------------------------------------
(* Ports and findings *)

MCPortKind == <<"database", "web", "store", "telnet">>
MCProfile == {1, 4}

\* Of masscan nothing, or everything; nmap sees the versions of all the ports it reports, or of none.
Opened == {Sweep(masscan, Ports, MCProfile) : masscan \in {{}, Ports}}
NmapReports == {[p \in seen |-> version] : seen \in NmapSees, version \in BOOLEAN}

PortsAccountedFor == Is("ports") => \A open_ports \in Opened, nmap \in NmapReports :
    ExposuresReported(open_ports, input.data, nmap)
ConfirmedIsVerified == Is("ports") => \A open_ports \in Opened, nmap \in NmapReports :
    ConfirmedHasAnswered(open_ports, input.data, nmap)

\* Signatures of the table, hosts, and verdicts of the trackers; plugins prove what they find, and the
\* template scanners rate nothing.
MCSignatures == [severity : {"critical", "high", "medium"}, required : {{}, {"windows"}, {"linux", "unix"}},
                 module : BOOLEAN]
MCSystems == {InferHostOs(context, banner, product) :
                context \in {"unknown", "bsd"}, banner \in {{}, {"windows"}}, product \in {{}, {"linux"}}}
Verdicts == {Verdict(cve, "debian", revision, MCFixed, FALSE, intel) :
               cve \in {"backported", "configuration"}, revision \in {<<>>, <<"1">>, <<"2">>},
               intel \in {"none", "table"}}
AllFindings ==
    {Evaluate(sig, os, verdict, FALSE, 0) : sig \in MCSignatures, os \in MCSystems, verdict \in Verdicts}
      \cup (UNION {Audit(r) : r \in {Probe(p, wire) : p \in Ports, wire \in Wires} \ {NoAnswer}})
      \cup {Finding("CONFIRMED", severity, 0) : severity \in {"high", "medium", "low"}}
      \cup {Finding(Unrated, severity, 0) : severity \in {"critical", "high", "medium", "low", "info", "unknown"}}

RiskInOrder == Is("triage") => \A f \in AllFindings : InOrderOfRisk(Append(input.data, f))

-----------------------------------------------------------------------------
(* People *)

Acme == {"acme"}
Owned == [box |-> "js", owned |-> TRUE]
Private == [box |-> "private", owned |-> FALSE]
Candidates ==
    {[name |-> name, email |-> email, username |-> username, org |-> org, kind |-> {}] :
        name \in {<<"j", "s">>, <<"j", "a", "s">>, <<"m", "k">>}, email \in {NoEmail, Owned, Private},
        username \in {NoText, "js"}, org \in {{}, Acme, {"acme", "labs"}, {"globex"}}}
MCCandidates == {c \in Candidates : c.email = NoEmail \/ c.username = NoText}
                  \cup {[name |-> <<"acme", "ltd">>, email |-> Owned, username |-> NoText,
                         org |-> Acme, kind |-> {"legal_form"}]}

IdentitiesSound == Is("people") => \A c \in MCCandidates : Sound(Append(input.data, c), Acme)

-----------------------------------------------------------------------------
(* Sites: any links between four pages that go at most two pages on or back to the second *)

MCLinks == {e \in Pages \X Pages : e[1] # e[2] /\ (e[2] = 2 \/ e[2] \in e[1] + 1..e[1] + 2)}
\* Ann's card has her address, number and name, and so has the next one under which she shares both.
Ann == <<"ann@acme", "555", "ann">>
Bob == <<"bob@acme", "555", "bob">>
MCShows == <<<<Ann, <<"bob@acme">>>>, <<>>, <<Ann, Bob>>, <<Bob, Ann, <<"555">>>>>>
MCSites == {[links |-> [p \in Pages |-> {q \in Pages : <<p, q>> \in E}], out |-> out, high |-> high,
             shows |-> MCShows, seeds |-> seeds] :
              E \in SUBSET MCLinks, out \in {{}, {4}}, high \in {{}, {3}, {2, 4}},
              seeds \in {<<<<1, 0>>>>, <<<<1, 0>>, <<2, 1>>>>, <<<<1, 0>>, <<2, 1>>, <<3, 0>>>>}}
ASSUME SitesAreSites == \A s \in MCSites : IsSite(s)

-----------------------------------------------------------------------------
Runs(name) == Is("components") /\ input.data = name
Rest(others) == UNCHANGED <<others, input>>

Init ==
    /\ GraphInit /\ SearchInit /\ LimiterInit /\ CacheInit /\ AuditInit
    /\ \/ input \in Inputs("components", {"graph", "search", "limiter", "kev", "epss", "audit", "crawl"})
       \/ input \in Inputs("view", SUBSET Position)
       \/ input \in Inputs("path", SUBSET Joins)
       \/ input \in Inputs("version", Words(Alphabet, 3))
       \/ input \in Inputs("ports", [Ports -> Wires])
       \/ input \in Inputs("triage", AllFindings \X AllFindings)
       \/ input \in Inputs("people", MCCandidates \X MCCandidates)
    /\ CrawlInit(IF Runs("crawl") THEN MCSites ELSE {CHOOSE s \in MCSites : TRUE})

Next ==
    \/ /\ Runs("graph") /\ GraphNext
       /\ Rest(<<searchVars, limiterVars, cacheVars, auditVars, crawlVars>>)
    \/ /\ Runs("search") /\ SearchNext
       /\ Rest(<<graphVars, limiterVars, cacheVars, auditVars, crawlVars>>)
    \/ /\ Runs("limiter") /\ LimiterNext
       /\ Rest(<<graphVars, searchVars, cacheVars, auditVars, crawlVars>>)
    \/ /\ (Runs("kev") /\ KevNext) \/ (Runs("epss") /\ EpssNext)
       /\ Rest(<<graphVars, searchVars, limiterVars, auditVars, crawlVars>>)
    \/ /\ Runs("audit") /\ AuditNext
       /\ Rest(<<graphVars, searchVars, limiterVars, cacheVars, crawlVars>>)
    \/ /\ Runs("crawl") /\ CrawlNext
       /\ Rest(<<graphVars, searchVars, limiterVars, cacheVars, auditVars>>)

Spec == Init /\ [][Next]_vars

MCKeys == [t \in Tenants |-> t]
Interchangeable == Permutations(Tenants)
=============================================================================
