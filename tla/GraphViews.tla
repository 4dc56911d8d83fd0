----------------------------- MODULE GraphViews -----------------------------
(***************************************************************************)
(* The views of the investigation graph (storage/db.py): the four lenses   *)
(* of get_investigation_graph, the expansion of a node, and the path       *)
(* between two entities.                                                   *)
(*                                                                         *)
(* A graph is a sequence of entities in the order of the query, and a set  *)
(* of stored relationships <<source, target>> between their positions in   *)
(* Pool.  What the lenses look at is kept of an entity: its type, the rank *)
(* of a person's title, whether an address belongs to a CDN, whether a     *)
(* vulnerability is "grave" (critical or high) or "medium", whether a name *)
(* is of high value, the length of its label, and the author of a document.*)
(***************************************************************************)
EXTENDS Lists, FiniteSets

CONSTANTS
    Pool,       \* the entities a graph may hold: a sequence of records
    Cap         \* how many nodes of a kind a lens shows: a record of numbers

ASSUME ViewAssumption ==
    /\ Pool \in Seq([type : {"organization", "domain", "subdomain", "ip", "vulnerability", "person",
                            "document", "port"},
                    mark : {"executive", "lead", "cdn", "grave", "medium", "sensitive", "none"},
                    len : Nat, author : Nat])
    /\ Cap \in [{"leads", "chiefs", "composite_leads", "documents", "subdomains", "origins",
                "composite_subdomains"} -> Nat \ {0}]

Position == DOMAIN Pool

\* The list without what lies beyond the first n.
Front(s, n) == SubSeq(s, 1, IF Len(s) < n THEN Len(s) ELSE n)
Back(s, n) == SubSeq(s, n + 1, Len(s))

Typed(graph, type) == Among(graph, {e \in Position : Pool[e].type = type})
Marked(s, mark) == Among(s, {e \in Position : Pool[e].mark = mark})
NotMarked(s, mark) == Among(s, {e \in Position : Pool[e].mark # mark})

\* sorted(domain_nodes, key = len)[:1]: the first of the shortest.
PrimaryDomain(graph) ==
    LET domains == Typed(graph, "domain")
        first == {k \in DOMAIN domains : \A j \in DOMAIN domains :
                     \/ Pool[domains[k]].len < Pool[domains[j]].len
                     \/ Pool[domains[k]].len = Pool[domains[j]].len /\ k <= j}
    IN {domains[k] : k \in first}

\* The origin addresses: those that do not belong to a CDN.
Origins(graph) == NotMarked(Typed(graph, "ip"), "cdn")

\* Nodes the views make up.
Roster == Len(Pool) + 1
Gateway == Len(Pool) + 2

\* add_edge keeps an edge only between nodes of the view.
View(nodes, edges, staff) ==
    [nodes |-> nodes, edges |-> {e \in edges : e[1] \in nodes /\ e[2] \in nodes}, staff |-> staff]

\* [:1] of a list as a set, and the edges from it to each of a set.
FirstOf(s) == Members(Front(s, 1))
From(sources, targets) == sources \X targets

\* Lens "all": what is stored.
RawView(graph, stored) == View(Members(graph), stored, {})

-----------------------------------------------------------------------------
(* Lens "executive" *)

\* Executives, leads and staff by title; without an executive the first lead, else the first of
\* the staff, is promoted.
Hierarchy(people) ==
    LET chiefs == Marked(people, "executive")
        leads == Marked(people, "lead")
        staff == NotMarked(NotMarked(people, "executive"), "lead")
    IN CASE chiefs # <<>> -> [chiefs |-> chiefs, leads |-> leads, staff |-> staff]
         [] chiefs = <<>> /\ leads # <<>> ->
                [chiefs |-> Front(leads, 1), leads |-> Back(leads, 1), staff |-> staff]
         [] OTHER -> [chiefs |-> Front(staff, 1), leads |-> <<>>, staff |-> Back(staff, 1)]

\* The document's author among the people of the graph.
AuthorOf(graph, doc) == {p \in Members(Typed(graph, "person")) : p = Pool[doc].author}

\* Mutant: the leads beyond the cap are shown nowhere.
ExecutiveView_LeadsLost(graph) ==
    LET h == Hierarchy(Typed(graph, "person"))
    IN View(Members(h.chiefs) \cup Members(Front(h.leads, Cap.leads)), {}, Members(h.staff))

ExecutiveView(graph) ==
    LET orgs == Typed(graph, "organization")
        docs == Members(Typed(graph, "document"))
        h == Hierarchy(Typed(graph, "person"))
        shown == Front(h.leads, Cap.leads)
        staff == Members(h.staff) \cup Members(Back(h.leads, Cap.leads))
        parent == IF h.chiefs # <<>> THEN FirstOf(h.chiefs) ELSE FirstOf(orgs)
        anchor == IF h.leads # <<>> THEN FirstOf(h.leads) ELSE parent
        roster == IF staff # {} /\ parent # {} THEN {Roster} ELSE {}
        credited == {d \in docs : AuthorOf(graph, d) # {}
                                  /\ AuthorOf(graph, d) \subseteq Members(h.chiefs) \cup Members(shown)}
    IN View(Members(orgs) \cup PrimaryDomain(graph) \cup Members(h.chiefs) \cup Members(shown)
               \cup roster \cup docs,
            From(FirstOf(orgs), PrimaryDomain(graph) \cup Members(h.chiefs))
               \cup From(parent, Members(shown))
               \cup From(anchor, roster)
               \cup (UNION {From(AuthorOf(graph, d), {d}) : d \in credited})
               \cup From(FirstOf(Typed(graph, "domain")), docs \ credited),
            IF roster = {} THEN {} ELSE staff)

-----------------------------------------------------------------------------
(* Lens "attack_surface" *)

\* The subdomains, or else the other domains, those of high value first.
RankedSubdomains(graph) ==
    LET own == Typed(graph, "subdomain")
        other == Among(Typed(graph, "domain"), Position \ PrimaryDomain(graph))
        candidates == IF own # <<>> THEN own ELSE other
    IN Marked(candidates, "sensitive") \o NotMarked(candidates, "sensitive")

\* Mutant: the vulnerabilities hang on the first address, of a CDN or not.
AttackSurfaceView_FirstAddress(graph) ==
    LET vulns == {v \in Members(Typed(graph, "vulnerability")) : Pool[v].mark \in {"grave", "medium"}}
        hosts == Members(Front(Origins(graph), Cap.origins))
    IN View(PrimaryDomain(graph) \cup hosts \cup vulns,
            From(PrimaryDomain(graph), hosts) \cup From(FirstOf(Typed(graph, "ip")), vulns), {})

AttackSurfaceView(graph) ==
    LET root == PrimaryDomain(graph)
        subs == Members(Front(RankedSubdomains(graph), Cap.subdomains))
        hosts == Members(Front(Origins(graph), Cap.origins))
        gateway == IF root # {} /\ Marked(Typed(graph, "ip"), "cdn") # <<>> THEN {Gateway} ELSE {}
        anchor == IF Origins(graph) # <<>> THEN FirstOf(Origins(graph)) ELSE root
        vulns == {v \in Members(Typed(graph, "vulnerability")) : Pool[v].mark \in {"grave", "medium"}}
    IN View(root \cup subs \cup hosts \cup gateway \cup vulns,
            From(root, subs \cup hosts \cup gateway) \cup From(anchor, vulns), {})

-----------------------------------------------------------------------------
(* Lens "composite" *)

\* Without an executive the first of the people is one, and the next three are leads.
CompositeHierarchy(people) ==
    IF Marked(people, "executive") = <<>> /\ people # <<>>
    THEN [chiefs |-> Front(people, 1),
          leads |-> IF Len(people) > 1 THEN Front(Back(people, 1), 3) ELSE Marked(people, "lead")]
    ELSE [chiefs |-> Marked(people, "executive"), leads |-> Marked(people, "lead")]

CompositeView(graph) ==
    LET orgs == Typed(graph, "organization")
        people == Typed(graph, "person")
        h == CompositeHierarchy(people)
        shown == Members(Front(h.chiefs, Cap.chiefs)) \cup Members(Front(h.leads, Cap.composite_leads))
        staff == Members(people) \ shown
        parent == IF h.chiefs # <<>> THEN FirstOf(h.chiefs) ELSE FirstOf(orgs)
        roster == IF staff # {} /\ parent # {} THEN {Roster} ELSE {}
        docs == Members(Front(Typed(graph, "document"), Cap.documents))
        domain == FirstOf(Typed(graph, "domain"))
        own == Typed(graph, "subdomain")
        sensitive == Marked(own, "sensitive")
        subs == Members(Front(IF sensitive # <<>> THEN sensitive ELSE own, Cap.composite_subdomains))
        host == IF domain # {} THEN FirstOf(Origins(graph)) ELSE {}
        anchor == IF Origins(graph) # <<>> THEN FirstOf(Origins(graph)) ELSE domain
        vulns == {v \in Members(Typed(graph, "vulnerability")) : Pool[v].mark = "grave"}
    IN View(Members(orgs) \cup PrimaryDomain(graph) \cup shown \cup roster \cup docs
               \cup subs \cup host \cup vulns,
            From(FirstOf(orgs), PrimaryDomain(graph) \cup Members(Front(h.chiefs, Cap.chiefs)))
               \cup From(parent, roster \cup Members(Front(h.leads, Cap.composite_leads)))
               \cup From(IF h.chiefs # <<>> THEN FirstOf(h.chiefs) ELSE domain, docs)
               \cup From(domain, subs \cup host)
               \cup From(anchor, vulns),
            IF roster = {} THEN {} ELSE staff)

\* A lens that selects nothing falls back to what is stored.
OrRaw(view, graph, stored) == IF view.nodes = {} THEN RawView(graph, stored) ELSE view

\* get_investigation_graph
Lens(graph, stored, lens) ==
    OrRaw(CASE lens = "executive" -> ExecutiveView(graph)
            [] lens = "attack_surface" -> AttackSurfaceView(graph)
            [] lens = "composite" -> CompositeView(graph)
            [] lens = "all" -> RawView(graph, stored), graph, stored)

\* expand_graph_node: a person unfolds into an address, a profile and the documents signed with
\* the name, an address into its open ports, and the stored relationships of the node are followed
\* in both directions; what is not stored, a roster for one, expands to nothing.
Leaf(kind, center) == <<kind, center>>

Expand(graph, stored, center) ==
    LET works == {d \in Members(Typed(graph, "document")) :
                    Pool[center].type = "person" /\ Pool[d].author = center}
        leaves == CASE Pool[center].type = "person" -> {Leaf("email", center), Leaf("profile", center)}
                    [] Pool[center].type = "ip" -> {Leaf("port", center)}
                    [] OTHER -> {}
        incident == {e \in stored : center \in {e[1], e[2]}}
        others == UNION {{e[1], e[2]} : e \in incident}
    IN IF center \notin Members(graph) THEN [nodes |-> {}, leaves |-> {}, edges |-> {}]
       ELSE [nodes |-> {center} \cup works \cup others, leaves |-> leaves,
             edges |-> From({center}, works) \cup incident]

-----------------------------------------------------------------------------
(* find_entity_path *)

Neighbours(stored, n) == {m \in Position : <<n, m>> \in stored \/ <<m, n>> \in stored}

\* The neighbours in the order of the adjacency list; the model takes the order of positions.
Ordered(S) == Among([k \in Position |-> k], S)

\* Mutant: the length of a path is not limited.
BfsStep_NoLimit(stored, target, depth, st) ==
    LET path == Head(st.queue)
        next == Neighbours(stored, path[Len(path)])
        fresh == Ordered(next \ st.visited)
    IN IF target \in next THEN [st EXCEPT !.found = Append(path, target)]
       ELSE [queue |-> Tail(st.queue) \o [k \in DOMAIN fresh |-> Append(path, fresh[k])],
             visited |-> st.visited \cup next, found |-> <<>>]

\* One turn of the loop: take a path from the queue; leave it if it is max_depth long; end with
\* the target among its neighbours; else queue the path to each neighbour not seen before.
BfsStep(stored, target, depth, st) ==
    LET path == Head(st.queue)
        next == Neighbours(stored, path[Len(path)])
        fresh == Ordered(next \ st.visited)
    IN IF Len(path) - 1 >= depth THEN [st EXCEPT !.queue = Tail(@)]
       ELSE IF target \in next THEN [st EXCEPT !.found = Append(path, target)]
       ELSE [queue |-> Tail(st.queue) \o [k \in DOMAIN fresh |-> Append(path, fresh[k])],
             visited |-> st.visited \cup next, found |-> <<>>]

\* The nodes of the path that is found, <<>> when there is none.
FindPath(graph, stored, source, target, depth) ==
    LET run[k \in 0..Len(Pool) + 1] ==
          IF k = 0 THEN [queue |-> <<<<source>>>>, visited |-> {source}, found |-> <<>>]
          ELSE LET st == run[k - 1] IN
               IF st.queue = <<>> \/ st.found # <<>> THEN st ELSE BfsStep(stored, target, depth, st)
    IN IF {source, target} \subseteq Members(graph)
       THEN IF source = target THEN <<source>> ELSE run[Len(Pool) + 1].found
       ELSE <<>>

\* Reference: the nodes within n relationships of a node.
Within(stored, source, depth) ==
    LET ball[n \in 0..depth] ==
          IF n = 0 THEN {source}
          ELSE ball[n - 1] \cup UNION {Neighbours(stored, m) : m \in ball[n - 1]}
    IN ball

-----------------------------------------------------------------------------
(* What the views promise *)

\* People of a graph and of a view.
PeopleOf(nodes) == {p \in nodes \cap Position : Pool[p].type = "person"}

\* A view divides the people into those that are its nodes and those on the roster of the staff.
Divides(view, people) ==
    /\ people = PeopleOf(view.nodes) \cup view.staff
    /\ PeopleOf(view.nodes) \cap view.staff = {}

\* The executive and the composite lens lose nobody and show nobody twice: a person is a node of
\* the view or on the roster of the staff, whatever the titles and the caps.
AllAccountedFor(graph) == \A lens \in {"executive", "composite"} :
    Divides(Lens(graph, {}, lens), PeopleOf(Members(graph)))

\* The nodes reached from a node along the edges of a view, each of which joins two of its nodes.
Reached(view, root) ==
    LET ball[n \in 0..3] ==
          IF n = 0 THEN {root} ELSE ball[n - 1] \cup {e[2] : e \in {x \in view.edges : x[1] \in ball[n - 1]}}
    IN ball[3]
Rooted(view, root) == Reached(view, root) = view.nodes

\* In a graph with one organization and one domain the executive and the composite view hang
\* together under the organization, and in one with one domain the attack surface hangs together
\* under the domain: no person, document, address or vulnerability is shown unconnected.
HangsTogether(graph) ==
    /\ Len(Typed(graph, "organization")) = 1 /\ Len(Typed(graph, "domain")) = 1
         => \A lens \in {"executive", "composite"} :
              Rooted(Lens(graph, {}, lens), Typed(graph, "organization")[1])
    /\ Len(Typed(graph, "domain")) = 1
         => Rooted(Lens(graph, {}, "attack_surface"), Typed(graph, "domain")[1])

\* A path is found exactly when the target lies within max_depth relationships of the source, no
\* path is shorter, and each of its steps is one that an expansion of the node offers.
ShortestPath(graph, stored, source, target, depth) ==
    LET path == FindPath(graph, stored, source, target, depth)
    IN IF target \notin Within(stored, source, depth)[depth] THEN path = <<>>
       ELSE /\ path # <<>> /\ path[1] = source /\ path[Len(path)] = target
            /\ Len(path) = 1 \/ target \notin Within(stored, source, depth)[Len(path) - 2]
            /\ \A k \in 1..Len(path) - 1 : path[k + 1] \in Expand(graph, stored, path[k]).nodes
=============================================================================
