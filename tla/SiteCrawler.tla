---------------------------- MODULE SiteCrawler ----------------------------
(***************************************************************************)
(* The crawl of a site for people and contacts (people/site_crawler.py).   *)
(* The site is a graph of pages; the queue takes links at its end, and     *)
(* those whose address promises people at its front.                       *)
(***************************************************************************)
EXTENDS Lists, FiniteSets

CONSTANTS
    Pages,      \* numbered in the order in which a page shows its links
    MaxPages,   \* max_pages
    MaxDepth    \* max_depth

ASSUME CrawlAssumption ==
    /\ IsFiniteSet(Pages) /\ Pages = 1..Cardinality(Pages)
    /\ MaxPages \in Nat /\ MaxDepth \in Nat

VARIABLES
    site,       \* [links, out, high, shows, seeds]: the pages a page links to, which of them are
                \* out of scope or media, which are of high value, the contacts that each shows,
                \* extractor after extractor, and the seeds
    frontier,   \* queue of <<page, depth>>
    visited,    \* visited_urls: the depth at which each page was visited
    found       \* results: [contact, key], in the order in which they are found; the key that was
                \* new of a contact is in seen_emails, seen_phones, seen_names or seen_profiles

crawlVars == <<site, frontier, visited, found>>

\* A contact is told by its keys, an address, a number, a name or a profile, in the order in which they
\* are looked up: one of a JSON-LD entity has up to three, that of any other extractor has one.
Contacts(s) == UNION {Members(s.shows[p]) : p \in Pages}

\* The links of a page are pages, and a seed is at depth 0 or 1.
IsSite(s) ==
    /\ s.links \in [Pages -> SUBSET Pages] /\ s.seeds \in Seq(Pages \X {0, 1})
    /\ \A p \in Pages : s.shows[p] \in Seq(Members(s.shows[p]))
    /\ \A contact \in Contacts(s) : contact \in Seq(Members(contact))

\* Seeds: the base page of a host at depth 0, the common paths of teams and the links of the site map
\* at depth 1, host after host.
CrawlInit(sites) ==
    /\ site \in sites
    /\ frontier = site.seeds
    /\ visited = <<>>
    /\ found = <<>>

\* Mutant: the scope of a link is not looked at.
Followed_AnyScope(page) == {q \in site.links[page] : q \notin DOMAIN visited}

\* The links of a page that are followed: in scope, neither media nor noise, not visited yet.
Followed(page) == {q \in site.links[page] : q \notin site.out \cup DOMAIN visited}

\* The pages of a set, as a page shows them.
Ascending(S) == Among([p \in Pages |-> p], S)
Backwards(s) == [n \in DOMAIN s |-> s[Len(s) + 1 - n]]
AtDepth(depth, s) == [n \in DOMAIN s |-> <<s[n], depth>>]

\* G: each link of high value goes to the front, any other to the end.
Enqueued(queue, page, depth) ==
    IF depth >= MaxDepth THEN queue
    ELSE AtDepth(depth + 1, Backwards(Ascending(Followed(page) \cap site.high)))
           \o queue \o AtDepth(depth + 1, Ascending(Followed(page) \ site.high))

SeenKeys(list) == {list[n].key : n \in DOMAIN list}
Unseen(list, contact) == {i \in DOMAIN contact : contact[i] \notin SeenKeys(list)}

\* Mutant: a contact is looked up by its first key alone.
Recorded_FirstKey(list, contact) ==
    IF 1 \notin Unseen(list, contact) THEN list
    ELSE Append(list, [contact |-> contact, key |-> contact[1]])

\* A contact is recorded under the first of its keys that has not been seen, if there is one; the
\* others do not count as seen by that.
Recorded(list, contact) ==
    IF Unseen(list, contact) = {} THEN list
    ELSE LET first == CHOOSE i \in Unseen(list, contact) : \A j \in Unseen(list, contact) : i <= j
         IN Append(list, [contact |-> contact, key |-> contact[first]])

\* A to F: the contacts of a page, one after the other.
HarvestedFirst(page) ==
    LET harvested[n \in 0..Len(site.shows[page])] ==
          IF n = 0 THEN found ELSE Recorded(harvested[n - 1], site.shows[page][n])
    IN harvested
Harvested(page) == HarvestedFirst(page)[Len(site.shows[page])]

\* One turn of the loop; a page that cannot be fetched counts as visited and shows nothing.
VisitPage ==
    /\ frontier # <<>>
    /\ Cardinality(DOMAIN visited) < MaxPages
    /\ LET page == frontier[1][1]
           depth == frontier[1][2]
       IN IF page \in DOMAIN visited \/ depth > MaxDepth
          THEN frontier' = Tail(frontier) /\ UNCHANGED <<visited, found>>
          ELSE /\ visited' = [q \in DOMAIN visited \cup {page} |-> IF q = page THEN depth ELSE visited[q]]
               /\ found' = Harvested(page)
               /\ frontier' = Enqueued(Tail(frontier), page, depth)
    /\ UNCHANGED site

CrawlNext == VisitPage

-----------------------------------------------------------------------------
Seeds == {site.seeds[n][1] : n \in DOMAIN site.seeds}

\* Pages at most n links from a seed, where the depth of a seed counts.
Reach ==
    LET reach[n \in 0..MaxDepth] ==
          {site.seeds[k][1] : k \in {k \in DOMAIN site.seeds : site.seeds[k][2] <= n}}
            \cup (IF n = 0 THEN {} ELSE UNION {site.links[p] \ site.out : p \in reach[n - 1]})
    IN reach

OneHost == \A k \in DOMAIN site.seeds : site.seeds[k][2] = 0 => k = 1

\* The crawl keeps within its bounds: each page but the seeds is in scope and was linked from a page
\* visited one step nearer, at most MaxDepth away.  No contact that a visited page shows is lost: each
\* of its keys is in a contact that is recorded, and no key makes two records (though a contact with
\* several keys may be recorded once by each of them, on page after page).  A crawl that ends with
\* pages to spare has followed every link that it should have: all that are within MaxDepth if it
\* started from one host and no page was preferred.
CrawlIsComplete ==
    /\ \A p \in DOMAIN visited \ Seeds :
         /\ p \notin site.out
         /\ visited[p] <= MaxDepth
         /\ \E q \in DOMAIN visited : p \in site.links[q] /\ visited[p] = visited[q] + 1
    /\ \A m, n \in DOMAIN found : found[m].key = found[n].key => m = n
    /\ \A q \in DOMAIN visited : \A contact \in Members(site.shows[q]) : \A i \in DOMAIN contact :
         \E n \in DOMAIN found : contact[i] \in Members(found[n].contact)
    /\ frontier = <<>> =>
         /\ \A q \in DOMAIN visited : visited[q] < MaxDepth => site.links[q] \ site.out \subseteq DOMAIN visited
         /\ OneHost /\ site.high = {} => Reach[MaxDepth] \subseteq DOMAIN visited
=============================================================================
