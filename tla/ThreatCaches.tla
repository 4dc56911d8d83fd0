---------------------------- MODULE ThreatCaches ----------------------------
(***************************************************************************)
(* The caches of the catalogue of exploited vulnerabilities                *)
(* (vuln/cve_lookup.py) and of the exploitation forecast of one            *)
(* vulnerability (vuln/epss_engine.py) in a process, each with its         *)
(* fallback, while the published data change and the sources fail.  A      *)
(* lookup reads the clock and the cache, asks the source without a lock,   *)
(* and stores what it gets: the lookups of two threads may overlap.        *)
(***************************************************************************)
EXTENDS Naturals, FiniteSets

CONSTANTS
    Lookups,    \* threads that look something up
    Ttl,        \* time to live of both caches
    MaxAge      \* bound on the clock

ASSUME CacheAssumption == Ttl \in Nat \ {0} /\ MaxAge \in Nat

VARIABLES
    now,        \* time.time()
    published,  \* editions of the source, and since when each is the newest
    kev,        \* _CISA_KEV_CACHE and _CISA_KEV_LAST_FETCH
    epss,       \* _EPSS_CACHE and _EPSS_CACHE_TIMESTAMP of the vulnerability
    query,      \* of each thread that waits for a source: when it began, what was the newest edition
                \* then, and (history) whether no other waited at the same time
    told        \* what the last lookup of each cache has returned, of a forecast with the time

cacheVars == <<now, published, kev, epss, query, told>>

\* Editions of the source are numbered; 0 is the data that come with the program.
Baseline == 0
Nothing == [data |-> Baseline, at |-> 0, filled |-> FALSE]
NoQuery == [began |-> 0, newest |-> 0, alone |-> FALSE]

CacheInit ==
    /\ now = 0
    /\ published = {[edition |-> 1, since |-> 0]}
    /\ kev = Nothing
    /\ epss = Nothing
    /\ query = [l \in Lookups |-> NoQuery]
    /\ told = [kev |-> Baseline, epss |-> Baseline, when |-> 0]

Newest == Cardinality(published)
Waiting == {l \in Lookups : query[l] # NoQuery}
Fresh(cache) == cache.filled /\ now - cache.at < Ttl
Stored(data, at) == [data |-> data, at |-> at, filled |-> TRUE]

\* A lookup begins to ask, and from then on none that waits is alone.
Ask(l) == query' = [m \in Lookups |->
    IF m = l THEN [began |-> now, newest |-> Newest, alone |-> Waiting = {}]
    ELSE IF m \in Waiting THEN [query[m] EXCEPT !.alone = FALSE] ELSE NoQuery]

\* What the source may have answered: an edition that was the newest meanwhile, or nothing.
Answers(l) == {Baseline} \cup query[l].newest..Newest

-----------------------------------------------------------------------------
(* The cache after a query that began at a time, of which the answer is an edition or the baseline *)

\* Mutant: a failed refresh brings the baseline back.
KevAfter_Baseline(answer, began) == Stored(answer, began)

\* A failure leaves an old catalogue as it is, with the time of its fetch; the baseline is taken
\* only into an empty cache.
KevAfter(answer, began) == IF answer = Baseline /\ kev.filled THEN kev ELSE Stored(answer, began)

\* Mutant: a failed refresh keeps the old forecast.
EpssAfter_Old(answer, began) == IF answer = Baseline /\ epss.filled THEN epss ELSE Stored(answer, began)

\* A failure puts the baseline, or a default, in the place of whatever the cache holds.
EpssAfter(answer, began) == Stored(answer, began)

-----------------------------------------------------------------------------
\* get_cisa_kev_set as far as the request: a fresh cache is the answer.
BeginKev(l) ==
    /\ l \notin Waiting
    /\ IF Fresh(kev) THEN told' = [told EXCEPT !.kev = kev.data] /\ UNCHANGED query
                     ELSE Ask(l) /\ UNCHANGED told
    /\ UNCHANGED <<now, published, kev, epss>>

EndKev(l) ==
    /\ l \in Waiting
    /\ \E answer \in Answers(l) : kev' = KevAfter(answer, query[l].began)
    /\ told' = [told EXCEPT !.kev = kev'.data]
    /\ query' = [query EXCEPT ![l] = NoQuery]
    /\ UNCHANGED <<now, published, epss>>

\* get_epss_score, likewise.
BeginEpss(l) ==
    /\ l \notin Waiting
    /\ IF Fresh(epss) THEN told' = [told EXCEPT !.epss = epss.data, !.when = now] /\ UNCHANGED query
                      ELSE Ask(l) /\ UNCHANGED told
    /\ UNCHANGED <<now, published, kev, epss>>

EndEpss(l) ==
    /\ l \in Waiting
    /\ \E answer \in Answers(l) : epss' = EpssAfter(answer, query[l].began)
    /\ told' = [told EXCEPT !.epss = epss'.data, !.when = query[l].began]
    /\ query' = [query EXCEPT ![l] = NoQuery]
    /\ UNCHANGED <<now, published, kev>>

Publish ==
    /\ Newest < MaxAge
    /\ published' = published \cup {[edition |-> Newest + 1, since |-> now]}
    /\ UNCHANGED <<now, kev, epss, query, told>>

TickCaches == now < MaxAge /\ now' = now + 1 /\ UNCHANGED <<published, kev, epss, query, told>>

\* The caches have nothing in common but the clock; a behaviour looks at one of them.
KevNext == (\E l \in Lookups : BeginKev(l) \/ EndKev(l)) \/ Publish \/ TickCaches
EpssNext == (\E l \in Lookups : BeginEpss(l) \/ EndEpss(l)) \/ Publish \/ TickCaches

KevSpec == CacheInit /\ [][KevNext]_cacheVars
EpssSpec == CacheInit /\ [][EpssNext]_cacheVars

-----------------------------------------------------------------------------
\* A lookup returns an older catalogue than the one before it only when it has overlapped with
\* another: once a live catalogue has been seen, an exploited vulnerability does not drop out again
\* however the source fails.
KevNeverGoesBack == [][told'.kev < told.kev
                           => \E m \in Waiting : query'[m] = NoQuery /\ ~query[m].alone]_cacheVars

\* A forecast that is told was the published one at some moment within the time to live, even when
\* lookups overlap: it was not replaced more than a time to live ago, or it is the baseline.
SupersededAt(edition) == {p.since : p \in {q \in published : q.edition = edition + 1}}
EpssRecent == told.epss # Baseline
                 => \A time \in SupersededAt(told.epss) : told.when < time + Ttl
=============================================================================
