---------------------------- MODULE LookupProofs ----------------------------
(***************************************************************************)
(* The components that look something up outside: searches with the keys   *)
(* of the tenants, and the caches of threat intelligence.  A running job   *)
(* that could read its tenant's keys searches with them, a mask is never   *)
(* saved and never in an environment, the scraper is the last resort, and  *)
(* a cached forecast is told for no longer than it lives, for all tenants, *)
(* keys, threads and times.                                                *)
(***************************************************************************)
EXTENDS SearchTiers, ThreatCaches, FiniteSetTheorems, TLAPS

-----------------------------------------------------------------------------
(* Integrations and searches: the inductive invariant.                     *)

\* What a saved value may be: anything but the mask.
Values == ({Keys[t] : t \in Tenants} \cup {NoKey}) \ {Masked}

SearchStates == {"idle", "serpapi", "google_search", "keyless", "found"}

JobType == [id : Nat, tenant : Tenants \cup {NoKey}, keys : [Field -> Values], read : BOOLEAN]

SearchTypeOK ==
    /\ config \in [Tenants -> [Field -> Values]]
    /\ enabled \in [Tenants -> [Paid -> BOOLEAN]]
    /\ apiEnv \in [Field -> Values]
    /\ workerEnv \in [Field -> Values]
    /\ exhausted \in SUBSET Paid
    /\ job \in JobType
    /\ search \in [Searchers -> [at : SearchStates, job : Nat, tried : SUBSET Paid]]
    /\ jobs \in Nat

\* What the job's tenant has enabled stands in the environment as long as the job runs, if it could
\* be read.
KeysInPlace == job.read => \A f \in Field : job.keys[f] # NoKey => workerEnv[f] = job.keys[f]

\* A search belongs to a job that has begun, so that none belongs to a job yet to come.
JobsNumbered == /\ job.id <= jobs
                /\ job # NoJob => job.id # 0
                /\ \A s \in Searchers : /\ search[s].job <= jobs
                                        /\ search[s].at # "idle" => search[s].job # 0

\* The provider p is no use to the search of s any more.
Spent(s, p) == p \in search[s].tried \cup exhausted \/ ~Configured(p)

\* A search of the running job has done with a tier before it comes to the next one.
TiersInOrder == \A s \in Searchers : search[s].job = job.id =>
    /\ search[s].at \in {"google_search", "keyless"} => Spent(s, "serpapi")
    /\ search[s].at = "keyless" => Spent(s, "google_search")

SearchInv == /\ SearchTypeOK
             /\ KeysInPlace
             /\ JobsNumbered
             /\ TiersInOrder
             /\ OwnKeyWins
             /\ MaskNeverAKey

-----------------------------------------------------------------------------
(* Integrations and searches: the steps.                                   *)

\* A step that makes no request asks for nothing that could be wrong.
LEMMA NoRequestHolds ==
  ASSUME SearchTypeOK', asked' = NoRequest
  PROVE  OwnKeyWins' /\ MaskNeverAKey'
<1>1. \A t \in Tenants, f \in Field : config'[t][f] # Masked
  BY DEF SearchTypeOK, Values
<1>2. \A f \in Field : apiEnv'[f] # Masked /\ workerEnv'[f] # Masked
  BY DEF SearchTypeOK, Values
<1>3. NoRequest.by = "nobody" /\ DOMAIN NoRequest.sent = {}
  BY DEF NoRequest
<1> QED
  BY <1>1, <1>2, <1>3 DEF OwnKeyWins, MaskNeverAKey

\* A provider's fields are fields.
LEMMA FieldsAreFields == \A p : FieldsOf(p) \subseteq Field
  BY DEF FieldsOf

\* Values over values are values.
LEMMA OverlaidTyped ==
  ASSUME NEW D, NEW E, NEW new \in [D -> Values], NEW old \in [E -> Values]
  PROVE  Overlaid(new, old) \in [E -> Values]
  BY DEF Overlaid

\* What a form sends back is, once cleaned, values.
LEMMA CleanedTyped ==
  ASSUME SearchTypeOK, NEW t \in Tenants, NEW p \in Paid, NEW form \in Forms(t, p)
  PROVE  Clean(form) \in [FieldsOf(p) -> Values]
<1>1. config[t] \in [Field -> Values] /\ apiEnv \in [Field -> Values]
  BY DEF SearchTypeOK
<1>2. Overlaid(config[t], apiEnv) \in [Field -> Values]
  BY <1>1, OverlaidTyped
<1>3. \A f \in Field : Displayed(t, f) \in Values \cup {Masked}
  BY <1>2 DEF Displayed, MaskVal, Values, NoKey, Masked
<1>4. \A f \in Field : Posted(t, f) \subseteq Values \cup {Masked}
  BY <1>3 DEF Posted, Values, NoKey, Masked
<1>5. DOMAIN form = FieldsOf(p) /\ \A f \in FieldsOf(p) : form[f] \in Values \cup {Masked}
  BY <1>4, FieldsAreFields DEF Forms
<1>6. NoKey \in Values
  BY DEF Values, NoKey, Masked
<1> QED
  BY <1>5, <1>6 DEF Clean

\* A save keeps the mask out of the tables, and has nothing to do with the worker.
LEMMA SaveKeeps ==
  ASSUME SearchInv, NEW t \in Tenants, NEW p \in Paid, NEW form \in Forms(t, p),
         NEW is_enabled \in BOOLEAN, SaveIntegration(t, p, form, is_enabled)
  PROVE  SearchInv'
<1> DEFINE clean == Clean(form)
<1>1. clean \in [FieldsOf(p) -> Values]
  BY CleanedTyped DEF SearchInv
<1>2. /\ config \in [Tenants -> [Field -> Values]] /\ apiEnv \in [Field -> Values]
      /\ config' = [config EXCEPT ![t] = Overlaid(clean, config[t])]
      /\ apiEnv' = Overlaid(clean, apiEnv)
  BY DEF SaveIntegration, SearchInv, SearchTypeOK
<1> HIDE DEF clean
<1>3. Overlaid(clean, config[t]) \in [Field -> Values] /\ Overlaid(clean, apiEnv) \in [Field -> Values]
  BY <1>1, <1>2, OverlaidTyped
<1>4. config' \in [Tenants -> [Field -> Values]] /\ apiEnv' \in [Field -> Values]
  BY <1>2, <1>3
<1>5. enabled' \in [Tenants -> [Paid -> BOOLEAN]]
  BY DEF SaveIntegration, SearchInv, SearchTypeOK
<1>6. SearchTypeOK'
  BY <1>4, <1>5 DEF SaveIntegration, SearchInv, SearchTypeOK
<1>7. KeysInPlace' /\ JobsNumbered' /\ TiersInOrder'
  BY DEF SaveIntegration, SearchInv, KeysInPlace, JobsNumbered, TiersInOrder, Spent, Configured
<1> QED
  BY <1>6, <1>7, NoRequestHolds DEF SaveIntegration, SearchInv

\* A test sends the saved value where there is one, and changes nothing.
LEMMA TestKeeps ==
  ASSUME SearchInv, NEW t \in Tenants, NEW p \in Paid, NEW form \in Forms(t, p),
         TestIntegration(t, form)
  PROVE  SearchInv'
<1> DEFINE sent == Tested(t, form)
<1>1. asked' = [by |-> "test", saved |-> config[t], sent |-> sent]
  BY DEF TestIntegration
<1>2. SearchTypeOK'
  BY DEF TestIntegration, SearchInv, SearchTypeOK
<1>3. KeysInPlace' /\ JobsNumbered' /\ TiersInOrder'
  BY DEF TestIntegration, SearchInv, KeysInPlace, JobsNumbered, TiersInOrder, Spent, Configured
<1>4. OwnKeyWins'
  BY <1>1 DEF OwnKeyWins
<1>5. DOMAIN form \subseteq Field
  BY FieldsAreFields DEF Forms
<1>6. \A f \in Field : config[t][f] # Masked /\ apiEnv[f] # Masked
  BY DEF SearchInv, MaskNeverAKey
<1>7. DOMAIN sent = DOMAIN form
  BY DEF Tested, Overlaid
<1>8. \A f \in DOMAIN sent : sent[f] = Masked => config[t][f] = NoKey
  BY <1>5, <1>6, <1>7 DEF Tested, Overlaid, NoKey, Masked
<1>9. UNCHANGED <<config, apiEnv, workerEnv>>
  BY DEF TestIntegration
<1> HIDE DEF sent
<1>10. MaskNeverAKey'
  BY <1>1, <1>8, <1>9 DEF SearchInv, MaskNeverAKey
<1> QED
  BY <1>2, <1>3, <1>4, <1>10 DEF SearchInv

\* A job that begins puts its tenant's keys in place, if it can read them; no search belongs to it yet.
LEMMA StartKeeps ==
  ASSUME SearchInv, NEW t \in Tenants, StartJob(t)
  PROVE  SearchInv'
<1> DEFINE keys == EnabledKeys(t)
<1>1. PICK read \in BOOLEAN :
         /\ job' = [id |-> jobs + 1, tenant |-> t, keys |-> keys, read |-> read]
         /\ workerEnv' = IF read THEN Overlaid(keys, workerEnv) ELSE workerEnv
  BY DEF StartJob
<1>2. keys \in [Field -> Values]
  <2>1. NoKey \in Values
    BY DEF Values, NoKey, Masked
  <2>2. \A f \in Field : config[t][f] \in Values
    BY DEF SearchInv, SearchTypeOK
  <2> QED
    BY <2>1, <2>2 DEF EnabledKeys
<1> HIDE DEF keys
<1>3. workerEnv \in [Field -> Values] /\ Overlaid(keys, workerEnv) \in [Field -> Values]
  BY <1>2, OverlaidTyped DEF SearchInv, SearchTypeOK
<1>4. job' \in JobType /\ workerEnv' \in [Field -> Values] /\ jobs' \in Nat
  BY <1>1, <1>2, <1>3 DEF StartJob, SearchInv, SearchTypeOK, JobType
<1>5. SearchTypeOK'
  BY <1>4 DEF StartJob, SearchInv, SearchTypeOK
<1>6. KeysInPlace'
  BY <1>1, <1>2, <1>3 DEF KeysInPlace, Overlaid
<1>7. job'.id = jobs + 1
  BY <1>1
<1>8. JobsNumbered'
  BY <1>7 DEF StartJob, SearchInv, SearchTypeOK, JobsNumbered
<1>9. TiersInOrder'
  BY <1>7 DEF StartJob, SearchInv, SearchTypeOK, JobsNumbered, TiersInOrder
<1> QED
  BY <1>5, <1>6, <1>8, <1>9, NoRequestHolds DEF StartJob, SearchInv

\* A job that ends leaves its searches behind; none of them is a search of "no job".
LEMMA EndKeeps ==
  ASSUME SearchInv, EndJob
  PROVE  SearchInv'
<1>1. NoJob \in JobType /\ NoJob.id = 0 /\ NoJob.read = FALSE
  BY DEF NoJob, NoKeys, JobType, Values, NoKey, Masked
<1>2. SearchTypeOK'
  BY <1>1 DEF EndJob, SearchInv, SearchTypeOK
<1>3. KeysInPlace' /\ JobsNumbered' /\ TiersInOrder'
  BY <1>1 DEF EndJob, SearchInv, SearchTypeOK, KeysInPlace, JobsNumbered, TiersInOrder, Spent, Configured
<1> QED
  BY <1>2, <1>3, NoRequestHolds DEF EndJob, SearchInv

\* The searches are functions to records; a step changes the fields of one.
Search == [at : SearchStates, job : Nat, tried : SUBSET Paid]

LEMMA SearchMoved ==
  ASSUME search \in [Searchers -> Search], NEW s \in Searchers, NEW new \in Search,
         search' = [search EXCEPT ![s] = new]
  PROVE  /\ search' \in [Searchers -> Search]
         /\ search'[s] = new
         /\ \A r \in Searchers : r # s => search'[r] = search[r]
  OBVIOUS

\* A paid tier is asked with the key in the environment, and is spent afterwards.
LEMMA AskKeeps ==
  ASSUME SearchInv, NEW s \in Searchers, NEW p \in Paid, AskPaid(s, p)
  PROVE  SearchInv'
<1>1. /\ search[s].job \in Nat /\ search[s].job # 0 /\ search[s].job <= jobs
      /\ search[s].tried \in SUBSET Paid
  BY DEF AskPaid, Paid, SearchInv, SearchTypeOK, JobsNumbered
<1> DEFINE Moves(new) == /\ search' = [search EXCEPT ![s] = new]
                         /\ new.job = search[s].job
                         /\ new.at \in {After(p), "found"}
                         /\ search[s].tried \subseteq new.tried
                         /\ new.at = "found" \/ p \in new.tried \cup exhausted' \/ ~Configured(p)
<1>2. \E new \in Search : Moves(new)
  <2>1. search[s] \in Search /\ After(p) \in SearchStates /\ "found" \in SearchStates
    BY DEF SearchInv, SearchTypeOK, Search, After, SearchStates
  <2>2. CASE Available(p)
    <3>1. PICK outcome \in {"results", "empty", "refused"} :
            search' = [search EXCEPT ![s].tried = @ \cup {p},
                              ![s].at = IF outcome = "results" THEN "found" ELSE After(p)]
      BY <2>2 DEF AskPaid
    <3> DEFINE at == IF outcome = "results" THEN "found" ELSE After(p)
               new == [search[s] EXCEPT !.tried = @ \cup {p}, !.at = at]
    <3>2. at \in SearchStates /\ at \in {After(p), "found"}
      BY <2>1
    <3>3. /\ new \in Search
          /\ new.at = at /\ new.job = search[s].job /\ new.tried = search[s].tried \cup {p}
      BY <2>1, <3>2 DEF Search
    <3>4. search' = [search EXCEPT ![s] = new]
      BY <2>1, <3>1 DEF SearchInv, SearchTypeOK, Search
    <3> QED
      BY <3>2, <3>3, <3>4
  <2>3. CASE ~Available(p)
    <3> DEFINE new == [search[s] EXCEPT !.at = After(p)]
    <3>1. search' = [search EXCEPT ![s] = new] /\ exhausted' = exhausted
      BY <2>3 DEF AskPaid
    <3>2. new \in Search /\ new.job = search[s].job /\ new.at = After(p) /\ new.tried = search[s].tried
      BY <2>1 DEF Search
    <3>3. p \in exhausted \/ ~Configured(p)
      BY <2>3 DEF Available
    <3> QED
      BY <3>1, <3>2, <3>3
  <2> QED
    BY <2>2, <2>3
<1>3. /\ search' \in [Searchers -> Search]
      /\ \A r \in Searchers : r # s => search'[r] = search[r]
      /\ Moves(search'[s])
  BY <1>2, SearchMoved DEF SearchInv, SearchTypeOK, Search
<1>4. exhausted' \in SUBSET Paid /\ exhausted \subseteq exhausted'
  BY DEF AskPaid, SearchInv, SearchTypeOK
<1>5. UNCHANGED <<config, enabled, apiEnv, workerEnv, job, jobs>>
  BY DEF AskPaid, SearchUnchanged
<1>6. SearchTypeOK'
  BY <1>3, <1>4, <1>5 DEF SearchInv, SearchTypeOK, Search
<1>7. KeysInPlace' /\ JobsNumbered'
  BY <1>1, <1>3, <1>5 DEF SearchInv, KeysInPlace, JobsNumbered
<1>8. TiersInOrder'
  <2> SUFFICES ASSUME NEW r \in Searchers, search'[r].job = job'.id
               PROVE  /\ search'[r].at \in {"google_search", "keyless"} => Spent(r, "serpapi")'
                      /\ search'[r].at = "keyless" => Spent(r, "google_search")'
    BY DEF TiersInOrder
  <2>1. CASE r # s
    BY <1>3, <1>4, <1>5, <2>1 DEF SearchInv, TiersInOrder, Spent, Configured
  <2>2. CASE r = s /\ p = "serpapi"
    BY <1>3, <1>5, <2>2 DEF After, Spent, Configured
  <2>3. CASE r = s /\ p = "google_search"
    <3>1. Spent(s, "serpapi")
      BY <1>3, <1>5, <2>3 DEF AskPaid, SearchInv, TiersInOrder
    <3> QED
      BY <1>3, <1>4, <1>5, <2>3, <3>1 DEF After, Spent, Configured
  <2> QED
    BY <2>1, <2>2, <2>3 DEF Paid
<1>9. CASE Available(p)
  <2>1. asked' = Request(s, p)
    BY <1>9 DEF AskPaid
  <2>2. /\ Request(s, p).saved = job.keys
        /\ Request(s, p).sent = [f \in FieldsOf(p) |-> workerEnv[f]]
    BY DEF Request
  <2>3. OwnKeyWins'
    BY <1>5, <2>1, <2>2, FieldsAreFields DEF OwnKeyWins, SearchInv, KeysInPlace
  <2>4. \A f \in Field : workerEnv[f] # Masked
    BY DEF SearchInv, MaskNeverAKey
  <2>5. \A f \in DOMAIN asked'.sent : asked'.sent[f] # Masked
    BY <2>1, <2>2, <2>4, FieldsAreFields
  <2>6. MaskNeverAKey'
    BY <1>5, <2>5 DEF SearchInv, MaskNeverAKey
  <2> QED
    BY <1>6, <1>7, <1>8, <2>3, <2>6 DEF SearchInv
<1>10. CASE ~Available(p)
  BY <1>6, <1>7, <1>8, <1>10, NoRequestHolds DEF AskPaid, SearchInv
<1> QED
  BY <1>9, <1>10

\* The other steps of a search begin it at the first tier, or end it.
LEMMA SearchStepKeeps ==
  ASSUME SearchInv, NEW s \in Searchers, BeginSearch(s) \/ AskKeyless(s) \/ SaveResults(s)
  PROVE  SearchInv'
<1>1. Idle \in [at : SearchStates, job : Nat, tried : SUBSET Paid]
  BY DEF Idle, SearchStates
<1> DEFINE Moves(new) ==
             /\ search' = [search EXCEPT ![s] = new]
             /\ \/ new = search[s]
                \/ new.at = "idle" /\ new.job = 0
                \/ new.at = "found" /\ search[s].at = "keyless" /\ new.job = search[s].job
                \/ new.at = "serpapi" /\ new.job = job.id /\ job # NoJob
<1>2. \E new \in Search : Moves(new)
  <2>1. search[s] \in Search /\ search' = [search EXCEPT ![s] = search'[s]]
    BY <1>1 DEF BeginSearch, AskKeyless, SaveResults, SearchInv, SearchTypeOK, Search
  <2>2. CASE BeginSearch(s)
    <3> DEFINE new == [Idle EXCEPT !.job = job.id, !.at = "serpapi"]
    <3>1. new \in Search /\ new.at = "serpapi" /\ new.job = job.id
      BY DEF Idle, Search, SearchStates, SearchInv, SearchTypeOK, JobType
    <3>2. CASE cached
      BY <2>1, <2>2, <3>2 DEF BeginSearch, SearchInv, SearchTypeOK
    <3>3. CASE ~cached
      <4>1. search' = [search EXCEPT ![s] = new] /\ job # NoJob
        BY <2>2, <3>3 DEF BeginSearch
      <4> QED
        BY <3>1, <4>1
    <3> QED
      BY <3>2, <3>3
  <2>3. CASE AskKeyless(s)
    <3>1. \/ search' = [search EXCEPT ![s] = Idle]
          \/ search' = [search EXCEPT ![s] = [search[s] EXCEPT !.at = "found"]]
      BY <2>3 DEF AskKeyless
    <3>2. [search[s] EXCEPT !.at = "found"] \in Search
      BY <2>1 DEF Search, SearchStates
    <3>3. [search[s] EXCEPT !.at = "found"].at = "found"
          /\ [search[s] EXCEPT !.at = "found"].job = search[s].job
      BY <2>1 DEF Search
    <3>4. Idle \in Search /\ Idle.at = "idle" /\ Idle.job = 0
      BY <1>1 DEF Idle, Search
    <3>5. search[s].at = "keyless"
      BY <2>3 DEF AskKeyless
    <3> QED
      BY <3>1, <3>2, <3>3, <3>4, <3>5
  <2>4. CASE SaveResults(s)
    <3>1. Idle \in Search /\ Idle.at = "idle" /\ Idle.job = 0
      BY <1>1 DEF Idle, Search
    <3> QED
      BY <2>4, <3>1 DEF SaveResults
  <2> QED
    BY <2>2, <2>3, <2>4
<1>3. /\ search' \in [Searchers -> Search]
      /\ \A r \in Searchers : r # s => search'[r] = search[r]
      /\ Moves(search'[s])
  BY <1>2, SearchMoved DEF SearchInv, SearchTypeOK, Search
<1>4. UNCHANGED <<config, enabled, apiEnv, workerEnv, job, jobs, exhausted>> /\ asked' = NoRequest
  BY DEF BeginSearch, AskKeyless, SaveResults, SearchUnchanged
<1>5. SearchTypeOK'
  BY <1>3, <1>4 DEF SearchInv, SearchTypeOK, Search
<1>6. KeysInPlace'
  BY <1>4 DEF SearchInv, KeysInPlace
<1>7. JobsNumbered'
  BY <1>3, <1>4 DEF SearchInv, SearchTypeOK, JobsNumbered
<1>8. TiersInOrder'
  BY <1>3, <1>4 DEF SearchInv, TiersInOrder, Spent, Configured
<1> QED
  BY <1>4, <1>5, <1>6, <1>7, <1>8, NoRequestHolds DEF SearchInv
\* The cache of results runs out.
LEMMA ExpireKeeps ==
  ASSUME SearchInv, ExpireCache
  PROVE  SearchInv'
<1>1. SearchTypeOK' /\ KeysInPlace' /\ JobsNumbered' /\ TiersInOrder'
  BY DEF ExpireCache, SearchUnchanged, SearchInv, SearchTypeOK, KeysInPlace, JobsNumbered,
         TiersInOrder, Spent, Configured
<1> QED
  BY <1>1, NoRequestHolds DEF ExpireCache, SearchInv

\* The invariant of keys and searches.
LEMMA SearchInvariant == SearchSpec => []SearchInv
<1>1. SearchInit => SearchInv
  <2> SUFFICES ASSUME SearchInit PROVE SearchInv
    OBVIOUS
  <2>1. NoKey \in Values /\ NoKeys \in [Field -> Values] /\ \A f \in Field : NoKeys[f] = NoKey
    BY DEF Values, NoKeys, NoKey, Masked
  <2>2. NoJob \in JobType /\ NoJob.id = 0 /\ NoJob.read = FALSE
    BY <2>1 DEF NoJob, JobType
  <2>3. Idle \in [at : SearchStates, job : Nat, tried : SUBSET Paid] /\ Idle.at = "idle" /\ Idle.job = 0
    BY DEF Idle, SearchStates
  <2>4. SearchTypeOK
    BY <2>1, <2>2, <2>3 DEF SearchInit, SearchTypeOK
  <2>5. KeysInPlace /\ JobsNumbered /\ TiersInOrder
    BY <2>2, <2>3 DEF SearchInit, KeysInPlace, JobsNumbered, TiersInOrder
  <2>6. OwnKeyWins /\ MaskNeverAKey
    <3>1. NoRequest.by = "nobody" /\ DOMAIN NoRequest.sent = {}
      BY DEF NoRequest
    <3> QED
      BY <2>1, <3>1 DEF SearchInit, OwnKeyWins, MaskNeverAKey, NoKey, Masked
  <2> QED
    BY <2>4, <2>5, <2>6 DEF SearchInv
<1>2. SearchInv /\ [SearchNext]_searchVars => SearchInv'
  <2> SUFFICES ASSUME SearchInv, [SearchNext]_searchVars PROVE SearchInv'
    OBVIOUS
  <2>1. CASE SearchNext
    BY <2>1, SaveKeeps, TestKeeps, StartKeeps, EndKeeps, AskKeeps, SearchStepKeeps, ExpireKeeps
    DEF SearchNext
  <2>2. CASE UNCHANGED searchVars
    BY <2>2 DEF searchVars, SearchInv, SearchTypeOK, KeysInPlace, JobsNumbered, TiersInOrder, Spent,
                Configured, OwnKeyWins, MaskNeverAKey
  <2> QED
    BY <2>1, <2>2
<1> QED
  BY <1>1, <1>2, PTL DEF SearchSpec

\* A running job that could read its tenant's integrations sends each value that the tenant had enabled
\* when it began, whatever the jobs of other tenants and their threads have left in the worker's
\* environment.  Of a job that could not read them, and of a field that is not enabled, it says nothing.
THEOREM OwnKeyAlwaysWins == SearchSpec => []OwnKeyWins
<1>1. SearchInv => OwnKeyWins
  BY DEF SearchInv
<1> QED
  BY <1>1, SearchInvariant, PTL

\* A mask is not saved, is in no environment and is sent by no job; a test sends it only for a tenant
\* that has saved no value of the field.
THEOREM MaskIsNoKey == SearchSpec => []MaskNeverAKey
<1>1. SearchInv => MaskNeverAKey
  BY DEF SearchInv
<1> QED
  BY <1>1, SearchInvariant, PTL

\* A search of the running job comes to the scraper only when the paid providers are spent.
THEOREM ScraperIsLast == SearchSpec => []KeylessIsLast
<1>1. SearchInv => KeylessIsLast
  BY DEF SearchInv, TiersInOrder, Spent, KeylessIsLast, Paid
<1> QED
  BY <1>1, SearchInvariant, PTL
-----------------------------------------------------------------------------
(* The caches: what holds of both.                                         *)

CacheType == [data : Nat, at : Nat, filled : BOOLEAN]
QueryType == [began : Nat, newest : Nat, alone : BOOLEAN]

CacheTypeOK ==
    /\ now \in Nat
    /\ published \in SUBSET [edition : Nat, since : Nat] /\ IsFiniteSet(published)
    /\ kev \in CacheType
    /\ epss \in CacheType
    /\ query \in [Lookups -> QueryType]
    /\ told \in [kev : Nat, epss : Nat, when : Nat]

\* Editions are numbered in the order in which they came out.
EditionsNumbered == /\ Newest \in Nat \ {0}
                    /\ \A p \in published : p.edition \in 1..Newest /\ p.since <= now

\* What has come out since a query began has come out after it began.
QueriesFollow == \A l \in Waiting :
    /\ query[l].newest \in 1..Newest
    /\ query[l].began <= now
    /\ \A p \in published : p.edition > query[l].newest => p.since >= query[l].began

SourceInv == CacheTypeOK /\ EditionsNumbered /\ QueriesFollow

\* What a query that has begun looks like.
LEMMA AskedQuery ==
  ASSUME SourceInv, NEW l \in Lookups, l \notin Waiting, Ask(l)
  PROVE  /\ query' \in [Lookups -> QueryType]
         /\ Waiting' = Waiting \cup {l}
         /\ query'[l].began = now
         /\ query'[l].newest = Newest
         /\ query'[l].alone = (Waiting = {})
         /\ \A m \in Waiting : /\ query'[m].began = query[m].began
                               /\ query'[m].newest = query[m].newest
                               /\ query'[m].alone = FALSE
<1> DEFINE mine == [began |-> now, newest |-> Newest, alone |-> Waiting = {}]
           other(m) == [query[m] EXCEPT !.alone = FALSE]
<1>1. mine \in QueryType /\ mine # NoQuery
  BY DEF SourceInv, CacheTypeOK, EditionsNumbered, QueryType, NoQuery
<1>2. ASSUME NEW m \in Waiting
      PROVE  /\ other(m) \in QueryType /\ other(m) # NoQuery
             /\ other(m).began = query[m].began /\ other(m).newest = query[m].newest
             /\ other(m).alone = FALSE
  <2>1. m \in Lookups /\ query[m] \in QueryType /\ query[m].newest # 0
    BY <1>2 DEF SourceInv, CacheTypeOK, QueriesFollow, Waiting
  <2>2. /\ other(m) \in QueryType /\ other(m).began = query[m].began
        /\ other(m).newest = query[m].newest /\ other(m).alone = FALSE
    BY <2>1 DEF QueryType
  <2> QED
    BY <2>1, <2>2 DEF NoQuery
<1>3. NoQuery \in QueryType
  BY DEF NoQuery, QueryType
<1>4. query' = [m \in Lookups |-> IF m = l THEN mine ELSE IF m \in Waiting THEN other(m) ELSE NoQuery]
  BY DEF Ask
<1> HIDE DEF mine, other
<1>5. query' \in [Lookups -> QueryType]
  BY <1>1, <1>2, <1>3, <1>4
<1>6. Waiting' = {m \in Lookups : m = l \/ m \in Waiting}
  BY <1>1, <1>2, <1>4 DEF Waiting
<1>7. Waiting \subseteq Lookups
  BY DEF Waiting
<1>8. \A m \in Waiting : query'[m] = other(m)
  BY <1>4, <1>7
<1> QED
  <2>1. query'[l] = mine
    BY <1>4
  <2>2. query'[l].began = now /\ query'[l].newest = Newest /\ query'[l].alone = (Waiting = {})
    BY <2>1 DEF mine
  <2>3. Waiting' = Waiting \cup {l}
    BY <1>6, <1>7
  <2> QED
    BY <1>2, <1>5, <1>8, <2>2, <2>3

\* A query that ends leaves the others as they are.
LEMMA EndedQuery ==
  ASSUME SourceInv, NEW l \in Lookups, query' = [query EXCEPT ![l] = NoQuery]
  PROVE  /\ query' \in [Lookups -> QueryType]
         /\ query'[l] = NoQuery
         /\ Waiting' = Waiting \ {l}
         /\ \A m \in Waiting : m # l => query'[m] = query[m]
<1>1. NoQuery \in QueryType
  BY DEF NoQuery, QueryType
<1>2. /\ query' \in [Lookups -> QueryType] /\ query'[l] = NoQuery
      /\ \A m \in Lookups : m # l => query'[m] = query[m]
  BY <1>1 DEF SourceInv, CacheTypeOK
<1> QED
  BY <1>2 DEF Waiting

\* An edition that comes out is the next.
LEMMA PublishedNext ==
  ASSUME SourceInv, Publish
  PROVE  /\ Newest' = Newest + 1
         /\ IsFiniteSet(published')
         /\ published' \in SUBSET [edition : Nat, since : Nat]
<1> DEFINE p == [edition |-> Newest + 1, since |-> now]
<1>1. p \notin published
  BY DEF SourceInv, EditionsNumbered
<1>2. published' = published \cup {p}
  BY DEF Publish
<1>3. p \in [edition : Nat, since : Nat]
  BY DEF SourceInv, CacheTypeOK, EditionsNumbered
<1> HIDE DEF p
<1>4. IsFiniteSet(published) /\ published \in SUBSET [edition : Nat, since : Nat]
  BY DEF SourceInv, CacheTypeOK
<1>5. Cardinality(published') = Cardinality(published) + 1 /\ IsFiniteSet(published')
  BY <1>1, <1>2, <1>4, FS_AddElement
<1> QED
  BY <1>2, <1>3, <1>4, <1>5 DEF Newest

\* The queries keep their relation to the editions while one more begins, ends, or comes out.
LEMMA SourceKept ==
  ASSUME SourceInv, CacheTypeOK',
         \/ /\ \E l \in Lookups : l \notin Waiting /\ Ask(l)
            /\ UNCHANGED <<now, published>>
         \/ /\ \E l \in Lookups : query' = [query EXCEPT ![l] = NoQuery]
            /\ UNCHANGED <<now, published>>
         \/ Publish
         \/ /\ now' = now + 1
            /\ UNCHANGED <<published, query>>
         \/ UNCHANGED <<now, published, query>>
  PROVE  SourceInv'
<1>1. ASSUME NEW l \in Lookups, l \notin Waiting, Ask(l), UNCHANGED <<now, published>>
      PROVE  SourceInv'
  <2>1. EditionsNumbered'
    BY <1>1 DEF SourceInv, EditionsNumbered, Newest
  <2>2. QueriesFollow'
    <3> SUFFICES ASSUME NEW m \in Waiting'
                 PROVE  /\ query'[m].newest \in 1..Newest
                        /\ query'[m].began <= now
                        /\ \A p \in published : p.edition > query'[m].newest => p.since >= query'[m].began
      BY <1>1 DEF QueriesFollow, Newest
    <3>1. /\ Waiting' = Waiting \cup {l}
          /\ query'[l].newest = Newest /\ query'[l].began = now
          /\ \A k \in Waiting : query'[k].began = query[k].began /\ query'[k].newest = query[k].newest
      BY <1>1, AskedQuery
    <3>2. CASE m = l
      BY <3>1, <3>2 DEF SourceInv, CacheTypeOK, EditionsNumbered
    <3>3. CASE m \in Waiting
      BY <3>1, <3>3 DEF SourceInv, QueriesFollow
    <3> QED
      BY <3>1, <3>2, <3>3
  <2> QED
    BY <2>1, <2>2 DEF SourceInv
<1>2. ASSUME NEW l \in Lookups, query' = [query EXCEPT ![l] = NoQuery], UNCHANGED <<now, published>>
      PROVE  SourceInv'
  <2>1. EditionsNumbered'
    BY <1>2 DEF SourceInv, EditionsNumbered, Newest
  <2>2. QueriesFollow'
    BY <1>2, EndedQuery DEF SourceInv, QueriesFollow, Newest
  <2> QED
    BY <2>1, <2>2 DEF SourceInv
<1>3. CASE Publish
  <2>1. published' = published \cup {[edition |-> Newest + 1, since |-> now]} /\ now' = now
    BY <1>3 DEF Publish
  <2>2. EditionsNumbered'
    BY <1>3, <2>1, PublishedNext DEF SourceInv, CacheTypeOK, EditionsNumbered
  <2>3. Waiting' = Waiting /\ query' = query
    BY <1>3 DEF Publish, Waiting
  <2>4. QueriesFollow'
    BY <1>3, <2>1, <2>3, PublishedNext DEF SourceInv, CacheTypeOK, EditionsNumbered, QueriesFollow
  <2> QED
    BY <2>2, <2>4 DEF SourceInv
<1>4. CASE now' = now + 1 /\ UNCHANGED <<published, query>>
  BY <1>4 DEF SourceInv, CacheTypeOK, EditionsNumbered, QueriesFollow, Newest, Waiting, QueryType
<1>5. CASE UNCHANGED <<now, published, query>>
  BY <1>5 DEF SourceInv, CacheTypeOK, EditionsNumbered, QueriesFollow, Newest, Waiting
<1> QED
  BY <1>1, <1>2, <1>3, <1>4, <1>5
-----------------------------------------------------------------------------
(* The catalogue of exploited vulnerabilities.                             *)

\* What was told last is what the cache holds; it has come out; and while a query waits alone,
\* the cache holds nothing newer than what was the newest when it began.
KevInv == /\ SourceInv
          /\ told.kev = kev.data
          /\ kev.data <= Newest
          /\ ~kev.filled => kev.data = Baseline
          /\ \A l \in Waiting : query[l].alone => Waiting = {l} /\ kev.data <= query[l].newest

\* What a query may bring, and what it makes of the cache.
LEMMA KevAnswered ==
  ASSUME KevInv, NEW l \in Waiting, NEW answer \in Answers(l)
  PROVE  /\ KevAfter(answer, query[l].began) \in CacheType
         /\ KevAfter(answer, query[l].began).data <= Newest
         /\ ~KevAfter(answer, query[l].began).filled => KevAfter(answer, query[l].began).data = Baseline
         /\ query[l].alone => kev.data <= KevAfter(answer, query[l].began).data
<1>1. answer = 0 \/ (answer \in Nat /\ query[l].newest <= answer /\ answer <= Newest)
  BY DEF Answers, Baseline, KevInv, SourceInv, CacheTypeOK, EditionsNumbered, QueriesFollow
<1>2. l \in Lookups /\ query[l].began \in Nat /\ query[l].newest \in Nat
  BY DEF Waiting, KevInv, SourceInv, CacheTypeOK, QueryType
<1>3. CASE answer = Baseline /\ kev.filled
  BY <1>3 DEF KevAfter, KevInv, SourceInv, CacheTypeOK, CacheType
<1>4. CASE ~(answer = Baseline /\ kev.filled)
  <2>1. KevAfter(answer, query[l].began) = [data |-> answer, at |-> query[l].began, filled |-> TRUE]
    BY <1>4 DEF KevAfter, Stored
  <2>2. answer = 0 => kev.data = 0
    BY <1>4 DEF KevInv, Baseline
  <2>3. kev.data \in Nat /\ Newest \in Nat
    BY DEF KevInv, SourceInv, CacheTypeOK, EditionsNumbered, CacheType
  <2>4. query[l].alone => kev.data <= answer
    BY <1>1, <1>2, <2>2, <2>3 DEF KevInv
  <2> QED
    BY <1>1, <1>2, <2>1, <2>3, <2>4 DEF CacheType
<1> QED
  BY <1>3, <1>4

\* A step keeps the invariant, and takes the catalogue back only where lookups have overlapped.
LEMMA KevStep ==
  ASSUME KevInv, KevNext
  PROVE  /\ KevInv'
         /\ told'.kev < told.kev => \E m \in Waiting : query'[m] = NoQuery /\ ~query[m].alone
<1>0. told \in [kev : Nat, epss : Nat, when : Nat] /\ kev \in CacheType /\ kev.data \in Nat
  BY DEF KevInv, SourceInv, CacheTypeOK, CacheType
<1>1. ASSUME NEW l \in Lookups, BeginKev(l)
      PROVE  KevInv' /\ told'.kev = told.kev
  <2>1. CASE Fresh(kev)
    <3>1. told' = [told EXCEPT !.kev = kev.data] /\ UNCHANGED <<query, now, published, kev, epss>>
      BY <1>1, <2>1 DEF BeginKev
    <3>2. told' \in [kev : Nat, epss : Nat, when : Nat] /\ told'.kev = kev.data
      BY <1>0, <3>1
    <3>3. CacheTypeOK'
      BY <3>1, <3>2 DEF KevInv, SourceInv, CacheTypeOK
    <3>4. SourceInv'
      BY <3>1, <3>3, SourceKept DEF KevInv
    <3> QED
      BY <3>1, <3>2, <3>4 DEF KevInv, Newest, Waiting
  <2>2. CASE ~Fresh(kev)
    <3>1. l \notin Waiting /\ Ask(l) /\ UNCHANGED <<told, now, published, kev, epss>>
      BY <1>1, <2>2 DEF BeginKev
    <3>2. SourceInv /\ kev.data <= Newest
      BY DEF KevInv
    <3>3. /\ query' \in [Lookups -> QueryType]
          /\ Waiting' = Waiting \cup {l}
          /\ query'[l].newest = Newest /\ query'[l].alone = (Waiting = {})
          /\ \A m \in Waiting : query'[m].alone = FALSE
      BY <3>1, <3>2, AskedQuery
    <3>4. CacheTypeOK'
      BY <3>1, <3>3 DEF KevInv, SourceInv, CacheTypeOK
    <3>5. SourceInv'
      BY <3>1, <3>2, <3>4, SourceKept
    <3>6. Newest' = Newest
      BY <3>1 DEF Newest
    <3>7. \A m \in Waiting' : query'[m].alone => Waiting' = {m} /\ kev'.data <= query'[m].newest
      BY <3>1, <3>2, <3>3
    <3> QED
      BY <3>1, <3>5, <3>6, <3>7 DEF KevInv
  <2> QED
    BY <2>1, <2>2
<1>2. ASSUME NEW l \in Lookups, EndKev(l)
      PROVE  /\ KevInv'
             /\ told'.kev < told.kev => query'[l] = NoQuery /\ ~query[l].alone /\ l \in Waiting
  <2>1. PICK answer \in Answers(l) : kev' = KevAfter(answer, query[l].began)
    BY <1>2 DEF EndKev
  <2>2. /\ l \in Waiting /\ told' = [told EXCEPT !.kev = kev'.data]
        /\ query' = [query EXCEPT ![l] = NoQuery] /\ UNCHANGED <<now, published, epss>>
    BY <1>2 DEF EndKev
  <2>3. /\ kev' \in CacheType /\ kev'.data \in Nat /\ kev'.data <= Newest
        /\ ~kev'.filled => kev'.data = Baseline
        /\ query[l].alone => kev.data <= kev'.data
    BY <2>1, <2>2, KevAnswered DEF CacheType
  <2>4. SourceInv
    BY DEF KevInv
  <2>5. /\ query' \in [Lookups -> QueryType]
        /\ query'[l] = NoQuery
        /\ Waiting' = Waiting \ {l}
        /\ \A m \in Waiting : m # l => query'[m] = query[m]
    BY <2>2, <2>4, EndedQuery
  <2>6. told' \in [kev : Nat, epss : Nat, when : Nat] /\ told'.kev = kev'.data
    BY <1>0, <2>2, <2>3
  <2>7. CacheTypeOK'
    BY <2>2, <2>3, <2>5, <2>6 DEF KevInv, SourceInv, CacheTypeOK
  <2>8. SourceInv'
    BY <2>2, <2>4, <2>7, SourceKept
  <2>9. Newest' = Newest
    BY <2>2 DEF Newest
  <2>10. \A m \in Waiting' : query'[m].alone => FALSE
    BY <2>2, <2>5 DEF KevInv
  <2>11. KevInv'
    BY <2>3, <2>6, <2>8, <2>9, <2>10 DEF KevInv
  <2>12. told'.kev < told.kev => ~query[l].alone
    BY <1>0, <2>3, <2>6 DEF KevInv
  <2> QED
    BY <2>2, <2>5, <2>11, <2>12
<1>3. CASE Publish
  <2>1. UNCHANGED <<now, kev, epss, query, told>>
    BY <1>3 DEF Publish
  <2>2. SourceInv /\ Newest \in Nat
    BY DEF KevInv, SourceInv, EditionsNumbered
  <2>3. CacheTypeOK' /\ Newest' = Newest + 1
    BY <1>3, <2>1, <2>2, PublishedNext DEF SourceInv, CacheTypeOK
  <2>4. SourceInv'
    BY <1>3, <2>2, <2>3, SourceKept
  <2> QED
    BY <1>0, <2>1, <2>2, <2>3, <2>4 DEF KevInv, Waiting
<1>4. CASE TickCaches
  <2>1. now' = now + 1 /\ UNCHANGED <<published, kev, epss, query, told>>
    BY <1>4 DEF TickCaches
  <2>2. CacheTypeOK'
    BY <2>1 DEF KevInv, SourceInv, CacheTypeOK
  <2>3. SourceInv'
    BY <2>1, <2>2, SourceKept DEF KevInv
  <2> QED
    BY <1>0, <2>1, <2>3 DEF KevInv, Newest, Waiting
<1>5. UNCHANGED told => told'.kev = told.kev
  OBVIOUS
<1>6. CASE Publish \/ TickCaches
  <2>1. told' = told /\ told.kev \in Nat
    BY <1>0, <1>6 DEF Publish, TickCaches
  <2> QED
    BY <1>3, <1>4, <1>6, <2>1
<1> QED
  <2>1. told.kev \in Nat
    BY <1>0
  <2> QED
    BY <1>1, <1>2, <1>6, <2>1 DEF KevNext

\* Initially only the first edition is out, and nothing waits.
LEMMA CachesBegin ==
  ASSUME CacheInit
  PROVE  SourceInv /\ Waiting = {} /\ Newest = 1
<1>1. Cardinality(published) = 1 /\ IsFiniteSet(published)
  BY FS_Singleton DEF CacheInit
<1>2. published \in SUBSET [edition : Nat, since : Nat]
  BY DEF CacheInit
<1>3. kev \in CacheType /\ epss \in CacheType
  BY DEF CacheInit, Nothing, Baseline, CacheType
<1>4. query \in [Lookups -> QueryType] /\ Waiting = {}
  BY DEF CacheInit, NoQuery, QueryType, Waiting
<1>5. CacheTypeOK
  BY <1>1, <1>2, <1>3, <1>4 DEF CacheInit, CacheTypeOK, Baseline
<1> QED
  BY <1>1, <1>4, <1>5 DEF CacheInit, SourceInv, EditionsNumbered, QueriesFollow, Newest

\* The catalogue of exploited vulnerabilities that a process works with goes back only where
\* lookups have overlapped, for all lookups, times to live and failures of the source.
THEOREM KevOnlyGrows == KevSpec => KevNeverGoesBack
<1>1. CacheInit => KevInv
  BY CachesBegin DEF CacheInit, KevInv, Nothing, Baseline
<1>2. KevInv /\ [KevNext]_cacheVars
        => /\ KevInv'
           /\ [told'.kev < told.kev => \E m \in Waiting : query'[m] = NoQuery /\ ~query[m].alone]_cacheVars
  <2> SUFFICES ASSUME KevInv, [KevNext]_cacheVars
               PROVE  /\ KevInv'
                      /\ [told'.kev < told.kev
                           => \E m \in Waiting : query'[m] = NoQuery /\ ~query[m].alone]_cacheVars
    OBVIOUS
  <2>1. CASE KevNext
    BY <2>1, KevStep
  <2>2. CASE UNCHANGED cacheVars
    <3>1. SourceInv'
      BY <2>2, SourceKept DEF cacheVars, KevInv, SourceInv, CacheTypeOK
    <3> QED
      BY <2>2, <3>1 DEF cacheVars, KevInv, Newest, Waiting
  <2> QED
    BY <2>1, <2>2
<1> QED
  BY <1>1, <1>2, PTL DEF KevSpec, KevNeverGoesBack
-----------------------------------------------------------------------------
(* The forecasts of exploitation.                                          *)

\* What the cache holds was the newest when its query began; what was told last had not been
\* replaced for a time to live.
EpssInv ==
    /\ SourceInv
    /\ epss.at <= now
    /\ told.when <= now
    /\ epss.data # Baseline => \A p \in published : p.edition = epss.data + 1 => epss.at <= p.since
    /\ told.epss # Baseline => \A p \in published : p.edition = told.epss + 1 => told.when < p.since + Ttl

LEMMA EpssStep ==
  ASSUME EpssInv, EpssNext
  PROVE  EpssInv'
<1>0. /\ told \in [kev : Nat, epss : Nat, when : Nat] /\ epss \in CacheType
      /\ epss.data \in Nat /\ epss.at \in Nat /\ now \in Nat /\ Ttl \in Nat \ {0}
      /\ \A p \in published : p.edition \in Nat /\ p.since \in Nat
      /\ SourceInv
  BY CacheAssumption DEF EpssInv, SourceInv, CacheTypeOK, CacheType
<1>1. ASSUME NEW l \in Lookups, BeginEpss(l) PROVE EpssInv'
  <2>1. CASE Fresh(epss)
    <3>1. told' = [told EXCEPT !.epss = epss.data, !.when = now]
          /\ UNCHANGED <<query, now, published, kev, epss>>
      BY <1>1, <2>1 DEF BeginEpss
    <3>2. /\ told' \in [kev : Nat, epss : Nat, when : Nat]
          /\ told'.epss = epss.data /\ told'.when = now
      BY <1>0, <3>1
    <3>3. CacheTypeOK'
      BY <3>1, <3>2 DEF EpssInv, SourceInv, CacheTypeOK
    <3>4. SourceInv'
      BY <3>1, <3>3, SourceKept DEF EpssInv
    <3>5. now < epss.at + Ttl
      BY <1>0, <2>1 DEF Fresh
    <3>6. \A p \in published : epss.at <= p.since => now < p.since + Ttl
      BY <1>0, <3>5
    <3> QED
      BY <1>0, <3>1, <3>2, <3>4, <3>6 DEF EpssInv
  <2>2. CASE ~Fresh(epss)
    <3>1. l \notin Waiting /\ Ask(l) /\ UNCHANGED <<told, now, published, kev, epss>>
      BY <1>1, <2>2 DEF BeginEpss
    <3>2. query' \in [Lookups -> QueryType]
      BY <1>0, <3>1, AskedQuery
    <3>3. CacheTypeOK'
      BY <3>1, <3>2 DEF EpssInv, SourceInv, CacheTypeOK
    <3>4. SourceInv'
      BY <1>0, <3>1, <3>3, SourceKept
    <3> QED
      BY <3>1, <3>4 DEF EpssInv
  <2> QED
    BY <2>1, <2>2
<1>2. ASSUME NEW l \in Lookups, EndEpss(l) PROVE EpssInv'
  <2>1. PICK answer \in Answers(l) : epss' = Stored(answer, query[l].began)
    BY <1>2 DEF EndEpss, EpssAfter
  <2>2. /\ l \in Waiting /\ told' = [told EXCEPT !.epss = epss'.data, !.when = query[l].began]
        /\ query' = [query EXCEPT ![l] = NoQuery] /\ UNCHANGED <<now, published, kev>>
    BY <1>2 DEF EndEpss
  <2>3. query[l].began \in Nat /\ query[l].newest \in Nat /\ query[l].began <= now
    BY <1>0, <2>2 DEF SourceInv, CacheTypeOK, QueriesFollow, QueryType
  <2>4. answer = 0 \/ (answer \in Nat /\ query[l].newest <= answer)
    BY <1>0, <2>3 DEF Answers, Baseline, SourceInv, EditionsNumbered
  <2>5. answer # 0 => \A p \in published : p.edition = answer + 1 => query[l].began <= p.since
    BY <1>0, <2>2, <2>3, <2>4 DEF SourceInv, QueriesFollow
  <2>6. /\ epss' \in CacheType /\ epss'.data = answer /\ epss'.at = query[l].began
    BY <2>1, <2>3, <2>4 DEF Stored, CacheType
  <2>7. /\ told' \in [kev : Nat, epss : Nat, when : Nat]
        /\ told'.epss = answer /\ told'.when = query[l].began
    <3>1. \A e, t \in Nat :
            LET new == [told EXCEPT !.epss = e, !.when = t]
            IN  new \in [kev : Nat, epss : Nat, when : Nat] /\ new.epss = e /\ new.when = t
      BY <1>0
    <3>2. answer \in Nat /\ told' = [told EXCEPT !.epss = answer, !.when = query[l].began]
      BY <2>2, <2>4, <2>6
    <3> QED
      BY <2>3, <3>1, <3>2
  <2>8. query' \in [Lookups -> QueryType]
    BY <1>0, <2>2, EndedQuery
  <2>9. CacheTypeOK'
    BY <2>2, <2>6, <2>7, <2>8 DEF EpssInv, SourceInv, CacheTypeOK
  <2>10. SourceInv'
    BY <1>0, <2>2, <2>9, SourceKept
  <2>11. \A p \in published : query[l].began <= p.since => query[l].began < p.since + Ttl
    BY <1>0, <2>3
  <2> QED
    BY <2>2, <2>3, <2>5, <2>6, <2>7, <2>10, <2>11 DEF EpssInv, Baseline
<1>3. CASE Publish
  <2>1. /\ UNCHANGED <<now, kev, epss, query, told>>
        /\ published' = published \cup {[edition |-> Newest + 1, since |-> now]}
    BY <1>3 DEF Publish
  <2>2. CacheTypeOK'
    BY <1>0, <1>3, <2>1, PublishedNext DEF SourceInv, CacheTypeOK
  <2>3. SourceInv'
    BY <1>0, <1>3, <2>2, SourceKept
  <2>4. told.when \in Nat /\ told.when < now + Ttl
    BY <1>0 DEF EpssInv
  <2> QED
    BY <1>0, <2>1, <2>3, <2>4 DEF EpssInv
<1>4. CASE TickCaches
  <2>1. now' = now + 1 /\ UNCHANGED <<published, kev, epss, query, told>>
    BY <1>4 DEF TickCaches
  <2>2. CacheTypeOK'
    BY <2>1 DEF EpssInv, SourceInv, CacheTypeOK
  <2>3. SourceInv'
    BY <1>0, <2>1, <2>2, SourceKept
  <2> QED
    BY <1>0, <2>1, <2>3 DEF EpssInv
<1> QED
  BY <1>1, <1>2, <1>3, <1>4 DEF EpssNext

\* A forecast that is told has not been replaced for longer than the time to live, or is the
\* baseline, for all lookups that overlap and all failures of the source.
THEOREM EpssNeverStale == EpssSpec => []EpssRecent
<1>1. CacheInit => EpssInv
  BY CachesBegin DEF CacheInit, EpssInv, Nothing, Baseline
<1>2. EpssInv /\ [EpssNext]_cacheVars => EpssInv'
  <2> SUFFICES ASSUME EpssInv, [EpssNext]_cacheVars PROVE EpssInv'
    OBVIOUS
  <2>1. CASE EpssNext
    BY <2>1, EpssStep
  <2>2. CASE UNCHANGED cacheVars
    <3>1. SourceInv'
      BY <2>2, SourceKept DEF cacheVars, EpssInv, SourceInv, CacheTypeOK
    <3> QED
      BY <2>2, <3>1 DEF cacheVars, EpssInv
  <2> QED
    BY <2>1, <2>2
<1>3. EpssInv => EpssRecent
  BY DEF EpssInv, EpssRecent, SupersededAt
<1> QED
  BY <1>1, <1>2, <1>3, PTL DEF EpssSpec

=============================================================================
