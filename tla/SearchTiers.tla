---------------------------- MODULE SearchTiers ----------------------------
(***************************************************************************)
(* The integration keys of the tenants and the searches that use them      *)
(* (api/routes.py, worker.py, core/google_search.py).                      *)
(*                                                                         *)
(* A tenant saves its keys in rows of a table and sees them masked; the    *)
(* API process takes a saved key into its own environment.  The worker,    *)
(* which runs one job at a time, copies the keys of the job's tenant into  *)
(* its environment when the job begins, if it can read them, and takes     *)
(* none out.  The threads of a job search: cache first, then two paid      *)
(* providers, then a scraper without a key; a provider that refuses is     *)
(* not asked again by the process.  The threads of an aborted job may      *)
(* outlive it.                                                             *)
(***************************************************************************)
EXTENDS Naturals, Sequences, FiniteSets

CONSTANTS
    Tenants,
    Keys,       \* what each tenant enters into the fields of its integrations
    Searchers,  \* threads that search
    MaxSaves,   \* bound: saves of an integration
    MaxJobs     \* bound: jobs of the worker

VARIABLES
    config,     \* tenant_integrations.config: for each tenant and field a value, or NoKey
    enabled,    \* tenant_integrations.is_enabled, for each tenant and provider
    apiEnv,     \* for each field the value in the environment of the API process
    workerEnv,  \* the same of the worker
    exhausted,  \* providers that the worker no longer asks
    job,        \* number and tenant of the running job; history: the values that the tenant had
                \* enabled when it began, and whether they could be read
    search,     \* what each thread is doing
    cached,     \* whether search_cache holds results that have not expired
    asked,      \* history: the request to a paid provider that the last step made
    saves, jobs \* counters of the bounds

searchVars == <<config, enabled, apiEnv, workerEnv, exhausted, job, search, cached, asked, saves, jobs>>

Paid == {"serpapi", "google_search"}

\* The fields of an integration are saved, set and sent each on its own.
Field == {"serpapi.api_key", "google.api_key", "google.engine_id"}
ProviderOf(f) == IF f = "serpapi.api_key" THEN "serpapi" ELSE "google_search"
FieldsOf(p) == {f \in Field : ProviderOf(f) = p}

NoKey == "no key"
Masked == "masked"
NoKeys == [f \in Field |-> NoKey]
Idle == [at |-> "idle", job |-> 0, tried |-> {}]
NoRequest == [by |-> "nobody", saved |-> <<>>, sent |-> <<>>]
NoJob == [id |-> 0, tenant |-> NoKey, keys |-> NoKeys, read |-> FALSE]

SearchInit ==
    /\ config = [t \in Tenants |-> NoKeys]
    /\ enabled = [t \in Tenants |-> [p \in Paid |-> FALSE]]
    /\ apiEnv = NoKeys
    /\ workerEnv = NoKeys
    /\ exhausted = {}
    /\ job = NoJob
    /\ search = [s \in Searchers |-> Idle]
    /\ cached = FALSE
    /\ asked = NoRequest
    /\ saves = 0 /\ jobs = 0

-----------------------------------------------------------------------------
(* Integrations *)

\* The values of one function where it has any, those of the other elsewhere.
Overlaid(new, old) == [f \in DOMAIN old |-> IF f \in DOMAIN new /\ new[f] # NoKey THEN new[f] ELSE old[f]]

\* mask_val hides a key, and leaves a missing one out.
MaskVal(key) == IF key = NoKey THEN NoKey ELSE Masked

\* endpoint_get_integrations: the tenant's own value, or else that of the process; keys are masked, and
\* the number of a search engine is none.
Displayed(t, f) ==
    LET shown == Overlaid(config[t], apiEnv)[f] IN IF f = "google.engine_id" THEN shown ELSE MaskVal(shown)

\* What a form sends back of a field: a new value, nothing, or what was displayed.
Posted(t, f) == {Keys[t], NoKey, Displayed(t, f)}
Forms(t, p) == {form \in [FieldsOf(p) -> UNION {Posted(t, f) : f \in FieldsOf(p)}] :
                  \A f \in FieldsOf(p) : form[f] \in Posted(t, f)}

\* The save drops values that are missing or masked.
Clean(form) == [f \in DOMAIN form |-> IF form[f] = Masked THEN NoKey ELSE form[f]]

\* Mutant: what is displayed is saved.
SaveIntegration_Masked(t, p, form, is_enabled) ==
    /\ saves < MaxSaves
    /\ saves' = saves + 1
    /\ config' = [config EXCEPT ![t] = Overlaid(form, @)]
    /\ enabled' = [enabled EXCEPT ![t][p] = is_enabled]
    /\ apiEnv' = Overlaid(form, apiEnv)
    /\ asked' = NoRequest
    /\ UNCHANGED <<workerEnv, exhausted, job, search, cached, jobs>>

\* endpoint_save_integration: the row is merged field by field (upsert_tenant_integration), and the
\* environment of the process takes the fields, of an integration that is disabled, too.
SaveIntegration(t, p, form, is_enabled) ==
    /\ saves < MaxSaves
    /\ saves' = saves + 1
    /\ config' = [config EXCEPT ![t] = Overlaid(Clean(form), @)]
    /\ enabled' = [enabled EXCEPT ![t][p] = is_enabled]
    /\ apiEnv' = Overlaid(Clean(form), apiEnv)
    /\ asked' = NoRequest
    /\ UNCHANGED <<workerEnv, exhausted, job, search, cached, jobs>>

\* A masked or missing value stands for the saved one, if there is one; a missing one that is not
\* saved, for that of the process.  A mask that stands for no saved value stays a mask.
Tested(t, form) ==
    Overlaid([f \in DOMAIN form |-> IF config[t][f] # NoKey /\ form[f] \in {NoKey, Masked}
                                    THEN config[t][f] ELSE form[f]],
           [f \in DOMAIN form |-> apiEnv[f]])

\* endpoint_test_integration asks the provider, if no field is missing, and changes nothing.
TestIntegration(t, form) ==
    /\ LET sent == Tested(t, form)
       IN /\ \A f \in DOMAIN form : sent[f] # NoKey
          /\ asked' = [by |-> "test", saved |-> config[t], sent |-> sent]
    /\ UNCHANGED <<config, enabled, apiEnv, workerEnv, exhausted, job, search, cached, saves, jobs>>

-----------------------------------------------------------------------------
(* Jobs of the worker *)

EnabledKeys(t) == [f \in Field |-> IF enabled[t][ProviderOf(f)] THEN config[t][f] ELSE NoKey]

\* Mutant: a value that is already in the environment is left there.
StartJob_KeepEnvironment(t) ==
    /\ job = NoJob /\ jobs < MaxJobs
    /\ jobs' = jobs + 1
    /\ \E read \in BOOLEAN :
         /\ job' = [id |-> jobs + 1, tenant |-> t, keys |-> EnabledKeys(t), read |-> read]
         /\ workerEnv' = IF read THEN Overlaid(workerEnv, EnabledKeys(t)) ELSE workerEnv
    /\ asked' = NoRequest
    /\ UNCHANGED <<config, enabled, apiEnv, exhausted, search, cached, saves>>

\* _sync_tenant_integrations_for_job sets the enabled fields that have a value and leaves the others as
\* they are.  If the database fails it leaves them all, and the job runs with what it finds.
StartJob(t) ==
    /\ job = NoJob /\ jobs < MaxJobs
    /\ jobs' = jobs + 1
    /\ \E read \in BOOLEAN :
         /\ job' = [id |-> jobs + 1, tenant |-> t, keys |-> EnabledKeys(t), read |-> read]
         /\ workerEnv' = IF read THEN Overlaid(EnabledKeys(t), workerEnv) ELSE workerEnv
    /\ asked' = NoRequest
    /\ UNCHANGED <<config, enabled, apiEnv, exhausted, search, cached, saves>>

\* The job completes when its threads have, or is aborted, and its threads go on.
EndJob ==
    /\ job # NoJob
    /\ job' = NoJob
    /\ asked' = NoRequest
    /\ UNCHANGED <<config, enabled, apiEnv, workerEnv, exhausted, search, cached, saves, jobs>>

-----------------------------------------------------------------------------
(* Searches *)

SearchUnchanged == UNCHANGED <<config, enabled, apiEnv, workerEnv, job, saves, jobs>>

\* query_google_search: a valid row of the cache is the answer, and nothing is asked.
BeginSearch(s) ==
    /\ job # NoJob
    /\ search[s] = Idle
    /\ search' = IF cached THEN search
                  ELSE [search EXCEPT ![s] = [Idle EXCEPT !.job = job.id, !.at = "serpapi"]]
    /\ asked' = NoRequest
    /\ SearchUnchanged /\ UNCHANGED <<exhausted, cached>>

\* is_serpapi_available, is_google_search_available: every field has a value, and no exhaustion.
Configured(p) == \A f \in FieldsOf(p) : workerEnv[f] # NoKey
Available(p) == Configured(p) /\ p \notin exhausted

\* What a thread sends, for a job that may have ended.
Request(s, p) == [by |-> IF search[s].job = job.id THEN "job" ELSE "late thread", saved |-> job.keys,
                  sent |-> [f \in FieldsOf(p) |-> workerEnv[f]]]

After(p) == IF p = "serpapi" THEN "google_search" ELSE "keyless"

\* Mutant: a request that fails ends the paid tiers.
AskPaid_NoFallback(s, p) ==
    /\ search[s].at = p
    /\ IF Available(p)
       THEN \E outcome \in {"results", "empty", "refused"} :
              /\ search' = [search EXCEPT ![s].tried = @ \cup {p},
                              ![s].at = IF outcome = "results" THEN "found" ELSE "keyless"]
              /\ exhausted' = IF outcome = "refused" THEN exhausted \cup {p} ELSE exhausted
              /\ asked' = Request(s, p)
       ELSE search' = [search EXCEPT ![s].at = After(p)] /\ asked' = NoRequest /\ UNCHANGED exhausted
    /\ SearchUnchanged /\ UNCHANGED cached

\* One paid tier: results end the search, a refusal marks the provider; an empty answer, an error
\* and a refusal lead on to the next tier.
AskPaid(s, p) ==
    /\ search[s].at = p
    /\ IF Available(p)
       THEN \E outcome \in {"results", "empty", "refused"} :
              /\ search' = [search EXCEPT ![s].tried = @ \cup {p},
                              ![s].at = IF outcome = "results" THEN "found" ELSE After(p)]
              /\ exhausted' = IF outcome = "refused" THEN exhausted \cup {p} ELSE exhausted
              /\ asked' = Request(s, p)
       ELSE search' = [search EXCEPT ![s].at = After(p)] /\ asked' = NoRequest /\ UNCHANGED exhausted
    /\ SearchUnchanged /\ UNCHANGED cached

\* _query_keyless_search: one page, and if it has nothing the other.
AskKeyless(s) ==
    /\ search[s].at = "keyless"
    /\ \E lite, html \in BOOLEAN :
         search' = [search EXCEPT ![s] = IF lite \/ html THEN [@ EXCEPT !.at = "found"] ELSE Idle]
    /\ asked' = NoRequest
    /\ SearchUnchanged /\ UNCHANGED <<exhausted, cached>>

\* _save_cached_search_results: a merge by the query's hash, which may fail and is then skipped.
SaveResults(s) ==
    /\ search[s].at = "found"
    /\ cached' \in {cached, TRUE}
    /\ search' = [search EXCEPT ![s] = Idle]
    /\ asked' = NoRequest
    /\ SearchUnchanged /\ UNCHANGED exhausted

\* expires_at passes.
ExpireCache ==
    /\ cached
    /\ cached' = FALSE
    /\ asked' = NoRequest
    /\ SearchUnchanged /\ UNCHANGED <<exhausted, search>>

-----------------------------------------------------------------------------
SearchNext ==
    \/ \E t \in Tenants, p \in Paid : \E form \in Forms(t, p) :
         \/ \E is_enabled \in BOOLEAN : SaveIntegration(t, p, form, is_enabled)
         \/ TestIntegration(t, form)
    \/ \E t \in Tenants : StartJob(t)
    \/ EndJob
    \/ \E s \in Searchers :
         \/ BeginSearch(s)
         \/ \E p \in Paid : AskPaid(s, p)
         \/ AskKeyless(s)
         \/ SaveResults(s)
    \/ ExpireCache

SearchSpec == SearchInit /\ [][SearchNext]_searchVars

-----------------------------------------------------------------------------
(* Properties *)

\* A running job whose integrations could be read sends each value that its tenant had enabled when it
\* began as the tenant's own, whatever other tenants' jobs and their threads have left in the
\* environment.  It says nothing of a job whose integrations could not be read, nor of a field that
\* the tenant has not enabled: there the worker searches with what another tenant's job has left.
OwnKeyWins == asked.by = "job" /\ job.read =>
    \A f \in DOMAIN asked.sent : asked.saved[f] # NoKey => asked.sent[f] = asked.saved[f]

\* The mask that stands for a key on the screen is never saved and never enters an environment, so that
\* no job sends it.  A test sends it only for a tenant that has saved no value of the field: it was
\* shown the mask of the process's key, and posts it back.
MaskNeverAKey ==
    /\ \A t \in Tenants, f \in Field : config[t][f] # Masked
    /\ \A f \in Field : apiEnv[f] # Masked /\ workerEnv[f] # Masked
    /\ \A f \in DOMAIN asked.sent :
         asked.sent[f] = Masked => asked.by = "test" /\ asked.saved[f] = NoKey

\* The scraper is the last resort: a search comes to it only when each paid provider has been
\* asked by it, has refused this process, or lacks a key.
KeylessIsLast == \A s \in Searchers : search[s].at = "keyless" /\ search[s].job = job.id =>
    \A p \in Paid : p \in search[s].tried \cup exhausted \/ ~Configured(p)
=============================================================================
