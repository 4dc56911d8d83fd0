------------------------------- MODULE Access -------------------------------
(***************************************************************************)
(* Accounts, first-launch setup, sessions and the administration of        *)
(* accounts (api/routes.py, api/dependencies.py, storage/db.py).           *)
(*                                                                         *)
(* Every request runs in a thread of the web server with a database        *)
(* session of its own: it reads rows in one statement, works on the copy,  *)
(* and commits later.  A commit writes the columns whose value differs     *)
(* from the copy that was read, as the object-relational mapper does.  A   *)
(* request that is refused changes nothing and is left out.                *)
(*                                                                         *)
(* Solo says that requests of administrators, and of the setup, come one   *)
(* at a time; logins and workspace switches always overlap with them.      *)
(***************************************************************************)
EXTENDS Naturals, FiniteSets

CONSTANTS
    Ids,        \* the identifiers the users table may still give out
    Emails,
    Tenants,    \* identifiers of organisations
    Default,    \* the organisation that init_db creates
    Threads,    \* threads of the web server
    Changes,    \* bodies of a PUT of a user: [role, active, tenant, allowed]
    Keep,       \* a field that a PUT leaves out
    All,        \* the entry "*" of allowed_tenants
    MaxPw,      \* bound: passwords that are ever chosen
    Solo

ASSUME AccessAssumption ==
    /\ Default \in Tenants
    /\ All \notin Tenants
    /\ MaxPw \in Nat \ {0}
    /\ Solo \in BOOLEAN
    /\ Keep \notin BOOLEAN
    /\ Keep \notin Tenants
    /\ Keep \notin {"system_admin", "operator"}
    /\ \A S \in SUBSET (Tenants \cup {All}) : S # Keep
    /\ Changes \subseteq [role : {Keep, "system_admin", "operator"}, active : {Keep} \cup BOOLEAN,
                          tenant : {Keep} \cup Tenants,
                          allowed : {Keep} \cup SUBSET (Tenants \cup {All})]

VARIABLES
    users,      \* the users table: identifier -> row
    cfg,        \* the row setup_completed of system_config is there
    tenants,    \* the tenants table
    tokens,     \* access tokens that have been issued (an expired one is one nobody uses again)
    lastPw,     \* passwords chosen so far
    req         \* what each thread is serving

accessVars == <<users, cfg, tenants, tokens, lastPw, req>>

Roles == {"system_admin", "operator"}

\* A row; pw names the password its hash stands for, root says created_by = "initial_setup".
UserType == [email : Emails, role : Roles, active : BOOLEAN, ver : 1..MaxPw, pw : 1..MaxPw,
             tenant : Tenants, allowed : SUBSET (Tenants \cup {All}), root : BOOLEAN]

\* A token carries the user and the token_version; pw is the password the session began with.
TokenType == [sub : Ids, ver : 1..MaxPw, pw : 1..MaxPw]
TokenOf(u, row) == [sub |-> u, ver |-> row.ver, pw |-> row.pw]

Idle == [at |-> "idle"]
ReqType ==
         {Idle}
    \cup [at : {"org"}, email : Emails]
    \cup [at : {"config"}, email : Emails, tenant : Tenants]
    \cup [at : {"root"}, email : Emails, tenant : Tenants, seen : BOOLEAN]
    \cup [at : {"login"}, user : Ids, seen : UserType]
    \cup [at : {"switch"}, user : Ids, seen : UserType, tenant : Tenants]
    \cup [at : {"admin"}, actor : Ids]
    \cup [at : {"create"}, actor : Ids, row : UserType]
    \cup [at : {"write"}, actor : Ids, target : Ids, seen : UserType, new : UserType]

AccessTypeOK ==
    /\ DOMAIN users \subseteq Ids
    /\ users \in [DOMAIN users -> UserType]
    /\ cfg \in BOOLEAN
    /\ tenants \in SUBSET Tenants
    /\ tokens \in SUBSET TokenType
    /\ lastPw \in 1..MaxPw
    /\ req \in [Threads -> ReqType]

AccessInit ==
    /\ users = [u \in {} |-> {}]
    /\ cfg = FALSE
    /\ tenants = {Default}
    /\ tokens = {}
    /\ lastPw = 1
    /\ req = [r \in Threads |-> Idle]

-----------------------------------------------------------------------------
Accounts == DOMAIN users
ActiveAdmin(u) == u \in Accounts /\ users[u].role = "system_admin" /\ users[u].active

Initialized == cfg \/ \E u \in Accounts : ActiveAdmin(u)

\* Threads on a request of the setup or of an administrator.
Administrative == {r \in Threads : req[r].at \in {"org", "config", "root", "admin", "create", "write"}}
Free(r) == req[r] = Idle
MayAdminister(r) == Free(r) /\ (Solo => Administrative = {})

WithUser(u, row) == [v \in Accounts \cup {u} |-> IF v = u THEN row ELSE users[v]]
Answer(r) == req' = [req EXCEPT ![r] = Idle]
Continue(r, next) == req' = [req EXCEPT ![r] = next]

-----------------------------------------------------------------------------
(* First-launch setup. *)

\* Mutant: the setup does not look whether the system is initialised.
SetupCheck_Open(r, e) ==
    /\ MayAdminister(r)
    /\ Continue(r, [at |-> "org", email |-> e])
    /\ UNCHANGED <<users, cfg, tenants, tokens, lastPw>>

\* endpoint_setup_initialize looks whether the system is initialised, then hashes the password.
SetupCheck(r, e) ==
    /\ MayAdminister(r)
    /\ ~Initialized
    /\ Continue(r, [at |-> "org", email |-> e])
    /\ UNCHANGED <<users, cfg, tenants, tokens, lastPw>>

\* The organisation is committed on its own.
SetupTenant(r) ==
    /\ req[r].at = "org"
    /\ \E t \in Tenants \ tenants :
          /\ tenants' = tenants \cup {t}
          /\ Continue(r, [at |-> "config", email |-> req[r].email, tenant |-> t])
    /\ UNCHANGED <<users, cfg, tokens, lastPw>>

SetupReadConfig(r) ==
    /\ req[r].at = "config"
    /\ Continue(r, [at |-> "root", email |-> req[r].email, tenant |-> req[r].tenant, seen |-> cfg])
    /\ UNCHANGED <<users, cfg, tenants, tokens, lastPw>>

RootRow(e, t) == [email |-> e, role |-> "system_admin", active |-> TRUE, ver |-> 1, pw |-> 1,
                  tenant |-> t, allowed |-> {All}, root |-> TRUE]

\* The administrator and the configuration row are one commit; it fails, and nothing of it
\* stays, when the row was inserted by someone else since it was looked for.
SetupCommit(r) ==
    /\ req[r].at = "root"
    /\ Answer(r)
    /\ IF cfg /\ ~req[r].seen
       THEN UNCHANGED <<users, cfg, tokens>>
       ELSE \E u \in Ids \ Accounts, row \in {RootRow(req[r].email, req[r].tenant)} :
               /\ users' = WithUser(u, row)
               /\ tokens' = tokens \cup {TokenOf(u, row)}
               /\ cfg' = TRUE
    /\ UNCHANGED <<tenants, lastPw>>

-----------------------------------------------------------------------------
(* Sessions. *)

\* verify_access_token: signed with the key of the server, and not expired.
Verified(k) == k \in tokens

\* get_current_user: the token names an account, of the same version, that is active.
Authenticated(k) == /\ Verified(k)
                    /\ k.sub \in Accounts
                    /\ users[k.sub].ver = k.ver
                    /\ users[k.sub].active

\* endpoint_login reads the account, and then takes its time to verify the password.
LoginRead(r, u) ==
    /\ Free(r)
    /\ u \in Accounts
    /\ users[u].active
    /\ Continue(r, [at |-> "login", user |-> u, seen |-> users[u]])
    /\ UNCHANGED <<users, cfg, tenants, tokens, lastPw>>

\* The token is made from the copy; an account whose organisation is missing gets a new one.
LoginToken(r) ==
    /\ req[r].at = "login"
    /\ tokens' = tokens \cup {TokenOf(req[r].user, req[r].seen)}
    /\ IF req[r].seen.tenant \in tenants
       THEN UNCHANGED <<users, tenants>>
       ELSE \E t \in Tenants \ tenants :
               /\ tenants' = tenants \cup {t}
               /\ users' = [users EXCEPT ![req[r].user].tenant = t]
    /\ Answer(r)
    /\ UNCHANGED <<cfg, lastPw>>

MayEnter(row, t) == row.role = "system_admin" \/ All \in row.allowed \/ t \in row.allowed

SwitchCheck(r, k, t) ==
    /\ Free(r)
    /\ Authenticated(k)
    /\ MayEnter(users[k.sub], t)
    /\ t \in tenants
    /\ Continue(r, [at |-> "switch", user |-> k.sub, seen |-> users[k.sub], tenant |-> t])
    /\ UNCHANGED <<users, cfg, tenants, tokens, lastPw>>

\* endpoint_switch_tenant stores the organisation and answers with a new token.
SwitchWrite(r) ==
    /\ req[r].at = "switch"
    /\ users' = IF req[r].tenant = req[r].seen.tenant THEN users
                ELSE [users EXCEPT ![req[r].user].tenant = req[r].tenant]
    /\ tokens' = tokens \cup {TokenOf(req[r].user, req[r].seen)}
    /\ Answer(r)
    /\ UNCHANGED <<cfg, tenants, lastPw>>

-----------------------------------------------------------------------------
(* Administration of accounts. *)

\* require_system_admin
AdminEnters(r, k) ==
    /\ MayAdminister(r)
    /\ Authenticated(k)
    /\ users[k.sub].role = "system_admin"
    /\ Continue(r, [at |-> "admin", actor |-> k.sub])
    /\ UNCHANGED <<users, cfg, tenants, tokens, lastPw>>

\* create_user opens every organisation to an administrator.
NewRow(e, role, t, allowed) ==
    [email |-> e, role |-> role, active |-> TRUE, ver |-> 1, pw |-> 1, tenant |-> t,
     allowed |-> IF role = "system_admin" /\ All \notin allowed THEN {All} ELSE allowed,
     root |-> FALSE]

\* Mutant: the address is not looked up.
CreateCheck_NoLookup(r, e, role, t) ==
    /\ req[r].at = "admin"
    /\ t \in tenants
    /\ Continue(r, [at |-> "create", actor |-> req[r].actor, row |-> NewRow(e, role, t, {t})])
    /\ UNCHANGED <<users, cfg, tenants, tokens, lastPw>>

\* endpoint_iam_create_user looks for the address and for the organisation ...
CreateCheck(r, e, role, t) ==
    /\ req[r].at = "admin"
    /\ \A u \in Accounts : users[u].email # e
    /\ t \in tenants
    /\ Continue(r, [at |-> "create", actor |-> req[r].actor, row |-> NewRow(e, role, t, {t})])
    /\ UNCHANGED <<users, cfg, tenants, tokens, lastPw>>

\* ... and inserts the account once the password is hashed.
CreateCommit(r) ==
    /\ req[r].at = "create"
    /\ \E u \in Ids \ Accounts : users' = WithUser(u, req[r].row)
    /\ Answer(r)
    /\ UNCHANGED <<cfg, tenants, tokens, lastPw>>

Given(value, old) == IF value = Keep THEN old ELSE value

\* Mutant: a field that is left out is written as it is.
Updated_Nulls(row, c) == [row EXCEPT !.active = c.active]

\* update_iam_user: what the row becomes.  The list of a PUT wins over the "*" of the role.
Updated(row, c) ==
    [row EXCEPT !.role = Given(c.role, @),
                !.active = Given(c.active, @),
                !.tenant = Given(c.tenant, @),
                !.allowed = IF c.allowed # Keep THEN c.allowed
                            ELSE IF c.role = "system_admin" THEN {All} ELSE @]

Demotes(c) == c.role \notin {Keep, "system_admin"} \/ c.active = FALSE

SoleAdmin == Cardinality({u \in Accounts : ActiveAdmin(u)}) <= 1

\* endpoint_iam_update_user: no administrator steps down by himself, and the last one stays.
UpdateCheck(r, u, c) ==
    /\ req[r].at = "admin"
    /\ u \in Accounts
    /\ ~(u = req[r].actor /\ Demotes(c))
    /\ ~(users[u].role = "system_admin" /\ Demotes(c) /\ SoleAdmin)
    /\ Continue(r, [at |-> "write", actor |-> req[r].actor, target |-> u,
                    seen |-> users[u], new |-> Updated(users[u], c)])
    /\ UNCHANGED <<users, cfg, tenants, tokens, lastPw>>

\* Mutant: the caller may deactivate his own account.
DeactivateCheck_Self(r, u) ==
    /\ req[r].at = "admin"
    /\ u \in Accounts
    /\ Continue(r, [at |-> "write", actor |-> req[r].actor, target |-> u,
                    seen |-> users[u], new |-> [users[u] EXCEPT !.active = FALSE]])
    /\ UNCHANGED <<users, cfg, tenants, tokens, lastPw>>

\* endpoint_iam_deactivate_user: not the account of the caller.
DeactivateCheck(r, u) ==
    /\ req[r].at = "admin"
    /\ u \in Accounts
    /\ u # req[r].actor
    /\ Continue(r, [at |-> "write", actor |-> req[r].actor, target |-> u,
                    seen |-> users[u], new |-> [users[u] EXCEPT !.active = FALSE]])
    /\ UNCHANGED <<users, cfg, tenants, tokens, lastPw>>

\* Mutant: the version of the tokens stays.
ResetCheck_SameVersion(r, u) ==
    /\ req[r].at = "admin"
    /\ u \in Accounts
    /\ lastPw < MaxPw
    /\ lastPw' = lastPw + 1
    /\ Continue(r, [at |-> "write", actor |-> req[r].actor, target |-> u, seen |-> users[u],
                    new |-> [users[u] EXCEPT !.pw = lastPw + 1]])
    /\ UNCHANGED <<users, cfg, tenants, tokens>>

\* endpoint_iam_reset_password: a new password, and the next version of the tokens.
ResetCheck(r, u) ==
    /\ req[r].at = "admin"
    /\ u \in Accounts
    /\ lastPw < MaxPw
    /\ lastPw' = lastPw + 1
    /\ Continue(r, [at |-> "write", actor |-> req[r].actor, target |-> u, seen |-> users[u],
                    new |-> [users[u] EXCEPT !.pw = lastPw + 1, !.ver = @ + 1]])
    /\ UNCHANGED <<users, cfg, tenants, tokens>>

\* The commit of update_iam_user: the columns that differ from the copy.
Merged(row, seen, new) == [f \in DOMAIN row |-> IF new[f] # seen[f] THEN new[f] ELSE row[f]]

UpdateWrite(r) ==
    /\ req[r].at = "write"
    /\ users' = [users EXCEPT ![req[r].target] = Merged(@, req[r].seen, req[r].new)]
    /\ Answer(r)
    /\ UNCHANGED <<cfg, tenants, tokens, lastPw>>

\* endpoint_create_tenant
CreateTenant(r) ==
    /\ req[r].at = "admin"
    /\ \E t \in Tenants \ tenants : tenants' = tenants \cup {t}
    /\ Answer(r)
    /\ UNCHANGED <<users, cfg, tokens, lastPw>>

-----------------------------------------------------------------------------
SetupRequest(r) == \/ \E e \in Emails : SetupCheck(r, e)
                   \/ SetupTenant(r)
                   \/ SetupReadConfig(r)
                   \/ SetupCommit(r)

SessionRequest(r) == \/ \E u \in Ids : LoginRead(r, u)
                     \/ LoginToken(r)
                     \/ \E k \in tokens, t \in Tenants : SwitchCheck(r, k, t)
                     \/ SwitchWrite(r)

AdminRequest(r) == \/ \E k \in tokens : AdminEnters(r, k)
                   \/ \E e \in Emails, role \in Roles, t \in Tenants : CreateCheck(r, e, role, t)
                   \/ CreateCommit(r)
                   \/ \E u \in Ids, c \in Changes : UpdateCheck(r, u, c)
                   \/ \E u \in Ids : DeactivateCheck(r, u)
                   \/ \E u \in Ids : ResetCheck(r, u)
                   \/ UpdateWrite(r)
                   \/ CreateTenant(r)

AccessNext == \E r \in Threads : SetupRequest(r) \/ SessionRequest(r) \/ AdminRequest(r)

AccessSpec == AccessInit /\ [][AccessNext]_accessVars

-----------------------------------------------------------------------------
(* Properties *)

\* Once the system is set up there is an administrator who can act: neither a chain of
\* demotions and deactivations nor one that overlaps with logins locks everybody out.
AdminRemains == cfg => \E u \in Accounts : ActiveAdmin(u)

\* A session that began under a password is of no use once the password has been reset, whether
\* its token was issued before the reset, or by a login or switch that overlapped with it.
SessionsRevoked == \A k \in tokens : k.sub \in Accounts /\ users[k.sub].ver = k.ver
                                        => users[k.sub].pw = k.pw

\* get_user_by_email takes the first row: an address names one account at most.
EmailsUnique == \A u, v \in Accounts : users[u].email = users[v].email => u = v

\* The public setup makes one administrator in the life of the system.
SetupOnce == \A u, v \in Accounts : users[u].root /\ users[v].root => u = v
=============================================================================
