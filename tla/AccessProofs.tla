---------------------------- MODULE AccessProofs ----------------------------
(***************************************************************************)
(* The access tables are well typed however requests overlap.  When the    *)
(* requests of administrators come one at a time, and logins and           *)
(* workspace switches overlap with them freely, the setup makes one        *)
(* administrator, an address names one account, somebody can always        *)
(* administer, and a password reset ends the sessions that came before it. *)
(*                                                                         *)
(* The limit of logins keeps its two promises: failures stay below it      *)
(* however checks and failures interleave, and the announced time is that  *)
(* of the lock, within the second by which it may be early and the         *)
(* difference of window and penalty by which it may be late.               *)
(***************************************************************************)
EXTENDS Access, LoginLimiter, SharedFacts, SequenceTheorems, FiniteSetTheorems, TLAPS

-----------------------------------------------------------------------------
(* The inductive invariants.                                               *)

\* A version of tokens is only ever a password reset away from the one before it, so there are
\* no more of them than passwords.  This holds however requests overlap.
VersionsBounded ==
    /\ \A u \in Accounts : users[u].ver <= lastPw
    /\ \A r \in Threads : req[r].at = "create" => req[r].row.ver <= lastPw
    /\ \A r \in Threads : req[r].at = "write" => req[r].new.ver <= lastPw

\* The hypothesis of the other theorems, as it shows in the state.
OneAtATime == \A r, s \in Administrative : r = s

(* The other invariants say of a table of accounts, table, of whether the setup is done, and of *)
(* the tokens issued, what holds of users, cfg and tokens in every state.                       *)

Acts(table, u) == u \in DOMAIN table /\ table[u].role = "system_admin" /\ table[u].active

\* The account u was at version ver, with password pw: it is past it, or it is still there.
Reached(table, u, ver, pw) ==
    /\ u \in DOMAIN table
    /\ ver <= table[u].ver
    /\ ver = table[u].ver => pw = table[u].pw

\* Before the setup there is neither an account nor a session; after it somebody administers.
\* A token is of a version that its account has reached.
TablesOK(table, done, issued) ==
    /\ ~done => DOMAIN table = {} /\ issued = {}
    /\ done => \E u \in DOMAIN table : Acts(table, u)
    /\ \A k \in issued : Reached(table, k.sub, k.ver, k.pw)
    /\ \A u, v \in DOMAIN table : table[u].email = table[v].email => u = v
    /\ \A u, v \in DOMAIN table : table[u].root /\ table[v].root => u = v

\* Two rows agree but for the columns that logins and switches write, or no guard reads.
Agree(row1, row2) == /\ row1.email = row2.email
                     /\ row1.role = row2.role
                     /\ row1.active = row2.active
                     /\ row1.ver = row2.ver
                     /\ row1.pw = row2.pw
                     /\ row1.root = row2.root

\* What an update of an account may turn its row into: a password comes with a version, and the
\* caller remains an administrator.
MayBecome(seen, new, self) ==
    /\ new.email = seen.email
    /\ new.root = seen.root
    /\ seen.ver <= new.ver
    /\ new.ver = seen.ver => new.pw = seen.pw
    /\ self => new.role = "system_admin" /\ new.active

\* A request of the setup precedes its completion, and any other follows it.
RightTime(q, done) ==
    /\ q.at \in {"org", "config", "root"} => ~done
    /\ q.at \in {"login", "switch", "admin", "create", "write"} => done

\* A copy from which a token will be made is of a version that its account has reached.
CopyReached(q, table) ==
    q.at \in {"login", "switch"} => Reached(table, q.user, q.seen.ver, q.seen.pw)

\* The caller stays an administrator until the request is answered; the account to be inserted
\* has an address of its own; the row to be written is what it was when it was read.
AdminCurrent(q, table) ==
    /\ q.at = "root" => ~q.seen
    /\ q.at \in {"admin", "create", "write"} => Acts(table, q.actor)
    /\ q.at = "create" => /\ ~q.row.root
                          /\ \A u \in DOMAIN table : table[u].email # q.row.email
    /\ q.at = "write" => /\ q.target \in DOMAIN table
                         /\ Agree(table[q.target], q.seen)
                         /\ MayBecome(q.seen, q.new, q.target = q.actor)

RequestOK(q, table, done) == /\ RightTime(q, done)
                             /\ CopyReached(q, table)
                             /\ AdminCurrent(q, table)

SoloInv == /\ OneAtATime
           /\ TablesOK(users, cfg, tokens)
           /\ \A r \in Threads : RequestOK(req[r], users, cfg)

-----------------------------------------------------------------------------
(* Type correctness.                                                       *)

\* What a request carries at each of its steps.
LEMMA RequestTyped ==
  ASSUME NEW q \in ReqType
  PROVE  /\ q.at = "org" => q.email \in Emails
         /\ q.at = "config" => q.email \in Emails /\ q.tenant \in Tenants
         /\ q.at = "root" => q.email \in Emails /\ q.tenant \in Tenants /\ q.seen \in BOOLEAN
         /\ q.at = "login" => q.user \in Ids /\ q.seen \in UserType
         /\ q.at = "switch" => q.user \in Ids /\ q.seen \in UserType /\ q.tenant \in Tenants
         /\ q.at \in {"admin", "create", "write"} => q.actor \in Ids
         /\ q.at = "create" => q.row \in UserType
         /\ q.at = "write" => q.target \in Ids /\ q.seen \in UserType /\ q.new \in UserType
  BY DEF ReqType, Idle

\* A commit takes each column from the copy that was changed, where it was changed.
LEMMA MergedColumns ==
  ASSUME NEW row \in UserType, NEW seen \in UserType, NEW new \in UserType
  PROVE  /\ Merged(row, seen, new) \in UserType
         /\ Merged(row, seen, new).email = IF new.email # seen.email THEN new.email ELSE row.email
         /\ Merged(row, seen, new).role = IF new.role # seen.role THEN new.role ELSE row.role
         /\ Merged(row, seen, new).active = IF new.active # seen.active THEN new.active ELSE row.active
         /\ Merged(row, seen, new).ver = IF new.ver # seen.ver THEN new.ver ELSE row.ver
         /\ Merged(row, seen, new).pw = IF new.pw # seen.pw THEN new.pw ELSE row.pw
         /\ Merged(row, seen, new).root = IF new.root # seen.root THEN new.root ELSE row.root
<1> DEFINE M == Merged(row, seen, new)
<1>1. DOMAIN row = {"email", "role", "active", "ver", "pw", "tenant", "allowed", "root"}
  BY DEF UserType
<1>2. M = [email |-> M.email, role |-> M.role, active |-> M.active, ver |-> M.ver, pw |-> M.pw,
           tenant |-> M.tenant, allowed |-> M.allowed, root |-> M.root]
  BY <1>1 DEF Merged
<1>3. /\ M.email = IF new.email # seen.email THEN new.email ELSE row.email
      /\ M.role = IF new.role # seen.role THEN new.role ELSE row.role
      /\ M.active = IF new.active # seen.active THEN new.active ELSE row.active
      /\ M.ver = IF new.ver # seen.ver THEN new.ver ELSE row.ver
      /\ M.pw = IF new.pw # seen.pw THEN new.pw ELSE row.pw
      /\ M.tenant = IF new.tenant # seen.tenant THEN new.tenant ELSE row.tenant
      /\ M.allowed = IF new.allowed # seen.allowed THEN new.allowed ELSE row.allowed
      /\ M.root = IF new.root # seen.root THEN new.root ELSE row.root
  BY <1>1 DEF Merged
<1>4. /\ M.email \in Emails /\ M.role \in Roles /\ M.active \in BOOLEAN
      /\ M.ver \in 1..MaxPw /\ M.pw \in 1..MaxPw /\ M.tenant \in Tenants
      /\ M.allowed \in SUBSET (Tenants \cup {All}) /\ M.root \in BOOLEAN
  BY <1>3 DEF UserType
<1>5. M \in UserType
  BY <1>2, <1>4 DEF UserType
<1> QED
  BY <1>3, <1>5

\* Adding a row to the table, or changing one, leaves a table of rows.
LEMMA TableTyped ==
  ASSUME AccessTypeOK, NEW u \in Ids, NEW row \in UserType
  PROVE  /\ DOMAIN WithUser(u, row) = Accounts \cup {u}
         /\ DOMAIN WithUser(u, row) \subseteq Ids
         /\ WithUser(u, row) \in [DOMAIN WithUser(u, row) -> UserType]
  BY DEF AccessTypeOK, WithUser, Accounts

\* Moving an account to an organisation leaves its other columns, and the other accounts.
LEMMA MovedTyped ==
  ASSUME AccessTypeOK, NEW u \in Ids, NEW t \in Tenants
  PROVE  /\ [users EXCEPT ![u].tenant = t] \in [DOMAIN users -> UserType]
         /\ DOMAIN [users EXCEPT ![u].tenant = t] = Accounts
         /\ \A v \in Accounts : Agree([users EXCEPT ![u].tenant = t][v], users[v])
<1> DEFINE table == [users EXCEPT ![u].tenant = t]
<1>1. \A v \in Accounts : v # u => table[v] = users[v]
  BY DEF Accounts
<1>2. u \in Accounts => table[u] = [users[u] EXCEPT !.tenant = t]
  BY DEF Accounts
<1>3. \A v \in Accounts : users[v] \in UserType
  BY DEF AccessTypeOK, Accounts
<1>4. ASSUME NEW row \in UserType
      PROVE  [row EXCEPT !.tenant = t] \in UserType /\ Agree([row EXCEPT !.tenant = t], row)
  BY DEF UserType, Agree
<1>5. \A v \in Accounts : table[v] \in UserType /\ Agree(table[v], users[v])
  BY <1>1, <1>2, <1>3, <1>4 DEF Agree
<1> QED
  BY <1>5 DEF Accounts

\* The rows of the setup, and of the creation of an account, are rows at the first version.
LEMMA RowsTyped ==
  ASSUME NEW e \in Emails, NEW t \in Tenants, NEW role \in Roles
  PROVE  /\ RootRow(e, t) \in UserType /\ RootRow(e, t).ver = 1 /\ RootRow(e, t).pw = 1
         /\ RootRow(e, t).email = e
         /\ NewRow(e, role, t, {t}) \in UserType /\ NewRow(e, role, t, {t}).ver = 1
         /\ NewRow(e, role, t, {t}).email = e /\ ~NewRow(e, role, t, {t}).root
<1>1. 1 \in 1..MaxPw
  BY AccessAssumption
<1>2. {All} \in SUBSET (Tenants \cup {All}) /\ {t} \in SUBSET (Tenants \cup {All})
  OBVIOUS
<1>3. RootRow(e, t) \in UserType
  BY <1>1, <1>2 DEF RootRow, UserType, Roles
<1>4. NewRow(e, role, t, {t}) \in UserType
  BY <1>1, <1>2 DEF NewRow, UserType
<1> QED
  BY <1>3, <1>4 DEF RootRow, NewRow

\* A PUT writes the columns it names, and turns an account into one that may be told to.
LEMMA UpdatedTyped ==
  ASSUME NEW row \in UserType, NEW c \in Changes
  PROVE  /\ Updated(row, c) \in UserType
         /\ Updated(row, c).email = row.email
         /\ Updated(row, c).root = row.root
         /\ Updated(row, c).ver = row.ver
         /\ Updated(row, c).pw = row.pw
         /\ row.role = "system_admin" /\ row.active /\ ~Demotes(c)
              => Updated(row, c).role = "system_admin" /\ Updated(row, c).active
<1> DEFINE new == Updated(row, c)
<1>1. /\ c.role \in {Keep} \cup Roles
      /\ c.active \in {Keep} \cup BOOLEAN
      /\ c.tenant \in {Keep} \cup Tenants
      /\ c.allowed \in {Keep} \cup SUBSET (Tenants \cup {All})
  BY AccessAssumption DEF Roles
<1>2. /\ new.email = row.email
      /\ new.role = Given(c.role, row.role)
      /\ new.active = Given(c.active, row.active)
      /\ new.ver = row.ver
      /\ new.pw = row.pw
      /\ new.root = row.root
  BY DEF Updated, UserType
<1>3. /\ Given(c.role, row.role) \in Roles
      /\ Given(c.active, row.active) \in BOOLEAN
      /\ Given(c.tenant, row.tenant) \in Tenants
      /\ c.allowed # Keep => c.allowed \in SUBSET (Tenants \cup {All})
      /\ {All} \in SUBSET (Tenants \cup {All})
  BY <1>1 DEF Given, UserType
<1>4. new \in UserType
  BY <1>3 DEF Updated, UserType
<1>5. ASSUME row.role = "system_admin", row.active, ~Demotes(c)
      PROVE  new.role = "system_admin" /\ new.active
  BY <1>1, <1>2, <1>5, AccessAssumption DEF Given, Demotes
<1> QED
  BY <1>2, <1>4, <1>5

\* A reset chooses a password, and the next version.
LEMMA ResetTyped ==
  ASSUME NEW row \in UserType, NEW n \in 1..MaxPw, n < MaxPw, row.ver <= n
  PROVE  LET new == [row EXCEPT !.pw = n + 1, !.ver = @ + 1]
         IN  /\ new \in UserType
             /\ new.email = row.email
             /\ new.root = row.root
             /\ new.role = row.role
             /\ new.active = row.active
             /\ new.ver = row.ver + 1
<1> DEFINE new == [row EXCEPT !.pw = n + 1, !.ver = @ + 1]
<1>1. n + 1 \in 1..MaxPw /\ row.ver + 1 \in 1..MaxPw
  BY AccessAssumption DEF UserType
<1>2. new \in UserType
  BY <1>1 DEF UserType
<1>3. /\ new.email = row.email /\ new.root = row.root /\ new.role = row.role
      /\ new.active = row.active /\ new.ver = row.ver + 1
  BY DEF UserType
<1> QED
  BY <1>2, <1>3

\* A thread that goes on, or answers, has a typed request; the others keep theirs.
LEMMA ThreadTyped ==
  ASSUME AccessTypeOK, NEW r \in Threads, NEW q \in ReqType, Continue(r, q)
  PROVE  /\ req' \in [Threads -> ReqType]
         /\ req'[r] = q
         /\ \A s \in Threads : s # r => req'[s] = req[s]
  BY DEF AccessTypeOK, Continue

LEMMA AnswerTyped ==
  ASSUME AccessTypeOK, NEW r \in Threads, Answer(r)
  PROVE  /\ req' \in [Threads -> ReqType]
         /\ req'[r] = Idle
         /\ \A s \in Threads : s # r => req'[s] = req[s]
  BY DEF AccessTypeOK, Answer, ReqType

\* The setup keeps the types.
LEMMA TypeSetup ==
  ASSUME AccessTypeOK, VersionsBounded, NEW r \in Threads, SetupRequest(r)
  PROVE  AccessTypeOK' /\ VersionsBounded'
<1>1. ASSUME NEW e \in Emails, SetupCheck(r, e) PROVE AccessTypeOK' /\ VersionsBounded'
  <2>1. [at |-> "org", email |-> e] \in ReqType
    BY DEF ReqType
  <2> QED
    BY <1>1, <2>1, ThreadTyped DEF SetupCheck, AccessTypeOK, VersionsBounded, Accounts
<1>2. CASE SetupTenant(r)
  <2>1. PICK t \in Tenants \ tenants :
           /\ tenants' = tenants \cup {t}
           /\ Continue(r, [at |-> "config", email |-> req[r].email, tenant |-> t])
    BY <1>2 DEF SetupTenant
  <2>2. req[r].email \in Emails
    BY <1>2, RequestTyped DEF SetupTenant, AccessTypeOK
  <2>3. [at |-> "config", email |-> req[r].email, tenant |-> t] \in ReqType
    BY <2>1, <2>2 DEF ReqType
  <2> QED
    BY <1>2, <2>1, <2>3, ThreadTyped DEF SetupTenant, AccessTypeOK, VersionsBounded, Accounts
<1>3. CASE SetupReadConfig(r)
  <2>1. req[r].email \in Emails /\ req[r].tenant \in Tenants
    BY <1>3, RequestTyped DEF SetupReadConfig, AccessTypeOK
  <2>2. [at |-> "root", email |-> req[r].email, tenant |-> req[r].tenant, seen |-> cfg] \in ReqType
    BY <2>1 DEF ReqType, AccessTypeOK
  <2> QED
    BY <1>3, <2>2, ThreadTyped DEF SetupReadConfig, AccessTypeOK, VersionsBounded, Accounts
<1>4. CASE SetupCommit(r)
  <2>1. CASE cfg /\ ~req[r].seen
    BY <1>4, <2>1, AnswerTyped DEF SetupCommit, AccessTypeOK, VersionsBounded, Accounts, Idle
  <2>2. CASE ~(cfg /\ ~req[r].seen)
    <3>1. PICK u \in Ids \ Accounts, row \in {RootRow(req[r].email, req[r].tenant)} :
             /\ users' = WithUser(u, row)
             /\ tokens' = tokens \cup {TokenOf(u, row)}
             /\ cfg' = TRUE
      BY <1>4, <2>2 DEF SetupCommit
    <3>2. row \in UserType /\ row.ver = 1 /\ row.pw = 1
      <4>1. req[r].email \in Emails /\ req[r].tenant \in Tenants
        BY <1>4, RequestTyped DEF SetupCommit, AccessTypeOK
      <4>2. row = RootRow(req[r].email, req[r].tenant) /\ "system_admin" \in Roles
        BY <3>1 DEF Roles
      <4> QED
        BY <4>1, <4>2, RowsTyped
    <3>3. TokenOf(u, row) \in TokenType
      BY <3>1, <3>2, AccessAssumption DEF TokenOf, TokenType
    <3>4. DOMAIN users' \subseteq Ids /\ users' \in [DOMAIN users' -> UserType]
      BY <3>1, <3>2, TableTyped
    <3>5. AccessTypeOK'
      BY <1>4, <3>1, <3>3, <3>4, AnswerTyped DEF SetupCommit, AccessTypeOK
    <3>6. \A v \in Accounts' : users'[v].ver <= lastPw
      BY <3>1, <3>2 DEF WithUser, Accounts, VersionsBounded, AccessTypeOK
    <3> QED
      BY <1>4, <3>5, <3>6, AnswerTyped DEF SetupCommit, VersionsBounded, Idle
  <2> QED
    BY <2>1, <2>2
<1> QED
  BY <1>1, <1>2, <1>3, <1>4 DEF SetupRequest
\* Logins and switches keep the types.
LEMMA TypeSession ==
  ASSUME AccessTypeOK, VersionsBounded, NEW r \in Threads, SessionRequest(r)
  PROVE  AccessTypeOK' /\ VersionsBounded'
<1>1. ASSUME NEW u \in Ids, LoginRead(r, u) PROVE AccessTypeOK' /\ VersionsBounded'
  <2>1. [at |-> "login", user |-> u, seen |-> users[u]] \in ReqType
    BY <1>1 DEF LoginRead, ReqType, AccessTypeOK, Accounts
  <2> QED
    BY <1>1, <2>1, ThreadTyped DEF LoginRead, AccessTypeOK, VersionsBounded, Accounts
<1>2. CASE LoginToken(r)
  <2>1. req[r].user \in Ids /\ req[r].seen \in UserType
    BY <1>2, RequestTyped DEF LoginToken, AccessTypeOK
  <2>2. TokenOf(req[r].user, req[r].seen) \in TokenType
    BY <2>1 DEF TokenOf, TokenType, UserType
  <2>3. CASE req[r].seen.tenant \in tenants
    BY <1>2, <2>2, <2>3, AnswerTyped DEF LoginToken, AccessTypeOK, VersionsBounded, Accounts, Idle
  <2>4. CASE req[r].seen.tenant \notin tenants
    <3>1. PICK t \in Tenants \ tenants :
             /\ tenants' = tenants \cup {t}
             /\ users' = [users EXCEPT ![req[r].user].tenant = t]
      BY <1>2, <2>4 DEF LoginToken
    <3>2. DOMAIN users' = DOMAIN users /\ users' \in [DOMAIN users -> UserType]
      BY <3>1, MovedTyped DEF AccessTypeOK
    <3>3. \A v \in Accounts : users'[v].ver = users[v].ver
      BY <3>1, MovedTyped DEF AccessTypeOK, Agree
    <3> QED
      BY <1>2, <2>2, <3>1, <3>2, <3>3, AnswerTyped
      DEF LoginToken, AccessTypeOK, VersionsBounded, Accounts, Idle
  <2> QED
    BY <2>3, <2>4
<1>3. ASSUME NEW k \in tokens, NEW t \in Tenants, SwitchCheck(r, k, t)
      PROVE  AccessTypeOK' /\ VersionsBounded'
  <2>1. [at |-> "switch", user |-> k.sub, seen |-> users[k.sub], tenant |-> t] \in ReqType
    BY <1>3 DEF SwitchCheck, Authenticated, ReqType, AccessTypeOK, Accounts
  <2> QED
    BY <1>3, <2>1, ThreadTyped DEF SwitchCheck, AccessTypeOK, VersionsBounded, Accounts
<1>4. CASE SwitchWrite(r)
  <2>1. req[r].user \in Ids /\ req[r].seen \in UserType /\ req[r].tenant \in Tenants
    BY <1>4, RequestTyped DEF SwitchWrite, AccessTypeOK
  <2>2. TokenOf(req[r].user, req[r].seen) \in TokenType
    BY <2>1 DEF TokenOf, TokenType, UserType
  <2>3. CASE req[r].tenant = req[r].seen.tenant
    BY <1>4, <2>2, <2>3, AnswerTyped DEF SwitchWrite, AccessTypeOK, VersionsBounded, Accounts, Idle
  <2>4. CASE req[r].tenant # req[r].seen.tenant
    <3>1. users' = [users EXCEPT ![req[r].user].tenant = req[r].tenant]
      BY <1>4, <2>4 DEF SwitchWrite
    <3>2. DOMAIN users' = DOMAIN users /\ users' \in [DOMAIN users -> UserType]
      BY <2>1, <3>1, MovedTyped DEF AccessTypeOK
    <3>3. \A v \in Accounts : users'[v].ver = users[v].ver
      BY <2>1, <3>1, MovedTyped DEF AccessTypeOK, Agree
    <3> QED
      BY <1>4, <2>2, <3>2, <3>3, AnswerTyped
      DEF SwitchWrite, AccessTypeOK, VersionsBounded, Accounts, Idle
  <2> QED
    BY <2>3, <2>4
<1> QED
  BY <1>1, <1>2, <1>3, <1>4 DEF SessionRequest
\* The write that a request of an administrator goes on to is one, and within the bound.
LEMMA TypeUpdate ==
  ASSUME AccessTypeOK, VersionsBounded, NEW r \in Threads,
         req[r].at = "admin", NEW u \in Accounts, NEW new \in UserType,
         Continue(r, [at |-> "write", actor |-> req[r].actor, target |-> u,
                      seen |-> users[u], new |-> new]),
         lastPw' \in 1..MaxPw, lastPw <= lastPw', new.ver <= lastPw',
         UNCHANGED <<users, cfg, tenants, tokens>>
  PROVE  AccessTypeOK' /\ VersionsBounded'
<1> DEFINE q == [at |-> "write", actor |-> req[r].actor, target |-> u,
                 seen |-> users[u], new |-> new]
<1>1. req[r].actor \in Ids
  BY RequestTyped DEF AccessTypeOK
<1>2. q \in ReqType
  BY <1>1 DEF ReqType, AccessTypeOK, Accounts
<1>3. /\ req' \in [Threads -> ReqType]
      /\ req'[r] = q
      /\ \A s \in Threads : s # r => req'[s] = req[s]
  BY <1>2, ThreadTyped
<1>4. AccessTypeOK'
  BY <1>3 DEF AccessTypeOK
<1>5. \A s \in Threads : req'[s].at = "write" => req'[s].new.ver <= lastPw'
  <2> SUFFICES ASSUME NEW s \in Threads, req'[s].at = "write" PROVE req'[s].new.ver <= lastPw'
    OBVIOUS
  <2>1. CASE s = r
    BY <1>3, <2>1
  <2>2. CASE s # r
    <3>1. req[s].new.ver <= lastPw /\ req[s].new.ver \in Nat
      BY <1>3, <2>2, RequestTyped DEF VersionsBounded, AccessTypeOK, UserType
    <3> QED
      BY <1>3, <2>2, <3>1 DEF AccessTypeOK
  <2> QED
    BY <2>1, <2>2
<1>6. \A s \in Threads : req'[s].at = "create" => req'[s].row.ver <= lastPw'
  <2> SUFFICES ASSUME NEW s \in Threads, req'[s].at = "create" PROVE req'[s].row.ver <= lastPw'
    OBVIOUS
  <2>1. s # r /\ req'[s] = req[s]
    BY <1>3
  <2>2. req[s].row.ver <= lastPw /\ req[s].row.ver \in Nat
    BY <2>1, RequestTyped DEF VersionsBounded, AccessTypeOK, UserType
  <2> QED
    BY <2>1, <2>2 DEF AccessTypeOK
<1>7. \A v \in Accounts' : users'[v].ver <= lastPw'
  BY DEF VersionsBounded, AccessTypeOK, Accounts, UserType
<1> QED
  BY <1>4, <1>5, <1>6, <1>7 DEF VersionsBounded

\* Requests of administrators keep the types.
LEMMA TypeAdmin ==
  ASSUME AccessTypeOK, VersionsBounded, NEW r \in Threads, AdminRequest(r)
  PROVE  AccessTypeOK' /\ VersionsBounded'
<1>0. /\ \A u \in Accounts : users[u] \in UserType /\ users[u].ver \in 1..MaxPw /\ users[u].ver <= lastPw
      /\ lastPw \in 1..MaxPw
  BY DEF AccessTypeOK, Accounts, UserType, VersionsBounded
<1>1. ASSUME NEW k \in tokens, AdminEnters(r, k) PROVE AccessTypeOK' /\ VersionsBounded'
  <2>1. [at |-> "admin", actor |-> k.sub] \in ReqType
    BY <1>1 DEF AdminEnters, Authenticated, ReqType, AccessTypeOK, Accounts
  <2> QED
    BY <1>1, <2>1, ThreadTyped DEF AdminEnters, AccessTypeOK, VersionsBounded, Accounts
<1>2. ASSUME NEW e \in Emails, NEW role \in Roles, NEW t \in Tenants, CreateCheck(r, e, role, t)
      PROVE  AccessTypeOK' /\ VersionsBounded'
  <2>1. req[r].actor \in Ids /\ NewRow(e, role, t, {t}) \in UserType
    BY <1>2, RequestTyped, RowsTyped DEF CreateCheck, AccessTypeOK
  <2>2. [at |-> "create", actor |-> req[r].actor, row |-> NewRow(e, role, t, {t})] \in ReqType
    BY <2>1 DEF ReqType
  <2>3. NewRow(e, role, t, {t}).ver <= lastPw
    BY <1>0, <1>2, RowsTyped DEF CreateCheck, AccessTypeOK
  <2> QED
    BY <1>2, <2>2, <2>3, ThreadTyped DEF CreateCheck, AccessTypeOK, VersionsBounded, Accounts
<1>3. CASE CreateCommit(r)
  <2>1. PICK u \in Ids \ Accounts : users' = WithUser(u, req[r].row)
    BY <1>3 DEF CreateCommit
  <2>2. req[r].row \in UserType /\ req[r].row.ver <= lastPw
    BY <1>3, RequestTyped DEF CreateCommit, AccessTypeOK, VersionsBounded
  <2>3. AccessTypeOK'
    BY <1>3, <2>1, <2>2, TableTyped, AnswerTyped DEF CreateCommit, AccessTypeOK
  <2>4. \A v \in Accounts' : users'[v].ver <= lastPw
    BY <2>1, <2>2 DEF WithUser, Accounts, VersionsBounded, AccessTypeOK
  <2> QED
    BY <1>3, <2>3, <2>4, AnswerTyped DEF CreateCommit, VersionsBounded, Idle
<1>4. ASSUME NEW u \in Ids, NEW c \in Changes, UpdateCheck(r, u, c)
      PROVE  AccessTypeOK' /\ VersionsBounded'
  <2>1. Updated(users[u], c) \in UserType /\ Updated(users[u], c).ver <= lastPw
    BY <1>0, <1>4, UpdatedTyped DEF UpdateCheck
  <2> QED
    BY <1>0, <1>4, <2>1, TypeUpdate DEF UpdateCheck
<1>5. ASSUME NEW u \in Ids, DeactivateCheck(r, u) PROVE AccessTypeOK' /\ VersionsBounded'
  <2> DEFINE new == [users[u] EXCEPT !.active = FALSE]
  <2>1. new \in UserType /\ new.ver <= lastPw
    BY <1>0, <1>5 DEF DeactivateCheck, UserType
  <2>2. Continue(r, [at |-> "write", actor |-> req[r].actor, target |-> u,
                     seen |-> users[u], new |-> new])
    BY <1>5 DEF DeactivateCheck
  <2> HIDE DEF new
  <2> QED
    BY <1>0, <1>5, <2>1, <2>2, TypeUpdate DEF DeactivateCheck
<1>6. ASSUME NEW u \in Ids, ResetCheck(r, u) PROVE AccessTypeOK' /\ VersionsBounded'
  <2> DEFINE new == [users[u] EXCEPT !.pw = lastPw + 1, !.ver = @ + 1]
  <2>1. new \in UserType /\ new.ver = users[u].ver + 1
    BY <1>0, <1>6, ResetTyped DEF ResetCheck
  <2>2. lastPw' \in 1..MaxPw /\ lastPw <= lastPw' /\ new.ver <= lastPw'
    BY <1>0, <1>6, <2>1, AccessAssumption DEF ResetCheck
  <2> QED
    BY <1>6, <2>1, <2>2, TypeUpdate DEF ResetCheck
<1>7. CASE UpdateWrite(r)
  <2>1. /\ req[r].target \in Ids /\ req[r].seen \in UserType /\ req[r].new \in UserType
        /\ req[r].new.ver <= lastPw
    BY <1>7, RequestTyped DEF UpdateWrite, AccessTypeOK, VersionsBounded
  <2>2. \A v \in Accounts :
           /\ users'[v] \in UserType
           /\ users'[v].ver \in {users[v].ver, req[r].new.ver}
    BY <1>0, <1>7, <2>1, MergedColumns DEF UpdateWrite, Accounts
  <2>3. DOMAIN users' = DOMAIN users /\ users' \in [DOMAIN users -> UserType]
    BY <1>7, <2>2 DEF UpdateWrite, Accounts
  <2>4. \A v \in Accounts' : users'[v].ver <= lastPw
    BY <1>0, <2>1, <2>2, <2>3 DEF Accounts
  <2> QED
    BY <1>7, <2>3, <2>4, AnswerTyped DEF UpdateWrite, AccessTypeOK, VersionsBounded, Idle
<1>8. CASE CreateTenant(r)
  BY <1>8, AnswerTyped DEF CreateTenant, AccessTypeOK, VersionsBounded, Accounts, Idle
<1> QED
  BY <1>1, <1>2, <1>3, <1>4, <1>5, <1>6, <1>7, <1>8 DEF AdminRequest

\* The tables of accounts, organisations, tokens and requests in flight are well typed, and no
\* version runs ahead of the passwords, however requests overlap.
THEOREM AccessTypeCorrect == AccessSpec => [](AccessTypeOK /\ VersionsBounded)
<1>1. AccessInit => AccessTypeOK /\ VersionsBounded
  <2> SUFFICES ASSUME AccessInit PROVE AccessTypeOK /\ VersionsBounded
    OBVIOUS
  <2>1. DOMAIN users = {} /\ users \in [{} -> UserType]
    BY DEF AccessInit
  <2>2. Idle \in ReqType /\ \A r \in Threads : req[r] = Idle
    BY DEF AccessInit, ReqType
  <2>3. DOMAIN users \subseteq Ids /\ users \in [DOMAIN users -> UserType]
    BY <2>1
  <2>4. AccessTypeOK
    <3>1. req \in [Threads -> ReqType]
      BY <2>2 DEF AccessInit
    <3>2. cfg \in BOOLEAN /\ tenants \in SUBSET Tenants /\ tokens \in SUBSET TokenType
      BY AccessAssumption DEF AccessInit
    <3>3. lastPw \in 1..MaxPw
      BY AccessAssumption DEF AccessInit
    <3> QED
      BY <2>3, <3>1, <3>2, <3>3 DEF AccessTypeOK
  <2>5. VersionsBounded
    BY <2>1, <2>2 DEF VersionsBounded, Accounts, Idle
  <2> QED
    BY <2>4, <2>5
<1>2. AccessTypeOK /\ VersionsBounded /\ [AccessNext]_accessVars
        => (AccessTypeOK /\ VersionsBounded)'
  <2> SUFFICES ASSUME AccessTypeOK, VersionsBounded, [AccessNext]_accessVars
               PROVE  AccessTypeOK' /\ VersionsBounded'
    OBVIOUS
  <2>1. CASE AccessNext
    BY <2>1, TypeSetup, TypeSession, TypeAdmin DEF AccessNext
  <2>2. CASE UNCHANGED accessVars
    BY <2>2 DEF accessVars, AccessTypeOK, VersionsBounded, Accounts
  <2> QED
    BY <2>1, <2>2
<1> QED
  BY <1>1, <1>2, PTL DEF AccessSpec
-----------------------------------------------------------------------------
(* What the writes of a request do to the tables.                          *)

\* Nothing that the invariants say depends on the organisation of an account.
LEMMA AgreeingTables ==
  ASSUME NEW table, NEW table2, DOMAIN table2 = DOMAIN table,
         \A v \in DOMAIN table : Agree(table2[v], table[v]),
         NEW done, NEW issued
  PROVE  /\ TablesOK(table, done, issued) => TablesOK(table2, done, issued)
         /\ \A q : RequestOK(q, table, done) => RequestOK(q, table2, done)
<1>1. TablesOK(table, done, issued) => TablesOK(table2, done, issued)
  BY DEF TablesOK, Reached, Acts, Agree
<1>2. ASSUME NEW q, RequestOK(q, table, done) PROVE RequestOK(q, table2, done)
  <2>1. CopyReached(q, table2)
    BY <1>2 DEF RequestOK, CopyReached, Reached, Agree
  <2>2. AdminCurrent(q, table2)
    BY <1>2 DEF RequestOK, AdminCurrent, Acts, Agree
  <2> QED
    BY <1>2, <2>1, <2>2 DEF RequestOK
<1> QED
  BY <1>1, <1>2

\* A token of a version that its account has reached may be issued.
LEMMA TokenIssued ==
  ASSUME NEW table, NEW issued, TablesOK(table, TRUE, issued),
         NEW u, NEW row, Reached(table, u, row.ver, row.pw)
  PROVE  TablesOK(table, TRUE, issued \cup {TokenOf(u, row)})
  BY DEF TablesOK, TokenOf

\* An account with an address of its own may be inserted; sessions under way do not notice.
LEMMA AccountInserted ==
  ASSUME NEW table, NEW issued, TablesOK(table, TRUE, issued),
         NEW u, u \notin DOMAIN table, NEW row, ~row.root,
         \A v \in DOMAIN table : table[v].email # row.email,
         NEW table2, DOMAIN table2 = DOMAIN table \cup {u}, table2[u] = row,
         \A v \in DOMAIN table : table2[v] = table[v]
  PROVE  /\ TablesOK(table2, TRUE, issued)
         /\ \A q : q.at \in {"idle", "login", "switch"} /\ RequestOK(q, table, TRUE)
                      => RequestOK(q, table2, TRUE)
<1>1. TablesOK(table2, TRUE, issued)
  BY DEF TablesOK, Reached, Acts
<1>2. \A q : q.at \in {"idle", "login", "switch"} /\ RequestOK(q, table, TRUE)
               => RequestOK(q, table2, TRUE)
  BY DEF RequestOK, RightTime, CopyReached, AdminCurrent, Reached
<1> QED
  BY <1>1, <1>2

\* An account may be rewritten so that a password comes with a version and an administrator is
\* left; sessions under way stay of a version that has been reached.
LEMMA AccountRewritten ==
  ASSUME NEW table, NEW issued \in SUBSET TokenType, TablesOK(table, TRUE, issued),
         NEW u \in DOMAIN table, NEW row,
         table[u].ver \in Nat, row.ver \in Nat, MayBecome(table[u], row, FALSE),
         NEW table2, DOMAIN table2 = DOMAIN table, table2[u] = row,
         \A v \in DOMAIN table : v # u => table2[v] = table[v],
         \E v \in DOMAIN table2 : Acts(table2, v)
  PROVE  /\ TablesOK(table2, TRUE, issued)
         /\ \A q \in ReqType : q.at \in {"idle", "login", "switch"} /\ RequestOK(q, table, TRUE)
                      => RequestOK(q, table2, TRUE)
<1>1. ASSUME NEW v, NEW ver \in Nat, NEW pw, Reached(table, v, ver, pw)
      PROVE  Reached(table2, v, ver, pw)
  BY <1>1 DEF Reached, MayBecome
<1>2. \A k \in issued : k.ver \in Nat
  BY DEF TokenType
<1>3. TablesOK(table2, TRUE, issued)
  BY <1>1, <1>2 DEF TablesOK, MayBecome
<1>4. ASSUME NEW q \in ReqType, q.at \in {"idle", "login", "switch"}, RequestOK(q, table, TRUE)
      PROVE  RequestOK(q, table2, TRUE)
  <2>1. q.at \in {"login", "switch"} => q.seen.ver \in Nat
    BY RequestTyped DEF UserType
  <2> QED
    BY <1>1, <1>4, <2>1 DEF RequestOK, RightTime, CopyReached, AdminCurrent
<1> QED
  BY <1>3, <1>4
-----------------------------------------------------------------------------
(* The steps.                                                              *)

\* One thread changes, and becomes administrative only when no other is.
LEMMA StaysOneAtATime ==
  ASSUME Solo, AccessTypeOK, OneAtATime, NEW r \in Threads,
         SetupRequest(r) \/ SessionRequest(r) \/ AdminRequest(r)
  PROVE  OneAtATime'
<1> DEFINE Admins == {"org", "config", "root", "admin", "create", "write"}
<1>1. \A s \in Threads : s # r => req'[s] = req[s]
  BY DEF SetupRequest, SetupCheck, SetupTenant, SetupReadConfig, SetupCommit,
         SessionRequest, LoginRead, LoginToken, SwitchCheck, SwitchWrite,
         AdminRequest, AdminEnters, CreateCheck, CreateCommit, UpdateCheck, DeactivateCheck,
         ResetCheck, UpdateWrite, CreateTenant, Continue, Answer, AccessTypeOK
<1>2. \/ req'[r].at \notin Admins
      \/ req[r].at \in Admins
      \/ Administrative = {}
  <2>1. CASE SetupRequest(r)
    BY <2>1 DEF SetupRequest, SetupCheck, SetupTenant, SetupReadConfig, SetupCommit, MayAdminister
  <2>2. CASE SessionRequest(r)
    BY <2>2 DEF SessionRequest, LoginRead, LoginToken, SwitchCheck, SwitchWrite,
                Continue, Answer, AccessTypeOK, Idle
  <2>3. CASE AdminRequest(r)
    BY <2>3 DEF AdminRequest, AdminEnters, CreateCheck, CreateCommit, UpdateCheck,
                DeactivateCheck, ResetCheck, UpdateWrite, CreateTenant, MayAdminister
  <2> QED
    BY <2>1, <2>2, <2>3
<1> QED
  BY <1>1, <1>2 DEF OneAtATime, Administrative

\* A step that writes only its own request keeps the invariant if that request is in order.
LEMMA QuietStep ==
  ASSUME AccessTypeOK, SoloInv, OneAtATime', NEW r \in Threads, NEW q, Continue(r, q),
         RequestOK(q, users, cfg), UNCHANGED <<users, cfg, tokens>>
  PROVE  SoloInv'
<1>1. /\ req'[r] = q
      /\ \A s \in Threads : s # r => req'[s] = req[s]
  BY DEF AccessTypeOK, Continue
<1>2. \A s \in Threads : RequestOK(req'[s], users', cfg')
  BY <1>1 DEF SoloInv
<1> QED
  BY <1>2 DEF SoloInv

\* An idle thread has nothing to be out of order.
LEMMA IdleInOrder ==
  ASSUME NEW table, NEW done
  PROVE  RequestOK(Idle, table, done)
  BY DEF RequestOK, RightTime, CopyReached, AdminCurrent, Idle

\* While one thread administers, the others are idle or on a session.
LEMMA OthersOnSessions ==
  ASSUME AccessTypeOK, SoloInv, NEW r \in Administrative, NEW s \in Threads, s # r
  PROVE  req[s].at \in {"idle", "login", "switch"}
<1>1. s \notin Administrative
  BY DEF SoloInv, OneAtATime
<1>2. req[s] \in ReqType
  BY DEF AccessTypeOK
<1> QED
  BY <1>1, <1>2 DEF Administrative, ReqType, Idle
\* The setup: nobody has an account before its commit, and the one it inserts is an administrator.
LEMMA SoloSetup ==
  ASSUME Solo, AccessTypeOK, SoloInv, NEW r \in Threads, SetupRequest(r)
  PROVE  SoloInv'
<1>0. OneAtATime'
  BY StaysOneAtATime DEF SoloInv
<1>1. RequestOK(req[r], users, cfg)
  BY DEF SoloInv
<1>2. ASSUME NEW e \in Emails, SetupCheck(r, e) PROVE SoloInv'
  <2>1. RequestOK([at |-> "org", email |-> e], users, cfg)
    BY <1>2 DEF SetupCheck, Initialized, RequestOK, RightTime, CopyReached, AdminCurrent
  <2> QED
    BY <1>0, <1>2, <2>1, QuietStep DEF SetupCheck
<1>3. CASE SetupTenant(r)
  <2>1. PICK t : Continue(r, [at |-> "config", email |-> req[r].email, tenant |-> t])
    BY <1>3 DEF SetupTenant
  <2>2. RequestOK([at |-> "config", email |-> req[r].email, tenant |-> t], users, cfg)
    BY <1>1, <1>3 DEF SetupTenant, RequestOK, RightTime, CopyReached, AdminCurrent
  <2> QED
    BY <1>0, <1>3, <2>1, <2>2, QuietStep DEF SetupTenant
<1>4. CASE SetupReadConfig(r)
  <2>1. RequestOK([at |-> "root", email |-> req[r].email, tenant |-> req[r].tenant, seen |-> cfg],
                  users, cfg)
    BY <1>1, <1>4 DEF SetupReadConfig, RequestOK, RightTime, CopyReached, AdminCurrent
  <2> QED
    BY <1>0, <1>4, <2>1, QuietStep DEF SetupReadConfig
<1>5. CASE SetupCommit(r)
  <2>1. ~cfg /\ Accounts = {} /\ tokens = {}
    BY <1>1, <1>5 DEF SetupCommit, RequestOK, RightTime, SoloInv, TablesOK, Accounts
  <2>2. PICK u \in Ids \ Accounts : LET row == RootRow(req[r].email, req[r].tenant) IN
           /\ users' = WithUser(u, row)
           /\ tokens' = tokens \cup {TokenOf(u, row)}
           /\ cfg' = TRUE
    BY <1>5, <2>1 DEF SetupCommit
  <2>3. DOMAIN users' = {u} /\ users'[u] = RootRow(req[r].email, req[r].tenant)
    BY <2>1, <2>2 DEF WithUser
  <2>4. tokens' = {TokenOf(u, users'[u])}
    BY <2>1, <2>2, <2>3
  <2>5. users'[u].role = "system_admin" /\ users'[u].active /\ users'[u].ver = 1
    BY <2>3 DEF RootRow
  <2>6. TablesOK(users', cfg', tokens')
    BY <2>2, <2>3, <2>4, <2>5 DEF TablesOK, TokenOf, Reached, Acts
  <2>7. \A s \in Threads : s # r => req[s] = Idle
    <3>1. SUFFICES ASSUME NEW s \in Threads, s # r PROVE req[s] = Idle
      OBVIOUS
    <3>2. req[s].at \in {"idle", "login", "switch"}
      BY <1>5, <3>1, OthersOnSessions DEF SetupCommit, Administrative
    <3>3. req[s].at \notin {"login", "switch"}
      BY <2>1 DEF SoloInv, RequestOK, RightTime
    <3>4. req[s] \in ReqType
      BY DEF AccessTypeOK
    <3> QED
      BY <3>2, <3>3, <3>4 DEF ReqType, Idle
  <2>8. \A s \in Threads : req'[s] = Idle
    BY <1>5, <2>7 DEF SetupCommit, Answer, AccessTypeOK
  <2> QED
    BY <1>0, <2>6, <2>8, IdleInOrder DEF SoloInv
<1> QED
  BY <1>2, <1>3, <1>4, <1>5 DEF SetupRequest

\* Logins and switches issue tokens of versions that have been reached, and move accounts only.
LEMMA SoloSession ==
  ASSUME Solo, AccessTypeOK, SoloInv, NEW r \in Threads, SessionRequest(r)
  PROVE  SoloInv'
<1>0. OneAtATime'
  BY StaysOneAtATime DEF SoloInv
<1>1. RequestOK(req[r], users, cfg)
  BY DEF SoloInv
<1>2. ASSUME NEW u \in Ids, LoginRead(r, u) PROVE SoloInv'
  <2>1. cfg
    BY <1>2 DEF LoginRead, Accounts, SoloInv, TablesOK
  <2>2. RequestOK([at |-> "login", user |-> u, seen |-> users[u]], users, cfg)
    BY <1>2, <2>1 DEF LoginRead, Accounts, RequestOK, RightTime, CopyReached, AdminCurrent,
                      Reached, AccessTypeOK, UserType
  <2> QED
    BY <1>0, <1>2, <2>2, QuietStep DEF LoginRead
<1>3. ASSUME NEW k \in tokens, NEW t \in Tenants, SwitchCheck(r, k, t) PROVE SoloInv'
  <2>1. cfg
    BY <1>3 DEF SoloInv, TablesOK
  <2>2. k.sub \in DOMAIN users
    BY <1>3 DEF SwitchCheck, Authenticated, Accounts
  <2>3. RequestOK([at |-> "switch", user |-> k.sub, seen |-> users[k.sub], tenant |-> t],
                  users, cfg)
    BY <2>1, <2>2 DEF RequestOK, RightTime, CopyReached, AdminCurrent, Reached, AccessTypeOK, UserType
  <2> QED
    BY <1>0, <1>3, <2>3, QuietStep DEF SwitchCheck
<1>4. ASSUME req[r].at \in {"login", "switch"},
             tokens' = tokens \cup {TokenOf(req[r].user, req[r].seen)},
             Answer(r), cfg' = cfg,
             DOMAIN users' = DOMAIN users, \A v \in DOMAIN users : Agree(users'[v], users[v])
      PROVE  SoloInv'
  <2>1. cfg = TRUE
    BY <1>1, <1>4 DEF RequestOK, RightTime, AccessTypeOK
  <2>2. TablesOK(users, cfg, tokens')
    BY <1>1, <1>4, <2>1, TokenIssued DEF SoloInv, RequestOK, CopyReached
  <2>3. TablesOK(users', cfg', tokens')
    BY <1>4, <2>2, AgreeingTables
  <2>4. \A s \in Threads : RequestOK(req[s], users', cfg')
    BY <1>4, AgreeingTables DEF SoloInv
  <2>5. \A s \in Threads : RequestOK(req'[s], users', cfg')
    BY <1>4, <2>4, AnswerTyped, IdleInOrder
  <2> QED
    BY <1>0, <2>3, <2>5 DEF SoloInv
<1>5. CASE LoginToken(r)
  <2>1. DOMAIN users' = DOMAIN users /\ \A v \in DOMAIN users : Agree(users'[v], users[v])
    <3>1. CASE req[r].seen.tenant \in tenants
      BY <1>5, <3>1 DEF LoginToken, Agree
    <3>2. CASE req[r].seen.tenant \notin tenants
      <4>1. PICK t \in Tenants : users' = [users EXCEPT ![req[r].user].tenant = t]
        BY <1>5, <3>2 DEF LoginToken
      <4>2. req[r].user \in Ids
        BY <1>5, RequestTyped DEF LoginToken, AccessTypeOK
      <4> QED
        BY <4>1, <4>2, MovedTyped DEF Accounts
    <3> QED
      BY <3>1, <3>2
  <2> QED
    BY <1>4, <1>5, <2>1 DEF LoginToken
<1>6. CASE SwitchWrite(r)
  <2>1. DOMAIN users' = DOMAIN users /\ \A v \in DOMAIN users : Agree(users'[v], users[v])
    <3>1. CASE req[r].tenant = req[r].seen.tenant
      BY <1>6, <3>1 DEF SwitchWrite, Agree
    <3>2. CASE req[r].tenant # req[r].seen.tenant
      <4>1. users' = [users EXCEPT ![req[r].user].tenant = req[r].tenant]
        BY <1>6, <3>2 DEF SwitchWrite
      <4>2. req[r].user \in Ids /\ req[r].tenant \in Tenants
        BY <1>6, RequestTyped DEF SwitchWrite, AccessTypeOK
      <4> QED
        BY <4>1, <4>2, MovedTyped DEF Accounts
    <3> QED
      BY <3>1, <3>2
  <2> QED
    BY <1>4, <1>6, <2>1 DEF SwitchWrite
<1> QED
  BY <1>2, <1>3, <1>5, <1>6 DEF SessionRequest
\* A request of an administrator goes on with the tables as they are.
LEMMA SoloAdminGoesOn ==
  ASSUME Solo, AccessTypeOK, SoloInv, NEW r \in Threads, AdminRequest(r),
         ~CreateCommit(r), ~UpdateWrite(r), ~CreateTenant(r)
  PROVE  SoloInv'
<1>0. OneAtATime'
  BY StaysOneAtATime DEF SoloInv
<1>1. RequestOK(req[r], users, cfg)
  BY DEF SoloInv
<1>2. \A u \in Accounts : users[u] \in UserType /\ users[u].ver \in Nat
  BY DEF AccessTypeOK, Accounts, UserType
<1>3. ASSUME NEW k \in tokens, AdminEnters(r, k) PROVE SoloInv'
  <2>1. cfg /\ Acts(users, k.sub)
    BY <1>3 DEF AdminEnters, Authenticated, Accounts, SoloInv, TablesOK, Acts
  <2>2. RequestOK([at |-> "admin", actor |-> k.sub], users, cfg)
    BY <2>1 DEF RequestOK, RightTime, CopyReached, AdminCurrent
  <2> QED
    BY <1>0, <1>3, <2>2, QuietStep DEF AdminEnters
<1>4. ASSUME NEW e \in Emails, NEW role \in Roles, NEW t \in Tenants, CreateCheck(r, e, role, t)
      PROVE  SoloInv'
  <2> DEFINE row == NewRow(e, role, t, {t})
             q == [at |-> "create", actor |-> req[r].actor, row |-> row]
  <2>1. ~row.root /\ row.email = e
    BY RowsTyped
  <2> HIDE DEF row
  <2>2. RequestOK(q, users, cfg)
    BY <1>1, <1>4, <2>1
    DEF CreateCheck, RequestOK, RightTime, CopyReached, AdminCurrent, Accounts
  <2>3. Continue(r, q)
    BY <1>4 DEF CreateCheck, row
  <2> QED
    BY <1>0, <1>4, <2>2, <2>3, QuietStep DEF CreateCheck
<1>5. ASSUME req[r].at = "admin", NEW u \in Accounts, NEW new,
             MayBecome(users[u], new, u = req[r].actor),
             Continue(r, [at |-> "write", actor |-> req[r].actor, target |-> u,
                          seen |-> users[u], new |-> new]),
             UNCHANGED <<users, cfg, tokens>>
      PROVE  SoloInv'
  <2> DEFINE q == [at |-> "write", actor |-> req[r].actor, target |-> u,
                   seen |-> users[u], new |-> new]
  <2>1. RequestOK(q, users, cfg)
    BY <1>1, <1>5 DEF RequestOK, RightTime, CopyReached, AdminCurrent, Agree, Accounts
  <2> QED
    BY <1>0, <1>5, <2>1, QuietStep
<1>6. req[r].at = "admin" => Acts(users, req[r].actor)
  BY <1>1 DEF RequestOK, AdminCurrent
<1>7. ASSUME NEW u \in Ids, NEW c \in Changes, UpdateCheck(r, u, c) PROVE SoloInv'
  <2> DEFINE new == Updated(users[u], c)
  <2>1. users[u] \in UserType /\ u \in Accounts
    BY <1>2, <1>7 DEF UpdateCheck
  <2>2. u = req[r].actor => users[u].role = "system_admin" /\ users[u].active /\ ~Demotes(c)
    BY <1>6, <1>7 DEF UpdateCheck, Acts
  <2>3. MayBecome(users[u], new, u = req[r].actor)
    BY <1>2, <2>1, <2>2, UpdatedTyped DEF MayBecome
  <2> HIDE DEF new
  <2>4. Continue(r, [at |-> "write", actor |-> req[r].actor, target |-> u,
                     seen |-> users[u], new |-> new])
    BY <1>7 DEF UpdateCheck, new
  <2> QED
    BY <1>5, <1>7, <2>1, <2>3, <2>4 DEF UpdateCheck
<1>8. ASSUME NEW u \in Ids, DeactivateCheck(r, u) PROVE SoloInv'
  <2> DEFINE new == [users[u] EXCEPT !.active = FALSE]
  <2>1. users[u] \in UserType /\ users[u].ver \in Nat /\ u \in Accounts /\ u # req[r].actor
    BY <1>2, <1>8 DEF DeactivateCheck
  <2>2. new.email = users[u].email /\ new.root = users[u].root
        /\ new.ver = users[u].ver /\ new.pw = users[u].pw
    BY <2>1 DEF UserType
  <2>3. MayBecome(users[u], new, u = req[r].actor)
    BY <2>1, <2>2 DEF MayBecome
  <2> HIDE DEF new
  <2>4. Continue(r, [at |-> "write", actor |-> req[r].actor, target |-> u,
                     seen |-> users[u], new |-> new])
    BY <1>8 DEF DeactivateCheck, new
  <2> QED
    BY <1>5, <1>8, <2>1, <2>3, <2>4 DEF DeactivateCheck
<1>9. ASSUME NEW u \in Ids, ResetCheck(r, u) PROVE SoloInv'
  <2> DEFINE new == [users[u] EXCEPT !.pw = lastPw + 1, !.ver = @ + 1]
  <2>1. users[u] \in UserType /\ users[u].ver \in Nat /\ u \in Accounts
    BY <1>2, <1>9 DEF ResetCheck
  <2>2. new.email = users[u].email /\ new.root = users[u].root /\ new.role = users[u].role
        /\ new.active = users[u].active /\ new.ver = users[u].ver + 1
    BY <2>1 DEF UserType
  <2>3. u = req[r].actor => users[u].role = "system_admin" /\ users[u].active
    BY <1>6, <1>9 DEF ResetCheck, Acts
  <2>4. MayBecome(users[u], new, u = req[r].actor)
    BY <2>1, <2>2, <2>3 DEF MayBecome
  <2> HIDE DEF new
  <2>5. Continue(r, [at |-> "write", actor |-> req[r].actor, target |-> u,
                     seen |-> users[u], new |-> new])
    BY <1>9 DEF ResetCheck, new
  <2> QED
    BY <1>5, <1>9, <2>1, <2>4, <2>5 DEF ResetCheck
<1> QED
  BY <1>3, <1>4, <1>7, <1>8, <1>9 DEF AdminRequest

\* The commits of administrators: every other thread is idle or on a session.
LEMMA SoloAdminAnswers ==
  ASSUME Solo, AccessTypeOK, SoloInv, NEW r \in Threads,
         CreateCommit(r) \/ UpdateWrite(r) \/ CreateTenant(r)
  PROVE  SoloInv'
<1>0. OneAtATime'
  BY StaysOneAtATime DEF SoloInv, AdminRequest
<1>1. RequestOK(req[r], users, cfg) /\ Answer(r) /\ cfg' = cfg /\ tokens' = tokens
      /\ req[r].at \in {"admin", "create", "write"}
  BY DEF SoloInv, CreateCommit, UpdateWrite, CreateTenant
<1>2. cfg = TRUE /\ Acts(users, req[r].actor)
  BY <1>1 DEF RequestOK, RightTime, AdminCurrent, AccessTypeOK
<1>3. ASSUME NEW s \in Threads, s # r
      PROVE  /\ req[s] \in ReqType
             /\ req[s].at \in {"idle", "login", "switch"}
             /\ RequestOK(req[s], users, cfg)
             /\ req'[s] = req[s]
  BY <1>1, <1>3, OthersOnSessions, AnswerTyped DEF AccessTypeOK, Administrative, SoloInv
<1>4. req'[r] = Idle
  BY <1>1, AnswerTyped
<1>5. CASE CreateCommit(r)
  <2>1. PICK u \in Ids \ Accounts : users' = WithUser(u, req[r].row)
    BY <1>5 DEF CreateCommit
  <2>2. /\ DOMAIN users' = DOMAIN users \cup {u} /\ users'[u] = req[r].row
        /\ \A v \in DOMAIN users : users'[v] = users[v]
        /\ u \notin DOMAIN users
    BY <2>1 DEF WithUser, Accounts
  <2>3. ~req[r].row.root /\ \A v \in DOMAIN users : users[v].email # req[r].row.email
    BY <1>1, <1>5 DEF CreateCommit, RequestOK, AdminCurrent
  <2>4. TablesOK(users, TRUE, tokens)
    BY <1>2 DEF SoloInv
  <2>5. /\ TablesOK(users', TRUE, tokens)
        /\ \A q : q.at \in {"idle", "login", "switch"} /\ RequestOK(q, users, TRUE)
                      => RequestOK(q, users', TRUE)
    BY <2>2, <2>3, <2>4, AccountInserted
  <2>6. \A s \in Threads : RequestOK(req'[s], users', cfg')
    BY <1>1, <1>2, <1>3, <1>4, <2>5, IdleInOrder
  <2> QED
    BY <1>0, <1>1, <1>2, <2>5, <2>6 DEF SoloInv
<1>6. CASE UpdateWrite(r)
  <2> DEFINE u == req[r].target
             seen == req[r].seen
             new == req[r].new
             row == Merged(users[u], seen, new)
  <2>1. /\ u \in DOMAIN users
        /\ Agree(users[u], seen)
        /\ MayBecome(seen, new, u = req[r].actor)
    BY <1>1, <1>6 DEF UpdateWrite, RequestOK, AdminCurrent
  <2>2. users[u] \in UserType /\ seen \in UserType /\ new \in UserType
    BY <1>6, <2>1, RequestTyped DEF UpdateWrite, AccessTypeOK
  <2>3. /\ row.email = new.email /\ row.role = new.role /\ row.active = new.active
        /\ row.ver = new.ver /\ row.pw = new.pw /\ row.root = new.root
    BY <2>1, <2>2, MergedColumns DEF Agree
  <2>4. /\ MayBecome(users[u], row, FALSE)
        /\ u = req[r].actor => row.role = "system_admin" /\ row.active
    BY <2>1, <2>3 DEF MayBecome, Agree
  <2>5. users[u].ver \in Nat /\ row.ver \in Nat
    BY <2>2, <2>3 DEF UserType
  <2>6. users' = [users EXCEPT ![u] = row]
    BY <1>6 DEF UpdateWrite
  <2> HIDE DEF row
  <2>7. /\ DOMAIN users' = DOMAIN users /\ users'[u] = row
        /\ \A v \in DOMAIN users : v # u => users'[v] = users[v]
    BY <2>1, <2>6
  <2>8. Acts(users', req[r].actor)
    BY <1>2, <2>4, <2>7 DEF Acts
  <2>9. TablesOK(users, TRUE, tokens) /\ tokens \in SUBSET TokenType
    BY <1>2 DEF SoloInv, AccessTypeOK
  <2> HIDE DEF u
  <2>10. /\ TablesOK(users', TRUE, tokens)
         /\ \A q \in ReqType : q.at \in {"idle", "login", "switch"} /\ RequestOK(q, users, TRUE)
                      => RequestOK(q, users', TRUE)
    <3>1. \E v \in DOMAIN users' : Acts(users', v)
      BY <2>8 DEF Acts
    <3> QED
      BY <2>1, <2>4, <2>5, <2>7, <2>9, <3>1, AccountRewritten
  <2>11. \A s \in Threads : RequestOK(req'[s], users', cfg')
    BY <1>1, <1>2, <1>3, <1>4, <2>10, IdleInOrder
  <2> QED
    BY <1>0, <1>1, <1>2, <2>10, <2>11 DEF SoloInv
<1>7. CASE CreateTenant(r)
  BY <1>0, <1>1, <1>3, <1>4, <1>7, IdleInOrder DEF CreateTenant, SoloInv
<1> QED
  BY <1>5, <1>6, <1>7

\* The invariant of the tables when administrators come one at a time.
LEMMA SoloInvariant == ASSUME Solo PROVE AccessSpec => []SoloInv
<1>1. AccessInit => SoloInv
  BY IdleInOrder DEF AccessInit, SoloInv, OneAtATime, Administrative, TablesOK, Idle
<1>2. AccessTypeOK /\ SoloInv /\ [AccessNext]_accessVars => SoloInv'
  <2> SUFFICES ASSUME AccessTypeOK, SoloInv, [AccessNext]_accessVars PROVE SoloInv'
    OBVIOUS
  <2>1. CASE AccessNext
    BY <2>1, SoloSetup, SoloSession, SoloAdminGoesOn, SoloAdminAnswers DEF AccessNext
  <2>2. CASE UNCHANGED accessVars
    BY <2>2 DEF accessVars, SoloInv, OneAtATime, Administrative
  <2> QED
    BY <2>1, <2>2
<1> QED
  BY <1>1, <1>2, AccessTypeCorrect, PTL DEF AccessSpec

-----------------------------------------------------------------------------
(* What the tables promise.                                                *)

\* The public setup makes one administrator, in every history in which requests of administrators
\* and of the setup come one at a time, while logins and switches overlap with them.
THEOREM OneRoot == ASSUME Solo PROVE AccessSpec => []SetupOnce
<1>1. SoloInv => SetupOnce
  BY DEF SoloInv, TablesOK, SetupOnce, Accounts
<1> QED
  BY <1>1, SoloInvariant, PTL

\* In these histories an address names one account: neither the setup nor an administrator makes a
\* second one with the address of another (endpoint_setup_initialize and endpoint_iam_create_user).
THEOREM OneAddress == ASSUME Solo PROVE AccessSpec => []EmailsUnique
<1>1. SoloInv => EmailsUnique
  BY DEF SoloInv, TablesOK, EmailsUnique, Accounts
<1> QED
  BY <1>1, SoloInvariant, PTL

\* Once the system is set up somebody can administer it, whatever administrators do to each
\* other's accounts, one request at a time, while logins and switches overlap with them.
THEOREM AdminAlwaysRemains == ASSUME Solo PROVE AccessSpec => []AdminRemains
<1>1. SoloInv => AdminRemains
  BY DEF SoloInv, TablesOK, Acts, AdminRemains, ActiveAdmin, Accounts
<1> QED
  BY <1>1, SoloInvariant, PTL

\* A reset of a password ends the sessions that began under the one before, also those of logins
\* and switches that read the account before the reset and issue their token after it.
THEOREM ResetEndsSessions == ASSUME Solo PROVE AccessSpec => []SessionsRevoked
<1>1. SoloInv => SessionsRevoked
  BY DEF SoloInv, TablesOK, Reached, SessionsRevoked, Accounts
<1> QED
  BY <1>1, SoloInvariant, PTL
-----------------------------------------------------------------------------
(* The entries of a list that a time keeps.                                *)

\* How long a failure counts, and the wait that is told from it, in ticks of the clock.
LockSpan == Window * Second
ToldSpan == Penalty * Second

\* The first is at least the second, and both are whole seconds.
LEMMA Spans ==
  /\ LockSpan \in Nat /\ LockSpan > 0 /\ ToldSpan \in Nat /\ ToldSpan <= LockSpan
  /\ Second \in Nat /\ Second > 0
  /\ (Window - Penalty + 1) * Second = LockSpan - ToldSpan + Second
<1>1. /\ Window \in Nat /\ Window > 0 /\ Penalty \in Nat /\ Penalty <= Window
      /\ Second \in Nat /\ Second > 0
  BY LimiterAssumption
<1>2. \A w, p, s \in Nat : w > 0 /\ s > 0 /\ p <= w =>
        /\ w * s \in Nat /\ w * s > 0 /\ p * s \in Nat /\ p * s <= w * s
        /\ (w - p + 1) * s = w * s - p * s + s
  OBVIOUS
<1> QED
  BY <1>1, <1>2 DEF LockSpan, ToldSpan

\* One step of the recursion that defines Kept.
KeptStep(f, list, time, n) ==
    IF n = 0 THEN <<>>
    ELSE IF time - list[n] < LockSpan THEN Append(f[n - 1], list[n]) ELSE f[n - 1]

\* The recursion has a solution, so Kept is one.
LEMMA KeptEquation ==
  ASSUME NEW list \in Seq(Nat), NEW time \in Nat
  PROVE  /\ Kept(list, time)[0] = <<>>
         /\ \A n \in 1..Len(list) :
              Kept(list, time)[n] = IF time - list[n] < LockSpan
                                    THEN Append(Kept(list, time)[n - 1], list[n])
                                    ELSE Kept(list, time)[n - 1]
<1> DEFINE Solves(f, m) == f = [n \in 0..m |-> KeptStep(f, list, time, n)]
           S == {m \in Nat : \E f : Solves(f, m)}
<1>1. 0 \in S
  <2> DEFINE f == [n \in 0..0 |-> <<>>]
  <2>1. Solves(f, 0)
    BY DEF KeptStep
  <2> HIDE DEF Solves, f
  <2> QED
    BY <2>1
<1>2. ASSUME NEW m \in Nat, m \in S PROVE m + 1 \in S
  <2>1. PICK f : Solves(f, m)
    BY <1>2
  <2> DEFINE g == [n \in 0..m + 1 |-> IF n = m + 1 THEN KeptStep(f, list, time, n) ELSE f[n]]
  <2>2. ASSUME NEW n \in 0..m + 1 PROVE g[n] = KeptStep(g, list, time, n)
    <3>1. g[n] = KeptStep(f, list, time, n)
      <4>1. n \in 0..m => f[n] = KeptStep(f, list, time, n)
        BY <2>1
      <4> QED
        BY <4>1
    <3>2. n # 0 => g[n - 1] = f[n - 1]
      OBVIOUS
    <3> HIDE DEF g
    <3> QED
      BY <3>1, <3>2 DEF KeptStep
  <2>3. Solves(g, m + 1)
    BY <2>2
  <2> HIDE DEF Solves, g
  <2> QED
    BY <2>3
<1>3. Len(list) \in S
  <2> HIDE DEF S
  <2>1. \A n \in Nat : n \in S
    BY <1>1, <1>2, SetInduction
  <2> QED
    BY <2>1
<1>4. Solves(Kept(list, time), Len(list))
  BY <1>3 DEF Kept, KeptStep, LockSpan
<1>5. \A n \in 0..Len(list) : Kept(list, time)[n] = KeptStep(Kept(list, time), list, time, n)
  BY <1>4
<1> HIDE DEF S, Solves
<1>6. Len(list) \in Nat /\ \A n \in 1..Len(list) : n \in 0..Len(list) /\ n # 0
  OBVIOUS
<1>7. Kept(list, time)[0] = <<>>
  BY <1>5, <1>6 DEF KeptStep
<1> QED
  BY <1>5, <1>6, <1>7 DEF KeptStep

\* The oldest failure comes first.
InOrder(list) == \A i, j \in 1..Len(list) : i <= j => list[i] <= list[j]

\* An entry that is not older than a list in order keeps it in order.
LEMMA AppendInOrder ==
  ASSUME NEW list \in Seq(Nat), NEW x \in Nat, InOrder(list),
         \A i \in 1..Len(list) : list[i] <= x
  PROVE  InOrder(Append(list, x)) /\ \A i \in 1..Len(Append(list, x)) : Append(list, x)[i] <= x
<1> DEFINE new == Append(list, x)
           len == Len(list)
<1>1. /\ new \in Seq(Nat) /\ Len(new) = len + 1 /\ new[len + 1] = x
      /\ \A i \in 1..len : new[i] = list[i]
  BY AppendProperties
<1>2. len \in Nat /\ \A i \in 1..len : list[i] \in Nat
  OBVIOUS
<1>3. \A i, j \in 1..len : i <= j => list[i] <= list[j]
  BY DEF InOrder
<1>4. \A i \in 1..len : list[i] <= x
  OBVIOUS
<1> HIDE DEF new, len
<1>5. \A i \in 1..len + 1 : i = len + 1 \/ i \in 1..len
  BY <1>2
<1>6. \A i \in 1..len + 1 : new[i] <= x
  BY <1>1, <1>2, <1>4, <1>5
<1>7. ASSUME NEW i \in 1..len + 1, NEW j \in 1..len + 1, i <= j PROVE new[i] <= new[j]
  <2>1. CASE j = len + 1
    BY <1>1, <1>6, <2>1
  <2>2. CASE j \in 1..len
    <3>1. i \in 1..len
      BY <1>2, <1>7, <2>2
    <3> QED
      BY <1>1, <1>3, <1>7, <2>2, <3>1
  <2> QED
    BY <1>5, <2>1, <2>2
<1>8. InOrder(new) /\ \A i \in 1..Len(new) : new[i] <= x
  BY <1>1, <1>6, <1>7 DEF InOrder
<1> QED
  BY <1>8 DEF new

\* What is kept is a list in order, no longer than what it was taken from, and every entry counts.
LEMMA KeptType ==
  ASSUME NEW list \in Seq(Nat), InOrder(list), NEW time \in Nat, NEW n \in 0..Len(list)
  PROVE  /\ Kept(list, time)[n] \in Seq(Nat)
         /\ Len(Kept(list, time)[n]) <= n
         /\ InOrder(Kept(list, time)[n])
         /\ \A i \in 1..Len(Kept(list, time)[n]) :
              time - Kept(list, time)[n][i] < LockSpan /\ n > 0 /\ Kept(list, time)[n][i] <= list[n]
<1> DEFINE K == Kept(list, time)
           Good(kept, k) ==
             /\ kept \in Seq(Nat)
             /\ Len(kept) <= k
             /\ InOrder(kept)
             /\ \A i \in 1..Len(kept) : time - kept[i] < LockSpan /\ k > 0 /\ kept[i] <= list[k]
           S == {k \in 0..Len(list) : Good(K[k], k)}
<1>0. Len(list) \in Nat /\ \A k \in 1..Len(list) : list[k] \in Nat
  OBVIOUS
<1>1. K[0] = <<>>
  BY KeptEquation
<1>2. ASSUME NEW k \in 0..Len(list) - 1
      PROVE  K[k + 1] = IF time - list[k + 1] < LockSpan THEN Append(K[k], list[k + 1]) ELSE K[k]
  <2>1. k + 1 \in 1..Len(list) /\ (k + 1) - 1 = k
    BY <1>0
  <2> QED
    BY <2>1, KeptEquation
<1> HIDE DEF K
<1>3. 0 \in S
  <2>1. Good(<<>>, 0)
    BY DEF InOrder
  <2> HIDE DEF Good
  <2> QED
    BY <1>0, <1>1, <2>1
<1>4. ASSUME NEW k \in 0..Len(list) - 1, k \in S PROVE k + 1 \in S
  <2> DEFINE old == K[k]  x == list[k + 1]
  <2>1. k \in Nat /\ k + 1 \in 0..Len(list) /\ x \in Nat
    BY <1>0
  <2>2. k > 0 => list[k] <= x /\ list[k] \in Nat
    <3>1. k > 0 => k \in 1..Len(list) /\ k + 1 \in 1..Len(list) /\ k <= k + 1
      BY <1>0, <2>1
    <3>2. \A i, j \in 1..Len(list) : i <= j => list[i] <= list[j]
      BY DEF InOrder
    <3> QED
      BY <1>0, <3>1, <3>2
  <2>3. old \in Seq(Nat) /\ InOrder(old) /\ Len(old) \in Nat /\ Len(old) <= k
    BY <1>4
  <2>4. \A i \in 1..Len(old) :
          old[i] \in Nat /\ time - old[i] < LockSpan /\ k > 0 /\ old[i] <= list[k]
    <3>1. \A i \in 1..Len(old) : time - old[i] < LockSpan /\ k > 0 /\ old[i] <= list[k]
      BY <1>4
    <3> HIDE DEF old
    <3>2. \A i \in 1..Len(old) : old[i] \in Nat
      BY <2>3
    <3> QED
      BY <3>1, <3>2
  <2>5. K[k + 1] = IF time - x < LockSpan THEN Append(old, x) ELSE old
    BY <1>2
  <2> HIDE DEF old, x
  <2>6. \A i \in 1..Len(old) : old[i] <= x
    BY <2>1, <2>2, <2>4
  <2>7. CASE time - x < LockSpan
    <3> DEFINE new == Append(old, x)
    <3>1. /\ new \in Seq(Nat) /\ Len(new) = Len(old) + 1 /\ new[Len(old) + 1] = x
          /\ \A i \in 1..Len(old) : new[i] = old[i]
      BY <2>1, <2>3, AppendProperties
    <3>2. InOrder(new) /\ \A i \in 1..Len(new) : new[i] <= x
      BY <2>1, <2>3, <2>6, AppendInOrder
    <3> HIDE DEF new
    <3>3. \A i \in 1..Len(new) : i = Len(old) + 1 \/ i \in 1..Len(old)
      BY <2>3, <3>1
    <3>4. \A i \in 1..Len(new) : time - new[i] < LockSpan
      BY <2>4, <2>7, <3>1, <3>3
    <3>5. Len(new) <= k + 1 /\ k + 1 > 0
      BY <2>1, <2>3, <3>1
    <3>6. Good(new, k + 1)
      BY <3>1, <3>2, <3>4, <3>5 DEF x
    <3>7. K[k + 1] = new
      BY <2>5, <2>7 DEF new
    <3> HIDE DEF Good
    <3> QED
      BY <2>1, <3>6, <3>7
  <2>8. CASE ~ (time - x < LockSpan)
    <3>1. Good(old, k + 1)
      BY <2>1, <2>3, <2>4, <2>6 DEF x
    <3>2. K[k + 1] = old
      BY <2>5, <2>8
    <3> HIDE DEF Good
    <3> QED
      BY <2>1, <3>1, <3>2
  <2> QED
    BY <2>7, <2>8
<1>5. n \in S
  <2> HIDE DEF S
  <2>1. \A k \in 0..Len(list) : k \in S
    BY <1>0, <1>3, <1>4, BoundedInduction
  <2> QED
    BY <2>1
<1> QED
  BY <1>5 DEF K

\* A later entry does not change what is kept of the earlier ones.
LEMMA KeptOfAppend ==
  ASSUME NEW list \in Seq(Nat), NEW x \in Nat, NEW time \in Nat, NEW n \in 0..Len(list)
  PROVE  Kept(Append(list, x), time)[n] = Kept(list, time)[n]
<1> DEFINE new == Append(list, x)
           K == Kept(list, time)
           N == Kept(new, time)
           S == {k \in 0..Len(list) : N[k] = K[k]}
<1>1. /\ new \in Seq(Nat) /\ Len(new) = Len(list) + 1 /\ Len(list) \in Nat
      /\ \A i \in 1..Len(list) : new[i] = list[i]
  BY AppendProperties
<1> HIDE DEF new
<1>2. K[0] = <<>> /\ N[0] = <<>>
  BY <1>1, KeptEquation
<1>3. ASSUME NEW k \in 0..Len(list) - 1
      PROVE  /\ K[k + 1] = IF time - list[k + 1] < LockSpan THEN Append(K[k], list[k + 1]) ELSE K[k]
             /\ N[k + 1] = IF time - list[k + 1] < LockSpan THEN Append(N[k], list[k + 1]) ELSE N[k]
  <2>1. /\ k + 1 \in 1..Len(list) /\ k + 1 \in 1..Len(new) /\ (k + 1) - 1 = k
        /\ new[k + 1] = list[k + 1]
    BY <1>1
  <2>2. /\ \A i \in 1..Len(list) :
             K[i] = IF time - list[i] < LockSpan THEN Append(K[i - 1], list[i]) ELSE K[i - 1]
        /\ \A i \in 1..Len(new) :
             N[i] = IF time - new[i] < LockSpan THEN Append(N[i - 1], new[i]) ELSE N[i - 1]
    BY <1>1, KeptEquation
  <2> HIDE DEF K, N
  <2> QED
    BY <2>1, <2>2
<1> HIDE DEF K, N
<1>4. 0 \in S
  BY <1>1, <1>2
<1>5. ASSUME NEW k \in 0..Len(list) - 1, k \in S PROVE k + 1 \in S
  <2>1. k + 1 \in 0..Len(list) /\ N[k] = K[k]
    BY <1>1, <1>5
  <2> QED
    BY <1>3, <2>1
<1>6. n \in S
  <2> HIDE DEF S
  <2>1. \A k \in 0..Len(list) : k \in S
    BY <1>1, <1>4, <1>5, BoundedInduction
  <2> QED
    BY <2>1
<1> QED
  BY <1>6 DEF K, N, new

\* What counts of a list with one more entry.
LEMMA ValidOfAppend ==
  ASSUME NEW list \in Seq(Nat), NEW x \in Nat, NEW time \in Nat
  PROVE  ValidAt(Append(list, x), time)
           = IF time - x < LockSpan THEN Append(ValidAt(list, time), x) ELSE ValidAt(list, time)
<1> DEFINE new == Append(list, x)
           len == Len(list)
<1>1. /\ new \in Seq(Nat) /\ Len(new) = len + 1 /\ len \in Nat /\ new[len + 1] = x
  BY AppendProperties
<1>2. Kept(new, time)[len] = Kept(list, time)[len]
  BY <1>1, KeptOfAppend
<1>3. len + 1 \in 1..Len(new) /\ (len + 1) - 1 = len
  BY <1>1
<1> HIDE DEF new
<1>4. Kept(new, time)[len + 1]
        = IF time - x < LockSpan THEN Append(Kept(list, time)[len], x) ELSE Kept(list, time)[len]
  <2>1. Kept(new, time)[len + 1]
          = IF time - new[len + 1] < LockSpan
            THEN Append(Kept(new, time)[(len + 1) - 1], new[len + 1])
            ELSE Kept(new, time)[(len + 1) - 1]
    BY <1>1, <1>3, KeptEquation
  <2> QED
    BY <1>1, <1>2, <1>3, <2>1
<1>5. ValidAt(new, time)
        = IF time - x < LockSpan THEN Append(ValidAt(list, time), x) ELSE ValidAt(list, time)
  BY <1>1, <1>4 DEF ValidAt
<1> QED
  BY <1>5 DEF new

\* Pruning first at one time and then at a later one is pruning at the later one.
LEMMA ValidOfKept ==
  ASSUME NEW list \in Seq(Nat), InOrder(list), NEW t0 \in Nat, NEW time \in Nat, t0 <= time,
         NEW n \in 0..Len(list)
  PROVE  ValidAt(Kept(list, t0)[n], time) = Kept(list, time)[n]
<1> DEFINE E == Kept(list, t0)
           K == Kept(list, time)
           S == {k \in 0..Len(list) : ValidAt(E[k], time) = K[k]}
<1>1. Len(list) \in Nat /\ (\A i \in 1..Len(list) : list[i] \in Nat) /\ LockSpan \in Nat
  BY Spans
<1>2. E[0] = <<>> /\ K[0] = <<>> /\ ValidAt(<<>>, time) = <<>>
  <2>1. Kept(<<>>, time)[0] = <<>>
    <3>1. <<>> \in Seq(Nat)
      OBVIOUS
    <3> QED
      BY <3>1, KeptEquation
  <2> QED
    BY <2>1, KeptEquation DEF ValidAt
<1>3. ASSUME NEW k \in 0..Len(list) - 1
      PROVE  /\ E[k + 1] = IF t0 - list[k + 1] < LockSpan THEN Append(E[k], list[k + 1]) ELSE E[k]
             /\ K[k + 1] = IF time - list[k + 1] < LockSpan THEN Append(K[k], list[k + 1]) ELSE K[k]
  <2>1. k + 1 \in 1..Len(list) /\ (k + 1) - 1 = k
    BY <1>1
  <2>2. \A i \in 1..Len(list) :
          /\ E[i] = IF t0 - list[i] < LockSpan THEN Append(E[i - 1], list[i]) ELSE E[i - 1]
          /\ K[i] = IF time - list[i] < LockSpan THEN Append(K[i - 1], list[i]) ELSE K[i - 1]
    BY KeptEquation
  <2> HIDE DEF K, E
  <2> QED
    BY <2>1, <2>2
<1>4. \A k \in 0..Len(list) : E[k] \in Seq(Nat)
  BY KeptType
<1> HIDE DEF K, E
<1>5. 0 \in S
  BY <1>1, <1>2
<1>6. ASSUME NEW k \in 0..Len(list) - 1, k \in S PROVE k + 1 \in S
  <2> DEFINE x == list[k + 1]
  <2>1. k + 1 \in 0..Len(list) /\ k \in 0..Len(list) /\ x \in Nat /\ ValidAt(E[k], time) = K[k]
    BY <1>1, <1>6
  <2>2. E[k] \in Seq(Nat)
    BY <1>4, <2>1
  <2>3. /\ E[k + 1] = IF t0 - x < LockSpan THEN Append(E[k], x) ELSE E[k]
        /\ K[k + 1] = IF time - x < LockSpan THEN Append(K[k], x) ELSE K[k]
    BY <1>3
  <2> HIDE DEF x
  <2>4. ValidAt(Append(E[k], x), time)
          = IF time - x < LockSpan THEN Append(K[k], x) ELSE K[k]
    BY <2>1, <2>2, ValidOfAppend
  <2>5. ValidAt(E[k + 1], time) = K[k + 1]
    <3>1. CASE t0 - x < LockSpan
      BY <2>3, <2>4, <3>1
    <3>2. CASE ~ (t0 - x < LockSpan)
      <4>1. ~ (time - x < LockSpan)
        BY <1>1, <2>1, <3>2
      <4> QED
        BY <2>1, <2>3, <3>2, <4>1
    <3> QED
      BY <3>1, <3>2
  <2> QED
    BY <2>1, <2>5
<1>7. n \in S
  <2> HIDE DEF S
  <2>1. \A k \in 0..Len(list) : k \in S
    BY <1>1, <1>5, <1>6, BoundedInduction
  <2> QED
    BY <2>1
<1> QED
  BY <1>7 DEF K, E

\* The newest entries count if each of them does.
LEMMA NewestCount ==
  ASSUME NEW list \in Seq(Nat), InOrder(list), NEW time \in Nat, NEW first \in 1..Len(list),
         \A i \in first..Len(list) : time - list[i] < LockSpan
  PROVE  Len(ValidAt(list, time)) >= Len(list) - first + 1
<1> DEFINE K == Kept(list, time)
           S == {k \in 0..Len(list) : Len(K[k]) >= k - first + 1}
<1>1. /\ Len(list) \in Nat /\ first \in Nat /\ first >= 1
      /\ \A i \in 1..Len(list) : list[i] \in Nat
  OBVIOUS
<1>2. \A k \in 0..Len(list) : K[k] \in Seq(Nat) /\ Len(K[k]) \in Nat
  <2>1. \A k \in 0..Len(list) : K[k] \in Seq(Nat)
    BY KeptType
  <2> HIDE DEF K
  <2> QED
    BY <2>1
<1>3. ASSUME NEW k \in 0..Len(list) - 1
      PROVE  K[k + 1] = IF time - list[k + 1] < LockSpan THEN Append(K[k], list[k + 1]) ELSE K[k]
  <2>1. k + 1 \in 1..Len(list) /\ (k + 1) - 1 = k
    BY <1>1
  <2> QED
    BY <2>1, KeptEquation
<1> HIDE DEF K
<1>4. 0 \in S
  <2>1. 0 \in 0..Len(list)
    BY <1>1
  <2>2. Len(K[0]) \in Nat
    BY <1>2, <2>1
  <2>3. Len(K[0]) >= 0 - first + 1
    BY <1>1, <2>2
  <2> QED
    BY <2>1, <2>3
<1>5. ASSUME NEW k \in 0..Len(list) - 1, k \in S PROVE k + 1 \in S
  <2>1. k + 1 \in 0..Len(list) /\ k \in 0..Len(list) /\ Len(K[k]) >= k - first + 1
    BY <1>1, <1>5
  <2>2. K[k] \in Seq(Nat) /\ Len(K[k]) \in Nat
    BY <1>2, <2>1
  <2>3. Len(K[k + 1]) >= (k + 1) - first + 1
    <3>1. CASE time - list[k + 1] < LockSpan
      <4>1. K[k + 1] = Append(K[k], list[k + 1]) /\ list[k + 1] \in Nat
        <5>1. k + 1 \in 1..Len(list)
          BY <1>1
        <5> QED
          BY <1>1, <1>3, <3>1, <5>1
      <4>2. Len(K[k + 1]) = Len(K[k]) + 1
        BY <2>2, <4>1, AppendProperties
      <4>3. k \in Nat
        BY <1>1
      <4> QED
        BY <1>1, <2>1, <2>2, <4>2, <4>3
    <3>2. CASE ~ (time - list[k + 1] < LockSpan)
      <4>1. k + 1 < first
        BY <1>1, <2>1, <3>2
      <4>2. K[k + 1] = K[k]
        BY <1>3, <3>2
      <4> QED
        BY <1>1, <2>1, <2>2, <4>1, <4>2
    <3> QED
      BY <3>1, <3>2
  <2> QED
    BY <2>1, <2>3
<1>6. Len(list) \in S
  <2> HIDE DEF S
  <2>1. \A k \in 0..Len(list) : k \in S
    BY <1>1, <1>4, <1>5, BoundedInduction
  <2> QED
    BY <1>1, <2>1
<1> QED
  BY <1>6 DEF K, ValidAt

\* What is kept of a list in order are its newest entries.
LEMMA KeptAreNewest ==
  ASSUME NEW list \in Seq(Nat), InOrder(list), NEW time \in Nat, NEW n \in 0..Len(list)
  PROVE  /\ Len(Kept(list, time)[n]) \in 0..n
         /\ \A j \in 0..Len(Kept(list, time)[n]) - 1 :
              Kept(list, time)[n][Len(Kept(list, time)[n]) - j] = list[n - j]
<1> DEFINE K == Kept(list, time)
           Newest(kept, k) == \A j \in 0..Len(kept) - 1 : kept[Len(kept) - j] = list[k - j]
           S == {k \in 0..Len(list) : Newest(K[k], k)}
<1>1. Len(list) \in Nat /\ (\A i \in 1..Len(list) : list[i] \in Nat) /\ LockSpan \in Nat
  BY Spans
<1>2. \A k \in 0..Len(list) :
        /\ K[k] \in Seq(Nat) /\ Len(K[k]) \in 0..k
        /\ \A i \in 1..Len(K[k]) : time - K[k][i] < LockSpan /\ k > 0 /\ K[k][i] <= list[k]
  <2>1. \A k \in 0..Len(list) :
          /\ K[k] \in Seq(Nat) /\ Len(K[k]) <= k
          /\ \A i \in 1..Len(K[k]) : time - K[k][i] < LockSpan /\ k > 0 /\ K[k][i] <= list[k]
    BY KeptType
  <2> HIDE DEF K
  <2> SUFFICES ASSUME NEW k \in 0..Len(list) PROVE K[k] \in Seq(Nat) /\ Len(K[k]) \in 0..k
    BY <2>1
  <2>2. K[k] \in Seq(Nat) /\ Len(K[k]) <= k /\ k \in Nat
    BY <1>1, <2>1
  <2> DEFINE kept == K[k]
  <2> HIDE DEF kept
  <2>3. kept \in Seq(Nat) /\ Len(kept) <= k
    BY <2>2 DEF kept
  <2>4. Len(kept) \in 0..k
    BY <2>2, <2>3
  <2> QED
    BY <2>3, <2>4 DEF kept
<1>3. ASSUME NEW k \in 0..Len(list) - 1
      PROVE  K[k + 1] = IF time - list[k + 1] < LockSpan THEN Append(K[k], list[k + 1]) ELSE K[k]
  <2>1. k + 1 \in 1..Len(list) /\ (k + 1) - 1 = k
    BY <1>1
  <2> QED
    BY <2>1, KeptEquation
<1>4. K[0] = <<>>
  BY KeptEquation
<1> HIDE DEF K
<1>5. 0 \in S
  BY <1>1, <1>4
<1>6. ASSUME NEW k \in 0..Len(list) - 1, k \in S PROVE k + 1 \in S
  <2> DEFINE old == K[k]  x == list[k + 1]
             len == Len(old)
  <2>1. k \in Nat /\ k \in 0..Len(list) /\ k + 1 \in 0..Len(list) /\ x \in Nat
    BY <1>1
  <2>2. old \in Seq(Nat) /\ len \in 0..k /\ len \in Nat
    BY <1>2, <2>1
  <2>3. \A j \in 0..len - 1 : old[len - j] = list[k - j]
    BY <1>6
  <2>4. CASE time - x < LockSpan
    <3> DEFINE new == Append(old, x)
    <3>1. /\ Len(new) = len + 1 /\ new[len + 1] = x
          /\ \A i \in 1..len : new[i] = old[i]
      BY <2>1, <2>2, AppendProperties
    <3>2. K[k + 1] = new
      BY <1>3, <2>4
    <3> HIDE DEF new, old, len
    <3>3. ASSUME NEW j \in 0..Len(new) - 1 PROVE new[Len(new) - j] = list[(k + 1) - j]
      <4>1. CASE j = 0
        BY <2>2, <3>1, <4>1, <2>1 DEF x
      <4>2. CASE j # 0
        <5>1. j - 1 \in 0..len - 1 /\ len - (j - 1) \in 1..len
          BY <2>2, <3>1, <3>3, <4>2
        <5>2. old[len - (j - 1)] = list[k - (j - 1)] /\ new[len - (j - 1)] = old[len - (j - 1)]
          BY <2>3, <3>1, <5>1
        <5>3. Len(new) - j = len - (j - 1) /\ (k + 1) - j = k - (j - 1)
          BY <2>1, <2>2, <3>1
        <5> QED
          BY <5>2, <5>3
      <4> QED
        BY <4>1, <4>2
    <3>4. Newest(new, k + 1)
      BY <3>3
    <3> HIDE DEF Newest
    <3> QED
      BY <2>1, <3>2, <3>4
  <2>5. CASE ~ (time - x < LockSpan)
    <3>1. K[k + 1] = old
      BY <1>3, <2>5
    <3>2. len = 0
      <4> SUFFICES ASSUME len # 0 PROVE FALSE
        OBVIOUS
      <4>1. 1 \in 1..len
        <5> HIDE DEF old, len
        <5> QED
          BY <2>2
      <4>2. time - old[1] < LockSpan /\ k > 0 /\ old[1] <= list[k] /\ old[1] \in Nat
        <5>1. \A i \in 1..Len(old) : time - old[i] < LockSpan /\ k > 0 /\ old[i] <= list[k]
          BY <1>2, <2>1
        <5> HIDE DEF old
        <5>2. \A i \in 1..Len(old) : old[i] \in Nat
          BY <2>2
        <5> QED
          BY <4>1, <5>1, <5>2
      <4>3. k \in 1..Len(list) /\ k + 1 \in 1..Len(list) /\ k <= k + 1
        BY <2>1, <4>2
      <4>4. list[k] <= x /\ list[k] \in Nat
        BY <1>1, <4>3 DEF InOrder
      <4> HIDE DEF old, x, len
      <4> QED
        BY <1>1, <2>1, <2>5, <4>2, <4>4
    <3>3. Newest(old, k + 1)
      BY <3>2
    <3> HIDE DEF Newest
    <3> QED
      BY <2>1, <3>1, <3>3
  <2> QED
    BY <2>4, <2>5
<1>7. n \in S
  <2> HIDE DEF S
  <2>1. \A k \in 0..Len(list) : k \in S
    BY <1>1, <1>5, <1>6, BoundedInduction
  <2> QED
    BY <2>1
<1> QED
  BY <1>2, <1>7 DEF K

-----------------------------------------------------------------------------
(* Lists of failures that are not in the future.                           *)

Listed(list, now) == list \in Seq(Nat) /\ InOrder(list) /\ \A i \in 1..Len(list) : list[i] <= now

\* Pruning leaves such a list, no longer than before, and what it leaves counts.
LEMMA ValidListed ==
  ASSUME NEW list, NEW now \in Nat, Listed(list, now), NEW time \in Nat
  PROVE  /\ Listed(ValidAt(list, time), now)
         /\ Len(ValidAt(list, time)) \in Nat
         /\ Len(ValidAt(list, time)) <= Len(list)
         /\ \A i \in 1..Len(ValidAt(list, time)) : time - ValidAt(list, time)[i] < LockSpan
<1> DEFINE V == ValidAt(list, time)
           last == Len(list)
<1>1. list \in Seq(Nat) /\ InOrder(list) /\ last \in Nat /\ last \in 0..Len(list)
  BY DEF Listed
<1>2. /\ V \in Seq(Nat) /\ Len(V) <= last /\ InOrder(V)
      /\ \A i \in 1..Len(V) : time - V[i] < LockSpan /\ last > 0 /\ V[i] <= list[last]
  BY <1>1, KeptType DEF ValidAt
<1>3. last > 0 => list[last] <= now /\ list[last] \in Nat
  BY <1>1 DEF Listed
<1> HIDE DEF V, last
<1>4. Len(V) \in Nat /\ \A i \in 1..Len(V) : V[i] \in Nat
  BY <1>2
<1>5. \A i \in 1..Len(V) : V[i] <= now
  BY <1>2, <1>3, <1>4
<1> QED
  BY <1>2, <1>4, <1>5 DEF Listed, V, last

\* Pruning twice, the second time not before the first.
LEMMA ValidTwice ==
  ASSUME NEW list, NEW now \in Nat, Listed(list, now), NEW t0 \in Nat, NEW time \in Nat, t0 <= time
  PROVE  ValidAt(ValidAt(list, t0), time) = ValidAt(list, time)
<1>1. list \in Seq(Nat) /\ InOrder(list) /\ Len(list) \in 0..Len(list)
  BY DEF Listed
<1>2. ValidAt(Kept(list, t0)[Len(list)], time) = Kept(list, time)[Len(list)]
  BY <1>1, ValidOfKept
<1> QED
  BY <1>2 DEF ValidAt

\* A failure that happens now goes to the end.
LEMMA FailureListed ==
  ASSUME NEW list, NEW now \in Nat, Listed(list, now)
  PROVE  /\ Listed(Append(list, now), now)
         /\ Len(Append(list, now)) = Len(list) + 1
<1>1. list \in Seq(Nat) /\ InOrder(list) /\ \A i \in 1..Len(list) : list[i] <= now
  BY DEF Listed
<1>2. /\ InOrder(Append(list, now))
      /\ \A i \in 1..Len(Append(list, now)) : Append(list, now)[i] <= now
  BY <1>1, AppendInOrder
<1>3. Append(list, now) \in Seq(Nat) /\ Len(Append(list, now)) = Len(list) + 1
  BY <1>1, AppendProperties
<1> QED
  BY <1>2, <1>3 DEF Listed

\* The newest entries of a list are those of what counts of it.
LEMMA NewestListed ==
  ASSUME NEW list, NEW now \in Nat, Listed(list, now), NEW time \in Nat, NEW m \in Nat, m > 0,
         Len(ValidAt(list, time)) >= m
  PROVE  /\ Len(list) \in Nat /\ Len(list) >= m
         /\ ValidAt(list, time)[Len(ValidAt(list, time)) - m + 1] = list[Len(list) - m + 1]
<1> DEFINE V == ValidAt(list, time)
           len == Len(list)
<1>1. list \in Seq(Nat) /\ InOrder(list) /\ len \in Nat /\ len \in 0..len
  BY DEF Listed
<1>2. Len(V) \in 0..len /\ \A j \in 0..Len(V) - 1 : V[Len(V) - j] = list[len - j]
  BY <1>1, KeptAreNewest DEF ValidAt
<1> HIDE DEF V
<1>3. m - 1 \in 0..Len(V) - 1 /\ Len(V) - (m - 1) = Len(V) - m + 1 /\ len - (m - 1) = len - m + 1
  BY <1>1, <1>2 DEF V
<1>4. V[Len(V) - (m - 1)] = list[len - (m - 1)]
  BY <1>2, <1>3
<1>5. V[Len(V) - m + 1] = list[len - m + 1]
  BY <1>3, <1>4
<1> QED
  BY <1>1, <1>2, <1>3, <1>5 DEF V

-----------------------------------------------------------------------------
(* What a client is told.                                                  *)

\* The failure that the lock is counted from, and what is told of it.
Oldest(list) == list[Len(list) - MaxFailed + 1]
Told(list) == RetryAfter(list) * Second

\* The told time is a whole number of seconds, at least one, and within a second of what is left.
LEMMA ToldBounds ==
  ASSUME NEW list, NEW elapsed \in Nat, elapsed = clock - Oldest(list)
  PROVE  /\ Told(list) \in Nat /\ Told(list) > 0
         /\ Told(list) = Second \/ Told(list) <= ToldSpan - elapsed
         /\ ToldSpan - elapsed < Told(list) + Second
<1> DEFINE left == ToldSpan - elapsed
<1>1. Second \in Nat /\ Second > 0 /\ left \in Int
  BY Spans
<1>2. RetryAfter(list) = IF left < Second THEN 1 ELSE left \div Second
  BY DEF RetryAfter, ToldSpan, Oldest
<1> HIDE DEF left
<1>3. CASE left < Second
  <2>1. Told(list) = Second
    BY <1>1, <1>2, <1>3 DEF Told
  <2> QED
    BY <1>1, <1>3, <2>1 DEF left
<1>4. CASE ~ (left < Second)
  <2> DEFINE q == left \div Second
             product == q * Second
  <2>1. \A x \in Int, d \in Nat : d > 0 /\ ~ (x < d) =>
          /\ x \div d \in Nat /\ (x \div d) * d \in Nat
          /\ (x \div d) * d <= x /\ x < (x \div d) * d + d
    OBVIOUS
  <2>2. product \in Nat /\ product <= left /\ left < product + Second
    BY <1>1, <1>4, <2>1
  <2>3. Told(list) = product
    BY <1>2, <1>4 DEF Told
  <2> HIDE DEF product
  <2>4. product > 0
    BY <1>1, <1>4, <2>2
  <2> QED
    BY <2>2, <2>3, <2>4 DEF left
<1> QED
  BY <1>3, <1>4

\* What a list that locks tells: its oldest failure is not in the future and counts.
LEMMA OldestCounts ==
  ASSUME clock \in Nat, NEW list, Listed(list, clock), Len(list) >= MaxFailed,
         \A i \in 1..Len(list) : clock - list[i] < LockSpan
  PROVE  /\ Len(list) \in Nat /\ Len(list) - MaxFailed + 1 \in 1..Len(list)
         /\ Oldest(list) \in Nat /\ clock - Oldest(list) \in Nat
         /\ clock - Oldest(list) < LockSpan
<1>1. list \in Seq(Nat) /\ Len(list) \in Nat
  BY DEF Listed
<1>2. MaxFailed \in Nat /\ MaxFailed >= 1
  BY LimiterAssumption
<1>3. \A i \in 1..Len(list) : list[i] \in Nat /\ list[i] <= clock /\ clock - list[i] < LockSpan
  BY <1>1 DEF Listed
<1> DEFINE oldest == Len(list) - MaxFailed + 1
<1>4. oldest \in 1..Len(list)
  BY <1>1, <1>2
<1> HIDE DEF oldest
<1>5. list[oldest] \in Nat /\ list[oldest] <= clock /\ clock - list[oldest] < LockSpan
  BY <1>3, <1>4
<1>6. clock - list[oldest] \in Nat
  BY <1>5
<1> QED
  BY <1>1, <1>4, <1>5, <1>6 DEF oldest, Oldest

\* Until the told time, or until less than a second before it, the lock lasts.
LEMMA LockOutlastsPromise ==
  ASSUME clock \in Nat, NEW list, Listed(list, clock), Len(list) >= MaxFailed,
         \A i \in 1..Len(list) : clock - list[i] < LockSpan,
         NEW time \in Nat, clock <= time, time < clock + Told(list)
  PROVE  Len(ValidAt(list, time)) >= MaxFailed \/ (clock + Told(list)) - time < Second
<1> DEFINE len == Len(list)
           oldest == len - MaxFailed + 1
           elapsed == clock - list[oldest]
<1>1. list \in Seq(Nat) /\ InOrder(list) /\ len \in Nat /\ len >= MaxFailed
  BY DEF Listed
<1>2. MaxFailed \in Nat /\ MaxFailed >= 1
  BY LimiterAssumption
<1>3. \A i \in 1..len : list[i] \in Nat /\ list[i] <= clock /\ clock - list[i] < LockSpan
  BY <1>1 DEF Listed
<1>4. oldest \in 1..len /\ len - oldest + 1 = MaxFailed
  BY <1>1, <1>2
<1>5. list[oldest] \in Nat /\ elapsed \in Nat /\ elapsed < LockSpan /\ list[oldest] = Oldest(list)
  BY OldestCounts DEF Oldest
<1>6. /\ Told(list) \in Nat
      /\ Told(list) = Second \/ Told(list) <= ToldSpan - elapsed
  BY <1>5, ToldBounds
<1>7. /\ LockSpan \in Nat /\ ToldSpan \in Nat /\ ToldSpan <= LockSpan
      /\ Second \in Nat
  BY Spans
<1>8. time - list[oldest] < LockSpan \/ (clock + Told(list)) - time < Second
  <2> HIDE DEF oldest
  <2>1. time = clock => time - list[oldest] < LockSpan
    BY <1>5
  <2>2. Told(list) = Second /\ time # clock => (clock + Told(list)) - time < Second
    BY <1>7
  <2>3. Told(list) <= ToldSpan - elapsed => time - list[oldest] < LockSpan
    BY <1>5, <1>6, <1>7
  <2> QED
    BY <1>6, <2>1, <2>2, <2>3
<1> HIDE DEF oldest, elapsed
<1>9. ASSUME time - list[oldest] < LockSpan PROVE Len(ValidAt(list, time)) >= MaxFailed
  <2>1. ASSUME NEW i \in oldest..len PROVE time - list[i] < LockSpan
    <3>1. i \in 1..len /\ oldest \in 1..len /\ oldest <= i
      BY <1>1, <1>4
    <3>2. list[oldest] <= list[i] /\ list[i] \in Nat /\ list[oldest] \in Nat
      BY <1>1, <1>3, <3>1 DEF InOrder
    <3> QED
      BY <1>7, <1>9, <3>2
  <2>2. Len(ValidAt(list, time)) >= len - oldest + 1
    BY <1>1, <1>4, <2>1, NewestCount
  <2> QED
    BY <1>4, <2>2
<1> QED
  BY <1>8, <1>9

-----------------------------------------------------------------------------
(* The inductive invariant.                                                *)

\* What the limiter keeps is what counts of all failures, and the clients that it has let through
\* have their failures still to come.
Room == Len(Valid(log)) + Cardinality(login) < MaxFailed + Cardinality(Clients)

\* Until the announced time enough failures go on counting, at each moment up to it but for the last
\* second, also if the list is pruned or grows meanwhile.
LockLasts == \A time \in Nat : clock <= time /\ time < promised.at =>
    Len(ValidAt(failures, time)) >= MaxFailed \/ promised.at - time < Second

\* A time that is told for the failures of now is told from the oldest of those that lock.
ToldFromOldest == promised.at # 0 /\ promised.for = Len(log) =>
    /\ Len(log) >= MaxFailed
    /\ Oldest(log) + ToldSpan < promised.at + Second

LimiterTyped ==
    /\ clock \in Nat /\ promised \in [at : Nat, for : Nat] /\ login \in SUBSET Clients
    /\ Listed(failures, clock) /\ Listed(log, clock)
    /\ promised.for <= Len(log)

LimiterInv == LimiterTyped /\ Valid(failures) = Valid(log) /\ Room /\ LockLasts /\ ToldFromOldest

\* Sets of clients are finite, and a larger set has more of them.
LEMMA ClientsCounted ==
  ASSUME NEW some \in SUBSET Clients
  PROVE  /\ IsFiniteSet(some)
         /\ Cardinality(some) \in Nat /\ Cardinality(Clients) \in Nat
         /\ Cardinality(some) <= Cardinality(Clients)
<1>1. IsFiniteSet(Clients)
  BY LimiterAssumption
<1> QED
  BY <1>1, FS_Subset, FS_CardinalityType

\* Nothing has happened at first.
LEMMA LimiterInit_Inv == LimiterInit => LimiterInv
<1> SUFFICES ASSUME LimiterInit PROVE LimiterInv
  OBVIOUS
<1> USE DEF LimiterInit
<1>1. Listed(<<>>, 0) /\ Len(<<>>) = 0
  BY DEF Listed, InOrder
<1>2. LimiterTyped
  BY <1>1 DEF LimiterTyped, NoPromise
<1>3. Len(Valid(log)) = 0
  BY <1>1, ValidListed DEF Valid
<1>4. Room
  <2>1. Cardinality({}) = 0 /\ Cardinality(Clients) \in Nat /\ MaxFailed \in Nat /\ MaxFailed > 0
    BY ClientsCounted, FS_EmptySet, LimiterAssumption
  <2> QED
    BY <1>3, <2>1 DEF Room
<1>5. LockLasts /\ ToldFromOldest
  BY DEF LockLasts, ToldFromOldest, NoPromise
<1>6. Valid(failures) = Valid(log)
  OBVIOUS
<1> QED
  BY <1>2, <1>4, <1>5, <1>6 DEF LimiterInv

\* A check prunes the list, and a client is let through or told a time.
LEMMA CheckKeepsInv ==
  ASSUME LimiterInv, NEW c \in Clients, CheckRateLimit(c)
  PROVE  LimiterInv'
<1> DEFINE V == Valid(failures)
<1>1. /\ clock \in Nat /\ promised \in [at : Nat, for : Nat] /\ login \in SUBSET Clients
      /\ Listed(failures, clock) /\ Listed(log, clock)
      /\ V = Valid(log)
  BY DEF LimiterInv, LimiterTyped
<1>2. c \notin login /\ failures' = V /\ clock' = clock /\ log' = log
  BY DEF CheckRateLimit
<1>3. /\ Listed(V, clock) /\ Len(V) \in Nat
      /\ \A i \in 1..Len(V) : clock - V[i] < LockSpan
  BY <1>1, ValidListed DEF Valid
<1>4. \A time \in Nat : clock <= time => ValidAt(V, time) = ValidAt(failures, time)
  BY <1>1, ValidTwice DEF Valid
<1>5. (Valid(failures) = Valid(log))'
  <2>1. ValidAt(V, clock) = V
    BY <1>1, <1>4 DEF Valid
  <2>2. ValidAt(V, clock) = ValidAt(log, clock)
    BY <1>1, <2>1 DEF Valid
  <2> QED
    BY <1>2, <2>2 DEF Valid
<1>6. Valid(log)' = V
  BY <1>1, <1>2 DEF Valid
<1> HIDE DEF V
<1>7. CASE Len(V) >= MaxFailed
  <2>1. promised' = [at |-> clock + Told(V), for |-> Len(log)] /\ login' = login
    BY <1>7 DEF CheckRateLimit, V, Told
  <2>2. LockLasts'
    <3>1. \A time \in Nat : clock <= time /\ time < clock + Told(V) =>
            Len(ValidAt(V, time)) >= MaxFailed \/ (clock + Told(V)) - time < Second
      BY <1>1, <1>3, <1>7, LockOutlastsPromise
    <3> QED
      BY <1>2, <2>1, <3>1 DEF LockLasts
  <2>3. /\ Oldest(V) \in Nat /\ clock - Oldest(V) \in Nat
        /\ Told(V) \in Nat /\ ToldSpan - (clock - Oldest(V)) < Told(V) + Second
    <3>1. Oldest(V) \in Nat /\ clock - Oldest(V) \in Nat
      BY <1>1, <1>3, <1>7, OldestCounts
    <3> QED
      BY <3>1, ToldBounds
  <2>4. promised' \in [at : Nat, for : Nat] /\ promised'.for = Len(log')
    <3>1. Len(log) \in Nat
      BY <1>1 DEF Listed
    <3> QED
      BY <1>1, <1>2, <2>1, <2>3, <3>1
  <2>5. ToldFromOldest'
    <3>1. MaxFailed \in Nat /\ MaxFailed > 0
      BY LimiterAssumption
    <3>2. V = ValidAt(log, clock)
      BY <1>1 DEF Valid, V
    <3>3. Len(log) >= MaxFailed /\ Oldest(log) = Oldest(V)
      BY <1>1, <1>7, <3>1, <3>2, NewestListed DEF Oldest
    <3>4. Oldest(V) + ToldSpan < (clock + Told(V)) + Second
      BY <1>1, <2>3, Spans
    <3>5. Oldest(log)' = Oldest(log) /\ promised'.at = clock + Told(V)
      BY <1>2, <2>1 DEF Oldest
    <3> QED
      BY <1>2, <3>3, <3>4, <3>5 DEF ToldFromOldest
  <2>6. LimiterTyped'
    <3>1. Len(log) \in Nat
      BY <1>1 DEF Listed
    <3> QED
      BY <1>1, <1>2, <1>3, <2>1, <2>4, <3>1 DEF LimiterTyped
  <2>7. Room'
    <3>1. Len(V) + Cardinality(login) < MaxFailed + Cardinality(Clients)
      BY <1>1 DEF LimiterInv, Room
    <3> QED
      BY <1>6, <2>1, <3>1 DEF Room
  <2> QED
    BY <1>5, <2>2, <2>5, <2>6, <2>7 DEF LimiterInv
<1>8. CASE ~ (Len(V) >= MaxFailed)
  <2>1. promised' = promised /\ login' = login \cup {c}
    BY <1>8 DEF CheckRateLimit, V
  <2>2. LimiterTyped'
    BY <1>1, <1>2, <1>3, <2>1 DEF LimiterTyped, LimiterInv
  <2>3. LockLasts' /\ ToldFromOldest'
    BY <1>2, <1>4, <2>1 DEF LimiterInv, LockLasts, ToldFromOldest, Oldest
  <2>4. Room'
    <3>1. /\ Cardinality(login') \in Nat /\ Cardinality(Clients) \in Nat
          /\ Cardinality(login') <= Cardinality(Clients)
      BY <1>1, <2>1, ClientsCounted
    <3>2. MaxFailed \in Nat /\ Len(V) < MaxFailed
      BY <1>3, <1>8, LimiterAssumption
    <3> QED
      BY <1>3, <1>6, <3>1, <3>2 DEF Room
  <2> QED
    BY <1>5, <2>2, <2>3, <2>4 DEF LimiterInv
<1> QED
  BY <1>7, <1>8

\* A failure is recorded in place of the client that it came from.
LEMMA FailKeepsInv ==
  ASSUME LimiterInv, NEW c \in Clients, FailLogin(c)
  PROVE  LimiterInv'
<1> DEFINE V == Valid(failures)
<1>1. /\ clock \in Nat /\ promised \in [at : Nat, for : Nat] /\ login \in SUBSET Clients
      /\ Listed(failures, clock) /\ Listed(log, clock)
      /\ V = Valid(log)
  BY DEF LimiterInv, LimiterTyped
<1>2. /\ c \in login /\ login' = login \ {c} /\ failures' = Append(V, clock)
      /\ log' = Append(log, clock) /\ clock' = clock /\ promised' = promised
  BY DEF FailLogin
<1>3. Listed(V, clock) /\ Len(V) \in Nat
  BY <1>1, ValidListed DEF Valid
<1>4. \A time \in Nat : clock <= time => ValidAt(V, time) = ValidAt(failures, time)
  BY <1>1, ValidTwice DEF Valid
<1>5. V \in Seq(Nat) /\ log \in Seq(Nat) /\ V = ValidAt(log, clock) /\ ValidAt(V, clock) = V
  BY <1>1, <1>3, <1>4 DEF Valid, Listed
<1> HIDE DEF V
<1>6. LimiterTyped' /\ ToldFromOldest'
  <2>1. Len(log) \in Nat /\ Len(log') = Len(log) + 1 /\ promised.for \in Nat /\ promised.for <= Len(log)
    BY <1>1, <1>2, FailureListed DEF LimiterInv, LimiterTyped, Listed
  <2>2. Listed(failures', clock') /\ Listed(log', clock')
    BY <1>1, <1>2, <1>3, FailureListed
  <2>3. LimiterTyped'
    BY <1>1, <1>2, <2>1, <2>2 DEF LimiterTyped
  <2>4. promised'.for # Len(log')
    BY <1>2, <2>1
  <2>5. ToldFromOldest'
    BY <2>4 DEF ToldFromOldest
  <2> QED
    BY <2>3, <2>5
<1>7. /\ ValidAt(Append(V, clock), clock) = ValidAt(Append(log, clock), clock)
      /\ Len(ValidAt(Append(log, clock), clock)) <= Len(V) + 1
      /\ Len(ValidAt(Append(log, clock), clock)) \in Nat
  <2>1. /\ ValidAt(Append(V, clock), clock) = IF clock - clock < LockSpan THEN Append(V, clock) ELSE V
        /\ ValidAt(Append(log, clock), clock) = IF clock - clock < LockSpan THEN Append(V, clock) ELSE V
    BY <1>1, <1>5, ValidOfAppend
  <2>2. Len(Append(V, clock)) = Len(V) + 1
    BY <1>1, <1>3, FailureListed
  <2> QED
    BY <1>3, <2>1, <2>2
<1>8. (Valid(failures) = Valid(log))'
  BY <1>2, <1>7 DEF Valid
<1>9. Room'
  <2>1. Len(V) + Cardinality(login) < MaxFailed + Cardinality(Clients)
    BY <1>1 DEF LimiterInv, Room
  <2>2. IsFiniteSet(login) /\ Cardinality(login) \in Nat /\ Cardinality(Clients) \in Nat
    BY <1>1, ClientsCounted
  <2>3. Cardinality(login') = Cardinality(login) - 1 /\ MaxFailed \in Nat
    BY <1>2, <2>2, FS_RemoveElement, LimiterAssumption
  <2>4. Len(Valid(log)') <= Len(V) + 1 /\ Len(Valid(log)') \in Nat
    BY <1>2, <1>7 DEF Valid
  <2> QED
    BY <1>3, <2>1, <2>2, <2>3, <2>4 DEF Room
<1>10. LockLasts'
  <2> SUFFICES ASSUME NEW time \in Nat, clock <= time, time < promised.at, ~ (promised.at - time < Second)
               PROVE  Len(ValidAt(Append(V, clock), time)) >= MaxFailed
    BY <1>2 DEF LockLasts
  <2>1. Len(ValidAt(V, time)) >= MaxFailed
    BY <1>4 DEF LimiterInv, LockLasts
  <2>2. ValidAt(V, time) \in Seq(Nat) /\ Len(ValidAt(V, time)) \in Nat /\ Listed(ValidAt(V, time), clock)
    BY <1>1, <1>3, ValidListed DEF Listed
  <2>3. ValidAt(Append(V, clock), time)
          = IF time - clock < LockSpan THEN Append(ValidAt(V, time), clock) ELSE ValidAt(V, time)
    BY <1>1, <1>5, ValidOfAppend
  <2>4. Len(Append(ValidAt(V, time), clock)) = Len(ValidAt(V, time)) + 1
    BY <1>1, <2>2, FailureListed
  <2>5. MaxFailed \in Nat
    BY LimiterAssumption
  <2> QED
    BY <2>1, <2>2, <2>3, <2>4, <2>5
<1> QED
  BY <1>6, <1>8, <1>9, <1>10 DEF LimiterInv

\* The right password clears the list and with it the lock.
LEMMA PassKeepsInv ==
  ASSUME LimiterInv, NEW c \in Clients, PassLogin(c)
  PROVE  LimiterInv'
<1>1. clock \in Nat /\ login \in SUBSET Clients
  BY DEF LimiterInv, LimiterTyped
<1>2. /\ login' = login \ {c} /\ failures' = <<>> /\ log' = <<>> /\ promised' = NoPromise
      /\ clock' = clock
  BY DEF PassLogin
<1>3. Listed(<<>>, clock) /\ Len(<<>>) = 0
  BY DEF Listed, InOrder
<1>4. LimiterTyped'
  BY <1>1, <1>2, <1>3 DEF LimiterTyped, NoPromise
<1>5. Room'
  <2>1. Len(ValidAt(<<>>, clock)) = 0
    <3>1. Len(ValidAt(<<>>, clock)) \in Nat /\ Len(ValidAt(<<>>, clock)) <= Len(<<>>)
      BY <1>1, <1>3, ValidListed
    <3> QED
      BY <1>3, <3>1
  <2>2. Len(Valid(log)') = 0
    BY <1>2, <2>1 DEF Valid
  <2>3. /\ Cardinality(login') \in Nat /\ Cardinality(Clients) \in Nat
        /\ Cardinality(login') <= Cardinality(Clients)
    BY <1>1, <1>2, ClientsCounted
  <2>4. MaxFailed \in Nat /\ MaxFailed > 0
    BY LimiterAssumption
  <2> QED
    BY <2>2, <2>3, <2>4 DEF Room
<1>6. LockLasts' /\ ToldFromOldest'
  BY <1>1, <1>2 DEF LockLasts, ToldFromOldest, NoPromise
<1>7. (Valid(failures) = Valid(log))'
  BY <1>2 DEF Valid
<1> QED
  BY <1>4, <1>5, <1>6, <1>7 DEF LimiterInv

\* Time passes, and failures grow old.
LEMMA TickKeepsInv ==
  ASSUME LimiterInv, TickLimiter
  PROVE  LimiterInv'
<1>1. /\ clock \in Nat /\ promised \in [at : Nat, for : Nat] /\ login \in SUBSET Clients
      /\ Listed(failures, clock) /\ Listed(log, clock)
      /\ ValidAt(failures, clock) = ValidAt(log, clock)
  BY DEF LimiterInv, LimiterTyped, Valid
<1>2. clock' = clock + 1 /\ UNCHANGED <<failures, login, log, promised>>
  BY DEF TickLimiter
<1>3. \A list : Listed(list, clock) => Listed(list, clock + 1)
  <2> SUFFICES ASSUME NEW list, Listed(list, clock) PROVE Listed(list, clock + 1)
    OBVIOUS
  <2>1. list \in Seq(Nat) /\ InOrder(list) /\ \A i \in 1..Len(list) : list[i] \in Nat /\ list[i] <= clock
    BY DEF Listed
  <2>2. \A i \in 1..Len(list) : list[i] <= clock + 1
    BY <1>1, <2>1
  <2> QED
    BY <2>1, <2>2 DEF Listed
<1>4. LimiterTyped'
  BY <1>1, <1>2, <1>3 DEF LimiterTyped, LimiterInv
<1>5. /\ ValidAt(failures, clock + 1) = ValidAt(ValidAt(failures, clock), clock + 1)
      /\ ValidAt(log, clock + 1) = ValidAt(ValidAt(log, clock), clock + 1)
  <2>1. clock + 1 \in Nat /\ clock <= clock + 1
    BY <1>1
  <2> QED
    BY <1>1, <2>1, ValidTwice
<1>6. (Valid(failures) = Valid(log))'
  BY <1>1, <1>2, <1>5 DEF Valid
<1>7. Room'
  <2> DEFINE V == ValidAt(log, clock)
  <2>1. Listed(V, clock) /\ Len(V) \in Nat
    BY <1>1, ValidListed
  <2> HIDE DEF V
  <2>2. Len(ValidAt(V, clock + 1)) \in Nat /\ Len(ValidAt(V, clock + 1)) <= Len(V)
    <3>1. clock + 1 \in Nat
      BY <1>1
    <3> QED
      BY <1>1, <2>1, <3>1, ValidListed
  <2>3. Len(V) + Cardinality(login) < MaxFailed + Cardinality(Clients)
    BY DEF LimiterInv, Room, Valid, V
  <2>4. Cardinality(login) \in Nat /\ Cardinality(Clients) \in Nat /\ MaxFailed \in Nat
    BY <1>1, ClientsCounted, LimiterAssumption
  <2>5. Valid(log)' = ValidAt(V, clock + 1)
    BY <1>2, <1>5 DEF Valid, V
  <2> QED
    BY <1>2, <2>1, <2>2, <2>3, <2>4, <2>5 DEF Room
<1>8. LockLasts'
  <2> SUFFICES ASSUME NEW time \in Nat, clock + 1 <= time, time < promised.at
               PROVE  Len(ValidAt(failures, time)) >= MaxFailed \/ promised.at - time < Second
    BY <1>2 DEF LockLasts
  <2>1. clock <= time
    BY <1>1
  <2> QED
    BY <2>1 DEF LimiterInv, LockLasts
<1>9. ToldFromOldest'
  BY <1>2 DEF LimiterInv, ToldFromOldest, Oldest
<1> QED
  BY <1>4, <1>6, <1>7, <1>8, <1>9 DEF LimiterInv

\* The invariant holds in every state.
LEMMA LimiterInvariant == LimiterSpec => []LimiterInv
<1>1. LimiterInv /\ [LimiterNext]_limiterVars => LimiterInv'
  <2> SUFFICES ASSUME LimiterInv, [LimiterNext]_limiterVars PROVE LimiterInv'
    OBVIOUS
  <2>1. ASSUME NEW c \in Clients, CheckRateLimit(c) PROVE LimiterInv'
    BY <2>1, CheckKeepsInv
  <2>2. ASSUME NEW c \in Clients, FailLogin(c) PROVE LimiterInv'
    BY <2>2, FailKeepsInv
  <2>3. ASSUME NEW c \in Clients, PassLogin(c) PROVE LimiterInv'
    BY <2>3, PassKeepsInv
  <2>4. CASE TickLimiter
    BY <2>4, TickKeepsInv
  <2>5. CASE UNCHANGED limiterVars
    BY <2>5 DEF limiterVars, LimiterInv, LimiterTyped, Room, LockLasts, ToldFromOldest, Oldest, Valid
  <2> QED
    BY <2>1, <2>2, <2>3, <2>4, <2>5 DEF LimiterNext
<1> QED
  BY <1>1, LimiterInit_Inv, PTL DEF LimiterSpec

\* For any number of clients, limits and window: however checks and failures interleave, a window
\* holds fewer failures than the limit and one more for each client (check_rate_limit and
\* record_failed_login under their lock, endpoint_login between them).
THEOREM BurstsAreBounded == LimiterSpec => []BurstBounded
<1>1. LimiterInv => BurstBounded
  <2> SUFFICES ASSUME LimiterInv PROVE BurstBounded
    OBVIOUS
  <2>1. login \in SUBSET Clients /\ clock \in Nat /\ Listed(log, clock)
    BY DEF LimiterInv, LimiterTyped
  <2>2. Cardinality(login) \in Nat /\ Cardinality(Clients) \in Nat /\ MaxFailed \in Nat
    BY <2>1, ClientsCounted, LimiterAssumption
  <2>3. Len(Valid(log)) \in Nat
    BY <2>1, ValidListed DEF Valid
  <2>4. Len(Valid(log)) + Cardinality(login) < MaxFailed + Cardinality(Clients)
    BY DEF LimiterInv, Room
  <2> QED
    BY <2>2, <2>3, <2>4 DEF BurstBounded
<1> QED
  BY <1>1, LimiterInvariant, PTL

\* For any penalty that is not above the window and any fraction of a second that the clock shows: a
\* client that is back before the time it was told is turned away again, unless less than a second of
\* it is left, whatever was pruned and recorded meanwhile; and without another failure the lock is over
\* by as much after that time as the window is longer than the penalty, and a second (the whole seconds
\* that check_rate_limit computes from the float times of failures).
THEOREM PromisesAreKept == LimiterSpec => []PromiseKept
<1>1. LimiterInv => PromiseKept
  <2> SUFFICES ASSUME LimiterInv PROVE PromiseKept
    OBVIOUS
  <2>1. clock \in Nat /\ promised \in [at : Nat, for : Nat] /\ Listed(log, clock)
    BY DEF LimiterInv, LimiterTyped
  <2>2. clock < promised.at => Locked \/ promised.at - clock < Second
    BY <2>1 DEF LimiterInv, LockLasts, Locked, Valid
  <2>3. ASSUME Locked, promised.at # 0, promised.for = Len(log)
        PROVE  clock < promised.at + (Window - Penalty + 1) * Second
    <3> DEFINE V == ValidAt(log, clock)
    <3>1. MaxFailed \in Nat /\ MaxFailed > 0 /\ Len(V) >= MaxFailed
      BY <2>3, LimiterAssumption DEF LimiterInv, Locked, Valid
    <3>2. Listed(V, clock) /\ \A i \in 1..Len(V) : clock - V[i] < LockSpan
      BY <2>1, ValidListed
    <3>3. Oldest(V) = Oldest(log)
      BY <2>1, <3>1, NewestListed DEF Oldest
    <3> HIDE DEF V
    <3>4. Oldest(V) \in Nat /\ clock - Oldest(V) < LockSpan
      BY <2>1, <3>1, <3>2, OldestCounts
    <3>5. Oldest(V) + ToldSpan < promised.at + Second
      BY <2>3, <3>3 DEF LimiterInv, ToldFromOldest
    <3>6. /\ LockSpan \in Nat /\ ToldSpan \in Nat /\ Second \in Nat
          /\ (Window - Penalty + 1) * Second = LockSpan - ToldSpan + Second
      BY Spans
    <3> DEFINE late == (Window - Penalty + 1) * Second
    <3> HIDE DEF late
    <3>7. late = LockSpan - ToldSpan + Second
      BY <3>6 DEF late
    <3>8. clock < promised.at + late
      BY <2>1, <3>4, <3>5, <3>6, <3>7
    <3> QED
      BY <3>8 DEF late
  <2> QED
    BY <2>2, <2>3 DEF PromiseKept
<1> QED
  BY <1>1, LimiterInvariant, PTL
=============================================================================
