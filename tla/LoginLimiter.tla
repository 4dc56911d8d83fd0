---------------------------- MODULE LoginLimiter ----------------------------
(***************************************************************************)
(* The limit on failed logins of one address (core/security_limiter.py),   *)
(* and the request threads that log in with it (api/routes.py): a login    *)
(* asks the limiter first and records its failure later, each under the    *)
(* limiter's lock, so that other logins of the address come between.       *)
(***************************************************************************)
EXTENDS Naturals, Sequences, FiniteSets

CONSTANTS
    Clients,    \* request threads that log in with the address
    MaxFailed,  \* MAX_FAILED_ATTEMPTS
    Window,     \* LOCKOUT_WINDOW_SECONDS
    Penalty,    \* BACKOFF_PENALTY_SECONDS
    Second,     \* ticks of the clock in a second: times are floats, waits are whole seconds
    MaxTime     \* bound on the clock

ASSUME LimiterAssumption ==
    /\ MaxFailed \in Nat \ {0} /\ Window \in Nat \ {0} /\ Penalty \in 1..Window
    /\ Second \in Nat \ {0} /\ MaxTime \in Nat
    /\ IsFiniteSet(Clients)

VARIABLES
    clock,      \* time.time(), in ticks
    failures,   \* _login_failures of the address
    login,      \* clients that the limiter has let through
    log,        \* history: every failure since the list was last cleared
    promised    \* history: when the last client that was turned away may come back, and how many
                \* failures it was told for

limiterVars == <<clock, failures, login, log, promised>>

NoPromise == [at |-> 0, for |-> 0]

LimiterInit == clock = 0 /\ failures = <<>> /\ login = {} /\ log = <<>> /\ promised = NoPromise

\* The failures of a list that still count at a time, entry by entry.
Kept(list, time) ==
    LET kept[n \in 0..Len(list)] ==
          IF n = 0 THEN <<>>
          ELSE IF time - list[n] < Window * Second THEN Append(kept[n - 1], list[n]) ELSE kept[n - 1]
    IN kept
ValidAt(list, time) == Kept(list, time)[Len(list)]
Valid(list) == ValidAt(list, clock)

\* Mutant: one failure too many is let through.
CheckRateLimit_Late(c) ==
    /\ c \notin login
    /\ failures' = Valid(failures)
    /\ Len(Valid(failures)) <= MaxFailed
    /\ login' = login \cup {c}
    /\ UNCHANGED <<clock, log, promised>>

\* Mutant: the wait is counted from now.
RetryAfter_Full(list) == Window

\* max(1, int(BACKOFF_PENALTY_SECONDS - time_elapsed)): the whole seconds that a client is told to wait,
\* and one when less than that is left, or nothing.
RetryAfter(list) ==
    LET left == Penalty * Second - (clock - list[Len(list) - MaxFailed + 1])
    IN IF left < Second THEN 1 ELSE left \div Second

\* check_rate_limit
CheckRateLimit(c) ==
    /\ c \notin login
    /\ failures' = Valid(failures)
    /\ IF Len(Valid(failures)) >= MaxFailed
       THEN /\ promised' = [at |-> clock + RetryAfter(Valid(failures)) * Second, for |-> Len(log)]
            /\ UNCHANGED login
       ELSE login' = login \cup {c} /\ UNCHANGED promised
    /\ UNCHANGED <<clock, log>>

\* endpoint_login with a wrong address, password or account: record_failed_login.
FailLogin(c) ==
    /\ c \in login
    /\ login' = login \ {c}
    /\ failures' = Append(Valid(failures), clock)
    /\ log' = Append(log, clock)
    /\ UNCHANGED <<clock, promised>>

\* clear_failed_logins after the right password.
PassLogin(c) ==
    /\ c \in login
    /\ login' = login \ {c}
    /\ failures' = <<>> /\ log' = <<>> /\ promised' = NoPromise
    /\ UNCHANGED clock

TickLimiter == clock < MaxTime /\ clock' = clock + 1 /\ UNCHANGED <<failures, login, log, promised>>

LimiterNext ==
    \/ \E c \in Clients : CheckRateLimit(c) \/ FailLogin(c) \/ PassLogin(c)
    \/ TickLimiter

LimiterSpec == LimiterInit /\ [][LimiterNext]_limiterVars

-----------------------------------------------------------------------------
\* However checks and failures of several clients interleave and the list is pruned, a window
\* holds fewer failures than the limit and one more for each client: nobody gets a second try
\* out of one check.
BurstBounded == Len(Valid(log)) < MaxFailed + Cardinality(Clients)

Locked == Len(Valid(failures)) >= MaxFailed

\* What a client that is turned away is told is right to the second at one end: it is turned away again
\* until then, or until less than a second before, which is what max(1, ...) adds.  At the other end
\* the time is told from Penalty and the lock lasts for Window: without another failure the lock is
\* over at last, but only as much later as Window is longer than Penalty (and a second that int()
\* takes off).  The right password ends both.
PromiseKept ==
    /\ clock < promised.at => Locked \/ promised.at - clock < Second
    /\ Locked /\ promised.at # 0 /\ promised.for = Len(log) =>
         clock < promised.at + (Window - Penalty + 1) * Second
=============================================================================
