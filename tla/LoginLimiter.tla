---------------------------- MODULE LoginLimiter ----------------------------
(***************************************************************************)
(* The limiter of failed logins                                            *)
(* (src/backend/internal/controlplane/login_limiter.go) as the handler     *)
(* Server.login uses it: look at the limits, compare the password, record  *)
(* the outcome.  Each is a critical section of its own, so requests that   *)
(* run at the same time overtake the limit.  Time is counted in ticks, a   *)
(* resetAt is kept as the ticks that are left until it.                    *)
(***************************************************************************)
EXTENDS Integers, FiniteSets

CONSTANTS
    Account,       \* names used in requests
    IP,            \* client addresses
    Login,         \* request goroutines that can run at the same time
    accountLimit, ipLimit,
    window,        \* ticks until a count is forgotten
    NoLogin        \* a request goroutine that is free

ASSUME LimiterAssumption ==
    /\ IsFiniteSet(Login) /\ Login # {}
    /\ accountLimit \in Nat \ {0} /\ ipLimit \in Nat \ {0} /\ window \in Nat \ {0}
    /\ NoLogin \notin [account: Account, ip: IP]

VARIABLES
    accounts,  \* l.accounts: name -> [count, left]
    ips,       \* l.ips: address -> [count, left]
    request    \* goroutine -> NoLogin or the login it is between check and record

limiterVars == <<accounts, ips, request>>

Attempt == [count: Nat, left: 0..window]
None == [count |-> 0, left |-> 0]

LimiterInit ==
    /\ accounts = [a \in Account |-> None]
    /\ ips = [i \in IP |-> None]
    /\ request = [r \in Login |-> NoLogin]

CleanExpired(attempts) ==
    [k \in DOMAIN attempts |-> IF attempts[k].left = 0 THEN None ELSE attempts[k]]

\* Mutant: the limit is noticed one failure late.
MutantExceeded(attempt, limit) == attempt.count > limit /\ attempt.left > 0

Exceeded(attempt, limit) == attempt.count >= limit /\ attempt.left > 0

Limited(a, i) == Exceeded(accounts[a], accountLimit) \/ Exceeded(ips[i], ipLimit)

NextLoginAttempt(attempt) ==
    IF attempt.left = 0 THEN [count |-> 1, left |-> window]
                        ELSE [attempt EXCEPT !.count = @ + 1]

\* allow: a request that is not limited goes on to compare the password.
Allow(r, a, i) ==
    /\ request[r] = NoLogin
    /\ accounts' = CleanExpired(accounts) /\ ips' = CleanExpired(ips)
    /\ request' = IF Limited(a, i) THEN request
                  ELSE [request EXCEPT ![r] = [account |-> a, ip |-> i]]

\* The password is wrong: recordFailure.
RecordFailure(r) ==
    /\ request[r] # NoLogin
    /\ LET a == request[r].account
           i == request[r].ip
           known == CleanExpired(accounts)
           seen == CleanExpired(ips)
       IN  /\ accounts' = [known EXCEPT ![a] = NextLoginAttempt(@)]
           /\ ips' = [seen EXCEPT ![i] = NextLoginAttempt(@)]
    /\ request' = [request EXCEPT ![r] = NoLogin]

\* The password is right: clearAccount; the address keeps its failures.
ClearAccount(r) ==
    /\ request[r] # NoLogin
    /\ accounts' = [accounts EXCEPT ![request[r].account] = None]
    /\ request' = [request EXCEPT ![r] = NoLogin]
    /\ UNCHANGED ips

Elapse(attempts) ==
    [k \in DOMAIN attempts |-> IF attempts[k].left = 0 THEN attempts[k]
                               ELSE [attempts[k] EXCEPT !.left = @ - 1]]

Tick ==
    /\ accounts' = Elapse(accounts) /\ ips' = Elapse(ips)
    /\ UNCHANGED request

LimiterNext ==
    \/ \E r \in Login, a \in Account, i \in IP : Allow(r, a, i)
    \/ \E r \in Login : RecordFailure(r) \/ ClearAccount(r)
    \/ Tick

LimiterSpec == LimiterInit /\ [][LimiterNext]_limiterVars

-----------------------------------------------------------------------------
LimiterTypeOK ==
    /\ accounts \in [Account -> Attempt]
    /\ ips \in [IP -> Attempt]
    /\ request \in [Login -> [account: Account, ip: IP] \cup {NoLogin}]

\* The requests that are comparing a password for an account, or from an address.
Comparing(field, value) == {r \in Login : request[r] # NoLogin /\ request[r][field] = value}

\* "10 failures per account and 60 per address in 15 minutes" holds up to the
\* requests that were let through together: the failures a window counts, and
\* those on their way to it, exceed the limit by less than the number of
\* concurrent requests, whatever successes clear and windows expire between.
FailuresAreBounded ==
    /\ \A a \in Account : accounts[a].count + Cardinality(Comparing("account", a))
                            <= accountLimit + Cardinality(Login) - 1
    /\ \A i \in IP : ips[i].count + Cardinality(Comparing("ip", i))
                       <= ipLimit + Cardinality(Login) - 1

\* The invariant of the limiter: counts and lockouts stay within their bounds.
LimiterInv == LimiterTypeOK /\ FailuresAreBounded
=============================================================================
