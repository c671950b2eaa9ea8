------------------------- MODULE ControlPlaneProofs -------------------------
(***************************************************************************)
(* Proofs about the parts of the control plane that share no state: the    *)
(* hub and what it asks of the agents, the fan-out of audio frames, the    *)
(* budget of pending handshakes, the login limiter and the asset library.  *)
(***************************************************************************)
EXTENDS PreviewHub, AudioFanout, AgentHandshake, LoginLimiter, AssetLibrary,
        FiniteSetTheorems, TLAPS

(***************************************************************************)
(* Handshakes.  The deferred function decides by the local flag, the       *)
(* budget counts handlers: the flag is set exactly in between.             *)
(***************************************************************************)

\* The handlers between their reservation and their admission.
Pending == {h \in Handler : at[h] \in {"hello", "exchange"}}

\* The flag of a handler says whether it holds a slot.
FlagIsExact == reserved = Pending

HandshakeIndInv == HandshakeInv /\ FlagIsExact

\* Only finitely many handshakes are pending.
LEMMA PendingIsFinite == IsFiniteSet(Pending) /\ Cardinality(Pending) \in Nat
BY HandshakeAssumption, FS_Subset, FS_CardinalityType DEF Pending

\* No handshake is pending at first.
LEMMA HandshakeStarts == HandshakeInit => HandshakeIndInv
<1> SUFFICES ASSUME HandshakeInit PROVE HandshakeIndInv
  OBVIOUS
<1>1. Pending = {} BY DEF HandshakeInit, Pending
<1>2. Cardinality(Pending) = 0 BY <1>1, FS_EmptySet
<1>3. QED
  BY <1>1, <1>2, HandshakeAssumption
  DEF HandshakeInit, HandshakeIndInv, HandshakeInv, HandshakeTypeOK, SlotsAreExact, FlagIsExact, Pending

\* A handler that moves enters the pending ones, leaves them, or neither.
LEMMA HandshakeStep == HandshakeIndInv /\ [HandshakeNext]_handshakeVars => HandshakeIndInv'
<1> SUFFICES ASSUME HandshakeIndInv, [HandshakeNext]_handshakeVars PROVE HandshakeIndInv'
  OBVIOUS
<1>ty. /\ slots \in 0..MaxPendingAgentHandshakes /\ slots = Cardinality(Pending) /\ reserved = Pending
       /\ at \in [Handler -> {"none", "hello", "exchange", "connected"}]
       /\ MaxPendingAgentHandshakes \in Nat
  BY HandshakeAssumption
  DEF HandshakeIndInv, HandshakeInv, HandshakeTypeOK, SlotsAreExact, FlagIsExact, Pending
<1>fold. ASSUME slots' \in 0..MaxPendingAgentHandshakes, slots' = Cardinality(Pending'),
                reserved' = Pending', at' \in [Handler -> {"none", "hello", "exchange", "connected"}]
         PROVE  HandshakeIndInv'
  BY <1>fold DEF HandshakeIndInv, HandshakeInv, HandshakeTypeOK, SlotsAreExact, FlagIsExact, Pending
<1>1. ASSUME NEW h \in Handler, Reserve(h) PROVE HandshakeIndInv'
  <2>1. at' = [at EXCEPT ![h] = "hello"] /\ at[h] = "none" BY <1>1 DEF Reserve, Goto
  <2>2. Pending' = Pending \cup {h} /\ h \notin Pending BY <1>ty, <2>1 DEF Pending
  <2>3. Cardinality(Pending \cup {h}) = Cardinality(Pending) + 1
    BY <2>2, PendingIsFinite, FS_AddElement
  <2>4. QED BY <1>1, <1>ty, <1>fold, <2>1, <2>2, <2>3 DEF Reserve
<1>2. ASSUME NEW h \in Handler, Hello(h) PROVE HandshakeIndInv'
  <2>1. at' = [at EXCEPT ![h] = "exchange"] /\ at[h] = "hello" BY <1>2 DEF Hello, Goto
  <2>2. Pending' = Pending BY <1>ty, <2>1 DEF Pending
  <2>3. QED BY <1>2, <1>ty, <1>fold, <2>1, <2>2 DEF Hello
<1>3. ASSUME NEW h \in Handler, Admit(h) PROVE HandshakeIndInv'
  <2>1. at' = [at EXCEPT ![h] = "connected"] /\ at[h] = "exchange" BY <1>3 DEF Admit, Goto
  <2>2. Pending' = Pending \ {h} /\ h \in Pending BY <1>ty, <2>1 DEF Pending
  <2>3. Cardinality(Pending \ {h}) = Cardinality(Pending) - 1
    BY <2>2, PendingIsFinite, FS_RemoveElement
  <2>4. QED BY <1>3, <1>ty, <1>fold, <2>1, <2>2, <2>3 DEF Admit
<1>4. ASSUME NEW h \in Handler, Return(h) PROVE HandshakeIndInv'
  <2>1. at' = [at EXCEPT ![h] = "none"] BY <1>4 DEF Return, Goto
  <2>2. Pending' = Pending \ {h} BY <1>ty, <2>1 DEF Pending
  <2>3. Cardinality(Pending \ {h}) = IF h \in Pending THEN Cardinality(Pending) - 1 ELSE Cardinality(Pending)
    BY PendingIsFinite, FS_RemoveElement
  <2>4. slots' = (IF h \in Pending THEN slots - 1 ELSE slots) /\ (h \in Pending => slots > 0)
    BY <1>4, <1>ty DEF Return, Release
  <2>5. slots' = Cardinality(Pending') /\ reserved' = Pending'
    BY <1>4, <1>ty, <2>2, <2>3, <2>4 DEF Return
  <2>6. slots' \in 0..MaxPendingAgentHandshakes
    BY <1>ty, <2>4
  <2>7. QED BY <1>ty, <1>fold, <2>1, <2>5, <2>6
<1>5. CASE UNCHANGED handshakeVars
  BY <1>5, <1>ty, <1>fold DEF handshakeVars, Pending
<1>6. QED BY <1>1, <1>2, <1>3, <1>4, <1>5 DEF HandshakeNext

\* The budget of pending handshakes is exact for any number of handlers: no slot
\* is lost or given back twice, and no handler waits for one.
THEOREM HandshakesAreAccounted == HandshakeSpec => []HandshakeInv
<1>1. HandshakeIndInv => HandshakeInv BY DEF HandshakeIndInv
<1>2. QED BY <1>1, HandshakeStarts, HandshakeStep, PTL DEF HandshakeSpec

\* A receive from the channel never waits: whoever gives a slot back finds one.
THEOREM NoHandlerWaits ==
    HandshakeSpec => [](\A h \in reserved : slots > 0)
<1>1. HandshakeIndInv => \A h \in reserved : slots > 0
  <2> SUFFICES ASSUME HandshakeIndInv, NEW h \in reserved PROVE slots > 0
    OBVIOUS
  <2>1. Pending # {} /\ slots = Cardinality(Pending)
    BY DEF HandshakeIndInv, FlagIsExact, HandshakeInv, SlotsAreExact, Pending
  <2>2. Cardinality(Pending) # 0 BY <2>1, PendingIsFinite, FS_EmptySet
  <2>3. QED BY <2>1, <2>2, PendingIsFinite
<1>2. QED BY <1>1, HandshakeStarts, HandshakeStep, PTL DEF HandshakeSpec

(***************************************************************************)
(* The login limiter.  For an account or an address, what is counted and   *)
(* what is on its way add up to less than the limit and the number of      *)
(* request goroutines: a request that is let through sees a count below    *)
(* the limit, and it was not on its way before.                            *)
(***************************************************************************)

\* The bound on one counter.
Within(counted, comparing, limit) == counted + Cardinality(comparing) <= limit + Cardinality(Login) - 1

\* What FailuresAreBounded says of one field.
FieldBounded(attempts, field, keys, limit) ==
    \A k \in keys : Within(attempts[k].count, Comparing(field, k), limit)

\* The two halves of FailuresAreBounded.
LEMMA BoundedByField ==
    FailuresAreBounded <=> /\ FieldBounded(accounts, "account", Account, accountLimit)
                           /\ FieldBounded(ips, "ip", IP, ipLimit)
BY DEF FailuresAreBounded, FieldBounded, Within

\* Sets of requests are finite; one without request r has room for r.
LEMMA LoginSets ==
    ASSUME NEW S \in SUBSET Login
    PROVE  /\ IsFiniteSet(S) /\ Cardinality(S) \in Nat /\ Cardinality(S) <= Cardinality(Login)
           /\ Cardinality(Login) \in Nat \ {0}
           /\ \A r \in Login \ S : /\ Cardinality(S \cup {r}) = Cardinality(S) + 1
                                   /\ Cardinality(S \cup {r}) <= Cardinality(Login)
           /\ \A r \in S : Cardinality(S \ {r}) = Cardinality(S) - 1
<1>1. IsFiniteSet(S) /\ Cardinality(S) \in Nat /\ Cardinality(S) <= Cardinality(Login)
  BY LimiterAssumption, FS_Subset, FS_CardinalityType
<1>2. Cardinality(Login) \in Nat \ {0}
  BY LimiterAssumption, FS_CardinalityType, FS_EmptySet
<1>3. ASSUME NEW r \in Login \ S
      PROVE  /\ Cardinality(S \cup {r}) = Cardinality(S) + 1
             /\ Cardinality(S \cup {r}) <= Cardinality(Login)
  <2>1. Cardinality(S \cup {r}) = Cardinality(S) + 1 BY <1>1, FS_AddElement
  <2>2. S \cup {r} \in SUBSET Login OBVIOUS
  <2>3. Cardinality(S \cup {r}) <= Cardinality(Login) BY <2>2, LimiterAssumption, FS_Subset
  <2>4. QED BY <2>1, <2>3
<1>4. ASSUME NEW r \in S PROVE Cardinality(S \ {r}) = Cardinality(S) - 1
  BY <1>1, FS_RemoveElement
<1>5. QED BY <1>1, <1>2, <1>3, <1>4

\* cleanExpired and elapsing time keep the types and raise no count.
LEMMA CleanFacts ==
    ASSUME NEW K, NEW f \in [K -> Attempt]
    PROVE  /\ CleanExpired(f) \in [K -> Attempt] /\ Elapse(f) \in [K -> Attempt]
           /\ \A k \in K : /\ CleanExpired(f)[k] = IF f[k].left = 0 THEN None ELSE f[k]
                           /\ Elapse(f)[k].count = f[k].count
                           /\ CleanExpired(f)[k].count \in Nat /\ f[k].count \in Nat
                           /\ CleanExpired(f)[k].count <= f[k].count
                           /\ f[k].left \in 0..window
<1>0. None \in Attempt /\ None.count = 0 /\ None.left = 0
  BY LimiterAssumption DEF None, Attempt
<1>1. DOMAIN f = K OBVIOUS
<1>2. ASSUME NEW k \in K
      PROVE  /\ CleanExpired(f)[k] = IF f[k].left = 0 THEN None ELSE f[k]
             /\ CleanExpired(f)[k] \in Attempt
             /\ Elapse(f)[k] \in Attempt /\ Elapse(f)[k].count = f[k].count
             /\ f[k].count \in Nat /\ f[k].left \in 0..window
  <2>1. f[k] \in Attempt /\ f[k].count \in Nat /\ f[k].left \in 0..window BY DEF Attempt
  <2>2. CleanExpired(f)[k] = IF f[k].left = 0 THEN None ELSE f[k] BY <1>1 DEF CleanExpired
  <2>3. Elapse(f)[k] = IF f[k].left = 0 THEN f[k] ELSE [f[k] EXCEPT !.left = @ - 1]
    BY <1>1 DEF Elapse
  <2>4. [f[k] EXCEPT !.left = @ - 1].count = f[k].count BY <2>1 DEF Attempt
  <2>5. f[k].left # 0 => [f[k] EXCEPT !.left = @ - 1] \in Attempt
    BY <2>1, LimiterAssumption DEF Attempt
  <2>6. QED BY <1>0, <2>1, <2>2, <2>3, <2>4, <2>5
<1>3. CleanExpired(f) = [k \in K |-> CleanExpired(f)[k]] /\ Elapse(f) = [k \in K |-> Elapse(f)[k]]
  BY <1>1 DEF CleanExpired, Elapse
<1>4. CleanExpired(f) \in [K -> Attempt] /\ Elapse(f) \in [K -> Attempt]
  BY <1>2, <1>3
<1>5. ASSUME NEW k \in K
      PROVE  CleanExpired(f)[k].count \in Nat /\ CleanExpired(f)[k].count <= f[k].count
  BY <1>0, <1>2
<1>6. QED BY <1>2, <1>4, <1>5

\* A counter that does not grow stays within its bound as requests end.
LEMMA WithinKept ==
    ASSUME NEW n \in Nat, NEW m \in Nat, m <= n, NEW S \in SUBSET Login, NEW T \in SUBSET S,
           NEW limit \in Nat, Within(n, S, limit)
    PROVE  Within(m, T, limit)
<1>1. Cardinality(T) <= Cardinality(S) /\ Cardinality(T) \in Nat
  BY LoginSets, FS_Subset, FS_CardinalityType
<1>2. QED BY <1>1, LoginSets DEF Within

\* A request that is let through finds its counter below the limit.
LEMMA WithinAllowed ==
    ASSUME NEW n \in Nat, NEW S \in SUBSET Login, NEW r \in Login \ S, NEW limit \in Nat \ {0}, n < limit
    PROVE  Within(n, S \cup {r}, limit)
BY LoginSets DEF Within

\* A failure moves from those on their way to the count.
LEMMA WithinCounted ==
    ASSUME NEW n \in Nat, NEW m \in Nat, m <= n + 1, NEW S \in SUBSET Login, NEW r \in S,
           NEW limit \in Nat \ {0}, Within(n, S, limit)
    PROVE  Within(m, S \ {r}, limit)
BY LoginSets DEF Within

\* What one field's counters and requests do in a step: requests may end and
\* counts shrink, one request may be let through, one may fail.
Moves(f, g, field, keys, limit) ==
    \A k \in keys :
       \/ g[k].count <= f[k].count /\ Comparing(field, k)' \subseteq Comparing(field, k)
       \/ \E r \in Login \ Comparing(field, k) :
            g[k].count < limit /\ Comparing(field, k)' = Comparing(field, k) \cup {r}
       \/ \E r \in Comparing(field, k) :
            /\ g[k].count <= f[k].count + 1
            /\ Comparing(field, k)' = Comparing(field, k) \ {r}

\* Such steps keep the bound of the field.
LEMMA FieldKept ==
    ASSUME NEW K, NEW f \in [K -> Attempt], NEW g \in [K -> Attempt], NEW field, NEW limit \in Nat \ {0},
           FieldBounded(f, field, K, limit), Moves(f, g, field, K, limit)
    PROVE  \A k \in K : Within(g[k].count, Comparing(field, k)', limit)
<1> SUFFICES ASSUME NEW k \in K PROVE Within(g[k].count, Comparing(field, k)', limit)
  OBVIOUS
<1>1. /\ f[k].count \in Nat /\ g[k].count \in Nat /\ Comparing(field, k) \in SUBSET Login
      /\ Within(f[k].count, Comparing(field, k), limit)
  BY DEF Attempt, Comparing, FieldBounded
<1>2. CASE g[k].count <= f[k].count /\ Comparing(field, k)' \subseteq Comparing(field, k)
  BY <1>1, <1>2, WithinKept
<1>3. ASSUME NEW r \in Login \ Comparing(field, k), g[k].count < limit,
             Comparing(field, k)' = Comparing(field, k) \cup {r}
      PROVE  Within(g[k].count, Comparing(field, k)', limit)
  BY <1>1, <1>3, WithinAllowed
<1>4. ASSUME NEW r \in Comparing(field, k), g[k].count <= f[k].count + 1,
             Comparing(field, k)' = Comparing(field, k) \ {r}
      PROVE  Within(g[k].count, Comparing(field, k)', limit)
  BY <1>1, <1>4, WithinCounted
<1>5. QED BY <1>2, <1>3, <1>4 DEF Moves

\* Nobody has failed at first.
LEMMA LimiterStarts == LimiterInit => LimiterInv
<1> SUFFICES ASSUME LimiterInit PROVE LimiterInv
  OBVIOUS
<1>1. None \in Attempt /\ None.count = 0 BY LimiterAssumption DEF None, Attempt
<1>2. LimiterTypeOK BY <1>1 DEF LimiterInit, LimiterTypeOK
<1>3. \A field, value : Comparing(field, value) = {} BY DEF LimiterInit, Comparing
<1>4. Cardinality(Login) \in Nat \ {0} /\ \A field, value : Cardinality(Comparing(field, value)) = 0
  BY <1>3, LoginSets, FS_EmptySet
<1>5. \A a \in Account : accounts[a].count = 0
  BY <1>1 DEF LimiterInit
<1>6. \A i \in IP : ips[i].count = 0
  BY <1>1 DEF LimiterInit
<1>7. FailuresAreBounded
  BY <1>4, <1>5, <1>6, LimiterAssumption DEF FailuresAreBounded
<1>8. QED BY <1>2, <1>7 DEF LimiterInv

\* The next attempt counts one more, or starts at one.
LEMMA NextAttemptFacts ==
    ASSUME NEW x \in Attempt
    PROVE  /\ NextLoginAttempt(x) \in Attempt
           /\ NextLoginAttempt(x).count <= x.count + 1
<1>1. x.count \in Nat /\ x.left \in 0..window BY DEF Attempt
<1>2. CASE x.left = 0 BY <1>1, <1>2, LimiterAssumption DEF NextLoginAttempt, Attempt
<1>3. CASE x.left # 0 BY <1>1, <1>3 DEF NextLoginAttempt, Attempt
<1>4. QED BY <1>2, <1>3

\* Every critical section of the limiter keeps the bounds.
LEMMA LimiterStep == LimiterInv /\ [LimiterNext]_limiterVars => LimiterInv'
<1> SUFFICES ASSUME LimiterInv, [LimiterNext]_limiterVars PROVE LimiterInv'
  OBVIOUS
<1> DEFINE Req == [account: Account, ip: IP]
<1>ty. /\ accounts \in [Account -> Attempt] /\ ips \in [IP -> Attempt]
       /\ request \in [Login -> Req \cup {NoLogin}] /\ NoLogin \notin Req
       /\ FieldBounded(accounts, "account", Account, accountLimit)
       /\ FieldBounded(ips, "ip", IP, ipLimit)
       /\ accountLimit \in Nat \ {0} /\ ipLimit \in Nat \ {0}
  BY LimiterAssumption, BoundedByField DEF LimiterInv, LimiterTypeOK
<1>fold. ASSUME accounts' \in [Account -> Attempt], ips' \in [IP -> Attempt],
                request' \in [Login -> Req \cup {NoLogin}],
                \A k \in Account : Within(accounts'[k].count, Comparing("account", k)', accountLimit),
                \A k \in IP : Within(ips'[k].count, Comparing("ip", k)', ipLimit)
         PROVE  LimiterInv'
  BY <1>fold DEF LimiterInv, LimiterTypeOK, FailuresAreBounded, Within
<1>1. ASSUME NEW r \in Login, NEW a \in Account, NEW i \in IP, Allow(r, a, i) PROVE LimiterInv'
  <2>1. /\ accounts' = CleanExpired(accounts) /\ ips' = CleanExpired(ips) /\ request[r] = NoLogin
        /\ accounts' \in [Account -> Attempt] /\ ips' \in [IP -> Attempt]
        /\ \A k \in Account : accounts'[k].count <= accounts[k].count
        /\ \A k \in IP : ips'[k].count <= ips[k].count
    BY <1>1, <1>ty, CleanFacts DEF Allow
  <2>2. CASE Limited(a, i)
    <3>1. request' = request BY <1>1, <2>2 DEF Allow
    <3>2. \A field, k : Comparing(field, k)' = Comparing(field, k) BY <3>1 DEF Comparing
    <3>3. \A k \in Account : Within(accounts'[k].count, Comparing("account", k)', accountLimit)
      <4>1. Moves(accounts, accounts', "account", Account, accountLimit)
        BY <2>1, <3>2 DEF Moves
      <4>2. accounts' \in [Account -> Attempt] BY <2>1
      <4>3. QED BY <1>ty, <4>1, <4>2, FieldKept
    <3>4. \A k \in IP : Within(ips'[k].count, Comparing("ip", k)', ipLimit)
      <4>1. Moves(ips, ips', "ip", IP, ipLimit)
        BY <2>1, <3>2 DEF Moves
      <4>2. ips' \in [IP -> Attempt] BY <2>1
      <4>3. QED BY <1>ty, <4>1, <4>2, FieldKept
    <3>5. QED BY <1>ty, <1>fold, <2>1, <3>1, <3>3, <3>4
  <2>3. CASE ~Limited(a, i)
    <3>1. PICK q \in Req : q = [account |-> a, ip |-> i] OBVIOUS
    <3>2. request' = [request EXCEPT ![r] = q] /\ request' \in [Login -> Req \cup {NoLogin}]
      BY <1>1, <1>ty, <2>3, <3>1 DEF Allow
    <3>3. \A k \in Account : Comparing("account", k)' =
             IF k = a THEN Comparing("account", k) \cup {r} ELSE Comparing("account", k)
      BY <1>ty, <2>1, <3>1, <3>2 DEF Comparing
    <3>4. \A k \in IP : Comparing("ip", k)' =
             IF k = i THEN Comparing("ip", k) \cup {r} ELSE Comparing("ip", k)
      BY <1>ty, <2>1, <3>1, <3>2 DEF Comparing
    <3>5. \A field, k : r \in Login \ Comparing(field, k) BY <2>1 DEF Comparing
    <3>6. accounts'[a].count < accountLimit /\ ips'[i].count < ipLimit
      <4>1. accounts'[a] = (IF accounts[a].left = 0 THEN None ELSE accounts[a]) /\ accounts[a].count \in Nat
            /\ accounts[a].left \in 0..window
        BY <1>ty, <2>1, CleanFacts
      <4>2. ips'[i] = (IF ips[i].left = 0 THEN None ELSE ips[i]) /\ ips[i].count \in Nat
            /\ ips[i].left \in 0..window
        BY <1>ty, <2>1, CleanFacts
      <4>3. None.count = 0 BY DEF None
      <4>4. QED BY <1>ty, <2>3, <4>1, <4>2, <4>3, LimiterAssumption DEF Limited, Exceeded
    <3>7. \A k \in Account : Within(accounts'[k].count, Comparing("account", k)', accountLimit)
      <4>1. Moves(accounts, accounts', "account", Account, accountLimit)
        BY <2>1, <3>3, <3>5, <3>6 DEF Moves
      <4>2. accounts' \in [Account -> Attempt] BY <2>1
      <4>3. QED BY <1>ty, <4>1, <4>2, FieldKept
    <3>8. \A k \in IP : Within(ips'[k].count, Comparing("ip", k)', ipLimit)
      <4>1. Moves(ips, ips', "ip", IP, ipLimit)
        BY <2>1, <3>4, <3>5, <3>6 DEF Moves
      <4>2. ips' \in [IP -> Attempt] BY <2>1
      <4>3. QED BY <1>ty, <4>1, <4>2, FieldKept
    <3>9. QED BY <1>fold, <2>1, <3>2, <3>7, <3>8
  <2>4. QED BY <2>2, <2>3
<1>2. ASSUME NEW r \in Login, request[r] # NoLogin, request' = [request EXCEPT ![r] = NoLogin]
      PROVE  \E a \in Account, i \in IP :
               /\ request[r].account = a /\ request[r].ip = i
               /\ request' \in [Login -> Req \cup {NoLogin}]
               /\ \A k \in Account : Comparing("account", k)' =
                    IF k = a THEN Comparing("account", k) \ {r} ELSE Comparing("account", k)
               /\ \A k \in IP : Comparing("ip", k)' =
                    IF k = i THEN Comparing("ip", k) \ {r} ELSE Comparing("ip", k)
               /\ r \in Comparing("account", a) /\ r \in Comparing("ip", i)
  <2>1. PICK a \in Account, i \in IP : request[r].account = a /\ request[r].ip = i
    BY <1>2, <1>ty
  <2>2. request' \in [Login -> Req \cup {NoLogin}] BY <1>2, <1>ty
  <2>3. \A k \in Account : Comparing("account", k)' =
             IF k = a THEN Comparing("account", k) \ {r} ELSE Comparing("account", k)
    BY <1>2, <1>ty, <2>1 DEF Comparing
  <2>4. \A k \in IP : Comparing("ip", k)' =
             IF k = i THEN Comparing("ip", k) \ {r} ELSE Comparing("ip", k)
    BY <1>2, <1>ty, <2>1 DEF Comparing
  <2>5. r \in Comparing("account", a) /\ r \in Comparing("ip", i)
    BY <1>2, <2>1 DEF Comparing
  <2>6. QED BY <2>1, <2>2, <2>3, <2>4, <2>5
<1>3. ASSUME NEW r \in Login, RecordFailure(r) PROVE LimiterInv'
  <2>1. PICK a \in Account, i \in IP :
               /\ request[r].account = a /\ request[r].ip = i
               /\ request' \in [Login -> Req \cup {NoLogin}]
               /\ \A k \in Account : Comparing("account", k)' =
                    IF k = a THEN Comparing("account", k) \ {r} ELSE Comparing("account", k)
               /\ \A k \in IP : Comparing("ip", k)' =
                    IF k = i THEN Comparing("ip", k) \ {r} ELSE Comparing("ip", k)
               /\ r \in Comparing("account", a) /\ r \in Comparing("ip", i)
    BY <1>2, <1>3 DEF RecordFailure
  <2>2. PICK known \in [Account -> Attempt] : known = CleanExpired(accounts)
    BY <1>ty, CleanFacts
  <2>3. PICK seen \in [IP -> Attempt] : seen = CleanExpired(ips)
    BY <1>ty, CleanFacts
  <2>4. /\ accounts' = [known EXCEPT ![a] = NextLoginAttempt(known[a])]
        /\ ips' = [seen EXCEPT ![i] = NextLoginAttempt(seen[i])]
    BY <1>3, <2>1, <2>2, <2>3 DEF RecordFailure
  <2>5. accounts' \in [Account -> Attempt] /\ ips' \in [IP -> Attempt]
    BY <2>4, NextAttemptFacts
  <2>6. /\ \A k \in Account : known[k].count <= accounts[k].count /\ known[k].count \in Nat
                              /\ accounts[k].count \in Nat
        /\ \A k \in IP : seen[k].count <= ips[k].count /\ seen[k].count \in Nat /\ ips[k].count \in Nat
    BY <1>ty, <2>2, <2>3, CleanFacts
  <2>7. /\ \A k \in Account \ {a} : accounts'[k].count <= accounts[k].count
        /\ \A k \in IP \ {i} : ips'[k].count <= ips[k].count
    BY <2>4, <2>6
  <2>8. accounts'[a].count <= accounts[a].count + 1 /\ ips'[i].count <= ips[i].count + 1
    <3>1. accounts'[a] = NextLoginAttempt(known[a]) /\ ips'[i] = NextLoginAttempt(seen[i])
      BY <2>4
    <3>2. accounts'[a].count \in Nat /\ ips'[i].count \in Nat BY <2>5 DEF Attempt
    <3>3. accounts'[a].count <= known[a].count + 1 /\ ips'[i].count <= seen[i].count + 1
      BY <3>1, NextAttemptFacts
    <3>4. QED BY <2>6, <3>2, <3>3
  <2>9. \A k \in Account : Within(accounts'[k].count, Comparing("account", k)', accountLimit)
    <3>1. Moves(accounts, accounts', "account", Account, accountLimit)
      BY <2>1, <2>5, <2>7, <2>8 DEF Moves
    <3>2. accounts' \in [Account -> Attempt] BY <2>5
    <3>3. QED BY <1>ty, <3>1, <3>2, FieldKept
  <2>10. \A k \in IP : Within(ips'[k].count, Comparing("ip", k)', ipLimit)
    <3>1. Moves(ips, ips', "ip", IP, ipLimit)
      BY <2>1, <2>5, <2>7, <2>8 DEF Moves
    <3>2. ips' \in [IP -> Attempt] BY <2>5
    <3>3. QED BY <1>ty, <3>1, <3>2, FieldKept
  <2>11. QED BY <1>fold, <2>1, <2>5, <2>9, <2>10
<1>4. ASSUME NEW r \in Login, ClearAccount(r) PROVE LimiterInv'
  <2>1. PICK a \in Account, i \in IP :
               /\ request[r].account = a /\ request[r].ip = i
               /\ request' \in [Login -> Req \cup {NoLogin}]
               /\ \A k \in Account : Comparing("account", k)' =
                    IF k = a THEN Comparing("account", k) \ {r} ELSE Comparing("account", k)
               /\ \A k \in IP : Comparing("ip", k)' =
                    IF k = i THEN Comparing("ip", k) \ {r} ELSE Comparing("ip", k)
               /\ r \in Comparing("account", a) /\ r \in Comparing("ip", i)
    BY <1>2, <1>4 DEF ClearAccount
  <2>2. accounts' = [accounts EXCEPT ![a] = None] /\ ips' = ips
    BY <1>4, <2>1 DEF ClearAccount
  <2>3. None \in Attempt /\ None.count = 0 BY LimiterAssumption DEF None, Attempt
  <2>4. /\ accounts' \in [Account -> Attempt] /\ ips' \in [IP -> Attempt]
        /\ \A k \in Account : accounts'[k].count <= accounts[k].count
        /\ \A k \in IP : ips'[k].count <= ips[k].count
    <3>1. \A k \in Account : accounts[k].count \in Nat BY <1>ty DEF Attempt
    <3>2. \A k \in IP : ips[k].count \in Nat BY <1>ty DEF Attempt
    <3>3. QED BY <1>ty, <2>2, <2>3, <3>1, <3>2
  <2>5. \A k \in Account : Within(accounts'[k].count, Comparing("account", k)', accountLimit)
    <3>1. Moves(accounts, accounts', "account", Account, accountLimit)
      BY <2>1, <2>4 DEF Moves
    <3>2. accounts' \in [Account -> Attempt] BY <2>4
    <3>3. QED BY <1>ty, <3>1, <3>2, FieldKept
  <2>6. \A k \in IP : Within(ips'[k].count, Comparing("ip", k)', ipLimit)
    <3>1. Moves(ips, ips', "ip", IP, ipLimit)
      BY <2>1, <2>4 DEF Moves
    <3>2. ips' \in [IP -> Attempt] BY <2>4
    <3>3. QED BY <1>ty, <3>1, <3>2, FieldKept
  <2>7. QED BY <1>fold, <2>1, <2>4, <2>5, <2>6
<1>5. CASE Tick
  <2>1. /\ accounts' \in [Account -> Attempt] /\ ips' \in [IP -> Attempt] /\ request' = request
        /\ \A k \in Account : accounts'[k].count <= accounts[k].count
        /\ \A k \in IP : ips'[k].count <= ips[k].count
    BY <1>5, <1>ty, CleanFacts DEF Tick
  <2>2. \A field, k : Comparing(field, k)' = Comparing(field, k) BY <2>1 DEF Comparing
  <2>3. \A k \in Account : Within(accounts'[k].count, Comparing("account", k)', accountLimit)
    <3>1. Moves(accounts, accounts', "account", Account, accountLimit)
      BY <2>1, <2>2 DEF Moves
    <3>2. accounts' \in [Account -> Attempt] BY <2>1
    <3>3. QED BY <1>ty, <3>1, <3>2, FieldKept
  <2>4. \A k \in IP : Within(ips'[k].count, Comparing("ip", k)', ipLimit)
    <3>1. Moves(ips, ips', "ip", IP, ipLimit)
      BY <2>1, <2>2 DEF Moves
    <3>2. ips' \in [IP -> Attempt] BY <2>1
    <3>3. QED BY <1>ty, <3>1, <3>2, FieldKept
  <2>5. QED BY <1>ty, <1>fold, <2>1, <2>3, <2>4
<1>6. CASE UNCHANGED limiterVars
  BY <1>6 DEF limiterVars, LimiterInv, LimiterTypeOK, FailuresAreBounded, Comparing
<1>7. QED BY <1>1, <1>3, <1>4, <1>5, <1>6 DEF LimiterNext

\* The limits on failed logins hold up to the requests let through together, for
\* any limits, window, accounts, addresses and number of request goroutines.
THEOREM LimiterHolds == LimiterSpec => []LimiterInv
BY LimiterStarts, LimiterStep, PTL DEF LimiterSpec

(***************************************************************************)
(* The asset library.  A file is there before its row, a row in memory     *)
(* before it is in the document, and the document is never ahead of        *)
(* memory: with the order in which a handler makes them, and what its file *)
(* may hold meanwhile, that is inductive.                                  *)
(***************************************************************************)

Listing == [Upload -> Name \cup {NoAsset}]
Index == [Name -> Upload \cup {NoAsset}]
TaskTable == [Task -> [asset: Upload \cup {NoAsset},
                       status: {"none", "queued", "leased", "unknown", "success", "failed"}]]

\* Types, with what AssetTypeOK leaves open.  "garbage" never gets past the checksum.
LibraryTypes ==
    /\ handler \in [Upload -> [at: {"idle", "received", "renamed", "created", "done"},
                               name: Name \cup {NoAsset}]]
    /\ \A u \in Upload : handler[u].at # "idle" => handler[u].name \in Name
    /\ tasks \in TaskTable
    /\ disk \in [assets: Listing, byName: Index, tasks: TaskTable]
    /\ \A t \in Task : /\ tasks[t].status # "none" => tasks[t].asset \in Upload
                       /\ disk.tasks[t].status # "none" => disk.tasks[t].asset \in Upload
    /\ run \in [Task -> {"none", "started", "installed", "failed"}]

\* A blob file is named after its content.
BlobsAreOwn == \A p \in Upload \cup Name : blob[p] # NoAsset => blob[p] = p /\ p \in Upload

\* A name that is taken leads to the asset that has it.
NamesLead ==
    \A n \in Name : /\ byName[n] # NoAsset => assets[byName[n]] = n
                    /\ disk.byName[n] # NoAsset => disk.assets[disk.byName[n]] = n

\* Content, then row: an upload that has no row yet is in no listing, and the file
\* of one that is about to be listed is there.
UploadsInOrder ==
    \A u \in Upload :
       /\ At(u, "idle") \/ At(u, "received") => blob[u] = NoAsset
       /\ At(u, "renamed") => blob[u] = u
       /\ At(u, "idle") \/ At(u, "received") \/ At(u, "renamed") =>
            assets[u] = NoAsset /\ disk.assets[u] = NoAsset

\* The document is not ahead of memory.
SuccessWasInMemory ==
    \A t \in Task : disk.tasks[t].status = "success" => tasks[t].status = "success"

AssetIndInv ==
    /\ LibraryInv
    /\ LibraryTypes
    /\ BlobsAreOwn
    /\ NamesLead
    /\ UploadsInOrder
    /\ SuccessWasInMemory

\* The library is empty at first.
LEMMA LibraryStarts == AssetInit => AssetIndInv
<1> SUFFICES ASSUME AssetInit PROVE AssetIndInv
  OBVIOUS
<1> USE LibraryAssumption DEF AssetInit, NoTask
<1>1. AssetTypeOK BY DEF AssetTypeOK
<1>2. LibraryTypes BY DEF LibraryTypes, Listing, Index, TaskTable
<1>3. ListedHasContent /\ TasksKeepTheirAsset /\ NoStrayFiles /\ SuccessIsTheChosenFile
  BY DEF ListedHasContent, TasksKeepTheirAsset, NoStrayFiles, SuccessIsTheChosenFile
<1>4. BlobsAreOwn /\ NamesLead /\ UploadsInOrder /\ SuccessWasInMemory
  BY DEF BlobsAreOwn, NamesLead, UploadsInOrder, SuccessWasInMemory, At
<1>5. QED BY <1>1, <1>2, <1>3, <1>4 DEF AssetIndInv, LibraryInv

\* ListedHasContent without the records it quantifies over.
LEMMA ListedParts ==
    ListedHasContent <=>
      \A u \in Upload :
         /\ assets[u] # NoAsset => blob[u] = u /\ byName[assets[u]] = u
         /\ disk.assets[u] # NoAsset => blob[u] = u /\ disk.byName[disk.assets[u]] = u
<1> DEFINE M == [assets |-> assets, byName |-> byName]
           D == [assets |-> disk.assets, byName |-> disk.byName]
           Good(lib, u) == lib.assets[u] # NoAsset => blob[u] = u /\ lib.byName[lib.assets[u]] = u
<1>1. ListedHasContent <=> \A lib \in {M, D}, u \in Upload : Good(lib, u)
  BY DEF ListedHasContent, BlobPath
<1>2. (\A lib \in {M, D}, u \in Upload : Good(lib, u)) <=> (\A u \in Upload : Good(M, u) /\ Good(D, u))
  OBVIOUS
<1>3. \A u \in Upload : /\ Good(M, u) <=> (assets[u] # NoAsset => blob[u] = u /\ byName[assets[u]] = u)
                        /\ Good(D, u) <=> (disk.assets[u] # NoAsset => blob[u] = u /\ disk.byName[disk.assets[u]] = u)
  OBVIOUS
<1>4. QED BY <1>1, <1>2, <1>3

\* The invariant in the form its steps use.
LEMMA LibraryFacts ==
    ASSUME AssetIndInv
    PROVE  /\ handler \in [Upload -> [at: {"idle", "received", "renamed", "created", "done"},
                                      name: Name \cup {NoAsset}]]
           /\ blob \in [Upload \cup Name -> Upload \cup {NoAsset}]
           /\ assets \in Listing /\ byName \in Index /\ tasks \in TaskTable
           /\ disk \in [assets: Listing, byName: Index, tasks: TaskTable]
           /\ NoAsset \notin Upload \cup Name /\ Upload \cap Name = {}
BY LibraryAssumption DEF AssetIndInv, LibraryInv, LibraryTypes, AssetTypeOK, Listing, Index

\* A handler that moves without touching listings: what it has to show of its file.
LEMMA HandlerMoves ==
    ASSUME AssetIndInv, NEW u \in Upload, NEW h \in [at: {"received", "renamed", "done"}, name: Name],
           handler' = [handler EXCEPT ![u] = h],
           temporary' \subseteq Upload, temporary' \ {u} \subseteq temporary,
           restarts = 0 => (u \in temporary' => h.at = "received"),
           NEW c \in {u, NoAsset}, blob' = [blob EXCEPT ![u] = c],
           h.at = "received" => c = NoAsset /\ handler[u].at = "idle",
           h.at = "renamed" => c = u /\ handler[u].at = "received",
           h.at = "done" => c = NoAsset /\ handler[u].at \in {"received", "renamed"},
           UNCHANGED <<assets, byName, path, taskVars, disk, unsaved, restarts>>
    PROVE  AssetIndInv'
<1> USE LibraryFacts
<1>1. handler'[u] = h /\ \A v \in Upload \ {u} : handler'[v] = handler[v]
  OBVIOUS
<1>2. blob'[u] = c /\ \A p \in (Upload \cup Name) \ {u} : blob'[p] = blob[p]
  OBVIOUS
<1>3. assets[u] = NoAsset /\ disk.assets[u] = NoAsset
  BY DEF AssetIndInv, UploadsInOrder, At
<1>4. AssetTypeOK'
  BY <1>1, <1>2 DEF AssetIndInv, LibraryInv, AssetTypeOK
<1>5. LibraryTypes'
  BY <1>1 DEF AssetIndInv, LibraryTypes, taskVars
<1>6. ListedHasContent'
  <2>1. \A v \in Upload : assets[v] # NoAsset \/ disk.assets[v] # NoAsset => v # u
    BY <1>3
  <2>2. QED BY <1>2, <2>1, ListedParts DEF AssetIndInv, LibraryInv, ListedHasContent, BlobPath
<1>7. TasksKeepTheirAsset' /\ SuccessIsTheChosenFile' /\ SuccessWasInMemory' /\ NamesLead'
  BY DEF AssetIndInv, LibraryInv, TasksKeepTheirAsset, SuccessIsTheChosenFile, SuccessWasInMemory,
     NamesLead, taskVars
<1>8. BlobsAreOwn'
  BY <1>2 DEF AssetIndInv, BlobsAreOwn
<1>9. UploadsInOrder'
  BY <1>1, <1>2, <1>3 DEF AssetIndInv, UploadsInOrder, At
<1>10. NoStrayFiles'
  BY <1>1, <1>2 DEF AssetIndInv, LibraryInv, NoStrayFiles, At, BlobsAreOwn
<1>11. QED
  BY <1>4, <1>5, <1>6, <1>7, <1>8, <1>9, <1>10 DEF AssetIndInv, LibraryInv

\* The steps of an upload handler keep the invariant.
LEMMA UploadStep ==
    ASSUME AssetIndInv, NEW u \in Upload,
           \/ \E n \in Name : Receive(u, n)
           \/ ReceiveFails(u) \/ Rename(u) \/ CreateAsset(u) \/ RefuseAsset(u) \/ UploadReturns(u)
    PROVE  AssetIndInv'
<1> USE LibraryFacts
<1>ord. /\ At(u, "idle") \/ At(u, "received") => blob[u] = NoAsset
        /\ At(u, "renamed") => blob[u] = u
        /\ At(u, "idle") \/ At(u, "received") \/ At(u, "renamed") =>
             assets[u] = NoAsset /\ disk.assets[u] = NoAsset
        /\ ~At(u, "idle") => handler[u].name \in Name
  BY DEF AssetIndInv, UploadsInOrder, LibraryTypes, At
<1>rec. \A step \in {"renamed", "done"} :
          [handler EXCEPT ![u].at = step] = [handler EXCEPT ![u] = [at |-> step, name |-> handler[u].name]]
  <2> SUFFICES ASSUME NEW step \in {"renamed", "done"}
               PROVE  [handler[u] EXCEPT !.at = step] = [at |-> step, name |-> handler[u].name]
    OBVIOUS
  <2> QED OBVIOUS
<1>tmp. temporary \subseteq Upload BY DEF AssetIndInv, LibraryInv, AssetTypeOK
<1>1. ASSUME NEW n \in Name, Receive(u, n) PROVE AssetIndInv'
  <2>1. PICK h \in [at: {"received", "renamed", "done"}, name: Name] : h = [at |-> "received", name |-> n]
    OBVIOUS
  <2>2. blob' = [blob EXCEPT ![u] = NoAsset]
    BY <1>1, <1>ord DEF Receive, At
  <2>3. /\ handler' = [handler EXCEPT ![u] = h] /\ handler[u].at = "idle" /\ h.at = "received"
        /\ temporary' \subseteq Upload /\ temporary' \ {u} \subseteq temporary
        /\ UNCHANGED <<assets, byName, path, taskVars, disk, unsaved, restarts>>
    BY <1>1, <1>tmp, <2>1 DEF Receive, At
  <2>4. PICK c \in {u, NoAsset} : c = NoAsset OBVIOUS
  <2>5. QED BY <2>2, <2>3, <2>4, HandlerMoves
<1>2. CASE ReceiveFails(u)
  <2>1. PICK h \in [at: {"received", "renamed", "done"}, name: Name] :
             h = [at |-> "done", name |-> handler[u].name] /\ handler' = [handler EXCEPT ![u] = h]
    <3>1. handler[u].name \in Name /\ handler' = [handler EXCEPT ![u].at = "done"]
      BY <1>2, <1>ord DEF ReceiveFails, HandlerAt, At
    <3>2. QED BY <1>rec, <3>1
  <2>2. blob' = [blob EXCEPT ![u] = NoAsset]
    BY <1>2, <1>ord DEF ReceiveFails, At
  <2>3. QED BY <1>2, <1>tmp, <2>1, <2>2, HandlerMoves DEF ReceiveFails, At
<1>3. CASE Rename(u)
  <2>1. PICK h \in [at: {"received", "renamed", "done"}, name: Name] :
             h = [at |-> "renamed", name |-> handler[u].name] /\ handler' = [handler EXCEPT ![u] = h]
    <3>1. handler[u].name \in Name /\ handler' = [handler EXCEPT ![u].at = "renamed"]
      BY <1>3, <1>ord DEF Rename, HandlerAt, At
    <3>2. QED BY <1>rec, <3>1
  <2>2. QED BY <1>3, <1>tmp, <2>1, HandlerMoves DEF Rename, At, BlobPath
<1>4. CASE RefuseAsset(u)
  <2>1. PICK h \in [at: {"received", "renamed", "done"}, name: Name] :
             h = [at |-> "done", name |-> handler[u].name] /\ handler' = [handler EXCEPT ![u] = h]
    <3>1. handler[u].name \in Name /\ handler' = [handler EXCEPT ![u].at = "done"]
      BY <1>4, <1>ord DEF RefuseAsset, HandlerAt, At
    <3>2. QED BY <1>rec, <3>1
  <2>2. restarts = 0 => u \notin temporary
    BY <1>4 DEF RefuseAsset, At, AssetIndInv, LibraryInv, NoStrayFiles
  <2>3. QED
    BY <1>4, <1>tmp, <2>1, <2>2, HandlerMoves DEF RefuseAsset, At, RefusedBlob, BlobPath
<1>5. CASE CreateAsset(u)
  <2> DEFINE n == handler[u].name
  <2>1. /\ n \in Name /\ byName[n] = NoAsset /\ assets[u] = NoAsset /\ blob[u] = u
        /\ handler' = [handler EXCEPT ![u].at = "created"]
        /\ assets' = [assets EXCEPT ![u] = n] /\ byName' = [byName EXCEPT ![n] = u]
        /\ path' = path \cup {u} /\ unsaved' = unsaved \cup {u}
        /\ UNCHANGED <<temporary, blob, tasks, grant, run, disk, restarts>>
    BY <1>5, <1>ord DEF CreateAsset, At, HandlerAt, Named, taskVars
  <2>2. assets'[u] = n /\ \A v \in Upload \ {u} : assets'[v] = assets[v] /\ assets[v] # n
    BY <2>1, ListedParts DEF AssetIndInv, LibraryInv, Listing
  <2>3. byName'[n] = u /\ \A m \in Name \ {n} : byName'[m] = byName[m] /\ byName[m] # u
    BY <2>1 DEF AssetIndInv, NamesLead, Index
  <2>4. /\ handler' \in [Upload -> [at: {"idle", "received", "renamed", "created", "done"},
                                    name: Name \cup {NoAsset}]]
        /\ handler'[u].at = "created" /\ handler'[u].name = n
        /\ \A v \in Upload \ {u} : handler'[v] = handler[v]
    BY <2>1
  <2>5. AssetTypeOK'
    BY <2>1, <2>4 DEF AssetIndInv, LibraryInv, AssetTypeOK
  <2>6. LibraryTypes'
    BY <2>1, <2>4 DEF AssetIndInv, LibraryTypes
  <2>7. ListedHasContent'
    <3>1. ASSUME NEW v \in Upload
          PROVE  /\ assets'[v] # NoAsset => blob'[v] = v /\ byName'[assets'[v]] = v
                 /\ disk'.assets[v] # NoAsset => blob'[v] = v /\ disk'.byName[disk'.assets[v]] = v
      BY <2>1, <2>2, <2>3, ListedParts DEF AssetIndInv, LibraryInv, Listing
    <3>2. QED BY <3>1 DEF ListedHasContent, BlobPath
  <2>8. NamesLead'
    BY <2>1, <2>2, <2>3 DEF AssetIndInv, NamesLead, Index
  <2>9. TasksKeepTheirAsset'
    BY <2>1, <2>2 DEF AssetIndInv, LibraryInv, TasksKeepTheirAsset, LibraryTypes
  <2>10. SuccessIsTheChosenFile' /\ SuccessWasInMemory' /\ BlobsAreOwn'
    BY <2>1 DEF AssetIndInv, LibraryInv, SuccessIsTheChosenFile, SuccessWasInMemory, BlobsAreOwn
  <2>11. UploadsInOrder'
    BY <2>1, <2>2, <2>4 DEF AssetIndInv, UploadsInOrder, At
  <2>12. NoStrayFiles'
    <3>1. ASSUME restarts' = 0, NEW v \in temporary' PROVE At(v, "received")'
      BY <1>5, <2>1, <2>4, <3>1, <1>tmp DEF AssetIndInv, LibraryInv, NoStrayFiles, At, CreateAsset
    <3>2. ASSUME restarts' = 0, NEW p \in Upload \cup Name, blob'[p] # NoAsset
          PROVE  assets'[blob'[p]] # NoAsset \/ handler'[blob'[p]].at = "renamed"
      <4>1. blob[p] = p /\ p \in Upload BY <2>1, <3>2 DEF AssetIndInv, BlobsAreOwn
      <4>2. p = u \/ assets[p] # NoAsset \/ handler[p].at = "renamed"
        BY <2>1, <3>2, <4>1 DEF AssetIndInv, LibraryInv, NoStrayFiles, At
      <4>3. QED BY <2>1, <2>2, <2>4, <4>1, <4>2 DEF At
    <3>3. QED BY <3>1, <3>2 DEF NoStrayFiles, At
  <2>13. QED
    BY <2>5, <2>6, <2>7, <2>8, <2>9, <2>10, <2>11, <2>12 DEF AssetIndInv, LibraryInv
<1>6. CASE UploadReturns(u)
  <2>1. /\ handler' \in [Upload -> [at: {"idle", "received", "renamed", "created", "done"},
                                    name: Name \cup {NoAsset}]]
        /\ handler'[u].at = "done" /\ handler'[u].name = handler[u].name /\ handler[u].at = "created"
        /\ \A v \in Upload \ {u} : handler'[v] = handler[v]
        /\ UNCHANGED <<temporary, blob, assets, byName, path, tasks, grant, run, disk, unsaved, restarts>>
    BY <1>6 DEF UploadReturns, HandlerAt, At, library, taskVars
  <2>2. AssetTypeOK' BY <2>1 DEF AssetIndInv, LibraryInv, AssetTypeOK
  <2>3. LibraryTypes' BY <2>1 DEF AssetIndInv, LibraryTypes
  <2>4. ListedHasContent' BY <2>1 DEF AssetIndInv, LibraryInv, ListedHasContent, BlobPath
  <2>5. NamesLead' /\ BlobsAreOwn' BY <2>1 DEF AssetIndInv, NamesLead, BlobsAreOwn
  <2>6. TasksKeepTheirAsset' /\ SuccessIsTheChosenFile' /\ SuccessWasInMemory'
    BY <2>1 DEF AssetIndInv, LibraryInv, TasksKeepTheirAsset, SuccessIsTheChosenFile, SuccessWasInMemory
  <2>7. UploadsInOrder' BY <2>1 DEF AssetIndInv, UploadsInOrder, At
  <2>8. NoStrayFiles'
    <3>1. ASSUME restarts' = 0, NEW v \in temporary' PROVE handler'[v].at = "received"
      BY <2>1, <3>1, <1>tmp DEF AssetIndInv, LibraryInv, NoStrayFiles, At
    <3>2. ASSUME restarts' = 0, NEW p \in Upload \cup Name, blob'[p] # NoAsset
          PROVE  assets'[blob'[p]] # NoAsset \/ handler'[blob'[p]].at = "renamed"
      <4>1. blob[p] = p /\ p \in Upload BY <2>1, <3>2 DEF AssetIndInv, BlobsAreOwn
      <4>2. assets[p] # NoAsset \/ handler[p].at = "renamed"
        BY <2>1, <3>2, <4>1 DEF AssetIndInv, LibraryInv, NoStrayFiles, At
      <4>3. QED BY <2>1, <4>1, <4>2
    <3>3. QED BY <3>1, <3>2 DEF NoStrayFiles, At
  <2>9. QED
    BY <2>2, <2>3, <2>4, <2>5, <2>6, <2>7, <2>8 DEF AssetIndInv, LibraryInv
<1>7. QED BY <1>1, <1>2, <1>3, <1>4, <1>5, <1>6

\* A write of the document, whatever it is made for, keeps the invariant: what is
\* written is the listing and the tasks of the same moment.
LEMMA PersistStep ==
    ASSUME AssetIndInv, NEW g \in Upload \cup Task, Persist(g)
    PROVE  AssetIndInv'
<1> USE LibraryFacts
<1>1. /\ disk' = disk \/ (disk'.assets = assets /\ disk'.byName = byName /\ disk'.tasks = tasks)
      /\ disk' \in [assets: Listing, byName: Index, tasks: TaskTable]
      /\ unsaved' \subseteq unsaved
      /\ UNCHANGED <<handler, temporary, blob, assets, byName, path, tasks, grant, run, restarts>>
  BY DEF Persist, Snapshot, library, taskVars
<1>2. AssetTypeOK' BY <1>1 DEF AssetIndInv, LibraryInv, AssetTypeOK
<1>3. LibraryTypes' BY <1>1 DEF AssetIndInv, LibraryTypes
<1>4. ListedHasContent'
  <2>1. ASSUME NEW v \in Upload
        PROVE  /\ assets'[v] # NoAsset => blob'[v] = v /\ byName'[assets'[v]] = v
               /\ disk'.assets[v] # NoAsset => blob'[v] = v /\ disk'.byName[disk'.assets[v]] = v
    BY <1>1, ListedParts DEF AssetIndInv, LibraryInv
  <2>2. QED BY <2>1 DEF ListedHasContent, BlobPath
<1>5. NamesLead' /\ BlobsAreOwn' BY <1>1 DEF AssetIndInv, NamesLead, BlobsAreOwn
<1>6. TasksKeepTheirAsset' /\ SuccessIsTheChosenFile' /\ SuccessWasInMemory'
  BY <1>1 DEF AssetIndInv, LibraryInv, TasksKeepTheirAsset, SuccessIsTheChosenFile, SuccessWasInMemory
<1>7. UploadsInOrder' BY <1>1 DEF AssetIndInv, UploadsInOrder, At
<1>8. NoStrayFiles' BY <1>1 DEF AssetIndInv, LibraryInv, NoStrayFiles, At
<1>9. QED
  BY <1>2, <1>3, <1>4, <1>5, <1>6, <1>7, <1>8 DEF AssetIndInv, LibraryInv

\* A restart keeps the invariant: the document is as consistent as memory was.
LEMMA RestartStep ==
    ASSUME AssetIndInv, Restart
    PROVE  AssetIndInv'
<1> USE LibraryFacts
<1>0. restarts \in 0..MaxRestarts /\ MaxRestarts \in Nat /\ unsaved \subseteq Upload \cup Task
  BY LibraryAssumption DEF AssetIndInv, LibraryInv, AssetTypeOK
<1>1. /\ restarts' = restarts + 1 /\ restarts < MaxRestarts
      /\ assets' = disk.assets /\ byName' = disk.byName /\ tasks' = disk.tasks /\ path' = {} /\ unsaved' = {}
      /\ UNCHANGED <<temporary, blob, disk, grant, run>>
      /\ \A u \in Upload : /\ handler[u].at = "idle" => handler'[u] = handler[u]
                           /\ handler[u].at # "idle" => handler'[u] = [handler[u] EXCEPT !.at = "done"]
      /\ handler' = [u \in Upload |-> handler'[u]]
  BY DEF Restart, At
<1>2. /\ handler' \in [Upload -> [at: {"idle", "received", "renamed", "created", "done"},
                                  name: Name \cup {NoAsset}]]
      /\ \A u \in Upload : handler'[u].at = (IF handler[u].at = "idle" THEN "idle" ELSE "done")
                           /\ handler'[u].name = handler[u].name
  <2>1. ASSUME NEW u \in Upload
        PROVE  /\ handler'[u] \in [at: {"idle", "received", "renamed", "created", "done"},
                                   name: Name \cup {NoAsset}]
               /\ handler'[u].at = (IF handler[u].at = "idle" THEN "idle" ELSE "done")
               /\ handler'[u].name = handler[u].name
    BY <1>1
  <2>2. QED BY <1>1, <2>1
<1>3. disk.assets \in Listing /\ disk.byName \in Index /\ disk.tasks \in TaskTable
  OBVIOUS
<1>4. AssetTypeOK'
  BY <1>0, <1>1, <1>2, <1>3 DEF AssetIndInv, LibraryInv, AssetTypeOK, Listing, Index
<1>5. LibraryTypes'
  BY <1>1, <1>2, <1>3 DEF AssetIndInv, LibraryTypes
<1>6. ListedHasContent'
  <2>1. ASSUME NEW v \in Upload
        PROVE  /\ assets'[v] # NoAsset => blob'[v] = v /\ byName'[assets'[v]] = v
               /\ disk'.assets[v] # NoAsset => blob'[v] = v /\ disk'.byName[disk'.assets[v]] = v
    BY <1>1, ListedParts DEF AssetIndInv, LibraryInv
  <2>2. QED BY <2>1 DEF ListedHasContent, BlobPath
<1>7. NamesLead' /\ BlobsAreOwn' BY <1>1 DEF AssetIndInv, NamesLead, BlobsAreOwn
<1>8. TasksKeepTheirAsset' /\ SuccessIsTheChosenFile' /\ SuccessWasInMemory'
  BY <1>1 DEF AssetIndInv, LibraryInv, TasksKeepTheirAsset, SuccessIsTheChosenFile, SuccessWasInMemory
<1>9. UploadsInOrder' BY <1>1, <1>2 DEF AssetIndInv, UploadsInOrder, At
<1>10. NoStrayFiles' BY <1>0, <1>1 DEF NoStrayFiles
<1>11. QED
  BY <1>4, <1>5, <1>6, <1>7, <1>8, <1>9, <1>10 DEF AssetIndInv, LibraryInv

\* Task t becomes s in memory and r on its device; the library stays as it is.
TaskBecomes(t, s, r) ==
    /\ assets[s.asset] # NoAsset
    /\ tasks' = [tasks EXCEPT ![t] = s] /\ run' = [run EXCEPT ![t] = r]
    /\ unsaved' \subseteq Upload \cup Task
    /\ s.status = "success" => r = "installed"
    /\ tasks[t].status # "success"
    /\ UNCHANGED <<handler, library, disk, restarts>>

\* Such a step keeps the invariant.
LEMMA TaskMoves ==
    ASSUME AssetIndInv, NEW t \in Task,
           NEW s \in [asset: Upload, status: {"queued", "leased", "unknown", "success", "failed"}],
           NEW r \in {"none", "started", "installed", "failed"}, TaskBecomes(t, s, r)
    PROVE  AssetIndInv'
<1> USE LibraryFacts
<1>1. UNCHANGED <<handler, temporary, blob, assets, byName, path, disk, restarts>>
  BY DEF TaskBecomes, library
<1>2. tasks' \in TaskTable /\ tasks'[t] = s /\ \A o \in Task \ {t} : tasks'[o] = tasks[o]
  BY DEF TaskBecomes, TaskTable
<1>3. /\ run' \in [Task -> {"none", "started", "installed", "failed"}]
      /\ run'[t] = r /\ \A o \in Task \ {t} : run'[o] = run[o]
  BY DEF TaskBecomes, AssetIndInv, LibraryTypes
<1>4. AssetTypeOK' BY <1>1 DEF TaskBecomes, AssetIndInv, LibraryInv, AssetTypeOK
<1>5. LibraryTypes' BY <1>1, <1>2, <1>3 DEF AssetIndInv, LibraryTypes
<1>6. ListedHasContent' BY <1>1 DEF AssetIndInv, LibraryInv, ListedHasContent, BlobPath
<1>7. NamesLead' /\ BlobsAreOwn' /\ UploadsInOrder'
  BY <1>1 DEF AssetIndInv, NamesLead, BlobsAreOwn, UploadsInOrder, At
<1>8. NoStrayFiles' BY <1>1 DEF AssetIndInv, LibraryInv, NoStrayFiles, At
<1>9. TasksKeepTheirAsset'
  BY <1>1, <1>2 DEF TaskBecomes, AssetIndInv, LibraryInv, TasksKeepTheirAsset
<1>10. SuccessIsTheChosenFile'
  BY <1>1, <1>2, <1>3 DEF TaskBecomes, AssetIndInv, LibraryInv, SuccessIsTheChosenFile
<1>11. SuccessWasInMemory'
  BY <1>1, <1>2 DEF TaskBecomes, AssetIndInv, SuccessWasInMemory
<1>12. QED
  BY <1>4, <1>5, <1>6, <1>7, <1>8, <1>9, <1>10, <1>11 DEF AssetIndInv, LibraryInv

\* The steps of a task keep the invariant.
LEMMA TaskStep ==
    ASSUME AssetIndInv, NEW t \in Task,
           \/ \E n \in Name : CreateTask(t, n)
           \/ HandOut(t) \/ Lose(t) \/ GrantExpires(t) \/ Fetch(t) \/ Report(t)
    PROVE  AssetIndInv'
<1> USE LibraryFacts
<1> DEFINE Status == {"queued", "leased", "unknown", "success", "failed"}
           Rec(x) == [asset |-> tasks[t].asset, status |-> x]
<1>ty. /\ run \in [Task -> {"none", "started", "installed", "failed"}]
       /\ tasks[t] \in [asset: Upload \cup {NoAsset}, status: Status \cup {"none"}]
       /\ tasks[t].status # "none" => tasks[t].asset \in Upload /\ assets[tasks[t].asset] # NoAsset
       /\ tasks[t].status = "success" => run[t] = "installed"
       /\ unsaved \subseteq Upload \cup Task
  BY DEF AssetIndInv, LibraryTypes, LibraryInv, TasksKeepTheirAsset, SuccessIsTheChosenFile, AssetTypeOK,
         TaskTable
<1>rec. \A x \in Status : [tasks EXCEPT ![t].status = x] = [tasks EXCEPT ![t] = Rec(x)]
  <2> SUFFICES ASSUME NEW x \in Status PROVE [tasks[t] EXCEPT !.status = x] = Rec(x)
    OBVIOUS
  <2> QED BY <1>ty
<1>1. ASSUME NEW n \in Name, CreateTask(t, n) PROVE AssetIndInv'
  <2>1. byName[n] \in Upload /\ assets[byName[n]] # NoAsset /\ tasks[t].status = "none"
    BY <1>1 DEF CreateTask, AssetIndInv, NamesLead, Index, NoTask
  <2>2. PICK s \in [asset: Upload, status: Status] : s = [asset |-> byName[n], status |-> "queued"]
    BY <2>1
  <2>3. run' = [run EXCEPT ![t] = "none"] BY <1>1, <1>ty DEF CreateTask
  <2>4. TaskBecomes(t, s, "none")
    <3>1. assets[s.asset] # NoAsset BY <2>1, <2>2
    <3>2. unsaved' \subseteq Upload \cup Task BY <1>1, <1>ty DEF CreateTask
    <3>3. s.status # "success" BY <2>2
    <3>4. UNCHANGED <<handler, library, disk, restarts>> BY <1>1 DEF CreateTask
    <3>5. tasks' = [tasks EXCEPT ![t] = s] /\ tasks[t].status # "success" BY <1>1, <2>1, <2>2 DEF CreateTask
    <3>6. QED BY <2>3, <3>1, <3>2, <3>3, <3>4, <3>5 DEF TaskBecomes
  <2>5. QED BY <2>4, TaskMoves
<1>2. CASE HandOut(t)
  <2>1. /\ tasks[t].status = "queued"
        /\ tasks' = [tasks EXCEPT ![t].status = "leased"] /\ run' = [run EXCEPT ![t] = "started"]
        /\ unsaved' = unsaved \cup {t}
        /\ UNCHANGED <<handler, library, disk, restarts>>
    BY <1>2, <1>ty DEF HandOut
  <2>2. PICK s \in [asset: Upload, status: Status] : s = Rec("leased") /\ tasks' = [tasks EXCEPT ![t] = s]
    BY <1>ty, <1>rec, <2>1
  <2>3. TaskBecomes(t, s, "started")
    <3>1. assets[s.asset] # NoAsset BY <1>ty, <2>1, <2>2
    <3>2. unsaved' \subseteq Upload \cup Task BY <1>ty, <2>1
    <3>3. s.status # "success" BY <2>2
    <3>4. run' = [run EXCEPT ![t] = "started"] BY <2>1
    <3>5. UNCHANGED <<handler, library, disk, restarts>> BY <2>1
    <3>6. tasks[t].status # "success" BY <2>1
    <3>7. QED BY <2>2, <3>1, <3>2, <3>3, <3>4, <3>5, <3>6 DEF TaskBecomes
  <2>4. QED BY <2>3, TaskMoves
<1>3. CASE Lose(t)
  <2>1. /\ tasks[t].status = "leased" /\ run' = [run EXCEPT ![t] = run[t]]
        /\ tasks' = [tasks EXCEPT ![t].status = "unknown"] /\ unsaved' = unsaved \cup {t}
        /\ UNCHANGED <<handler, library, disk, restarts>>
    BY <1>3, <1>ty DEF Lose
  <2>2. PICK s \in [asset: Upload, status: Status] : s = Rec("unknown") /\ tasks' = [tasks EXCEPT ![t] = s]
    BY <1>ty, <1>rec, <2>1
  <2>3. TaskBecomes(t, s, run[t])
    <3>1. assets[s.asset] # NoAsset BY <1>ty, <2>1, <2>2
    <3>2. unsaved' \subseteq Upload \cup Task BY <1>ty, <2>1
    <3>3. s.status = "success" => run[t] = "installed" BY <2>2
    <3>4. run' = [run EXCEPT ![t] = run[t]] BY <2>1
    <3>5. UNCHANGED <<handler, library, disk, restarts>> BY <2>1
    <3>6. tasks' = [tasks EXCEPT ![t] = s] /\ tasks[t].status # "success" BY <2>1, <2>2
    <3>7. QED BY <3>1, <3>2, <3>3, <3>4, <3>5, <3>6 DEF TaskBecomes
  <2>4. QED BY <1>ty, <2>3, TaskMoves
<1>4. CASE Report(t)
  <2>1. PICK x \in {"failed", "success"} :
           /\ x = (IF run[t] = "failed" THEN "failed" ELSE "success")
           /\ tasks' = [tasks EXCEPT ![t].status = x]
    BY <1>4 DEF Report
  <2>2. /\ tasks[t].status \in {"leased", "unknown"} /\ run' = [run EXCEPT ![t] = run[t]]
        /\ unsaved' = unsaved \cup {t} /\ run[t] \in {"installed", "failed"}
        /\ UNCHANGED <<handler, library, disk, restarts>>
    BY <1>4, <1>ty DEF Report
  <2>3. PICK s \in [asset: Upload, status: Status] : s = Rec(x) /\ tasks' = [tasks EXCEPT ![t] = s]
    BY <1>ty, <1>rec, <2>1, <2>2
  <2>4. TaskBecomes(t, s, run[t])
    <3>1. assets[s.asset] # NoAsset BY <1>ty, <2>2, <2>3
    <3>2. unsaved' \subseteq Upload \cup Task BY <1>ty, <2>2
    <3>3. s.status = "success" => run[t] = "installed" BY <2>1, <2>2, <2>3
    <3>4. run' = [run EXCEPT ![t] = run[t]] BY <2>2
    <3>5. UNCHANGED <<handler, library, disk, restarts>> BY <2>2
    <3>6. tasks' = [tasks EXCEPT ![t] = s] /\ tasks[t].status # "success" BY <2>2, <2>3
    <3>7. QED BY <3>1, <3>2, <3>3, <3>4, <3>5, <3>6 DEF TaskBecomes
  <2>5. QED BY <1>ty, <2>4, TaskMoves
<1>5. CASE GrantExpires(t) \/ Fetch(t)
  <2>1. UNCHANGED <<handler, temporary, blob, assets, byName, path, tasks, disk, unsaved, restarts>>
    BY <1>5 DEF GrantExpires, Fetch, library
  <2>2. /\ run' \in [Task -> {"none", "started", "installed", "failed"}]
        /\ \A o \in Task : tasks[o].status = "success" => run'[o] = "installed"
    <3>1. CASE GrantExpires(t)
      BY <3>1, <1>ty DEF GrantExpires, AssetIndInv, LibraryInv, SuccessIsTheChosenFile
    <3>2. CASE Fetch(t)
      <4>1. \E r \in {"installed", "failed"} : run' = [run EXCEPT ![t] = r]
        BY <3>2 DEF Fetch, Matches
      <4>2. run[t] = "started" BY <3>2 DEF Fetch
      <4>3. QED BY <1>ty, <4>1, <4>2 DEF AssetIndInv, LibraryInv, SuccessIsTheChosenFile
    <3>3. QED BY <1>5, <3>1, <3>2
  <2>3. AssetTypeOK' /\ SuccessIsTheChosenFile'
    BY <2>1, <2>2 DEF AssetIndInv, LibraryInv, AssetTypeOK, SuccessIsTheChosenFile
  <2>4. LibraryTypes' BY <2>1, <2>2 DEF AssetIndInv, LibraryTypes
  <2>5. ListedHasContent' /\ TasksKeepTheirAsset' /\ NoStrayFiles'
    BY <2>1 DEF AssetIndInv, LibraryInv, ListedHasContent, BlobPath, TasksKeepTheirAsset, NoStrayFiles, At
  <2>6. NamesLead' /\ BlobsAreOwn' /\ UploadsInOrder' /\ SuccessWasInMemory'
    BY <2>1 DEF AssetIndInv, NamesLead, BlobsAreOwn, UploadsInOrder, At, SuccessWasInMemory
  <2>7. QED BY <2>3, <2>4, <2>5, <2>6 DEF AssetIndInv, LibraryInv
<1>6. QED BY <1>1, <1>2, <1>3, <1>4, <1>5

\* Every step keeps the invariant of the library.
LEMMA LibraryStep == AssetIndInv /\ [AssetNext]_assetVars => AssetIndInv'
<1> SUFFICES ASSUME AssetIndInv, [AssetNext]_assetVars PROVE AssetIndInv'
  OBVIOUS
<1>1. CASE AssetNext
  BY <1>1, UploadStep, PersistStep, RestartStep, TaskStep DEF AssetNext
<1>2. CASE UNCHANGED assetVars
  BY <1>2
  DEF assetVars, AssetIndInv, LibraryInv, LibraryTypes, AssetTypeOK, ListedHasContent, BlobPath,
      TasksKeepTheirAsset, NoStrayFiles, SuccessIsTheChosenFile, NamesLead, BlobsAreOwn, UploadsInOrder,
      SuccessWasInMemory, At
<1>3. QED BY <1>1, <1>2

\* File, row, document and task agree for any uploads, names and tasks, and any
\* number of restarts between any two steps.
THEOREM LibraryIsConsistent == AssetSpec => []LibraryInv
<1>1. AssetIndInv => LibraryInv BY DEF AssetIndInv
<1>2. QED BY <1>1, LibraryStarts, LibraryStep, PTL DEF AssetSpec

(***************************************************************************)
(* The hub.  What a browser's goroutine has left to do is determined by    *)
(* the life of its socket, and only the goroutine itself takes its browser *)
(* out of the maps: so a request that is stored later finds the            *)
(* subscription, a start_audio finds the listener, and the cleanup leaves  *)
(* nothing.                                                                *)
(***************************************************************************)

Selection == Request \cup {Nothing}

\* The cleanup after removeAudioBrowser: stop_audio messages, then removeBrowser.
Stopping(q) ==
    /\ Len(q) > 0 /\ q[Len(q)] = Op("removeBrowser", NoDevice)
    /\ \A i \in 1..Len(q) - 1 : \E d \in Device : q[i] = Op("stopAudio", d)

\* The cleanup after removeBrowser: syncs, the first of which may have selected.
Syncing(q) ==
    \A i \in 1..Len(q) : \E d \in Device :
       q[i] = SyncPreview(d) \/ (i = 1 /\ \E m \in Selection : q[i] = SendPreview(d, m))

\* What an open browser's goroutine has left of the message in hand.
Handles(b) ==
    \/ todo[b] = <<>>
    \/ \E d \in Device :
       \/ \E fg, aw \in BOOLEAN : todo[b] = <<Ask(d, fg, aw), SyncPreview(d)>> /\ b \in previewSubscribers[d]
       \/ todo[b] = <<SyncPreview(d)>>
       \/ \E m \in Selection : todo[b] = <<SendPreview(d, m)>>
       \/ todo[b] = <<Op("startAudio", d)>> /\ b \in audioSubscribers[d]
       \/ todo[b] = <<Op("undoAudio", d)>>
       \/ todo[b] = <<Op("stopAudio", d)>>

Released(b) == \A d \in Device : d = bound[b] /\ up[d] => b \notin clients[d]
Silent(b) == \A d \in Device : b \notin audioSubscribers[d]
Unseen(b) == \A d \in Device : b \notin previewSubscribers[d] /\ previewRequests[d][b] = Nothing

Cleans(b) ==
    \/ todo[b] = <<Op("clientDisconnected", bound[b]), Op("removeAudioBrowser", NoDevice),
                   Op("removeBrowser", NoDevice)>>
    \/ todo[b] = <<Op("removeAudioBrowser", NoDevice), Op("removeBrowser", NoDevice)>> /\ Released(b)
    \/ Stopping(todo[b]) /\ Released(b) /\ Silent(b)

Lawful(b) ==
    /\ phase[b] = "new" => todo[b] = <<>>
    /\ phase[b] = "open" => Handles(b)
    /\ phase[b] = "closing" => Cleans(b)
    /\ phase[b] = "gone" => Syncing(todo[b]) /\ Released(b) /\ Silent(b) /\ Unseen(b)

TodoIsLawful == \A b \in Browser : Lawful(b)

\* Every request has an order of its own, given away by the counter.
OrdersAreUnique ==
    \A d \in Device, b, c \in Browser :
       previewRequests[d][b] # Nothing =>
          /\ previewRequests[d][b].order <= previewOrder
          /\ b # c /\ previewRequests[d][c] # Nothing =>
               previewRequests[d][b].order # previewRequests[d][c].order

\* Browsers about to store a request.
Asking == {c \in Browser : HasNext(c, "setPreviewRequest")}

OrdersSuffice == previewOrder + Cardinality(Asking) <= MaxRequests

\* An op is among those left to do.
Has(q, r) == \E i \in 1..Len(q) : q[i] = r

\* A sync of the device is to come; a browser has selected for it and not yet sent.
SyncIsDue(d) == \E b \in Browser : Has(todo[b], SyncPreview(d))
Sends(b, d) == HasNext(b, "sendPreview") /\ Head(todo[b]).device = d

\* Unless syncs raced or one is still due, the agent runs what is wanted, or the
\* only selection that is on its way says so.
Exact(d) ==
    ~raced[d] =>
       /\ \A b, c \in Browser : Sends(b, d) /\ Sends(c, d) => b = c
       /\ up[d] /\ ~SyncIsDue(d) =>
            /\ \A b \in Browser : Sends(b, d) => Head(todo[b]).message = Wanted(d)
            /\ (\A b \in Browser : ~Sends(b, d)) => told[d] = Wanted(d)

SyncsAreExact == \A d \in Device : Exact(d)

HubIndInv ==
    /\ HubTypeOK /\ TodoIsLawful /\ OrdersAreUnique /\ OrdersSuffice
    /\ RequestsAreSubscribed /\ SyncsAreExact /\ AudioIsWanted

(***************************************************************************)
(* Selection: the loop, in whatever order, finds the preferred request.    *)
(***************************************************************************)

\* A set of naturals has a least element.
LEMMA LeastNumber ==
    ASSUME NEW S \in SUBSET Nat, S # {}
    PROVE  \E x \in S : \A y \in S : x <= y
<1>1. \E x \in S : \A y \in S : ~(<<y, x>> \in OpToRel(<, Nat))
  BY NatLessThanWellFounded, WFMin
<1>2. PICK x \in S : \A y \in S : ~(<<y, x>> \in OpToRel(<, Nat))
  BY <1>1
<1>3. ASSUME NEW y \in S PROVE x <= y
  <2>1. <<y, x>> \in Nat \X Nat /\ <<y, x>>[1] = y /\ <<y, x>>[2] = x
    OBVIOUS
  <2>2. ~(y < x)
    BY <1>2, <2>1 DEF OpToRel
  <2>3. QED BY <2>2
<1>4. QED BY <1>3

\* The orders in which a finite set can be ranged over.
LEMMA RangeOrders ==
    ASSUME NEW rs, IsFiniteSet(rs)
    PROVE  /\ SetToSeqs(rs) # {}
           /\ \A s \in SetToSeqs(rs) :
                s \in Seq(rs) /\ \A r \in rs : \E i \in 1..Len(s) : s[i] = r
<1>1. Cardinality(rs) \in Nat /\ ExistsBijection(1..Cardinality(rs), rs) BY FS_CardinalityType
<1>2. PICK n \in Nat : n = Cardinality(rs) BY <1>1
<1>3. SetToSeqs(rs) = {f \in [1..n -> rs] : \A i, j \in 1..n : i # j => f[i] # f[j]}
  BY <1>2 DEF SetToSeqs
<1>4. SetToSeqs(rs) # {}
  <2>1. ExistsBijection(1..n, rs) BY <1>1, <1>2
  <2>2. PICK f \in [1..n -> rs] : \A i, j \in 1..n : f[i] = f[j] => i = j
    BY <2>1 DEF ExistsBijection, Bijection, Injection, IsInjective
  <2>3. QED BY <1>3, <2>2
<1>5. ASSUME NEW s \in SetToSeqs(rs)
      PROVE  s \in Seq(rs) /\ \A r \in rs : \E i \in 1..Len(s) : s[i] = r
  <2>1. s \in [1..n -> rs] /\ \A i, j \in 1..n : i # j => s[i] # s[j] BY <1>3
  <2>2. s \in Seq(rs) /\ Len(s) = n BY <2>1
  <2>3. s \in Injection(1..n, rs) BY <2>1 DEF Injection, IsInjective
  <2>4. Cardinality(1..n) = n
    <3>1. 1 \in Int /\ n \in Int /\ (IF 1 > n THEN 0 ELSE n - 1 + 1) = n BY <1>2
    <3>2. QED BY ONLY <3>1, FS_Interval
  <2>5. s \in Surjection(1..n, rs) BY <1>2, <2>3, <2>4, FS_Injection
  <2>6. QED BY <2>2, <2>5 DEF Surjection
<1>6. QED BY <1>4, <1>5

\* The loop is defined, whatever it ranges over.
LEMMA SelectingRuns ==
    ASSUME NEW s \in Seq(Request)
    PROVE  /\ Selecting(s)[0] = Nothing
           /\ \A i \in 1..Len(s) : Selecting(s)[i] = SelectStep(Selecting(s)[i - 1], s[i])
<1> DEFINE Run(n, g) == g = [i \in 0..n |-> IF i = 0 THEN Nothing ELSE SelectStep(g[i - 1], s[i])]
<1>len. Len(s) \in Nat OBVIOUS
<1>1. ASSUME NEW n \in Nat, NEW g, Run(n, g) PROVE \E h : Run(n + 1, h)
  <2>1. g = [i \in 0..n |-> IF i = 0 THEN Nothing ELSE SelectStep(g[i - 1], s[i])] BY <1>1
  <2>2. PICK h : h = [i \in 0..n + 1 |-> IF i = n + 1 THEN SelectStep(g[n], s[n + 1]) ELSE g[i]] OBVIOUS
  <2>3. \A i \in 0..n : h[i] = g[i] BY <2>2
  <2>4. h[n + 1] = SelectStep(h[n], s[n + 1]) /\ n + 1 # 0 BY <2>2, <2>3
  <2>5. ASSUME NEW i \in 0..n + 1
        PROVE  h[i] = IF i = 0 THEN Nothing ELSE SelectStep(h[i - 1], s[i])
    <3>1. CASE i = n + 1
      <4>1. i - 1 = n /\ i # 0 BY <3>1
      <4>2. QED BY <3>1, <4>1, <2>4
    <3>2. CASE i # n + 1
      <4>1. i \in 0..n /\ (i # 0 => i - 1 \in 0..n) BY <3>2
      <4>2. g[i] = IF i = 0 THEN Nothing ELSE SelectStep(g[i - 1], s[i]) BY <2>1, <4>1
      <4>3. QED BY <4>1, <4>2, <2>3
    <3>3. QED BY <3>1, <3>2
  <2>6. h = [i \in 0..n + 1 |-> h[i]] BY <2>2
  <2>7. Run(n + 1, h) BY <2>5, <2>6
  <2>8. QED BY <2>7
<1>2. \A n \in Nat : \E g : Run(n, g)
  <2> DEFINE Bad == {n \in Nat : ~\E g : Run(n, g)}
  <2>1. SUFFICES ASSUME Bad # {} PROVE FALSE OBVIOUS
  <2>2. Bad \in SUBSET Nat OBVIOUS
  <2>3. PICK n \in Bad : \A m \in Bad : n <= m
    <3> HIDE DEF Bad
    <3> QED BY <2>1, <2>2, LeastNumber
  <2>4. n # 0
    <3>1. PICK h : h = [i \in 0..0 |-> Nothing] OBVIOUS
    <3>2. h = [i \in 0..0 |-> IF i = 0 THEN Nothing ELSE SelectStep(h[i - 1], s[i])] BY <3>1
    <3>3. Run(0, h) BY <3>2
    <3>4. QED BY <3>3
  <2>5. n \in Nat /\ n - 1 \in Nat /\ n - 1 + 1 = n /\ ~(n <= n - 1) BY <2>4
  <2>6. PICK g : Run(n - 1, g) BY <2>3, <2>5
  <2>7. \E h : Run(n - 1 + 1, h)
    <3> HIDE DEF Run
    <3> QED BY <1>1, <2>5, <2>6
  <2>8. QED BY <2>5, <2>7
<1>3. PICK g : Run(Len(s), g) BY <1>2, <1>len
<1>4. PICK f : f = Selecting(s) OBVIOUS
<1>5. f = CHOOSE h : h = [i \in 0..Len(s) |-> IF i = 0 THEN Nothing ELSE SelectStep(h[i - 1], s[i])]
  BY <1>4 DEF Selecting
<1>6. f = [i \in 0..Len(s) |-> IF i = 0 THEN Nothing ELSE SelectStep(f[i - 1], s[i])]
  BY <1>3, <1>5
<1>7. f[0] = Nothing BY <1>6, <1>len
<1>8. \A i \in 1..Len(s) : f[i] = SelectStep(f[i - 1], s[i]) BY <1>6, <1>len
<1>9. QED BY <1>4, <1>7, <1>8

\* Request r is at least as good as q: foreground before background, then newer.
AtLeast(r, q) ==
    /\ q.foreground => r.foreground
    /\ (q.foreground <=> r.foreground) => q.order <= r.order

\* One turn keeps the best of what was seen.
LEMMA SelectStepFacts ==
    ASSUME NEW r \in Request, NEW sel \in Request \cup {Nothing}, NEW S \in SUBSET Request,
           sel = Nothing => S = {}, sel # Nothing => sel \in S /\ \A q \in S : AtLeast(sel, q),
           NEW t, t = SelectStep(sel, r)
    PROVE  t \in S \cup {r} /\ \A q \in S \cup {r} : AtLeast(t, q)
<1>ty. \A q \in Request : q.foreground \in BOOLEAN /\ q.order \in Nat
  BY HubAssumption DEF Request
<1>1. AtLeast(r, r) BY <1>ty DEF AtLeast
<1>2. CASE Replaces(sel, r)
  <2>1. t = r BY <1>2 DEF SelectStep
  <2>2. ASSUME NEW q \in S PROVE AtLeast(r, q)
    <3>1. sel \in Request /\ sel # Nothing /\ AtLeast(sel, q) BY <2>2
    <3>2. (r.foreground /\ ~sel.foreground) \/ ((r.foreground <=> sel.foreground) /\ r.order > sel.order)
      <4>1. r.foreground \in BOOLEAN /\ sel.foreground \in BOOLEAN BY <3>1, <1>ty
      <4>2. (r.foreground /\ ~sel.foreground)
              \/ (r.foreground = sel.foreground /\ r.order > sel.order)
        BY <1>2, <3>1 DEF Replaces
      <4>3. QED BY <4>1, <4>2
    <3>3. q.order \in Nat /\ sel.order \in Nat /\ r.order \in Nat BY <3>1, <1>ty
    <3>4. QED BY <3>1, <3>2, <3>3 DEF AtLeast
  <2>3. QED BY <2>1, <2>2, <1>1
<1>3. CASE ~Replaces(sel, r)
  <2>1. t = sel BY <1>3 DEF SelectStep
  <2>2. sel # Nothing /\ sel \in Request BY <1>3 DEF Replaces
  <2>3. AtLeast(sel, r)
    <3>1. r.foreground \in BOOLEAN /\ sel.foreground \in BOOLEAN /\ r.order \in Nat /\ sel.order \in Nat
      BY <2>2, <1>ty
    <3>2. /\ ~(r.foreground /\ ~sel.foreground)
          /\ ~(r.foreground = sel.foreground /\ r.order > sel.order)
      BY <1>3 DEF Replaces
    <3>3. QED BY <3>1, <3>2 DEF AtLeast
  <2>4. QED BY <2>1, <2>2, <2>3
<1>4. QED BY <1>2, <1>3

\* After the loop a best request is selected.
LEMMA SelectingFacts ==
    ASSUME NEW s \in Seq(Request), NEW n \in 1..Len(s)
    PROVE  /\ \E j \in 1..n : Selecting(s)[n] = s[j]
           /\ \A j \in 1..n : AtLeast(Selecting(s)[n], s[j])
<1>1. PICK f : f = Selecting(s) OBVIOUS
<1>2. f[0] = Nothing /\ \A i \in 1..Len(s) : f[i] = SelectStep(f[i - 1], s[i])
  BY <1>1, SelectingRuns
<1> DEFINE Seen(i) == {s[j] : j \in 1..i}
           Fine(i) == f[i] \in Seen(i) /\ \A q \in Seen(i) : AtLeast(f[i], q)
           Bad == {i \in 1..Len(s) : ~Fine(i)}
<1>len. Len(s) \in Nat /\ \A i \in 1..Len(s) : s[i] \in Request OBVIOUS
<1>3. Bad = {}
  <2>1. SUFFICES ASSUME Bad # {} PROVE FALSE OBVIOUS
  <2>2. Bad \in SUBSET Nat OBVIOUS
  <2>3. PICK i \in Bad : \A m \in Bad : i <= m
    <3> HIDE DEF Bad
    <3> QED BY <2>1, <2>2, LeastNumber
  <2>4. i \in 1..Len(s) /\ i \in Nat /\ i >= 1 /\ i - 1 \in Nat /\ ~(i <= i - 1) BY <1>len
  <2>p. i # 1 => i - 1 \in 1..Len(s) BY <2>4, <1>len
  <2>b. i - 1 \notin Bad
    <3> HIDE DEF Bad
    <3> QED BY <2>3, <2>4
  <2>5. PICK S : S = Seen(i - 1) OBVIOUS
  <2>6. S \in SUBSET Request
    <3>1. \A j \in 1..(i - 1) : j \in 1..Len(s) BY <2>4, <1>len
    <3>2. QED BY <3>1, <2>5, <1>len
  <2>7. f[i - 1] = Nothing => S = {}
    <3>1. SUFFICES ASSUME i # 1 PROVE f[i - 1] # Nothing
      <4>1. i = 1 => 1..(i - 1) = {} BY <2>4
      <4>2. QED BY <4>1, <2>5
    <3>2. i - 1 \in 1..Len(s) /\ i - 1 \notin Bad BY <3>1, <2>p, <2>b
    <3>3. f[i - 1] \in S BY <3>2, <2>5
    <3>4. QED BY <3>3, <2>6, HubAssumption
  <2>8. f[i - 1] # Nothing => f[i - 1] \in S /\ \A q \in S : AtLeast(f[i - 1], q)
    <3>1. SUFFICES ASSUME f[i - 1] # Nothing
                   PROVE  f[i - 1] \in S /\ \A q \in S : AtLeast(f[i - 1], q)
      OBVIOUS
    <3>2. i # 1 BY <3>1, <1>2
    <3>3. i - 1 \in 1..Len(s) /\ i - 1 \notin Bad BY <3>2, <2>p, <2>b
    <3>4. QED BY <3>3, <2>5
  <2>9. f[i] = SelectStep(f[i - 1], s[i]) /\ s[i] \in Request BY <1>2, <1>len, <2>4
  <2>10. PICK r \in Request : r = s[i] BY <2>9
  <2>11. PICK sel : sel = f[i - 1] OBVIOUS
  <2>12. sel \in Request \cup {Nothing} BY <2>6, <2>8, <2>11
  <2>13. PICK t : t = SelectStep(sel, r) OBVIOUS
  <2>14. t \in S \cup {r} /\ \A q \in S \cup {r} : AtLeast(t, q)
    <3>1. (sel = Nothing => S = {}) /\ (sel # Nothing => sel \in S /\ \A q \in S : AtLeast(sel, q))
      BY <2>7, <2>8, <2>11
    <3>2. QED BY ONLY <3>1, <2>12, <2>13, <2>6, r \in Request, SelectStepFacts
  <2>15. Seen(i) = S \cup {r}
    <3>1. \A j : j \in 1..i <=> (j \in 1..(i - 1) \/ j = i) BY <2>4
    <3>2. QED BY <3>1, <2>5, <2>10
  <2>16. f[i] = t BY <2>9, <2>10, <2>11, <2>13
  <2>17. Fine(i) BY <2>14, <2>15, <2>16
  <2>18. QED BY <2>17, <2>3
<1>4. Fine(n) BY <1>3
<1>5. QED BY <1>1, <1>4

\* Requests of different browsers have different orders.
Distinct(rs) == \A r, q \in rs : r.order = q.order => r = q

\* In whatever order the map is ranged over, the preferred request is selected.
LEMMA SelectionIsPreferred ==
    ASSUME NEW rs \in SUBSET Request, IsFiniteSet(rs), Distinct(rs)
    PROVE  {SelectedIn(s) : s \in SetToSeqs(rs)} = {Preferred(rs)}
<1> SUFFICES ASSUME NEW s \in SetToSeqs(rs) PROVE SelectedIn(s) = Preferred(rs)
  BY RangeOrders
<1>1. s \in Seq(rs) /\ \A r \in rs : \E i \in 1..Len(s) : s[i] = r BY RangeOrders
<1>2. s \in Seq(Request) /\ Len(s) \in Nat /\ \A i \in 1..Len(s) : s[i] \in rs BY <1>1
<1>3. PICK sel : sel = Selecting(s)[Len(s)] OBVIOUS
<1>4. PICK aw : aw = \E i \in 1..Len(s) : s[i].awake OBVIOUS
<1>5. SelectedIn(s) = IF sel = Nothing THEN Nothing ELSE [sel EXCEPT !.awake = aw]
  BY <1>3, <1>4 DEF SelectedIn
<1>6. CASE rs = {}
  <2>1. Len(s) = 0 BY <1>2, <1>6
  <2>2. sel = Nothing BY <1>2, <1>3, <2>1, SelectingRuns
  <2>3. Preferred(rs) = Nothing BY <1>6 DEF Preferred
  <2>4. QED BY <1>5, <2>2, <2>3
<1>7. CASE rs # {}
  <2>1. Len(s) \in 1..Len(s) BY <1>1, <1>2, <1>7
  <2>2. /\ \E j \in 1..Len(s) : sel = s[j]
        /\ \A j \in 1..Len(s) : AtLeast(sel, s[j])
    BY <1>2, <1>3, <2>1, SelectingFacts
  <2>3. sel \in rs /\ \A r \in rs : AtLeast(sel, r) BY <1>1, <1>2, <2>2
  <2>ty. \A q \in rs : q.foreground \in BOOLEAN /\ q.order \in Nat BY HubAssumption DEF Request
  <2>4. PICK top : top = IF \E r \in rs : r.foreground THEN {r \in rs : r.foreground} ELSE rs OBVIOUS
  <2>5. top \subseteq rs BY <2>4
  <2>6. sel \in top /\ \A q \in top : q.order <= sel.order
    BY <2>3, <2>4, <2>ty DEF AtLeast
  <2>7. \A r \in top : (\A q \in top : q.order <= r.order) => r = sel
    <3>1. SUFFICES ASSUME NEW r \in top, \A q \in top : q.order <= r.order PROVE r = sel OBVIOUS
    <3>2. sel.order <= r.order /\ r.order <= sel.order BY <2>6, <3>1
    <3>3. sel.order = r.order BY <3>2, <2>ty, <2>5, <2>6
    <3>4. QED BY <3>3, <2>5, <2>6 DEF Distinct
  <2>8. (CHOOSE r \in top : \A q \in top : q.order <= r.order) = sel BY <2>6, <2>7
  <2>9. aw = \E r \in rs : r.awake
    <3>1. (\E i \in 1..Len(s) : s[i].awake) = (\E r \in rs : r.awake) BY <1>1, <1>2
    <3>2. QED BY <3>1, <1>4
  <2>10. Preferred(rs) = [sel EXCEPT !.awake = aw] BY <1>7, <2>4, <2>8, <2>9 DEF Preferred
  <2>11. sel # Nothing BY <2>3, HubAssumption
  <2>12. QED BY <1>5, <2>10, <2>11
<1>8. QED BY <1>6, <1>7

\* What is preferred is a request, or nothing.
LEMMA PreferredType ==
    ASSUME NEW rs \in SUBSET Request, IsFiniteSet(rs), Distinct(rs)
    PROVE  Preferred(rs) \in Selection
<1>1. PICK s \in SetToSeqs(rs) : SelectedIn(s) = Preferred(rs) BY RangeOrders, SelectionIsPreferred
<1>2. s \in Seq(Request) BY <1>1, RangeOrders
<1>3. PICK sel : sel = Selecting(s)[Len(s)] OBVIOUS
<1>4. PICK aw : aw = \E i \in 1..Len(s) : s[i].awake OBVIOUS
<1>5. SelectedIn(s) = IF sel = Nothing THEN Nothing ELSE [sel EXCEPT !.awake = aw]
  BY <1>3, <1>4 DEF SelectedIn
<1>6. CASE Len(s) = 0
  <2>1. sel = Nothing BY <1>2, <1>3, <1>6, SelectingRuns
  <2>2. QED BY <1>1, <1>5, <2>1 DEF Selection
<1>7. CASE Len(s) # 0
  <2>1. Len(s) \in 1..Len(s) BY <1>2, <1>7
  <2>2. \E j \in 1..Len(s) : sel = s[j] BY <1>2, <1>3, <2>1, SelectingFacts
  <2>3. sel \in Request BY <1>2, <2>2
  <2>4. aw \in BOOLEAN BY <1>4
  <2>5. [sel EXCEPT !.awake = aw] \in Request BY ONLY <2>3, <2>4 DEF Request
  <2>6. QED BY <1>1, <1>5, <2>5 DEF Selection
<1>8. QED BY <1>6, <1>7

(***************************************************************************)
(* The handlers.                                                           *)
(***************************************************************************)

\* What the ops are made of.
LEMMA OpFacts ==
    ASSUME NEW d \in Device \cup {NoDevice},
           NEW name \in {"startAudio", "undoAudio", "stopAudio", "clientDisconnected",
                         "removeAudioBrowser", "removeBrowser", "syncPreview"}
    PROVE  Op(name, d) \in TodoItem /\ Op(name, d).op = name /\ Op(name, d).device = d
BY DEF Op, TodoItem

LEMMA SyncFacts ==
    ASSUME NEW d \in Device
    PROVE  SyncPreview(d) \in TodoItem /\ SyncPreview(d).op = "syncPreview" /\ SyncPreview(d).device = d
BY DEF SyncPreview, Op, TodoItem

LEMMA AskFacts ==
    ASSUME NEW d \in Device, NEW fg \in BOOLEAN, NEW aw \in BOOLEAN
    PROVE  /\ Ask(d, fg, aw) \in TodoItem /\ Ask(d, fg, aw).op = "setPreviewRequest"
           /\ Ask(d, fg, aw).device = d /\ Ask(d, fg, aw).foreground = fg /\ Ask(d, fg, aw).awake = aw
BY DEF Ask, TodoItem

LEMMA SendFacts ==
    ASSUME NEW d \in Device, NEW m \in Selection
    PROVE  /\ SendPreview(d, m) \in TodoItem /\ SendPreview(d, m).op = "sendPreview"
           /\ SendPreview(d, m).device = d /\ SendPreview(d, m).message = m
BY DEF SendPreview, TodoItem, Selection

\* Sequences of one, two and three ops.
LEMMA ShortTodo ==
    ASSUME NEW x, NEW y, NEW z
    PROVE  /\ Len(<<x>>) = 1 /\ Head(<<x>>) = x /\ Tail(<<x>>) = <<>> /\ <<x>>[1] = x /\ <<x>> # <<>>
           /\ Len(<<x, y>>) = 2 /\ Head(<<x, y>>) = x /\ Tail(<<x, y>>) = <<y>> /\ <<x, y>>[1] = x
           /\ <<x, y>>[2] = y /\ <<x, y>> # <<>>
           /\ Len(<<x, y, z>>) = 3 /\ Head(<<x, y, z>>) = x /\ Tail(<<x, y, z>>) = <<y, z>> /\ <<x, y, z>>[1] = x
           /\ <<x, y, z>>[2] = y /\ <<x, y, z>>[3] = z /\ <<x, y, z>> # <<>>
OBVIOUS

LEMMA HubFacts ==
    ASSUME HubIndInv
    PROVE  /\ setting \in Settings /\ phase \in [Browser -> Phases]
           /\ bound \in [Browser -> Device \cup {NoDevice}] /\ access \in [Browser -> SUBSET Device]
           /\ previewSubscribers \in [Device -> SUBSET Browser]
           /\ previewRequests \in [Device -> [Browser -> Request \cup {Nothing}]]
           /\ previewOrder \in 0..MaxRequests /\ audioSubscribers \in [Device -> SUBSET Browser]
           /\ todo \in [Browser -> Seq(TodoItem)] /\ up \in [Device -> BOOLEAN]
           /\ told \in [Device -> Request \cup {Nothing}] /\ audioOn \in [Device -> BOOLEAN]
           /\ clients \in [Device -> SUBSET Browser] /\ raced \in [Device -> BOOLEAN] /\ orphaned \in SUBSET Device
BY DEF HubIndInv, HubTypeOK

\* What comes next says which of the handlers is at work, and where it stands.
LEMMA NextOpen ==
    ASSUME HubIndInv, NEW b \in Browser, phase[b] = "open", todo[b] # <<>>
    PROVE  /\ Head(todo[b]).op \in {"setPreviewRequest", "syncPreview", "sendPreview",
                                    "startAudio", "undoAudio", "stopAudio"}
           /\ HasNext(b, "setPreviewRequest") => \E d \in Device, fg, aw \in BOOLEAN :
                todo[b] = <<Ask(d, fg, aw), SyncPreview(d)>> /\ b \in previewSubscribers[d]
           /\ HasNext(b, "syncPreview") => \E d \in Device : todo[b] = <<SyncPreview(d)>>
           /\ HasNext(b, "sendPreview") => \E d \in Device, m \in Selection : todo[b] = <<SendPreview(d, m)>>
           /\ HasNext(b, "startAudio") => \E d \in Device :
                todo[b] = <<Op("startAudio", d)>> /\ b \in audioSubscribers[d]
           /\ HasNext(b, "undoAudio") => \E d \in Device :
                todo[b] = <<Op("undoAudio", d)>>
           /\ HasNext(b, "stopAudio") => \E d \in Device : todo[b] = <<Op("stopAudio", d)>>
<1>1. Handles(b) BY DEF HubIndInv, TodoIsLawful, Lawful
<1>2. PICK d \in Device :
       \/ \E fg, aw \in BOOLEAN : todo[b] = <<Ask(d, fg, aw), SyncPreview(d)>> /\ b \in previewSubscribers[d]
       \/ todo[b] = <<SyncPreview(d)>>
       \/ \E m \in Selection : todo[b] = <<SendPreview(d, m)>>
       \/ todo[b] = <<Op("startAudio", d)>> /\ b \in audioSubscribers[d]
       \/ todo[b] = <<Op("undoAudio", d)>>
       \/ todo[b] = <<Op("stopAudio", d)>>
  BY <1>1 DEF Handles
<1>3. CASE \E fg, aw \in BOOLEAN : todo[b] = <<Ask(d, fg, aw), SyncPreview(d)>> /\ b \in previewSubscribers[d]
  <2>1. PICK fg \in BOOLEAN, aw \in BOOLEAN :
          todo[b] = <<Ask(d, fg, aw), SyncPreview(d)>> /\ b \in previewSubscribers[d]
    BY <1>3
  <2>2. Head(todo[b]) = Ask(d, fg, aw) BY <2>1, ShortTodo
  <2>3. Head(todo[b]).op = "setPreviewRequest" BY <2>2, AskFacts
  <2>4. QED BY <2>1, <2>3 DEF HasNext
<1>4. CASE todo[b] = <<SyncPreview(d)>>
  <2>1. Head(todo[b]).op = "syncPreview" BY <1>4, ShortTodo, SyncFacts
  <2>2. QED BY <1>4, <2>1 DEF HasNext
<1>5. CASE \E m \in Selection : todo[b] = <<SendPreview(d, m)>>
  <2>1. PICK m \in Selection : todo[b] = <<SendPreview(d, m)>> BY <1>5
  <2>2. Head(todo[b]) = SendPreview(d, m) BY <2>1, ShortTodo
  <2>3. Head(todo[b]).op = "sendPreview" BY <2>2, SendFacts
  <2>4. QED BY <2>1, <2>3 DEF HasNext
<1>6. CASE todo[b] = <<Op("startAudio", d)>> /\ b \in audioSubscribers[d]
  <2>1. Head(todo[b]).op = "startAudio" BY <1>6, ShortTodo, OpFacts
  <2>2. QED BY <1>6, <2>1 DEF HasNext
<1>7. CASE todo[b] = <<Op("undoAudio", d)>>
  <2>1. Head(todo[b]).op = "undoAudio" BY <1>7, ShortTodo, OpFacts
  <2>2. QED BY <1>7, <2>1 DEF HasNext
<1>8. CASE todo[b] = <<Op("stopAudio", d)>>
  <2>1. Head(todo[b]).op = "stopAudio" BY <1>8, ShortTodo, OpFacts
  <2>2. QED BY <1>8, <2>1 DEF HasNext
<1>9. QED BY <1>2, <1>3, <1>4, <1>5, <1>6, <1>7, <1>8

LEMMA NextClosing ==
    ASSUME HubIndInv, NEW b \in Browser, phase[b] = "closing"
    PROVE  /\ todo[b] # <<>>
           /\ Head(todo[b]).op \in {"clientDisconnected", "removeAudioBrowser", "removeBrowser", "stopAudio"}
           /\ HasNext(b, "clientDisconnected") =>
                todo[b] = <<Op("clientDisconnected", bound[b]), Op("removeAudioBrowser", NoDevice),
                            Op("removeBrowser", NoDevice)>>
           /\ HasNext(b, "removeAudioBrowser") =>
                todo[b] = <<Op("removeAudioBrowser", NoDevice), Op("removeBrowser", NoDevice)>> /\ Released(b)
           /\ HasNext(b, "stopAudio") =>
                /\ Stopping(todo[b]) /\ Released(b) /\ Silent(b) /\ Stopping(Tail(todo[b]))
                /\ \E d \in Device : Head(todo[b]) = Op("stopAudio", d)
           /\ HasNext(b, "removeBrowser") =>
                todo[b] = <<Op("removeBrowser", NoDevice)>> /\ Released(b) /\ Silent(b)
<1>ty. todo[b] \in Seq(TodoItem) /\ bound[b] \in Device \cup {NoDevice} BY HubFacts
<1>1. Cleans(b) BY DEF HubIndInv, TodoIsLawful, Lawful
<1>2. CASE todo[b] = <<Op("clientDisconnected", bound[b]), Op("removeAudioBrowser", NoDevice),
                       Op("removeBrowser", NoDevice)>>
  <2>1. todo[b] # <<>> /\ Head(todo[b]).op = "clientDisconnected" BY <1>2, <1>ty, ShortTodo, OpFacts
  <2>2. QED BY <1>2, <2>1 DEF HasNext
<1>3. CASE todo[b] = <<Op("removeAudioBrowser", NoDevice), Op("removeBrowser", NoDevice)>> /\ Released(b)
  <2>1. todo[b] # <<>> /\ Head(todo[b]).op = "removeAudioBrowser" BY <1>3, ShortTodo, OpFacts
  <2>2. QED BY <1>3, <2>1 DEF HasNext
<1>4. CASE Stopping(todo[b]) /\ Released(b) /\ Silent(b)
  <2>1. PICK q \in Seq(TodoItem) : q = todo[b] BY <1>ty
  <2>2. /\ Len(q) > 0 /\ q[Len(q)] = Op("removeBrowser", NoDevice) /\ Len(q) \in Nat
        /\ \A i \in 1..Len(q) - 1 : \E d \in Device : q[i] = Op("stopAudio", d)
    BY <1>4, <2>1 DEF Stopping
  <2>3. Head(q) = q[1] /\ q # <<>> BY <2>2
  <2>4. CASE Len(q) = 1
    <3>1. q = <<Op("removeBrowser", NoDevice)>> BY <2>2, <2>4
    <3>2. Head(q).op = "removeBrowser" BY <3>1, ShortTodo, OpFacts
    <3>3. QED BY <1>4, <2>1, <2>3, <3>1, <3>2 DEF HasNext
  <2>5. CASE Len(q) # 1
    <3>n. PICK n \in Nat : n = Len(q) BY <2>2
    <3>0. n > 1 /\ n - 1 \in Nat
      <4>1. n > 0 /\ n # 1 BY <3>n, <2>2, <2>5
      <4>2. QED BY ONLY <4>1, n \in Nat
    <3>1. 1 \in 1..n - 1 BY <3>0
    <3>s. \A i \in 1..n - 1 : \E d \in Device : q[i] = Op("stopAudio", d) BY <2>2, <3>n
    <3>2. PICK d \in Device : q[1] = Op("stopAudio", d) BY <3>s, <3>1
    <3>3. Head(q).op = "stopAudio" BY <2>3, <3>2, OpFacts
    <3>4. PICK t : t = Tail(q) OBVIOUS
    <3>5. Len(t) = n - 1 /\ \A i \in 1..n - 1 : t[i] = q[i + 1]
      BY <3>n, <3>4, <3>0
    <3>6. t[n - 1] = q[n]
      <4>1. n - 1 \in 1..n - 1 /\ n - 1 + 1 = n BY <3>0
      <4>2. QED BY <3>5, <4>1
    <3>7. Stopping(t)
      <4>1. Len(t) > 0 BY <3>0, <3>5
      <4>2. t[Len(t)] = Op("removeBrowser", NoDevice) BY <2>2, <3>n, <3>5, <3>6
      <4>3. ASSUME NEW i \in 1..Len(t) - 1 PROVE \E e \in Device : t[i] = Op("stopAudio", e)
        <5>1. i \in 1..n - 1 /\ i + 1 \in 1..n - 1 BY <3>0, <3>5
        <5>2. QED BY <3>s, <3>5, <5>1
      <4>4. QED BY ONLY <4>1, <4>2, <4>3 DEF Stopping
    <3>8. QED BY <1>4, <2>1, <2>3, <3>2, <3>3, <3>4, <3>7 DEF HasNext
  <2>6. QED BY <2>4, <2>5
<1>5. QED BY <1>1, <1>2, <1>3, <1>4 DEF Cleans

LEMMA NextGone ==
    ASSUME HubIndInv, NEW b \in Browser, phase[b] = "gone"
    PROVE  /\ Syncing(todo[b]) /\ Released(b) /\ Silent(b) /\ Unseen(b)
           /\ todo[b] # <<>> => Head(todo[b]).op \in {"syncPreview", "sendPreview"}
           /\ HasNext(b, "syncPreview") => \E d \in Device : Head(todo[b]) = SyncPreview(d)
           /\ HasNext(b, "sendPreview") => \E d \in Device, m \in Selection : Head(todo[b]) = SendPreview(d, m)
           /\ todo[b] # <<>> => \A i \in 1..Len(Tail(todo[b])) :
                /\ i + 1 \in 1..Len(todo[b]) /\ Tail(todo[b])[i] = todo[b][i + 1]
                /\ \E d \in Device : Tail(todo[b])[i] = SyncPreview(d)
<1>1. Syncing(todo[b]) /\ Released(b) /\ Silent(b) /\ Unseen(b) BY DEF HubIndInv, TodoIsLawful, Lawful
<1>2. PICK q \in Seq(TodoItem) : q = todo[b] BY HubFacts
<1>3. SUFFICES ASSUME q # <<>>
               PROVE  /\ Head(q).op \in {"syncPreview", "sendPreview"}
                      /\ Head(q).op = "syncPreview" => \E d \in Device : Head(q) = SyncPreview(d)
                      /\ Head(q).op = "sendPreview" =>
                           \E d \in Device, m \in Selection : Head(q) = SendPreview(d, m)
                      /\ \A i \in 1..Len(Tail(q)) :
                           /\ i + 1 \in 1..Len(q) /\ Tail(q)[i] = q[i + 1]
                           /\ \E d \in Device : Tail(q)[i] = SyncPreview(d)
  BY <1>1, <1>2 DEF HasNext
<1>4. Len(q) \in Nat /\ Len(q) > 0 /\ Head(q) = q[1] /\ Len(Tail(q)) = Len(q) - 1
      /\ \A i \in 1..Len(q) - 1 : Tail(q)[i] = q[i + 1]
  BY <1>3
<1>5. \A i \in 1..Len(q) : \E d \in Device :
         q[i] = SyncPreview(d) \/ (i = 1 /\ \E m \in Selection : q[i] = SendPreview(d, m))
  BY <1>1, <1>2 DEF Syncing
<1>6. PICK d \in Device : q[1] = SyncPreview(d) \/ \E m \in Selection : q[1] = SendPreview(d, m)
  <2>1. 1 \in 1..Len(q) BY <1>4
  <2>2. QED BY <1>5, <2>1
<1>7. /\ Head(q).op \in {"syncPreview", "sendPreview"}
      /\ Head(q).op = "syncPreview" => \E e \in Device : Head(q) = SyncPreview(e)
      /\ Head(q).op = "sendPreview" => \E e \in Device, m \in Selection : Head(q) = SendPreview(e, m)
  <2>1. CASE q[1] = SyncPreview(d)
    <3>1. Head(q) = SyncPreview(d) /\ Head(q).op = "syncPreview" BY <1>4, <2>1, SyncFacts
    <3>2. QED BY <3>1
  <2>2. ASSUME NEW m \in Selection, q[1] = SendPreview(d, m)
        PROVE  /\ Head(q).op \in {"syncPreview", "sendPreview"}
               /\ Head(q).op = "syncPreview" => \E e \in Device : Head(q) = SyncPreview(e)
               /\ Head(q).op = "sendPreview" => \E e \in Device, n \in Selection : Head(q) = SendPreview(e, n)
    <3>1. Head(q) = SendPreview(d, m) BY <1>4, <2>2
    <3>2. Head(q).op = "sendPreview" BY <3>1, SendFacts
    <3>3. QED BY <3>1, <3>2
  <2>3. QED BY <1>6, <2>1, <2>2
<1>8. ASSUME NEW i \in 1..Len(Tail(q))
      PROVE  /\ i + 1 \in 1..Len(q) /\ Tail(q)[i] = q[i + 1]
             /\ \E e \in Device : Tail(q)[i] = SyncPreview(e)
  <2>1. i \in 1..Len(q) - 1 /\ i + 1 \in 1..Len(q) /\ i + 1 # 1 BY <1>4
  <2>2. QED BY <1>4, <1>5, <2>1
<1>9. QED BY <1>7, <1>8

\* What a step leaves alone when it is not about browser c.
Same(c) ==
    /\ todo'[c] = todo[c] /\ phase'[c] = phase[c] /\ bound'[c] = bound[c]
    /\ \A d \in Device :
         /\ c \in previewSubscribers'[d] <=> c \in previewSubscribers[d]
         /\ c \in audioSubscribers'[d] <=> c \in audioSubscribers[d]
         /\ previewRequests'[d][c] = previewRequests[d][c]
         /\ c \in clients'[d] /\ up'[d] => c \in clients[d] /\ up[d]

\* Its goroutine is where it was.
LEMMA OthersStay ==
    ASSUME NEW c \in Browser, Lawful(c), Same(c)
    PROVE  Lawful(c)'
<1>1. (Released(c) => Released(c)') /\ (Silent(c) => Silent(c)') /\ (Unseen(c) => Unseen(c)')
  BY DEF Same, Released, Silent, Unseen
<1>2. Cleans(c) => Cleans(c)' BY <1>1 DEF Same, Cleans
<1>3. Handles(c) => Handles(c)' BY DEF Same, Handles
<1>4. Syncing(todo[c]) => Syncing(todo'[c]) BY DEF Same
<1>5. QED BY <1>1, <1>2, <1>3, <1>4 DEF Lawful, Same

\* What is left to do is no business of previews.
Aside(q) == \A i \in 1..Len(q) : q[i].op \notin {"setPreviewRequest", "syncPreview", "sendPreview"}

LEMMA HasNone ==
    ASSUME NEW r PROVE ~Has(<<>>, r)
BY DEF Has

LEMMA HasOne ==
    ASSUME NEW x, NEW r PROVE Has(<<x>>, r) <=> x = r
<1>1. \A i : i \in 1..1 <=> i = 1 OBVIOUS
<1>2. QED BY <1>1, ShortTodo DEF Has

LEMMA HasTwo ==
    ASSUME NEW x, NEW y, NEW r PROVE Has(<<x, y>>, r) <=> (x = r \/ y = r)
<1>1. \A i : i \in 1..2 <=> (i = 1 \/ i = 2) OBVIOUS
<1>2. QED BY <1>1, ShortTodo DEF Has

LEMMA HasThree ==
    ASSUME NEW x, NEW y, NEW z, NEW r PROVE Has(<<x, y, z>>, r) <=> (x = r \/ y = r \/ z = r)
<1>1. \A i : i \in 1..3 <=> (i = 1 \/ i = 2 \/ i = 3) OBVIOUS
<1>2. QED BY <1>1, ShortTodo DEF Has

\* Aside of previews there is nothing to ask, to select and to send.
LEMMA AsideFacts ==
    ASSUME NEW q \in Seq(TodoItem), Aside(q), NEW d \in Device
    PROVE  /\ q # <<>> => Head(q).op \notin {"setPreviewRequest", "syncPreview", "sendPreview"}
           /\ ~Has(q, SyncPreview(d))
<1>1. q # <<>> => Head(q) = q[1] /\ 1 \in 1..Len(q)
  <2>1. q # <<>> => Len(q) > 0 /\ Len(q) \in Nat /\ Head(q) = q[1] OBVIOUS
  <2>2. QED BY <2>1
<1>2. QED BY <1>1, SyncFacts DEF Aside, Has

LEMMA AsideNone == Aside(<<>>)
BY DEF Aside

LEMMA AsideOne ==
    ASSUME NEW x, x.op \notin {"setPreviewRequest", "syncPreview", "sendPreview"} PROVE Aside(<<x>>)
<1>1. \A i : i \in 1..1 <=> i = 1 OBVIOUS
<1>2. QED BY <1>1, ShortTodo DEF Aside

LEMMA AsideTwo ==
    ASSUME NEW x, NEW y, x.op \notin {"setPreviewRequest", "syncPreview", "sendPreview"}, y.op \notin {"setPreviewRequest", "syncPreview", "sendPreview"}
    PROVE  Aside(<<x, y>>)
<1>1. \A i : i \in 1..2 <=> (i = 1 \/ i = 2) OBVIOUS
<1>2. QED BY <1>1, ShortTodo DEF Aside

LEMMA AsideThree ==
    ASSUME NEW x, NEW y, NEW z, x.op \notin {"setPreviewRequest", "syncPreview", "sendPreview"}, y.op \notin {"setPreviewRequest", "syncPreview", "sendPreview"}, z.op \notin {"setPreviewRequest", "syncPreview", "sendPreview"}
    PROVE  Aside(<<x, y, z>>)
<1>1. \A i : i \in 1..3 <=> (i = 1 \/ i = 2 \/ i = 3) OBVIOUS
<1>2. QED BY <1>1, ShortTodo DEF Aside

LEMMA StoppingIsAside ==
    ASSUME NEW q \in Seq(TodoItem), Stopping(q) PROVE Aside(q)
<1>1. PICK n \in Nat : n = Len(q) OBVIOUS
<1>2. /\ q[n] = Op("removeBrowser", NoDevice)
      /\ \A i \in 1..n - 1 : \E d \in Device : q[i] = Op("stopAudio", d)
  BY <1>1 DEF Stopping
<1>3. ASSUME NEW i \in 1..n PROVE q[i].op \notin {"setPreviewRequest", "syncPreview", "sendPreview"}
  <2>1. i = n \/ i \in 1..n - 1 OBVIOUS
  <2>2. CASE i = n BY <2>2, <1>2, OpFacts
  <2>3. CASE i \in 1..n - 1
    <3>1. PICK d \in Device : q[i] = Op("stopAudio", d) BY <2>3, <1>2
    <3>2. QED BY <3>1, OpFacts
  <2>4. QED BY <2>1, <2>2, <2>3
<1>4. QED BY <1>1, <1>3 DEF Aside

\* A device whose syncs are untouched, or for which one is due, is as exact as before.
LEMMA ExactStays ==
    ASSUME NEW d \in Device, Exact(d), raced'[d] = raced[d], up'[d] => up[d],
           \A c \in Browser : Sends(c, d)' => Sends(c, d) /\ Head(todo'[c]) = Head(todo[c]),
           \/ SyncIsDue(d)'
           \/ /\ SyncIsDue(d) => SyncIsDue(d)'
              /\ \A c \in Browser : Sends(c, d) => Sends(c, d)'
              /\ told'[d] = told[d] /\ Wanted(d)' = Wanted(d)
    PROVE  Exact(d)'
<1> SUFFICES ASSUME ~raced'[d] PROVE
       /\ \A b, c \in Browser : Sends(b, d)' /\ Sends(c, d)' => b = c
       /\ up'[d] /\ ~SyncIsDue(d)' =>
            /\ \A b \in Browser : Sends(b, d)' => Head(todo'[b]).message = Wanted(d)'
            /\ (\A b \in Browser : ~Sends(b, d)') => told'[d] = Wanted(d)'
  BY DEF Exact
<1>1. /\ \A b, c \in Browser : Sends(b, d) /\ Sends(c, d) => b = c
      /\ up[d] /\ ~SyncIsDue(d) =>
           /\ \A b \in Browser : Sends(b, d) => Head(todo[b]).message = Wanted(d)
           /\ (\A b \in Browser : ~Sends(b, d)) => told[d] = Wanted(d)
  BY DEF Exact
<1>2. QED BY <1>1

\* The requests of a device and what is wanted of its agent.
LEMMA WantedStays ==
    ASSUME NEW d \in Device, previewRequests'[d] = previewRequests[d]
    PROVE  Wanted(d)' = Wanted(d)
<1>1. RequestsOf(d)' = RequestsOf(d) BY DEF RequestsOf
<1>2. QED BY <1>1 DEF Wanted

\* A sync that is due stays due while the others and b's own syncs stay.
LEMMA SyncStaysDue ==
    ASSUME NEW d \in Device, NEW b \in Browser, \A c \in Browser \ {b} : todo'[c] = todo[c],
           Has(todo[b], SyncPreview(d)) => Has(todo'[b], SyncPreview(d))
    PROVE  SyncIsDue(d) => SyncIsDue(d)'
BY DEF SyncIsDue

\* The orders are enough as long as nobody else starts to ask.
LEMMA OrdersStay ==
    ASSUME HubIndInv, previewOrder' = previewOrder,
           \A c \in Browser : HasNext(c, "setPreviewRequest")' => HasNext(c, "setPreviewRequest")
    PROVE  OrdersSuffice'
<1>1. Asking' \in SUBSET Asking /\ Asking \in SUBSET Browser BY DEF Asking
<1>2. IsFiniteSet(Asking) BY <1>1, HubAssumption, FS_Subset
<1>3. Cardinality(Asking') <= Cardinality(Asking) /\ IsFiniteSet(Asking') BY <1>1, <1>2, FS_Subset
<1>4. Cardinality(Asking') \in Nat /\ Cardinality(Asking) \in Nat BY <1>2, <1>3, FS_CardinalityType
<1>5. previewOrder + Cardinality(Asking) <= MaxRequests /\ previewOrder \in Nat /\ MaxRequests \in Nat
  BY HubFacts, HubAssumption DEF HubIndInv, OrdersSuffice
<1>6. QED BY <1>3, <1>4, <1>5 DEF OrdersSuffice

\* A step of browser b that has nothing to do with previews.
LEMMA OrdinaryStep ==
    ASSUME HubIndInv, HubTypeOK', NEW b \in Browser, \A c \in Browser \ {b} : Same(c), Lawful(b)',
           UNCHANGED <<setting, up, told, raced, previewSubscribers, previewRequests, previewOrder>>,
           Aside(todo[b]), Aside(todo'[b]), AudioIsWanted'
    PROVE  HubIndInv'
<1>ty. todo[b] \in Seq(TodoItem) /\ todo'[b] \in Seq(TodoItem)
  <2>1. todo' \in [Browser -> Seq(TodoItem)] BY DEF HubTypeOK
  <2>2. QED BY <2>1, HubFacts
<1>1. \A c \in Browser \ {b} : todo'[c] = todo[c] BY DEF Same
<1>2. TodoIsLawful'
  <2>1. \A c \in Browser : Lawful(c) BY DEF HubIndInv, TodoIsLawful
  <2>2. \A c \in Browser \ {b} : Lawful(c)' BY <2>1, OthersStay
  <2>3. QED BY <2>2 DEF TodoIsLawful
<1>3. OrdersAreUnique' /\ RequestsAreSubscribed'
  BY DEF HubIndInv, OrdersAreUnique, RequestsAreSubscribed
<1>4. \A d \in Device : /\ ~Has(todo[b], SyncPreview(d)) /\ ~Has(todo'[b], SyncPreview(d))
                        /\ ~Sends(b, d) /\ ~Sends(b, d)' /\ ~HasNext(b, "setPreviewRequest")'
  BY <1>ty, AsideFacts DEF Sends, HasNext
<1>5. OrdersSuffice'
  <2>1. ~HasNext(b, "setPreviewRequest")'
    <3>1. todo'[b] # <<>> => Head(todo'[b]).op # "setPreviewRequest"
      <4>1. todo'[b] # <<>> => Head(todo'[b]) = todo'[b][1] /\ 1 \in 1..Len(todo'[b])
        <5>1. PICK q \in Seq(TodoItem) : q = todo'[b] BY <1>ty
        <5>2. q # <<>> => Len(q) > 0 /\ Len(q) \in Nat /\ Head(q) = q[1] OBVIOUS
        <5>3. q # <<>> => 1 \in 1..Len(q) BY <5>2
        <5>4. QED BY <5>1, <5>2, <5>3
      <4>2. QED BY <4>1 DEF Aside
    <3>2. QED BY <3>1 DEF HasNext
  <2>2. \A c \in Browser : HasNext(c, "setPreviewRequest")' => HasNext(c, "setPreviewRequest")
    BY <2>1, <1>1 DEF HasNext
  <2>3. QED BY <2>2, OrdersStay
<1>6. SyncsAreExact'
  <2> SUFFICES ASSUME NEW d \in Device PROVE Exact(d)'
    BY DEF SyncsAreExact
  <2>1. Exact(d) BY DEF HubIndInv, SyncsAreExact
  <2>2. \A c \in Browser : (Sends(c, d)' <=> Sends(c, d)) /\ (Sends(c, d)' => Head(todo'[c]) = Head(todo[c]))
    BY <1>1, <1>4 DEF Sends, HasNext
  <2>3. SyncIsDue(d) => SyncIsDue(d)' BY <1>1, <1>4, SyncStaysDue
  <2>4. Wanted(d)' = Wanted(d) BY WantedStays
  <2>5. QED BY <2>1, <2>2, <2>3, <2>4, ExactStays
<1>7. QED BY <1>2, <1>3, <1>5, <1>6 DEF HubIndInv

\* Audio that is wanted stays wanted when a step of b changes no listeners.
LEMMA AudioStays ==
    ASSUME HubIndInv, NEW b \in Browser, \A c \in Browser \ {b} : todo'[c] = todo[c],
           UNCHANGED <<up, orphaned, audioSubscribers>>,
           \A d \in Device : audioOn'[d] => audioOn[d],
           \A d \in Device : Has(todo[b], Op("stopAudio", d)) => Has(todo'[b], Op("stopAudio", d))
    PROVE  AudioIsWanted'
<1> SUFFICES ASSUME NEW d \in Device \ orphaned, up[d], audioOn'[d], audioSubscribers[d] = {}
             PROVE  \E c \in Browser : Has(todo'[c], Op("stopAudio", d))
  BY DEF AudioIsWanted, Has
<1>1. \E c \in Browser : Has(todo[c], Op("stopAudio", d)) BY DEF HubIndInv, AudioIsWanted, Has
<1>2. QED BY <1>1

\* The phase of a browser whose goroutine has a given op to do next.
LEMMA PhaseOfNext ==
    ASSUME HubIndInv, NEW b \in Browser
    PROVE  /\ HasNext(b, "clientDisconnected") \/ HasNext(b, "removeAudioBrowser") \/ HasNext(b, "removeBrowser")
                => phase[b] = "closing"
           /\ HasNext(b, "setPreviewRequest") \/ HasNext(b, "startAudio") \/ HasNext(b, "undoAudio")
                => phase[b] = "open"
           /\ HasNext(b, "stopAudio") => phase[b] \in {"open", "closing"}
           /\ HasNext(b, "syncPreview") \/ HasNext(b, "sendPreview") => phase[b] \in {"open", "gone"}
<1>1. phase[b] \in {"new", "open", "closing", "gone"} BY HubFacts DEF Phases
<1>2. phase[b] = "new" => todo[b] = <<>> BY DEF HubIndInv, TodoIsLawful, Lawful
<1>3. phase[b] = "open" /\ todo[b] # <<>> =>
         Head(todo[b]).op \in {"setPreviewRequest", "syncPreview", "sendPreview",
                               "startAudio", "undoAudio", "stopAudio"}
  BY NextOpen
<1>4. phase[b] = "closing" =>
         Head(todo[b]).op \in {"clientDisconnected", "removeAudioBrowser", "removeBrowser", "stopAudio"}
  BY NextClosing
<1>5. phase[b] = "gone" /\ todo[b] # <<>> => Head(todo[b]).op \in {"syncPreview", "sendPreview"}
  BY NextGone
<1>6. QED BY <1>1, <1>2, <1>3, <1>4, <1>5 DEF HasNext

\* The type invariant, with ops by their name.
LEMMA HubTyped ==
    ASSUME setting' \in Settings, phase' \in [Browser -> Phases],
           bound' \in [Browser -> Device \cup {NoDevice}], access' \in [Browser -> SUBSET Device],
           previewSubscribers' \in [Device -> SUBSET Browser],
           previewRequests' \in [Device -> [Browser -> Request \cup {Nothing}]],
           previewOrder' \in 0..MaxRequests, audioSubscribers' \in [Device -> SUBSET Browser],
           todo' \in [Browser -> Seq(TodoItem)], up' \in [Device -> BOOLEAN],
           told' \in [Device -> Request \cup {Nothing}], audioOn' \in [Device -> BOOLEAN],
           clients' \in [Device -> SUBSET Browser], raced' \in [Device -> BOOLEAN],
           orphaned' \in SUBSET Device
    PROVE  HubTypeOK'
BY DEF HubTypeOK

\* Putting a list of ops in the hands of a goroutine.
LEMMA TodoTyped ==
    ASSUME HubIndInv, NEW b \in Browser, NEW q \in Seq(TodoItem), todo' = [todo EXCEPT ![b] = q]
    PROVE  /\ todo' \in [Browser -> Seq(TodoItem)] /\ todo'[b] = q
           /\ \A c \in Browser \ {b} : todo'[c] = todo[c]
<1>1. todo \in [Browser -> Seq(TodoItem)] BY HubFacts
<1>2. QED BY ONLY <1>1, b \in Browser, q \in Seq(TodoItem), todo' = [todo EXCEPT ![b] = q]

\* A browser comes, connects, uses a device, and closes.
LEMMA SocketSteps ==
    ASSUME HubIndInv, NEW b \in Browser,
           \/ AddBrowser(b) \/ CloseBrowser(b) \/ ClientDisconnected(b)
           \/ \E d \in Device : Connect(b, d) \/ Use(b, d)
    PROVE  HubIndInv'
<1>ty. /\ setting \in Settings /\ phase \in [Browser -> Phases]
       /\ bound \in [Browser -> Device \cup {NoDevice}] /\ access \in [Browser -> SUBSET Device]
       /\ previewSubscribers \in [Device -> SUBSET Browser]
       /\ previewRequests \in [Device -> [Browser -> Request \cup {Nothing}]]
       /\ previewOrder \in 0..MaxRequests /\ audioSubscribers \in [Device -> SUBSET Browser]
       /\ todo \in [Browser -> Seq(TodoItem)] /\ up \in [Device -> BOOLEAN]
       /\ told \in [Device -> Request \cup {Nothing}] /\ audioOn \in [Device -> BOOLEAN]
       /\ clients \in [Device -> SUBSET Browser] /\ raced \in [Device -> BOOLEAN]
       /\ orphaned \in SUBSET Device
  BY HubFacts
<1>law. Lawful(b) BY DEF HubIndInv, TodoIsLawful
<1>1. CASE AddBrowser(b)
  <2>1. /\ phase[b] = "new" /\ phase' = [phase EXCEPT ![b] = "open"]
        /\ UNCHANGED <<setting, bound, access, previewSubscribers, previewRequests, previewOrder,
                       audioSubscribers, todo, up, told, audioOn, clients, raced, orphaned>>
    BY <1>1 DEF AddBrowser, hub, agent
  <2>2. phase' \in [Browser -> Phases] /\ phase'[b] = "open" BY <2>1, <1>ty DEF Phases
  <2>3. HubTypeOK' BY <2>1, <2>2, <1>ty, HubTyped
  <2>4. todo[b] = <<>> BY <2>1, <1>law DEF Lawful
  <2>5. Lawful(b)' BY <2>1, <2>2, <2>4 DEF Lawful, Handles
  <2>6. \A c \in Browser \ {b} : Same(c) BY <2>1, <1>ty DEF Same
  <2>7. Aside(todo[b]) BY <2>4, AsideNone
  <2>8. AudioIsWanted' BY <2>1, AudioStays
  <2>9. QED BY <2>1, <2>3, <2>5, <2>6, <2>7, <2>8, OrdinaryStep
<1>2. CASE CloseBrowser(b)
  <2>1. /\ phase[b] = "open" /\ todo[b] = <<>> /\ phase' = [phase EXCEPT ![b] = "closing"]
        /\ todo' = [todo EXCEPT ![b] = <<Op("clientDisconnected", bound[b]),
                                         Op("removeAudioBrowser", NoDevice), Op("removeBrowser", NoDevice)>>]
        /\ UNCHANGED <<setting, bound, access, previewSubscribers, previewRequests, previewOrder,
                       audioSubscribers, up, told, audioOn, clients, raced, orphaned>>
    BY <1>2 DEF CloseBrowser, Idle, hub, agent
  <2>2. PICK x, y, z : x = Op("clientDisconnected", bound[b]) /\ y = Op("removeAudioBrowser", NoDevice)
                         /\ z = Op("removeBrowser", NoDevice)
    OBVIOUS
  <2>3. /\ x \in TodoItem /\ y \in TodoItem /\ z \in TodoItem
        /\ x.op = "clientDisconnected" /\ y.op = "removeAudioBrowser" /\ z.op = "removeBrowser"
    BY <2>2, <1>ty, OpFacts
  <2>4. PICK q : q = <<x, y, z>> OBVIOUS
  <2>5. q \in Seq(TodoItem) BY ONLY <2>3, <2>4
  <2>6. todo' = [todo EXCEPT ![b] = q] BY <2>1, <2>2, <2>4
  <2>7. todo' \in [Browser -> Seq(TodoItem)] /\ todo'[b] = q /\ \A c \in Browser \ {b} : todo'[c] = todo[c]
    BY <2>5, <2>6, TodoTyped
  <2>8. phase' \in [Browser -> Phases] /\ phase'[b] = "closing" BY <2>1, <1>ty DEF Phases
  <2>9. HubTypeOK' BY <2>1, <2>7, <2>8, <1>ty, HubTyped
  <2>10. Lawful(b)' BY <2>1, <2>2, <2>4, <2>7, <2>8 DEF Lawful, Cleans
  <2>11. \A c \in Browser \ {b} : Same(c) BY <2>1, <2>7, <1>ty DEF Same
  <2>12. Aside(todo[b]) /\ Aside(todo'[b])
    <3>1. Aside(<<x, y, z>>) BY <2>3, AsideThree
    <3>2. QED BY <2>1, <2>4, <2>7, <3>1, AsideNone
  <2>13. \A d \in Device : ~Has(todo[b], Op("stopAudio", d)) BY <2>1, HasNone
  <2>14. AudioIsWanted' BY <2>1, <2>7, <2>13, AudioStays
  <2>15. QED BY <2>1, <2>9, <2>10, <2>11, <2>12, <2>14, OrdinaryStep
<1>3. CASE ClientDisconnected(b)
  <2>1. /\ HasNext(b, "clientDisconnected") /\ todo' = [todo EXCEPT ![b] = Tail(@)]
        /\ clients' = [d \in Device |-> clients[d] \ (IF d = bound[b] /\ up[d] THEN {b} ELSE {})]
        /\ UNCHANGED <<setting, phase, bound, access, previewSubscribers, previewRequests, previewOrder,
                       audioSubscribers, up, told, audioOn, raced, orphaned>>
    BY <1>3 DEF ClientDisconnected, hub
  <2>2. phase[b] = "closing" BY <2>1, PhaseOfNext
  <2>3. PICK x, y, z : x = Op("clientDisconnected", bound[b]) /\ y = Op("removeAudioBrowser", NoDevice)
                         /\ z = Op("removeBrowser", NoDevice)
    OBVIOUS
  <2>4. /\ x \in TodoItem /\ y \in TodoItem /\ z \in TodoItem
        /\ x.op = "clientDisconnected" /\ y.op = "removeAudioBrowser" /\ z.op = "removeBrowser"
    BY <2>3, <1>ty, OpFacts
  <2>5. todo[b] = <<x, y, z>> BY <2>1, <2>2, <2>3, NextClosing
  <2>6. PICK q : q = <<y, z>> OBVIOUS
  <2>7. q \in Seq(TodoItem) /\ Tail(todo[b]) = q
    <3>1. q \in Seq(TodoItem) BY ONLY <2>4, <2>6
    <3>2. QED BY <3>1, <2>5, <2>6, ShortTodo
  <2>8. todo' = [todo EXCEPT ![b] = q] BY <2>1, <2>7
  <2>9. todo' \in [Browser -> Seq(TodoItem)] /\ todo'[b] = q /\ \A c \in Browser \ {b} : todo'[c] = todo[c]
    BY <2>7, <2>8, TodoTyped
  <2>10. clients' \in [Device -> SUBSET Browser] BY <2>1, <1>ty
  <2>11. HubTypeOK' BY <2>1, <2>9, <2>10, <1>ty, HubTyped
  <2>12. Released(b)' BY <2>1 DEF Released
  <2>13. Lawful(b)' BY <2>1, <2>2, <2>3, <2>6, <2>9, <2>12 DEF Lawful, Cleans
  <2>14. \A c \in Browser \ {b} : Same(c) BY <2>1, <2>9 DEF Same
  <2>15. Aside(todo[b]) /\ Aside(todo'[b])
    <3>1. Aside(<<x, y, z>>) BY <2>4, AsideThree
    <3>2. Aside(<<y, z>>) BY <2>4, AsideTwo
    <3>3. QED BY <2>5, <2>6, <2>9, <3>1, <3>2
  <2>16. \A d \in Device : ~Has(todo[b], Op("stopAudio", d))
    <3>1. \A d \in Device : Op("stopAudio", d).op = "stopAudio" BY OpFacts
    <3>2. \A r : Has(<<x, y, z>>, r) <=> (x = r \/ y = r \/ z = r) BY HasThree
    <3>3. QED BY <3>1, <3>2, <2>4, <2>5
  <2>17. AudioIsWanted' BY <2>1, <2>9, <2>16, AudioStays
  <2>18. QED BY <2>1, <2>11, <2>13, <2>14, <2>15, <2>17, OrdinaryStep
<1>4. ASSUME NEW d \in Device, Connect(b, d) PROVE HubIndInv'
  <2>1. /\ phase[b] = "open" /\ todo[b] = <<>> /\ bound' = [bound EXCEPT ![b] = d]
        /\ UNCHANGED <<setting, phase, access, previewSubscribers, previewRequests, previewOrder,
                       audioSubscribers, todo, up, told, audioOn, clients, raced, orphaned>>
    BY <1>4 DEF Connect, Idle, hub, agent
  <2>2. bound' \in [Browser -> Device \cup {NoDevice}] BY <2>1, <1>ty
  <2>3. HubTypeOK' BY <2>1, <2>2, <1>ty, HubTyped
  <2>4. Lawful(b)' BY <2>1 DEF Lawful, Handles
  <2>5. \A c \in Browser \ {b} : Same(c) BY <2>1, <1>ty DEF Same
  <2>6. Aside(todo[b]) /\ Aside(todo'[b]) BY <2>1, AsideNone
  <2>7. AudioIsWanted' BY <2>1, AudioStays
  <2>8. QED BY <2>1, <2>3, <2>4, <2>5, <2>6, <2>7, OrdinaryStep
<1>5. ASSUME NEW d \in Device, Use(b, d) PROVE HubIndInv'
  <2>1. /\ phase[b] = "open" /\ todo[b] = <<>>
        /\ clients' = [clients EXCEPT ![d] = IF up[d] THEN @ \cup {b} ELSE @]
        /\ UNCHANGED <<setting, phase, bound, access, previewSubscribers, previewRequests, previewOrder,
                       audioSubscribers, todo, up, told, audioOn, raced, orphaned>>
    BY <1>5 DEF Use, Idle, hub
  <2>2. clients' \in [Device -> SUBSET Browser] BY <2>1, <1>ty
  <2>3. HubTypeOK' BY <2>1, <2>2, <1>ty, HubTyped
  <2>4. Lawful(b)' BY <2>1 DEF Lawful, Handles
  <2>5. \A c \in Browser \ {b} : Same(c) BY <2>1, <1>ty DEF Same
  <2>6. Aside(todo[b]) /\ Aside(todo'[b]) BY <2>1, AsideNone
  <2>7. AudioIsWanted' BY <2>1, AudioStays
  <2>8. QED BY <2>1, <2>3, <2>4, <2>5, <2>6, <2>7, OrdinaryStep
<1>6. QED BY <1>1, <1>2, <1>3, <1>4, <1>5

\* Audio that is wanted stays wanted: a listener leaves with a stop_audio, unless
\* another one stays, and a stop_audio goes when the agent has stopped.
LEMMA AudioKeeps ==
    ASSUME HubIndInv, NEW b \in Browser, \A c \in Browser \ {b} : todo'[c] = todo[c],
           \A e \in Device : up'[e] /\ audioOn'[e] /\ e \notin orphaned' =>
              \/ audioSubscribers'[e] # {} \/ Has(todo'[b], Op("stopAudio", e))
              \/ /\ up[e] /\ audioOn[e] /\ e \notin orphaned
                 /\ audioSubscribers[e] = {} /\ ~Has(todo[b], Op("stopAudio", e))
    PROVE  AudioIsWanted'
<1> SUFFICES ASSUME NEW e \in Device, up'[e], audioOn'[e], e \notin orphaned', audioSubscribers'[e] = {},
                    ~Has(todo'[b], Op("stopAudio", e))
             PROVE  \E c \in Browser : Has(todo'[c], Op("stopAudio", e))
  BY DEF AudioIsWanted, Has
<1>1. /\ up[e] /\ audioOn[e] /\ e \notin orphaned
      /\ audioSubscribers[e] = {} /\ ~Has(todo[b], Op("stopAudio", e))
  OBVIOUS
<1>2. \E c \in Browser : Has(todo[c], Op("stopAudio", e))
  BY <1>1 DEF HubIndInv, AudioIsWanted, Has
<1>3. QED BY <1>1, <1>2

\* A browser asks for audio, or for no more audio.
LEMMA ListenSteps ==
    ASSUME HubIndInv, NEW b \in Browser, NEW d \in Device, StartAudio(b, d) \/ StopAudio(b, d)
    PROVE  HubIndInv'
<1>ty. HubTypeOK BY DEF HubIndInv
<1>0. /\ phase[b] = "open" /\ todo[b] = <<>>
      /\ UNCHANGED <<setting, phase, bound, access, previewSubscribers, previewRequests, previewOrder, up,
                     told, audioOn, clients, raced>>
  BY DEF StartAudio, StopAudio, Idle, agent
<1>a. Aside(todo[b]) /\ \A e \in Device : ~Has(todo[b], Op("stopAudio", e))
  BY <1>0, AsideNone, HasNone
<1>1. CASE StartAudio(b, d)
  <2>1. /\ audioSubscribers' = [audioSubscribers EXCEPT ![d] = @ \cup {b}]
        /\ todo' = [todo EXCEPT ![b] = <<Op("startAudio", d)>>] /\ orphaned' = orphaned \ {d}
    BY <1>1 DEF StartAudio
  <2>2. PICK x : x = Op("startAudio", d) OBVIOUS
  <2>3. x \in TodoItem /\ x.op = "startAudio" BY <2>2, OpFacts
  <2>4. PICK q : q = <<x>> OBVIOUS
  <2>5. q \in Seq(TodoItem) BY ONLY <2>3, <2>4
  <2>6. todo' \in [Browser -> Seq(TodoItem)] /\ todo'[b] = q /\ \A c \in Browser \ {b} : todo'[c] = todo[c]
    BY <2>1, <2>2, <2>4, <2>5, TodoTyped
  <2>7. /\ audioSubscribers' \in [Device -> SUBSET Browser] /\ b \in audioSubscribers'[d]
        /\ \A e \in Device : audioSubscribers[e] \subseteq audioSubscribers'[e]
                               /\ audioSubscribers'[e] \subseteq audioSubscribers[e] \cup {b}
    BY <2>1, <1>ty DEF HubTypeOK
  <2>8. HubTypeOK' BY <1>0, <2>1, <2>6, <2>7, <1>ty DEF HubTypeOK
  <2>9. Handles(b)' BY <2>2, <2>4, <2>6, <2>7 DEF Handles
  <2>10. Lawful(b)' BY <1>0, <2>9 DEF Lawful
  <2>11. \A c \in Browser \ {b} : Same(c) BY <1>0, <2>6, <2>7 DEF Same
  <2>12. Aside(todo'[b]) BY <2>3, <2>4, <2>6, AsideOne
  <2>13. AudioIsWanted'
    <3>1. \A e \in Device : up'[e] /\ audioOn'[e] /\ e \notin orphaned' =>
              \/ audioSubscribers'[e] # {} \/ Has(todo'[b], Op("stopAudio", e))
              \/ /\ up[e] /\ audioOn[e] /\ e \notin orphaned
                 /\ audioSubscribers[e] = {} /\ ~Has(todo[b], Op("stopAudio", e))
      BY <1>0, <1>a, <2>1, <2>7
    <3>2. QED BY <3>1, <1>0, <2>6, AudioKeeps
  <2>14. QED BY <1>0, <1>a, <2>8, <2>10, <2>11, <2>12, <2>13, OrdinaryStep
<1>2. CASE StopAudio(b, d)
  <2>1. /\ b \in audioSubscribers[d] /\ audioSubscribers' = [audioSubscribers EXCEPT ![d] = @ \ {b}]
        /\ todo' = [todo EXCEPT ![b] = IF WasLast(b, d) THEN <<Op("stopAudio", d)>> ELSE <<>>]
        /\ orphaned' = orphaned
    BY <1>2 DEF StopAudio
  <2>2. PICK x : x = Op("stopAudio", d) OBVIOUS
  <2>3. x \in TodoItem /\ x.op = "stopAudio" BY <2>2, OpFacts
  <2>4. PICK q : q = IF WasLast(b, d) THEN <<x>> ELSE <<>> OBVIOUS
  <2>5. q \in Seq(TodoItem) BY ONLY <2>3, <2>4
  <2>6. todo' \in [Browser -> Seq(TodoItem)] /\ todo'[b] = q /\ \A c \in Browser \ {b} : todo'[c] = todo[c]
    BY <2>1, <2>2, <2>4, <2>5, TodoTyped
  <2>7. /\ audioSubscribers' \in [Device -> SUBSET Browser] /\ audioSubscribers'[d] = audioSubscribers[d] \ {b}
        /\ \A e \in Device : e # d => audioSubscribers'[e] = audioSubscribers[e]
    BY <2>1, <1>ty DEF HubTypeOK
  <2>8. HubTypeOK' BY <1>0, <2>1, <2>6, <2>7, <1>ty DEF HubTypeOK
  <2>9. Handles(b)' BY <2>2, <2>4, <2>6 DEF Handles
  <2>10. Lawful(b)' BY <1>0, <2>9 DEF Lawful
  <2>11. \A c \in Browser \ {b} : Same(c) BY <1>0, <2>6, <2>7 DEF Same
  <2>12. Aside(todo'[b])
    <3>1. Aside(<<x>>) BY <2>3, AsideOne
    <3>2. QED BY <3>1, <2>4, <2>6, AsideNone
  <2>13. AudioIsWanted'
    <3>1. audioSubscribers'[d] # {} \/ Has(todo'[b], Op("stopAudio", d))
      <4>1. CASE WasLast(b, d)
        <5>1. todo'[b] = <<x>> BY <4>1, <2>4, <2>6
        <5>2. Has(<<x>>, x) BY HasOne
        <5>3. QED BY <5>1, <5>2, <2>2
      <4>2. CASE ~WasLast(b, d) BY <4>2, <2>1, <2>7 DEF WasLast
      <4>3. QED BY <4>1, <4>2
    <3>2. \A e \in Device : up'[e] /\ audioOn'[e] /\ e \notin orphaned' =>
              \/ audioSubscribers'[e] # {} \/ Has(todo'[b], Op("stopAudio", e))
              \/ /\ up[e] /\ audioOn[e] /\ e \notin orphaned
                 /\ audioSubscribers[e] = {} /\ ~Has(todo[b], Op("stopAudio", e))
      BY <1>0, <1>a, <2>1, <2>7, <3>1
    <3>3. QED BY <3>2, <1>0, <2>6, AudioKeeps
  <2>14. QED BY <1>0, <1>a, <2>8, <2>10, <2>11, <2>12, <2>13, OrdinaryStep
<1>3. QED BY <1>1, <1>2

\* The agent is told to start; or the subscription is taken back.
LEMMA StartAudioSteps ==
    ASSUME HubIndInv, NEW b \in Browser, SendStartAudio(b) \/ UndoAudio(b)
    PROVE  HubIndInv'
<1>ty. HubTypeOK BY DEF HubIndInv
<1>1. CASE SendStartAudio(b)
  <2>1. HasNext(b, "startAudio") /\ phase[b] = "open" /\ todo[b] # <<>>
    BY <1>1, PhaseOfNext DEF SendStartAudio, HasNext
  <2>2. PICK d \in Device : todo[b] = <<Op("startAudio", d)>> /\ b \in audioSubscribers[d]
    BY <2>1, NextOpen
  <2>3. PICK x, y : x = Op("startAudio", d) /\ y = Op("undoAudio", d) OBVIOUS
  <2>4. /\ x \in TodoItem /\ x.op = "startAudio" /\ x.device = d
        /\ y \in TodoItem /\ y.op = "undoAudio"
    BY <2>3, OpFacts
  <2>5. Head(todo[b]).device = d BY <2>2, <2>3, <2>4, ShortTodo
  <2>6. /\ audioOn' = [audioOn EXCEPT ![d] = @ \/ up[d]]
        /\ todo' = [todo EXCEPT ![b] = IF up[d] THEN <<>> ELSE <<Op("undoAudio", d)>>]
        /\ UNCHANGED <<setting, phase, bound, access, previewSubscribers, previewRequests, previewOrder,
                       audioSubscribers, up, told, clients, raced, orphaned>>
    BY <1>1, <2>5 DEF SendStartAudio, hub
  <2>7. PICK q : q = IF up[d] THEN <<>> ELSE <<y>> OBVIOUS
  <2>8. q \in Seq(TodoItem) BY ONLY <2>4, <2>7
  <2>9. todo' \in [Browser -> Seq(TodoItem)] /\ todo'[b] = q /\ \A c \in Browser \ {b} : todo'[c] = todo[c]
    BY <2>3, <2>6, <2>7, <2>8, TodoTyped
  <2>10. audioOn' \in [Device -> BOOLEAN] /\ \A e \in Device : e # d => audioOn'[e] = audioOn[e]
    BY <2>6, <1>ty DEF HubTypeOK
  <2>11. HubTypeOK' BY <2>6, <2>9, <2>10, <1>ty DEF HubTypeOK
  <2>12. Handles(b)' BY <2>3, <2>7, <2>9 DEF Handles
  <2>13. Lawful(b)' BY <2>1, <2>6, <2>12 DEF Lawful
  <2>14. \A c \in Browser \ {b} : Same(c) BY <2>6, <2>9 DEF Same
  <2>15. Aside(todo[b]) /\ Aside(todo'[b])
    <3>1. Aside(<<x>>) BY <2>4, AsideOne
    <3>2. Aside(<<y>>) BY <2>4, AsideOne
    <3>3. QED BY <3>1, <3>2, <2>2, <2>3, <2>7, <2>9, AsideNone
  <2>16. \A e \in Device : ~Has(todo[b], Op("stopAudio", e))
    <3>1. \A e \in Device : Op("stopAudio", e).op = "stopAudio" BY OpFacts
    <3>2. \A r : Has(<<x>>, r) <=> x = r BY HasOne
    <3>3. QED BY <3>1, <3>2, <2>2, <2>3, <2>4
  <2>17. AudioIsWanted'
    <3>1. \A e \in Device : up'[e] /\ audioOn'[e] /\ e \notin orphaned' =>
              \/ audioSubscribers'[e] # {} \/ Has(todo'[b], Op("stopAudio", e))
              \/ /\ up[e] /\ audioOn[e] /\ e \notin orphaned
                 /\ audioSubscribers[e] = {} /\ ~Has(todo[b], Op("stopAudio", e))
      BY <2>2, <2>6, <2>10, <2>16
    <3>2. QED BY <3>1, <2>6, <2>9, AudioKeeps
  <2>18. QED BY <2>6, <2>11, <2>13, <2>14, <2>15, <2>17, OrdinaryStep
<1>2. CASE UndoAudio(b)
  <2>1. HasNext(b, "undoAudio") /\ phase[b] = "open" /\ todo[b] # <<>>
    BY <1>2, PhaseOfNext DEF UndoAudio, HasNext
  <2>2. PICK d \in Device : todo[b] = <<Op("undoAudio", d)>>
    BY <2>1, NextOpen
  <2>3. PICK x : x = Op("undoAudio", d) OBVIOUS
  <2>4. x \in TodoItem /\ x.op = "undoAudio" /\ x.device = d BY <2>3, OpFacts
  <2>5. Head(todo[b]).device = d /\ Tail(todo[b]) = <<>> BY <2>2, <2>3, <2>4, ShortTodo
  <2>6. /\ audioSubscribers' = [audioSubscribers EXCEPT ![d] = @ \ {b}]
        /\ todo' = [todo EXCEPT ![b] = <<>>]
        /\ orphaned' = IF audioSubscribers[d] = {b} THEN orphaned \cup {d} ELSE orphaned
        /\ UNCHANGED <<setting, phase, bound, access, previewSubscribers, previewRequests, previewOrder,
                       up, told, audioOn, clients, raced>>
    BY <1>2, <2>5 DEF UndoAudio, agent, WasLast
  <2>9. todo' \in [Browser -> Seq(TodoItem)] /\ todo'[b] = <<>> /\ \A c \in Browser \ {b} : todo'[c] = todo[c]
    <3>1. <<>> \in Seq(TodoItem) OBVIOUS
    <3>2. QED BY <2>6, <3>1, TodoTyped
  <2>10. /\ audioSubscribers' \in [Device -> SUBSET Browser] /\ audioSubscribers'[d] = audioSubscribers[d] \ {b}
         /\ \A e \in Device : e # d => audioSubscribers'[e] = audioSubscribers[e]
    BY <2>6, <1>ty DEF HubTypeOK
  <2>11. HubTypeOK' BY <2>6, <2>9, <2>10, <1>ty DEF HubTypeOK
  <2>13. Lawful(b)' BY <2>1, <2>6, <2>9 DEF Lawful, Handles
  <2>14. \A c \in Browser \ {b} : Same(c) BY <2>6, <2>9, <2>10 DEF Same
  <2>15. Aside(todo[b]) /\ Aside(todo'[b])
    <3>1. Aside(<<x>>) BY <2>4, AsideOne
    <3>2. QED BY <3>1, <2>2, <2>3, <2>9, AsideNone
  <2>16. \A e \in Device : ~Has(todo[b], Op("stopAudio", e))
    <3>1. \A e \in Device : Op("stopAudio", e).op = "stopAudio" BY OpFacts
    <3>2. \A r : Has(<<x>>, r) <=> x = r BY HasOne
    <3>3. QED BY <3>1, <3>2, <2>2, <2>3, <2>4
  <2>17. AudioIsWanted'
    <3>1. \A e \in Device : up'[e] /\ audioOn'[e] /\ e \notin orphaned' =>
              \/ audioSubscribers'[e] # {} \/ Has(todo'[b], Op("stopAudio", e))
              \/ /\ up[e] /\ audioOn[e] /\ e \notin orphaned
                 /\ audioSubscribers[e] = {} /\ ~Has(todo[b], Op("stopAudio", e))
      BY <2>2, <2>6, <2>10, <2>16
    <3>2. QED BY <3>1, <2>6, <2>9, AudioKeeps
  <2>18. QED BY <2>6, <2>11, <2>13, <2>14, <2>15, <2>17, OrdinaryStep
<1>3. QED BY <1>1, <1>2

\* What the last stop_audio leaves to do.
LEMMA StopAudioStep ==
    ASSUME HubIndInv, NEW b \in Browser, SendStopAudio(b)
    PROVE  HubIndInv'
<1>ty. HubTypeOK BY DEF HubIndInv
<1>1. HasNext(b, "stopAudio") /\ phase[b] \in {"open", "closing"} /\ todo[b] # <<>>
  BY PhaseOfNext DEF SendStopAudio, HasNext
<1>2. PICK q \in Seq(TodoItem) : q = todo[b] BY <1>ty DEF HubTypeOK
<1>3. PICK d \in Device : Head(q) = Op("stopAudio", d)
  <2>1. CASE phase[b] = "open"
    <3>1. PICK d \in Device : todo[b] = <<Op("stopAudio", d)>> BY <1>1, <2>1, NextOpen
    <3>2. QED BY <3>1, <1>2, ShortTodo
  <2>2. CASE phase[b] = "closing" BY <1>1, <1>2, <2>2, NextClosing
  <2>3. QED BY <1>1, <2>1, <2>2
<1>4. PICK t : t = Tail(q) OBVIOUS
<1>5. /\ t \in Seq(TodoItem) /\ Len(t) \in Nat /\ Len(q) = Len(t) + 1 /\ Head(q) = q[1]
      /\ \A i \in 1..Len(t) : t[i] = q[i + 1]
  BY <1>1, <1>2, <1>4
<1>6. Head(todo[b]).device = d BY <1>2, <1>3, OpFacts
<1>7. /\ audioOn' = [audioOn EXCEPT ![d] = @ /\ ~up[d]] /\ todo' = [todo EXCEPT ![b] = t]
      /\ UNCHANGED <<setting, phase, bound, access, previewSubscribers, previewRequests, previewOrder,
                     audioSubscribers, up, told, clients, raced, orphaned>>
  BY <1>2, <1>4, <1>6 DEF SendStopAudio, hub
<1>8. todo' \in [Browser -> Seq(TodoItem)] /\ todo'[b] = t /\ \A c \in Browser \ {b} : todo'[c] = todo[c]
  BY <1>5, <1>7, TodoTyped
<1>9. audioOn' \in [Device -> BOOLEAN] /\ (audioOn'[d] => audioOn[d] /\ ~up[d])
        /\ \A e \in Device : e # d => audioOn'[e] = audioOn[e]
  BY <1>7, <1>ty DEF HubTypeOK
<1>10. HubTypeOK' BY <1>7, <1>8, <1>9, <1>ty DEF HubTypeOK
<1>11. Lawful(b)' /\ Aside(q) /\ Aside(t)
  <2>1. CASE phase[b] = "open"
    <3>1. PICK e \in Device : todo[b] = <<Op("stopAudio", e)>> BY <1>1, <2>1, NextOpen
    <3>2. PICK x : x = Op("stopAudio", e) OBVIOUS
    <3>3. x.op = "stopAudio" BY <3>2, OpFacts
    <3>4. q = <<x>> BY <3>1, <3>2, <1>2
    <3>5. t = <<>> BY <3>4, <1>4, ShortTodo
    <3>6. Lawful(b)' BY <2>1, <3>5, <1>7, <1>8 DEF Lawful, Handles
    <3>7. Aside(<<x>>) BY <3>3, AsideOne
    <3>8. QED BY <3>4, <3>5, <3>6, <3>7, AsideNone
  <2>2. CASE phase[b] = "closing"
    <3>1. Stopping(q) /\ Stopping(t) /\ Released(b) /\ Silent(b) BY <1>1, <1>2, <1>4, <2>2, NextClosing
    <3>2. Released(b)' /\ Silent(b)' BY <3>1, <1>7 DEF Released, Silent
    <3>3. Lawful(b)' BY <3>1, <3>2, <2>2, <1>7, <1>8 DEF Lawful, Cleans
    <3>4. Aside(q) BY <3>1, StoppingIsAside
    <3>5. Aside(t) BY <3>1, <1>5, StoppingIsAside
    <3>6. QED BY <3>3, <3>4, <3>5
  <2>3. QED BY <1>1, <2>1, <2>2
<1>12. \A c \in Browser \ {b} : Same(c) BY <1>7, <1>8 DEF Same
<1>13. AudioIsWanted'
  <2>1. ASSUME NEW e \in Device, Has(todo[b], Op("stopAudio", e)), up'[e], audioOn'[e]
        PROVE  Has(todo'[b], Op("stopAudio", e))
    <3>1. PICK i \in 1..Len(q) : q[i] = Op("stopAudio", e) BY <2>1, <1>2 DEF Has
    <3>2. up[e] BY <2>1, <1>7
    <3>3. e # d BY <3>2, <2>1, <1>9
    <3>4. i # 1
      <4>1. Op("stopAudio", e).device = e /\ Op("stopAudio", d).device = d BY OpFacts
      <4>2. QED BY <4>1, <3>1, <3>3, <1>3, <1>5
    <3>5. i - 1 \in 1..Len(t) /\ (i - 1) + 1 = i BY <3>4, <1>5
    <3>6. t[i - 1] = Op("stopAudio", e) BY <3>1, <3>5, <1>5
    <3>7. QED BY <3>5, <3>6, <1>8 DEF Has
  <2>2. \A e \in Device : up'[e] /\ audioOn'[e] /\ e \notin orphaned' =>
              \/ audioSubscribers'[e] # {} \/ Has(todo'[b], Op("stopAudio", e))
              \/ /\ up[e] /\ audioOn[e] /\ e \notin orphaned
                 /\ audioSubscribers[e] = {} /\ ~Has(todo[b], Op("stopAudio", e))
    BY <2>1, <1>7, <1>9
  <2>3. QED BY <2>2, <1>8, AudioKeeps
<1>14. Aside(todo[b]) /\ Aside(todo'[b]) BY <1>2, <1>8, <1>11
<1>15. QED BY <1>7, <1>10, <1>11, <1>12, <1>13, <1>14, OrdinaryStep

\* One op per device of a set, in some order.
Ops(name, D) == {Op(name, d) : d \in D}

LEMMA OpsOfDevices ==
    ASSUME NEW D \in SUBSET Device, NEW name \in {"stopAudio", "syncPreview"},
           NEW s, s \in SetToSeqs(Ops(name, D))
    PROVE  /\ s \in Seq(TodoItem)
           /\ \A i \in 1..Len(s) : \E d \in D : s[i] = Op(name, d)
           /\ \A d \in D : Has(s, Op(name, d))
<1>1. PICK f : f = [d \in D |-> Op(name, d)] OBVIOUS
<1>2. PICK S : S = Ops(name, D) OBVIOUS
<1>r. S = {Op(name, d) : d \in D} BY <1>2 DEF Ops
<1>3. f \in Surjection(D, S) BY <1>1, <1>r DEF Surjection
<1>4. IsFiniteSet(D) BY HubAssumption, FS_Subset
<1>5. IsFiniteSet(S) BY <1>3, <1>4, FS_Surjection
<1>6. s \in Seq(S) /\ \A r \in S : \E i \in 1..Len(s) : s[i] = r
  <2>1. s \in SetToSeqs(S) BY <1>2
  <2>2. QED BY <2>1, <1>5, RangeOrders
<1>7. S \subseteq TodoItem BY <1>r, OpFacts
<1>8. s \in Seq(TodoItem) /\ \A i \in 1..Len(s) : s[i] \in S BY <1>6, <1>7
<1>9. \A d \in D : Op(name, d) \in S BY <1>r
<1>10. \A d \in D : Has(s, Op(name, d)) BY <1>6, <1>9 DEF Has
<1>11. \A r \in S : \E d \in D : r = Op(name, d) BY <1>r
<1>12. QED BY <1>8, <1>10, <1>11

\* The browser stops listening to everything.
LEMMA RemoveAudioStep ==
    ASSUME HubIndInv, NEW b \in Browser, RemoveAudioBrowser(b)
    PROVE  HubIndInv'
<1>ty. HubTypeOK BY DEF HubIndInv
<1>1. HasNext(b, "removeAudioBrowser") /\ phase[b] = "closing"
  BY PhaseOfNext DEF RemoveAudioBrowser
<1>2. todo[b] = <<Op("removeAudioBrowser", NoDevice), Op("removeBrowser", NoDevice)>> /\ Released(b)
  BY <1>1, NextClosing
<1>3. PICK x, z : x = Op("removeAudioBrowser", NoDevice) /\ z = Op("removeBrowser", NoDevice) OBVIOUS
<1>4. z \in TodoItem /\ x.op = "removeAudioBrowser" /\ z.op = "removeBrowser" BY <1>3, OpFacts
<1>5. todo[b] = <<x, z>> BY <1>2, <1>3
<1>6. Tail(todo[b]) = <<z>> BY <1>5, ShortTodo
<1>7. PICK D : D = {e \in Device : WasLast(b, e)} OBVIOUS
<1>8. PICK s \in SetToSeqs(Ops("stopAudio", D)) : todo' = [todo EXCEPT ![b] = s \o <<z>>]
  BY <1>6, <1>7 DEF RemoveAudioBrowser, Ops
<1>9. /\ s \in Seq(TodoItem) /\ \A i \in 1..Len(s) : \E d \in D : s[i] = Op("stopAudio", d)
      /\ \A d \in D : Has(s, Op("stopAudio", d))
  <2>1. D \in SUBSET Device BY <1>7
  <2>2. QED BY <2>1, <1>8, OpsOfDevices
<1>10. PICK q : q = s \o <<z>> OBVIOUS
<1>11. PICK n \in Nat : n = Len(s) BY <1>9
<1>12. q \in Seq(TodoItem) /\ Len(q) = n + 1 /\ q[n + 1] = z /\ \A i \in 1..n : q[i] = s[i]
  <2>1. <<z>> \in Seq(TodoItem) /\ Len(<<z>>) = 1 /\ <<z>>[1] = z BY <1>4
  <2>2. q \in Seq(TodoItem) /\ Len(q) = n + 1 BY <1>9, <1>10, <1>11, <2>1
  <2>3. QED BY <1>9, <1>10, <1>11, <2>1, <2>2
<1>13. Stopping(q)
  <2>1. Len(q) > 0 /\ Len(q) - 1 = n BY <1>12
  <2>2. q[Len(q)] = Op("removeBrowser", NoDevice) BY <1>12, <1>3
  <2>3. \A i \in 1..n : \E d \in Device : q[i] = Op("stopAudio", d) BY <1>7, <1>9, <1>11, <1>12
  <2>4. QED BY <2>1, <2>2, <2>3 DEF Stopping
<1>14. \A d \in D : Has(q, Op("stopAudio", d))
  <2>1. 1..n \subseteq 1..Len(q) BY <1>12
  <2>2. QED BY <2>1, <1>9, <1>11, <1>12 DEF Has
<1>15. /\ audioSubscribers' = [d \in Device |-> audioSubscribers[d] \ {b}] /\ todo' = [todo EXCEPT ![b] = q]
       /\ UNCHANGED <<setting, phase, bound, access, previewSubscribers, previewRequests, previewOrder,
                      up, told, audioOn, clients, raced, orphaned>>
  BY <1>8, <1>10 DEF RemoveAudioBrowser, agent
<1>16. todo' \in [Browser -> Seq(TodoItem)] /\ todo'[b] = q /\ \A c \in Browser \ {b} : todo'[c] = todo[c]
  BY <1>12, <1>15, TodoTyped
<1>17. /\ audioSubscribers' \in [Device -> SUBSET Browser]
       /\ \A e \in Device : audioSubscribers'[e] = audioSubscribers[e] \ {b}
  BY <1>15, <1>ty DEF HubTypeOK
<1>18. HubTypeOK' BY <1>15, <1>16, <1>17, <1>ty DEF HubTypeOK
<1>19. Lawful(b)'
  <2>1. Released(b)' /\ Silent(b)' BY <1>2, <1>15, <1>17 DEF Released, Silent
  <2>2. QED BY <2>1, <1>1, <1>13, <1>15, <1>16 DEF Lawful, Cleans
<1>20. \A c \in Browser \ {b} : Same(c) BY <1>15, <1>16, <1>17 DEF Same
<1>21. Aside(todo[b]) /\ Aside(todo'[b])
  <2>1. Aside(<<x, z>>) BY <1>4, AsideTwo
  <2>2. Aside(q) BY <1>12, <1>13, StoppingIsAside
  <2>3. QED BY <2>1, <2>2, <1>5, <1>16
<1>22. AudioIsWanted'
  <2>1. \A e \in Device : ~Has(todo[b], Op("stopAudio", e))
    <3>1. \A e \in Device : Op("stopAudio", e).op = "stopAudio" BY OpFacts
    <3>2. \A r : Has(<<x, z>>, r) <=> (x = r \/ z = r) BY HasTwo
    <3>3. QED BY <3>1, <3>2, <1>4, <1>5
  <2>2. \A e \in Device : audioSubscribers[e] # {} => audioSubscribers'[e] # {} \/ e \in D
    BY <1>7, <1>17 DEF WasLast
  <2>3. \A e \in Device : up'[e] /\ audioOn'[e] /\ e \notin orphaned' =>
              \/ audioSubscribers'[e] # {} \/ Has(todo'[b], Op("stopAudio", e))
              \/ /\ up[e] /\ audioOn[e] /\ e \notin orphaned
                 /\ audioSubscribers[e] = {} /\ ~Has(todo[b], Op("stopAudio", e))
    BY <2>1, <2>2, <1>14, <1>15, <1>16
  <2>4. QED BY <2>3, <1>15, <1>16, AudioKeeps
<1>23. QED BY <1>15, <1>18, <1>19, <1>20, <1>21, <1>22, OrdinaryStep

\* The parts of the invariant that a step of browser b has to show.
LEMMA PreviewStep ==
    ASSUME HubIndInv, HubTypeOK', NEW b \in Browser, \A c \in Browser \ {b} : Same(c), Lawful(b)',
           OrdersAreUnique', OrdersSuffice', RequestsAreSubscribed',
           SyncsAreExact', AudioIsWanted'
    PROVE  HubIndInv'
<1>1. \A c \in Browser : Lawful(c) BY DEF HubIndInv, TodoIsLawful
<1>2. \A c \in Browser \ {b} : Lawful(c)' BY <1>1, OthersStay
<1>3. TodoIsLawful' BY <1>2 DEF TodoIsLawful
<1>4. QED BY <1>3 DEF HubIndInv

\* Browser b changes requests and leaves a sync to do for each device concerned.
LEMMA SyncsFollow ==
    ASSUME HubIndInv, NEW b \in Browser, \A c \in Browser \ {b} : todo'[c] = todo[c],
           UNCHANGED <<up, told, raced, orphaned>>,
           \A e \in Device : /\ ~Sends(b, e) /\ ~Sends(b, e)'
                             /\ \/ Has(todo'[b], SyncPreview(e))
                                \/ /\ previewRequests'[e] = previewRequests[e]
                                   /\ ~Has(todo[b], SyncPreview(e))
    PROVE  SyncsAreExact'
<1> SUFFICES ASSUME NEW d \in Device PROVE Exact(d)'
  BY DEF SyncsAreExact
<1>1. Exact(d) BY DEF HubIndInv, SyncsAreExact
<1>2. \A c \in Browser : (Sends(c, d)' <=> Sends(c, d)) /\ (Sends(c, d)' => Head(todo'[c]) = Head(todo[c]))
  BY DEF Sends, HasNext
<1>3. CASE Has(todo'[b], SyncPreview(d))
  <2>1. SyncIsDue(d)' BY <1>3 DEF SyncIsDue
  <2>2. QED BY <1>1, <1>2, <2>1, ExactStays
<1>4. CASE previewRequests'[d] = previewRequests[d] /\ ~Has(todo[b], SyncPreview(d))
  <2>1. SyncIsDue(d) => SyncIsDue(d)' BY <1>4, SyncStaysDue
  <2>2. Wanted(d)' = Wanted(d) BY <1>4, WantedStays
  <2>3. QED BY <1>1, <1>2, <2>1, <2>2, ExactStays
<1>5. QED BY <1>3, <1>4

\* unsubscribePreview, device by device.
LEMMA DropFacts ==
    ASSUME HubTypeOK, NEW b \in Browser, NEW D \in SUBSET Device, DropPreview(b, D)
    PROVE  /\ previewSubscribers' \in [Device -> SUBSET Browser]
           /\ previewRequests' \in [Device -> [Browser -> Request \cup {Nothing}]]
           /\ \A d \in D : previewSubscribers'[d] = previewSubscribers[d] \ {b} /\ previewRequests'[d][b] = Nothing
           /\ \A d \in Device \ D : previewSubscribers'[d] = previewSubscribers[d]
                                      /\ previewRequests'[d] = previewRequests[d]
           /\ \A d \in Device : \A c \in Browser \ {b} : previewRequests'[d][c] = previewRequests[d][c]
<1>1. previewSubscribers \in [Device -> SUBSET Browser]
      /\ previewRequests \in [Device -> [Browser -> Request \cup {Nothing}]]
  BY DEF HubTypeOK
<1>2. \A d \in Device : previewRequests[d] \in [Browser -> Request \cup {Nothing}] BY <1>1
<1>3. /\ previewSubscribers' =
           [d \in Device |-> previewSubscribers[d] \ (IF d \in D THEN {b} ELSE {})]
      /\ previewRequests' =
           [d \in Device |-> IF d \in D THEN [previewRequests[d] EXCEPT ![b] = Nothing]
                               ELSE previewRequests[d]]
  BY DEF DropPreview
<1>4. QED BY <1>1, <1>2, <1>3

\* Dropping requests keeps orders unique and requests subscribed.
LEMMA DropKeeps ==
    ASSUME HubIndInv, HubTypeOK', NEW b \in Browser, NEW D \in SUBSET Device, DropPreview(b, D),
           previewOrder' = previewOrder
    PROVE  OrdersAreUnique' /\ RequestsAreSubscribed'
<1>1. HubTypeOK BY DEF HubIndInv
<1>2. /\ \A d \in D : previewSubscribers'[d] = previewSubscribers[d] \ {b} /\ previewRequests'[d][b] = Nothing
      /\ \A d \in Device \ D : previewSubscribers'[d] = previewSubscribers[d]
                                 /\ previewRequests'[d] = previewRequests[d]
      /\ \A d \in Device : \A c \in Browser \ {b} : previewRequests'[d][c] = previewRequests[d][c]
  BY <1>1, DropFacts
<1>3. \A d \in Device, c \in Browser :
         previewRequests'[d][c] # Nothing => /\ previewRequests'[d][c] = previewRequests[d][c]
                                             /\ c \in previewSubscribers[d] => c \in previewSubscribers'[d]
  BY <1>2
<1>4. OrdersAreUnique' BY <1>3 DEF HubIndInv, OrdersAreUnique
<1>5. RequestsAreSubscribed' BY <1>3 DEF HubIndInv, RequestsAreSubscribed
<1>6. QED BY <1>4, <1>5

\* "stop_preview": the request goes with the subscription, and a sync follows.
LEMMA StopPreviewStep ==
    ASSUME HubIndInv, NEW b \in Browser, NEW d \in Device, StopPreview(b, d)
    PROVE  HubIndInv'
<1>ty. HubTypeOK BY DEF HubIndInv
<1>1. /\ phase[b] = "open" /\ todo[b] = <<>> /\ DropPreview(b, {d})
      /\ todo' = [todo EXCEPT ![b] = <<SyncPreview(d)>>]
      /\ UNCHANGED <<setting, phase, bound, access, previewOrder, audioSubscribers, up, told, audioOn,
                     clients, raced, orphaned>>
  BY DEF StopPreview, Idle, agent
<1>2. /\ previewSubscribers' \in [Device -> SUBSET Browser]
      /\ previewRequests' \in [Device -> [Browser -> Request \cup {Nothing}]]
      /\ \A e \in {d} : previewSubscribers'[e] = previewSubscribers[e] \ {b} /\ previewRequests'[e][b] = Nothing
      /\ \A e \in Device \ {d} : previewSubscribers'[e] = previewSubscribers[e]
                                   /\ previewRequests'[e] = previewRequests[e]
      /\ \A e \in Device : \A c \in Browser \ {b} : previewRequests'[e][c] = previewRequests[e][c]
  <2>1. {d} \in SUBSET Device OBVIOUS
  <2>2. QED BY ONLY <2>1, <1>1, <1>ty, b \in Browser, DropFacts
<1>3. PICK x : x = SyncPreview(d) OBVIOUS
<1>4. x \in TodoItem /\ x.op = "syncPreview" BY <1>3, SyncFacts
<1>5. PICK q : q = <<x>> OBVIOUS
<1>6. q \in Seq(TodoItem) /\ Head(q) = x BY ONLY <1>4, <1>5
<1>7. todo' \in [Browser -> Seq(TodoItem)] /\ todo'[b] = q /\ \A c \in Browser \ {b} : todo'[c] = todo[c]
  BY <1>1, <1>3, <1>5, <1>6, TodoTyped
<1>8. HubTypeOK' BY <1>1, <1>2, <1>7, <1>ty DEF HubTypeOK
<1>9. Lawful(b)' BY <1>1, <1>3, <1>5, <1>7 DEF Lawful, Handles
<1>10. \A c \in Browser \ {b} : Same(c) BY <1>1, <1>2, <1>7 DEF Same
<1>11. OrdersAreUnique' /\ RequestsAreSubscribed'
  <2>1. {d} \in SUBSET Device OBVIOUS
  <2>2. QED BY ONLY <2>1, <1>1, <1>8, HubIndInv, b \in Browser, DropKeeps
<1>12. OrdersSuffice'
  <2>1. ~HasNext(b, "setPreviewRequest")' BY <1>4, <1>6, <1>7 DEF HasNext
  <2>2. \A c \in Browser : HasNext(c, "setPreviewRequest")' => HasNext(c, "setPreviewRequest")
    BY <2>1, <1>7 DEF HasNext
  <2>3. QED BY <2>2, <1>1, OrdersStay
<1>13. SyncsAreExact'
  <2>1. Has(todo'[b], SyncPreview(d))
    <3>1. Has(<<x>>, x) BY HasOne
    <3>2. QED BY <3>1, <1>3, <1>5, <1>7
  <2>2. \A e \in Device : ~Sends(b, e) /\ ~Sends(b, e)'
    BY <1>1, <1>4, <1>6, <1>7 DEF Sends, HasNext
  <2>3. \A e \in Device : ~Has(todo[b], SyncPreview(e)) BY <1>1, HasNone
  <2>4. \A e \in Device : /\ ~Sends(b, e) /\ ~Sends(b, e)'
                          /\ \/ Has(todo'[b], SyncPreview(e))
                             \/ previewRequests'[e] = previewRequests[e] /\ ~Has(todo[b], SyncPreview(e))
    BY <2>1, <2>2, <2>3, <1>2
  <2>5. QED BY <2>4, <1>1, <1>7, SyncsFollow
<1>14. AudioIsWanted'
  <2>1. \A e \in Device : ~Has(todo[b], Op("stopAudio", e)) BY <1>1, HasNone
  <2>2. QED BY <2>1, <1>1, <1>7, AudioStays
<1>15. QED BY <1>1, <1>8, <1>9, <1>10, <1>11, <1>12, <1>13, <1>14, PreviewStep

\* "start_preview": the browser subscribes and will ask.
LEMMA StartPreviewStep ==
    ASSUME HubIndInv, NEW b \in Browser, NEW d \in Device, StartPreview(b, d)
    PROVE  HubIndInv'
<1>ty. HubTypeOK BY DEF HubIndInv
<1>1. /\ phase[b] = "open" /\ todo[b] = <<>>
      /\ previewOrder + Cardinality(Asking) < MaxRequests
      /\ previewSubscribers' = [previewSubscribers EXCEPT ![d] = @ \cup {b}]
      /\ UNCHANGED <<setting, phase, bound, access, previewRequests, previewOrder, audioSubscribers, up,
                     told, audioOn, clients, raced, orphaned>>
  BY DEF StartPreview, Idle, agent, Asking
<1>2. PICK fg \in BOOLEAN, aw \in BOOLEAN : todo' = [todo EXCEPT ![b] = <<Ask(d, fg, aw), SyncPreview(d)>>]
  BY DEF StartPreview
<1>3. PICK x, y : x = Ask(d, fg, aw) /\ y = SyncPreview(d) OBVIOUS
<1>4. x \in TodoItem /\ x.op = "setPreviewRequest" /\ y \in TodoItem BY <1>3, AskFacts, SyncFacts
<1>5. PICK q : q = <<x, y>> OBVIOUS
<1>6. q \in Seq(TodoItem) /\ Head(q) = x /\ q # <<>> BY ONLY <1>4, <1>5
<1>7. todo' \in [Browser -> Seq(TodoItem)] /\ todo'[b] = q /\ \A c \in Browser \ {b} : todo'[c] = todo[c]
  BY <1>2, <1>3, <1>5, <1>6, TodoTyped
<1>8. /\ previewSubscribers' \in [Device -> SUBSET Browser] /\ b \in previewSubscribers'[d]
      /\ \A e \in Device : previewSubscribers[e] \subseteq previewSubscribers'[e]
                             /\ previewSubscribers'[e] \subseteq previewSubscribers[e] \cup {b}
  BY <1>1, <1>ty DEF HubTypeOK
<1>9. HubTypeOK' BY <1>1, <1>7, <1>8, <1>ty DEF HubTypeOK
<1>10. Handles(b)' BY <1>3, <1>5, <1>7, <1>8 DEF Handles
<1>11. Lawful(b)' BY <1>1, <1>10 DEF Lawful
<1>12. \A c \in Browser \ {b} : Same(c) BY <1>1, <1>7, <1>8 DEF Same
<1>13. OrdersAreUnique' /\ RequestsAreSubscribed'
  <2>1. OrdersAreUnique' BY <1>1 DEF HubIndInv, OrdersAreUnique
  <2>2. \A e \in Device, c \in Browser : previewRequests[e][c] # Nothing => c \in previewSubscribers[e]
    BY DEF HubIndInv, RequestsAreSubscribed
  <2>3. RequestsAreSubscribed' BY <2>2, <1>1, <1>8 DEF RequestsAreSubscribed
  <2>4. QED BY <2>1, <2>3
<1>14. OrdersSuffice'
  <2>1. Asking' = Asking \cup {b}
    <3>1. HasNext(b, "setPreviewRequest")' BY <1>4, <1>6, <1>7 DEF HasNext
    <3>2. QED BY <3>1, <1>7 DEF Asking, HasNext
  <2>2. b \notin Asking BY <1>1 DEF Asking, HasNext
  <2>3. IsFiniteSet(Asking)
    <3>1. Asking \in SUBSET Browser BY DEF Asking
    <3>2. QED BY <3>1, HubAssumption, FS_Subset
  <2>4. Cardinality(Asking \cup {b}) = Cardinality(Asking) + 1 BY <2>2, <2>3, FS_AddElement
  <2>5. Cardinality(Asking) \in Nat BY <2>3, FS_CardinalityType
  <2>6. previewOrder \in Nat /\ MaxRequests \in Nat BY <1>ty, HubAssumption DEF HubTypeOK
  <2>7. PICK n \in Nat, k \in Nat : n = previewOrder /\ k = Cardinality(Asking) BY <2>5, <2>6
  <2>8. n + (k + 1) <= MaxRequests BY <1>1, <2>6, <2>7
  <2>9. Cardinality(Asking') = k + 1 BY <2>1, <2>4, <2>7
  <2>10. QED BY <2>7, <2>8, <2>9, <1>1 DEF OrdersSuffice
<1>15. SyncsAreExact'
  <2>1. Has(todo'[b], SyncPreview(d))
    <3>1. Has(<<x, y>>, y) BY HasTwo
    <3>2. QED BY <3>1, <1>3, <1>5, <1>7
  <2>2. \A e \in Device : ~Sends(b, e) /\ ~Sends(b, e)'
    BY <1>1, <1>4, <1>6, <1>7 DEF Sends, HasNext
  <2>3. \A e \in Device : ~Has(todo[b], SyncPreview(e)) BY <1>1, HasNone
  <2>4. \A e \in Device : /\ ~Sends(b, e) /\ ~Sends(b, e)'
                          /\ \/ Has(todo'[b], SyncPreview(e))
                             \/ previewRequests'[e] = previewRequests[e] /\ ~Has(todo[b], SyncPreview(e))
    BY <2>1, <2>2, <2>3, <1>1
  <2>5. QED BY <2>4, <1>1, <1>7, SyncsFollow
<1>16. AudioIsWanted'
  <2>1. \A e \in Device : ~Has(todo[b], Op("stopAudio", e)) BY <1>1, HasNone
  <2>2. QED BY <2>1, <1>1, <1>7, AudioStays
<1>17. QED BY <1>1, <1>9, <1>11, <1>12, <1>13, <1>14, <1>15, <1>16, PreviewStep

\* setPreviewRequest: the next order is free, and the subscription is there.
LEMMA SetPreviewStep ==
    ASSUME HubIndInv, NEW b \in Browser, SetPreviewRequest(b)
    PROVE  HubIndInv'
<1>ty. HubTypeOK BY DEF HubIndInv
<1>1. HasNext(b, "setPreviewRequest") /\ phase[b] = "open" /\ todo[b] # <<>>
  BY PhaseOfNext DEF SetPreviewRequest, HasNext
<1>2. PICK d \in Device, fg \in BOOLEAN, aw \in BOOLEAN :
         todo[b] = <<Ask(d, fg, aw), SyncPreview(d)>> /\ b \in previewSubscribers[d]
  BY <1>1, NextOpen
<1>3. PICK x, y : x = Ask(d, fg, aw) /\ y = SyncPreview(d) OBVIOUS
<1>4. /\ x.op = "setPreviewRequest" /\ x.device = d /\ x.foreground = fg /\ x.awake = aw
      /\ y \in TodoItem /\ y.op = "syncPreview"
  BY <1>3, AskFacts, SyncFacts
<1>5. todo[b] = <<x, y>> BY <1>2, <1>3
<1>6. Head(todo[b]) = x /\ Tail(todo[b]) = <<y>> BY <1>5, ShortTodo
<1>7. PICK n \in Nat : n = previewOrder BY <1>ty DEF HubTypeOK
<1>8. PICK r : r = [by |-> b, foreground |-> fg, awake |-> aw, order |-> n + 1] OBVIOUS
<1>9. /\ previewOrder' = n + 1 /\ previewRequests' = [previewRequests EXCEPT ![d][b] = r]
      /\ todo' = [todo EXCEPT ![b] = <<y>>]
      /\ UNCHANGED <<setting, phase, bound, access, previewSubscribers, audioSubscribers, up, told, audioOn,
                     clients, raced, orphaned>>
  BY <1>4, <1>6, <1>7, <1>8 DEF SetPreviewRequest, agent
<1>10. PICK q : q = <<y>> OBVIOUS
<1>11. q \in Seq(TodoItem) /\ Head(q) = y BY ONLY <1>4, <1>10
<1>12. todo' \in [Browser -> Seq(TodoItem)] /\ todo'[b] = q /\ \A c \in Browser \ {b} : todo'[c] = todo[c]
  BY <1>9, <1>10, <1>11, TodoTyped
<1>13. OrdersSuffice' /\ n + 1 <= MaxRequests
  <2>1. Asking' = Asking \ {b}
    <3>1. ~HasNext(b, "setPreviewRequest")' BY <1>4, <1>11, <1>12 DEF HasNext
    <3>2. QED BY <3>1, <1>12 DEF Asking, HasNext
  <2>2. b \in Asking BY <1>1 DEF Asking
  <2>3. IsFiniteSet(Asking)
    <3>1. Asking \in SUBSET Browser BY DEF Asking
    <3>2. QED BY <3>1, HubAssumption, FS_Subset
  <2>4. Cardinality(Asking \ {b}) = Cardinality(Asking) - 1 /\ IsFiniteSet(Asking \ {b})
    BY <2>2, <2>3, FS_RemoveElement
  <2>5. Cardinality(Asking) \in Nat /\ Cardinality(Asking \ {b}) \in Nat BY <2>3, <2>4, FS_CardinalityType
  <2>6. MaxRequests \in Nat BY HubAssumption
  <2>7. PICK j \in Nat, k \in Nat : j = Cardinality(Asking \ {b}) /\ k = Cardinality(Asking) BY <2>5
  <2>8. n + k <= MaxRequests BY <1>7, <2>7 DEF HubIndInv, OrdersSuffice
  <2>9. j = k - 1 BY <2>4, <2>7
  <2>10. (n + 1) + j <= MaxRequests /\ n + 1 <= MaxRequests BY <2>6, <2>8, <2>9
  <2>11. Cardinality(Asking') = j BY <2>1, <2>7
  <2>12. QED BY <2>10, <2>11, <1>9 DEF OrdersSuffice
<1>14. r \in Request /\ r.order = n + 1
  <2>1. n + 1 \in 1..MaxRequests BY <1>13, HubAssumption
  <2>2. QED BY ONLY <2>1, <1>8, b \in Browser, fg \in BOOLEAN, aw \in BOOLEAN DEF Request
<1>15. /\ previewRequests' \in [Device -> [Browser -> Request \cup {Nothing}]]
       /\ previewRequests'[d][b] = r
       /\ \A e \in Device : e # d => previewRequests'[e] = previewRequests[e]
       /\ \A e \in Device : \A c \in Browser \ {b} : previewRequests'[e][c] = previewRequests[e][c]
  <2>1. previewRequests \in [Device -> [Browser -> Request \cup {Nothing}]] BY <1>ty DEF HubTypeOK
  <2>2. PICK g \in [Browser -> Request \cup {Nothing}] : g = previewRequests[d] BY <2>1
  <2>3. PICK h : h = [g EXCEPT ![b] = r] OBVIOUS
  <2>4. /\ h \in [Browser -> Request \cup {Nothing}] /\ h[b] = r
        /\ \A c \in Browser \ {b} : h[c] = g[c]
    BY <1>14, <2>2, <2>3
  <2>5. previewRequests' = [previewRequests EXCEPT ![d] = h] BY <1>9, <2>1, <2>2, <2>3
  <2>6. QED BY <2>1, <2>2, <2>4, <2>5
<1>16. previewOrder' \in 0..MaxRequests BY <1>9, <1>13, HubAssumption
<1>17. HubTypeOK' BY <1>9, <1>12, <1>15, <1>16, <1>ty DEF HubTypeOK
<1>18. Handles(b)' BY <1>3, <1>10, <1>12 DEF Handles
<1>19. Lawful(b)' BY <1>1, <1>9, <1>18 DEF Lawful
<1>20. \A c \in Browser \ {b} : Same(c) BY <1>9, <1>12, <1>15 DEF Same
<1>21. OrdersAreUnique'
  <2>ty. \A e \in Device, c \in Browser :
            previewRequests[e][c] # Nothing => previewRequests[e][c].order \in Nat
    <3>1. \A e \in Device, c \in Browser : previewRequests[e][c] \in Request \cup {Nothing}
      BY <1>ty DEF HubTypeOK
    <3>2. \A p \in Request : p.order \in Nat BY HubAssumption DEF Request
    <3>3. QED BY <3>1, <3>2
  <2>1. \A e \in Device, c, f \in Browser :
           previewRequests[e][c] # Nothing =>
              /\ previewRequests[e][c].order <= n
              /\ c # f /\ previewRequests[e][f] # Nothing =>
                   previewRequests[e][c].order # previewRequests[e][f].order
    BY <1>7 DEF HubIndInv, OrdersAreUnique
  <2>2. SUFFICES ASSUME NEW e \in Device, NEW c \in Browser, NEW f \in Browser,
                        previewRequests'[e][c] # Nothing
                 PROVE  /\ previewRequests'[e][c].order <= n + 1
                        /\ c # f /\ previewRequests'[e][f] # Nothing =>
                             previewRequests'[e][c].order # previewRequests'[e][f].order
    BY <1>9 DEF OrdersAreUnique
  <2>3. CASE e # d
    <3>1. previewRequests'[e] = previewRequests[e] BY <2>3, <1>15
    <3>2. QED BY <3>1, <2>1, <2>2, <2>ty
  <2>4. CASE e = d
    <3>1. \A p \in Browser \ {b} : previewRequests'[d][p] # Nothing =>
             previewRequests'[d][p] = previewRequests[d][p] /\ previewRequests[d][p].order <= n
               /\ previewRequests[d][p].order \in Nat
      BY <1>15, <2>1, <2>ty
    <3>2. QED BY <3>1, <2>1, <2>2, <2>4, <1>14, <1>15
  <2>5. QED BY <2>3, <2>4
<1>22. RequestsAreSubscribed'
  <2>1. \A e \in Device, c \in Browser : previewRequests[e][c] # Nothing => c \in previewSubscribers[e]
    BY DEF HubIndInv, RequestsAreSubscribed
  <2>2. \A e \in Device, c \in Browser : previewRequests'[e][c] # Nothing => c \in previewSubscribers[e]
    BY <2>1, <1>2, <1>15
  <2>3. QED BY <2>2, <1>9 DEF RequestsAreSubscribed
<1>23. SyncsAreExact'
  <2>1. Has(todo'[b], SyncPreview(d))
    <3>1. Has(<<y>>, y) BY HasOne
    <3>2. QED BY <3>1, <1>3, <1>10, <1>12
  <2>2. \A e \in Device : ~Sends(b, e) /\ ~Sends(b, e)'
    BY <1>4, <1>6, <1>11, <1>12 DEF Sends, HasNext
  <2>3. \A e \in Device : e # d => ~Has(todo[b], SyncPreview(e))
    <3>1. \A e \in Device : SyncPreview(e).op = "syncPreview" /\ SyncPreview(e).device = e BY SyncFacts
    <3>2. \A p : Has(<<x, y>>, p) <=> (x = p \/ y = p) BY HasTwo
    <3>3. QED BY <3>1, <3>2, <1>3, <1>4, <1>5
  <2>4. \A e \in Device : /\ ~Sends(b, e) /\ ~Sends(b, e)'
                          /\ \/ Has(todo'[b], SyncPreview(e))
                             \/ previewRequests'[e] = previewRequests[e] /\ ~Has(todo[b], SyncPreview(e))
    BY <2>1, <2>2, <2>3, <1>15
  <2>5. QED BY <2>4, <1>9, <1>12, SyncsFollow
<1>24. AudioIsWanted'
  <2>1. \A e \in Device : ~Has(todo[b], Op("stopAudio", e))
    <3>1. \A e \in Device : Op("stopAudio", e).op = "stopAudio" BY OpFacts
    <3>2. \A p : Has(<<x, y>>, p) <=> (x = p \/ y = p) BY HasTwo
    <3>3. QED BY <3>1, <3>2, <1>4, <1>5
  <2>2. QED BY <2>1, <1>9, <1>12, AudioStays
<1>25. QED BY <1>9, <1>13, <1>17, <1>19, <1>20, <1>21, <1>22, <1>23, <1>24, PreviewStep

\* removeBrowser: what the browser was watching gets a sync each.
LEMMA RemoveBrowserStep ==
    ASSUME HubIndInv, NEW b \in Browser, RemoveBrowser(b)
    PROVE  HubIndInv'
<1>ty. HubTypeOK BY DEF HubIndInv
<1>1. HasNext(b, "removeBrowser") /\ phase[b] = "closing" BY PhaseOfNext DEF RemoveBrowser
<1>2. todo[b] = <<Op("removeBrowser", NoDevice)>> /\ Released(b) /\ Silent(b) BY <1>1, NextClosing
<1>3. PICK x : x = Op("removeBrowser", NoDevice) OBVIOUS
<1>4. x.op = "removeBrowser" /\ todo[b] = <<x>> BY <1>2, <1>3, OpFacts
<1>5. PICK D \in SUBSET Device : D = {d \in Device : b \in previewSubscribers[d]} OBVIOUS
<1>6. DropPreview(b, D) BY <1>5 DEF RemoveBrowser
<1>7. PICK s \in SetToSeqs(Ops("syncPreview", D)) : todo' = [todo EXCEPT ![b] = s]
  BY <1>5 DEF RemoveBrowser, Ops, SyncPreview
<1>8. /\ s \in Seq(TodoItem) /\ \A i \in 1..Len(s) : \E d \in D : s[i] = Op("syncPreview", d)
      /\ \A d \in D : Has(s, Op("syncPreview", d))
  BY <1>7, OpsOfDevices
<1>9. /\ phase' = [phase EXCEPT ![b] = "gone"]
      /\ UNCHANGED <<setting, bound, access, previewOrder, audioSubscribers, up, told, audioOn, clients,
                     raced, orphaned>>
  BY DEF RemoveBrowser, agent
<1>10. todo' \in [Browser -> Seq(TodoItem)] /\ todo'[b] = s /\ \A c \in Browser \ {b} : todo'[c] = todo[c]
  BY <1>7, <1>8, TodoTyped
<1>11. /\ previewSubscribers' \in [Device -> SUBSET Browser]
       /\ previewRequests' \in [Device -> [Browser -> Request \cup {Nothing}]]
       /\ \A e \in D : previewSubscribers'[e] = previewSubscribers[e] \ {b} /\ previewRequests'[e][b] = Nothing
       /\ \A e \in Device \ D : previewSubscribers'[e] = previewSubscribers[e]
                                  /\ previewRequests'[e] = previewRequests[e]
       /\ \A e \in Device : \A c \in Browser \ {b} : previewRequests'[e][c] = previewRequests[e][c]
  BY ONLY <1>5, <1>6, <1>ty, b \in Browser, DropFacts
<1>12. phase' \in [Browser -> Phases] /\ phase'[b] = "gone" /\ \A c \in Browser \ {b} : phase'[c] = phase[c]
  BY <1>9, <1>ty DEF HubTypeOK, Phases
<1>13. HubTypeOK' BY <1>9, <1>10, <1>11, <1>12, <1>ty DEF HubTypeOK
<1>14. Lawful(b)'
  <2>1. Released(b)' /\ Silent(b)' BY <1>2, <1>9 DEF Released, Silent
  <2>2. Unseen(b)'
    <3>1. \A e \in Device : previewRequests[e][b] # Nothing => b \in previewSubscribers[e]
      BY DEF HubIndInv, RequestsAreSubscribed
    <3>2. \A e \in Device : b \notin previewSubscribers'[e] /\ previewRequests'[e][b] = Nothing
      BY <3>1, <1>5, <1>11
    <3>3. QED BY <3>2 DEF Unseen
  <2>3. Syncing(s) BY <1>5, <1>8 DEF Syncing, SyncPreview
  <2>4. QED BY <2>1, <2>2, <2>3, <1>10, <1>12 DEF Lawful
<1>15. \A c \in Browser \ {b} : Same(c) BY <1>9, <1>10, <1>11, <1>12 DEF Same
<1>16. OrdersAreUnique' /\ RequestsAreSubscribed'
  BY ONLY <1>5, <1>6, <1>9, <1>13, HubIndInv, b \in Browser, DropKeeps
<1>17. s # <<>> => Head(s).op = "syncPreview"
  <2>1. SUFFICES ASSUME s # <<>> PROVE Head(s).op = "syncPreview" OBVIOUS
  <2>2. Len(s) \in Nat /\ Len(s) > 0 /\ Head(s) = s[1] BY <2>1, <1>8
  <2>3. 1 \in 1..Len(s) BY <2>2
  <2>4. QED BY <2>2, <2>3, <1>5, <1>8, OpFacts
<1>18. OrdersSuffice'
  <2>1. ~HasNext(b, "setPreviewRequest")' BY <1>10, <1>17 DEF HasNext
  <2>2. \A c \in Browser : HasNext(c, "setPreviewRequest")' => HasNext(c, "setPreviewRequest")
    BY <2>1, <1>10 DEF HasNext
  <2>3. QED BY <2>2, <1>9, OrdersStay
<1>19. SyncsAreExact'
  <2>1. \A e \in D : Has(todo'[b], SyncPreview(e)) BY <1>8, <1>10 DEF SyncPreview
  <2>2. Head(todo[b]) = x BY <1>4, ShortTodo
  <2>3. \A e \in Device : ~Sends(b, e) /\ ~Sends(b, e)'
    BY <2>2, <1>4, <1>10, <1>17 DEF Sends, HasNext
  <2>4. \A e \in Device : ~Has(todo[b], SyncPreview(e))
    <3>1. \A e \in Device : SyncPreview(e).op = "syncPreview" BY SyncFacts
    <3>2. \A p : Has(<<x>>, p) <=> x = p BY HasOne
    <3>3. QED BY <3>1, <3>2, <1>4
  <2>5. \A e \in Device : /\ ~Sends(b, e) /\ ~Sends(b, e)'
                          /\ \/ Has(todo'[b], SyncPreview(e))
                             \/ previewRequests'[e] = previewRequests[e] /\ ~Has(todo[b], SyncPreview(e))
    BY <2>1, <2>3, <2>4, <1>11
  <2>6. QED BY <2>5, <1>9, <1>10, SyncsFollow
<1>20. AudioIsWanted'
  <2>1. \A e \in Device : ~Has(todo[b], Op("stopAudio", e))
    <3>1. \A e \in Device : Op("stopAudio", e).op = "stopAudio" BY OpFacts
    <3>2. \A p : Has(<<x>>, p) <=> x = p BY HasOne
    <3>3. QED BY <3>1, <3>2, <1>4
  <2>2. QED BY <2>1, <1>9, <1>10, AudioStays
<1>21. QED BY <1>9, <1>13, <1>14, <1>15, <1>16, <1>18, <1>19, <1>20, PreviewStep

\* The requests of a device are finitely many and told apart by their orders,
\* so that the loop selects what is wanted.
LEMMA SelectionIsWanted ==
    ASSUME HubIndInv, NEW d \in Device
    PROVE  SelectedPreviewRequests(d) = {Wanted(d)} /\ Wanted(d) \in Selection
<1>1. PICK g \in [Browser -> Request \cup {Nothing}] : g = previewRequests[d]
  BY DEF HubIndInv, HubTypeOK
<1>2. PICK rs : rs = RequestsOf(d) OBVIOUS
<1>3. rs = {g[b] : b \in Browser} \ {Nothing} BY <1>1, <1>2 DEF RequestsOf
<1>4. rs \in SUBSET Request BY <1>3
<1>5. IsFiniteSet(rs)
  <2>1. PICK B : B = {b \in Browser : g[b] # Nothing} OBVIOUS
  <2>2. PICK f : f = [b \in B |-> g[b]] OBVIOUS
  <2>3. f \in Surjection(B, rs) BY <1>3, <2>1, <2>2 DEF Surjection
  <2>4. IsFiniteSet(B) BY <2>1, HubAssumption, FS_Subset
  <2>5. QED BY <2>3, <2>4, FS_Surjection
<1>6. Distinct(rs)
  <2>1. \A b, c \in Browser : g[b] # Nothing /\ g[c] # Nothing /\ b # c => g[b].order # g[c].order
    BY <1>1 DEF HubIndInv, OrdersAreUnique
  <2>2. QED BY <1>3, <2>1 DEF Distinct
<1>7. {SelectedIn(s) : s \in SetToSeqs(rs)} = {Preferred(rs)} BY <1>4, <1>5, <1>6, SelectionIsPreferred
<1>8. Preferred(rs) \in Selection BY <1>4, <1>5, <1>6, PreferredType
<1>9. QED BY <1>2, <1>7, <1>8 DEF SelectedPreviewRequests, Wanted

\* Only syncs are left.
AllSyncs(t) == \A i \in 1..Len(t) : \E d \in Device : t[i] = SyncPreview(d)

\* A list of ops, its head and its tail.
LEMMA HasHead ==
    ASSUME NEW q \in Seq(TodoItem), q # <<>>, NEW t, t = Tail(q), NEW r
    PROVE  Has(q, r) <=> (Head(q) = r \/ Has(t, r))
<1>1. PICK n \in Nat : n = Len(t) OBVIOUS
<1>2. Len(q) = n + 1 /\ Head(q) = q[1] /\ \A i \in 1..n : t[i] = q[i + 1] BY <1>1
<1>3. ASSUME NEW i \in 1..n + 1, q[i] = r PROVE Head(q) = r \/ Has(t, r)
  <2>1. i = 1 \/ (i - 1 \in 1..n /\ (i - 1) + 1 = i) OBVIOUS
  <2>2. CASE i = 1 BY <2>2, <1>2, <1>3
  <2>3. CASE i - 1 \in 1..n /\ (i - 1) + 1 = i
    <3>1. t[i - 1] = r BY <2>3, <1>2, <1>3
    <3>2. QED BY <3>1, <2>3, <1>1 DEF Has
  <2>4. QED BY <2>1, <2>2, <2>3
<1>4. ASSUME NEW i \in 1..n, t[i] = r PROVE Has(q, r)
  <2>1. i + 1 \in 1..Len(q) /\ q[i + 1] = r BY <1>2, <1>4
  <2>2. QED BY <2>1 DEF Has
<1>5. 1 \in 1..Len(q) BY <1>2
<1>6. QED BY <1>1, <1>2, <1>3, <1>4, <1>5 DEF Has

LEMMA NewHead ==
    ASSUME NEW x \in TodoItem, NEW t \in Seq(TodoItem), NEW q, q = <<x>> \o t
    PROVE  q \in Seq(TodoItem) /\ q # <<>> /\ Head(q) = x /\ Tail(q) = t
<1>1. <<x>> \in Seq(TodoItem) /\ Len(<<x>>) = 1 /\ <<x>>[1] = x OBVIOUS
<1>2. q \in Seq(TodoItem) /\ Len(q) = 1 + Len(t) /\ q[1] = x BY <1>1
<1>3. \A i \in 1..Len(t) : q[i + 1] = t[i] BY <1>1
<1>4. q # <<>> /\ Head(q) = x BY <1>2
<1>5. Tail(q) \in Seq(TodoItem) /\ Len(Tail(q)) = Len(t) /\ \A i \in 1..Len(t) : Tail(q)[i] = q[i + 1]
  BY <1>2, <1>4
<1>6. Tail(q) = t BY <1>3, <1>5
<1>7. QED BY <1>2, <1>4, <1>6

LEMMA SyncingHead ==
    ASSUME NEW q \in Seq(TodoItem), q # <<>>, AllSyncs(Tail(q)), NEW d \in Device,
           Head(q) = SyncPreview(d) \/ \E m \in Selection : Head(q) = SendPreview(d, m)
    PROVE  Syncing(q)
<1>1. PICK t : t = Tail(q) OBVIOUS
<1>2. PICK n \in Nat : n = Len(t) BY <1>1
<1>3. Len(q) = n + 1 /\ Head(q) = q[1] /\ \A i \in 1..n : t[i] = q[i + 1] BY <1>1, <1>2
<1>4. ASSUME NEW i \in 1..n + 1
      PROVE  \E e \in Device : q[i] = SyncPreview(e) \/ (i = 1 /\ \E m \in Selection : q[i] = SendPreview(e, m))
  <2>1. i = 1 \/ (i - 1 \in 1..n /\ (i - 1) + 1 = i) OBVIOUS
  <2>2. CASE i = 1 BY <2>2, <1>3
  <2>3. CASE i - 1 \in 1..n /\ (i - 1) + 1 = i
    <3>1. t[i - 1] = q[i] BY <2>3, <1>3
    <3>2. QED BY <3>1, <2>3, <1>1, <1>2 DEF AllSyncs
  <2>4. QED BY <2>1, <2>2, <2>3
<1>5. QED BY <1>3, <1>4 DEF Syncing

\* A sync in hand, of a handler or of the cleanup.
LEMMA SyncInHand ==
    ASSUME HubIndInv, NEW b \in Browser, HasNext(b, "syncPreview") \/ HasNext(b, "sendPreview")
    PROVE  /\ todo[b] \in Seq(TodoItem) /\ todo[b] # <<>> /\ AllSyncs(Tail(todo[b]))
           /\ (phase[b] = "open" /\ Tail(todo[b]) = <<>>) \/ phase[b] = "gone"
           /\ HasNext(b, "syncPreview") => \E d \in Device : Head(todo[b]) = SyncPreview(d)
           /\ HasNext(b, "sendPreview") => \E d \in Device, m \in Selection : Head(todo[b]) = SendPreview(d, m)
<1>1. phase[b] \in {"open", "gone"} BY PhaseOfNext
<1>2. todo[b] # <<>> BY DEF HasNext
<1>3. todo[b] \in Seq(TodoItem) BY HubFacts
<1>0. AllSyncs(<<>>) BY DEF AllSyncs
<1>4. CASE phase[b] = "gone"
  <2>1. AllSyncs(Tail(todo[b])) BY <1>2, <1>4, NextGone DEF AllSyncs
  <2>2. QED BY <1>2, <1>3, <1>4, <2>1, NextGone
<1>5. CASE phase[b] = "open"
  <2>1. CASE HasNext(b, "syncPreview")
    <3>1. PICK d \in Device : todo[b] = <<SyncPreview(d)>> BY <1>2, <1>5, <2>1, NextOpen
    <3>2. Tail(todo[b]) = <<>> /\ Head(todo[b]) = SyncPreview(d) BY <3>1, ShortTodo
    <3>3. AllSyncs(Tail(todo[b])) BY <3>2, <1>0
    <3>4. ~HasNext(b, "sendPreview") BY <2>1 DEF HasNext
    <3>5. QED BY <1>2, <1>3, <1>5, <3>2, <3>3, <3>4
  <2>2. CASE HasNext(b, "sendPreview")
    <3>1. PICK d \in Device, m \in Selection : todo[b] = <<SendPreview(d, m)>> BY <1>2, <1>5, <2>2, NextOpen
    <3>2. Tail(todo[b]) = <<>> /\ Head(todo[b]) = SendPreview(d, m) BY <3>1, ShortTodo
    <3>3. AllSyncs(Tail(todo[b])) BY <3>2, <1>0
    <3>4. ~HasNext(b, "syncPreview") BY <2>2 DEF HasNext
    <3>5. QED BY <1>2, <1>3, <1>5, <3>2, <3>3, <3>4
  <2>3. QED BY <2>1, <2>2
<1>6. QED BY <1>1, <1>4, <1>5

\* syncPreview selects: the sync alone on its way carries what is wanted.
LEMMA SelectPreviewStep ==
    ASSUME HubIndInv, NEW b \in Browser, Select(b)
    PROVE  HubIndInv'
<1>ty. HubTypeOK BY DEF HubIndInv
<1>1. HasNext(b, "syncPreview") BY DEF Select
<1>2. PICK q \in Seq(TodoItem) : q = todo[b] BY <1>ty DEF HubTypeOK
<1>3. PICK t : t = Tail(q) OBVIOUS
<1>4. q # <<>> /\ AllSyncs(t) /\ ((phase[b] = "open" /\ t = <<>>) \/ phase[b] = "gone")
  BY <1>1, <1>2, <1>3, SyncInHand
<1>5. t \in Seq(TodoItem) BY <1>3, <1>4
<1>6. PICK d \in Device : Head(q) = SyncPreview(d) BY <1>1, <1>2, SyncInHand
<1>7. Head(q).device = d /\ Head(q).op = "syncPreview" BY <1>6, SyncFacts
<1>8. PICK m : m = Wanted(d) OBVIOUS
<1>9. SelectedPreviewRequests(d) = {m} /\ m \in Selection BY <1>8, SelectionIsWanted
<1>10. PICK x : x = SendPreview(d, m) OBVIOUS
<1>11. x \in TodoItem /\ x.op = "sendPreview" /\ x.device = d /\ x.message = m BY <1>9, <1>10, SendFacts
<1>12. PICK p : p = <<x>> \o t OBVIOUS
<1>13. p \in Seq(TodoItem) /\ p # <<>> /\ Head(p) = x /\ Tail(p) = t BY <1>5, <1>11, <1>12, NewHead
<1>14. /\ todo' = [todo EXCEPT ![b] = p]
       /\ raced' = [raced EXCEPT ![d] = \E c \in Browser \ {b} : Sends(c, d)]
       /\ UNCHANGED <<setting, phase, bound, access, previewSubscribers, previewRequests, previewOrder,
                      audioSubscribers, up, told, audioOn, clients, orphaned>>
  BY <1>2, <1>3, <1>7, <1>9, <1>10, <1>12 DEF Select, Sends, hub, agent
<1>15. todo' \in [Browser -> Seq(TodoItem)] /\ todo'[b] = p /\ \A c \in Browser \ {b} : todo'[c] = todo[c]
  BY <1>13, <1>14, TodoTyped
<1>16. /\ raced' \in [Device -> BOOLEAN] /\ (raced'[d] <=> \E c \in Browser \ {b} : Sends(c, d))
       /\ \A e \in Device : e # d => raced'[e] = raced[e]
  BY <1>14, <1>ty DEF HubTypeOK
<1>17. HubTypeOK' BY <1>14, <1>15, <1>16, <1>ty DEF HubTypeOK
<1>18. Lawful(b)'
  <2>1. CASE phase[b] = "open" /\ t = <<>>
    <3>1. p = <<x>> BY <1>12, <2>1
    <3>2. Handles(b)' BY <3>1, <1>9, <1>10, <1>15 DEF Handles
    <3>3. QED BY <3>2, <2>1, <1>14 DEF Lawful
  <2>2. CASE phase[b] = "gone"
    <3>1. Released(b) /\ Silent(b) /\ Unseen(b) BY <2>2, NextGone
    <3>2. Released(b)' /\ Silent(b)' /\ Unseen(b)' BY <3>1, <1>14 DEF Released, Silent, Unseen
    <3>3. AllSyncs(Tail(p)) /\ \E n \in Selection : Head(p) = SendPreview(d, n) BY <1>4, <1>9, <1>10, <1>13
    <3>4. Syncing(p) BY <3>3, <1>13, SyncingHead
    <3>5. QED BY <3>2, <3>4, <2>2, <1>14, <1>15 DEF Lawful
  <2>3. QED BY <1>4, <2>1, <2>2
<1>19. \A c \in Browser \ {b} : Same(c) BY <1>14, <1>15 DEF Same
<1>20. OrdersAreUnique' /\ RequestsAreSubscribed'
  BY <1>14 DEF HubIndInv, OrdersAreUnique, RequestsAreSubscribed
<1>21. OrdersSuffice'
  <2>1. ~HasNext(b, "setPreviewRequest")' BY <1>11, <1>13, <1>15 DEF HasNext
  <2>2. \A c \in Browser : HasNext(c, "setPreviewRequest")' => HasNext(c, "setPreviewRequest")
    BY <2>1, <1>15 DEF HasNext
  <2>3. QED BY <2>2, <1>14, OrdersStay
<1>22. \A r : (Has(q, r) <=> (Head(q) = r \/ Has(t, r))) /\ (Has(p, r) <=> (x = r \/ Has(t, r)))
  <2>1. \A r : Has(q, r) <=> (Head(q) = r \/ Has(t, r)) BY <1>3, <1>4, HasHead
  <2>2. ASSUME NEW r PROVE Has(p, r) <=> (x = r \/ Has(t, r))
    <3>1. Has(p, r) <=> (Head(p) = r \/ Has(t, r)) BY <1>13, HasHead
    <3>2. QED BY <3>1, <1>13
  <2>3. QED BY <2>1, <2>2
<1>23. SyncsAreExact'
  <2> SUFFICES ASSUME NEW e \in Device PROVE Exact(e)'
    BY DEF SyncsAreExact
  <2>1. \A c \in Browser \ {b} : Sends(c, e)' <=> Sends(c, e) BY <1>15 DEF Sends, HasNext
  <2>2. (Sends(b, e)' <=> e = d) /\ ~Sends(b, e) BY <1>2, <1>7, <1>11, <1>13, <1>15 DEF Sends, HasNext
  <2>3. Wanted(e)' = Wanted(e) BY <1>14, WantedStays
  <2>4. CASE e = d
    <3>1. SUFFICES ASSUME ~raced'[d] PROVE
             /\ \A a, c \in Browser : Sends(a, d)' /\ Sends(c, d)' => a = c
             /\ up'[d] /\ ~SyncIsDue(d)' =>
                  /\ \A c \in Browser : Sends(c, d)' => Head(todo'[c]).message = Wanted(d)'
                  /\ (\A c \in Browser : ~Sends(c, d)') => told'[d] = Wanted(d)'
      BY <2>4 DEF Exact
    <3>2. \A c \in Browser : Sends(c, d)' <=> c = b BY <3>1, <2>1, <2>2, <2>4, <1>16
    <3>3. Head(todo'[b]).message = Wanted(d)' BY <2>3, <2>4, <1>8, <1>11, <1>13, <1>15
    <3>4. QED BY <3>2, <3>3
  <2>5. CASE e # d
    <3>1. \A c \in Browser : (Sends(c, e)' <=> Sends(c, e)) /\ (Sends(c, e)' => Head(todo'[c]) = Head(todo[c]))
      BY <2>1, <2>2, <2>5, <1>15
    <3>2. Has(todo[b], SyncPreview(e)) => Has(todo'[b], SyncPreview(e))
      <4>1. SyncPreview(e) # SyncPreview(d) BY <2>5, SyncFacts
      <4>2. QED BY <4>1, <1>2, <1>6, <1>15, <1>22
    <3>3. SyncIsDue(e) => SyncIsDue(e)' BY <3>2, <1>15, SyncStaysDue
    <3>4. Exact(e) BY DEF HubIndInv, SyncsAreExact
    <3>5. QED BY <3>1, <3>3, <3>4, <2>3, <2>5, <1>14, <1>16, ExactStays
  <2>6. QED BY <2>4, <2>5
<1>24. AudioIsWanted'
  <2>1. ASSUME NEW e \in Device PROVE Has(todo[b], Op("stopAudio", e)) => Has(todo'[b], Op("stopAudio", e))
    <3>1. Op("stopAudio", e).op = "stopAudio" BY OpFacts
    <3>2. QED BY <3>1, <1>2, <1>7, <1>15, <1>22
  <2>2. QED BY <2>1, <1>14, <1>15, AudioStays
<1>25. QED BY <1>14, <1>17, <1>18, <1>19, <1>20, <1>21, <1>23, <1>24, PreviewStep

\* syncPreview writes: the agent now runs what was selected.
LEMMA SendPreviewStep ==
    ASSUME HubIndInv, NEW b \in Browser, Send(b)
    PROVE  HubIndInv'
<1>ty. HubTypeOK BY DEF HubIndInv
<1>1. HasNext(b, "sendPreview") BY DEF Send
<1>2. PICK q \in Seq(TodoItem) : q = todo[b] BY <1>ty DEF HubTypeOK
<1>3. PICK t : t = Tail(q) OBVIOUS
<1>4. q # <<>> /\ AllSyncs(t) /\ ((phase[b] = "open" /\ t = <<>>) \/ phase[b] = "gone")
  BY <1>1, <1>2, <1>3, SyncInHand
<1>5. t \in Seq(TodoItem) BY <1>3, <1>4
<1>6. PICK d \in Device, m \in Selection : Head(q) = SendPreview(d, m) BY <1>1, <1>2, SyncInHand
<1>7. Head(q).device = d /\ Head(q).op = "sendPreview" /\ Head(q).message = m BY <1>6, SendFacts
<1>8. /\ todo' = [todo EXCEPT ![b] = t] /\ told' = [told EXCEPT ![d] = IF up[d] THEN m ELSE @]
      /\ UNCHANGED <<setting, phase, bound, access, previewSubscribers, previewRequests, previewOrder,
                     audioSubscribers, up, audioOn, clients, raced, orphaned>>
  BY <1>2, <1>3, <1>7 DEF Send, hub
<1>9. todo' \in [Browser -> Seq(TodoItem)] /\ todo'[b] = t /\ \A c \in Browser \ {b} : todo'[c] = todo[c]
  BY <1>5, <1>8, TodoTyped
<1>10. /\ told' \in [Device -> Request \cup {Nothing}] /\ (up[d] => told'[d] = m)
       /\ \A e \in Device : e # d => told'[e] = told[e]
  BY <1>8, <1>ty DEF HubTypeOK, Selection
<1>11. HubTypeOK' BY <1>8, <1>9, <1>10, <1>ty DEF HubTypeOK
<1>12. t # <<>> => Head(t).op = "syncPreview" /\ \E e \in Device : Head(t) = SyncPreview(e)
  <2>1. SUFFICES ASSUME t # <<>> PROVE Head(t).op = "syncPreview" /\ \E e \in Device : Head(t) = SyncPreview(e)
    OBVIOUS
  <2>2. Len(t) \in Nat /\ Len(t) > 0 /\ Head(t) = t[1] BY <2>1, <1>5
  <2>3. 1 \in 1..Len(t) BY <2>2
  <2>4. PICK e \in Device : t[1] = SyncPreview(e) BY <2>3, <1>4 DEF AllSyncs
  <2>5. QED BY <2>2, <2>4, SyncFacts
<1>13. Lawful(b)'
  <2>1. CASE phase[b] = "open" /\ t = <<>> BY <2>1, <1>8, <1>9 DEF Lawful, Handles
  <2>2. CASE phase[b] = "gone"
    <3>1. Released(b) /\ Silent(b) /\ Unseen(b) BY <2>2, NextGone
    <3>2. Released(b)' /\ Silent(b)' /\ Unseen(b)' BY <3>1, <1>8 DEF Released, Silent, Unseen
    <3>3. Syncing(t) BY <1>4 DEF Syncing, AllSyncs
    <3>4. QED BY <3>2, <3>3, <2>2, <1>8, <1>9 DEF Lawful
  <2>3. QED BY <1>4, <2>1, <2>2
<1>14. \A c \in Browser \ {b} : Same(c) BY <1>8, <1>9 DEF Same
<1>15. OrdersAreUnique' /\ RequestsAreSubscribed'
  BY <1>8 DEF HubIndInv, OrdersAreUnique, RequestsAreSubscribed
<1>16. OrdersSuffice'
  <2>1. ~HasNext(b, "setPreviewRequest")' BY <1>9, <1>12 DEF HasNext
  <2>2. \A c \in Browser : HasNext(c, "setPreviewRequest")' => HasNext(c, "setPreviewRequest")
    BY <2>1, <1>9 DEF HasNext
  <2>3. QED BY <2>2, <1>8, OrdersStay
<1>17. \A r : Has(q, r) <=> (Head(q) = r \/ Has(t, r)) BY <1>3, <1>4, HasHead
<1>18. SyncsAreExact'
  <2> SUFFICES ASSUME NEW e \in Device PROVE Exact(e)'
    BY DEF SyncsAreExact
  <2>1. \A c \in Browser \ {b} : Sends(c, e)' <=> Sends(c, e) BY <1>9 DEF Sends, HasNext
  <2>2. ~Sends(b, e)' /\ (Sends(b, e) <=> e = d)
    BY <1>2, <1>4, <1>7, <1>9, <1>12 DEF Sends, HasNext
  <2>3. Wanted(e)' = Wanted(e) BY <1>8, WantedStays
  <2>4. SyncIsDue(e) => SyncIsDue(e)'
    <3>1. Has(todo[b], SyncPreview(e)) => Has(todo'[b], SyncPreview(e))
      <4>1. SyncPreview(e).op = "syncPreview" BY SyncFacts
      <4>2. QED BY <4>1, <1>2, <1>7, <1>9, <1>17
    <3>2. QED BY <3>1, <1>9, SyncStaysDue
  <2>5. Exact(e) BY DEF HubIndInv, SyncsAreExact
  <2>6. CASE e = d
    <3>1. SUFFICES ASSUME ~raced[d] PROVE
             /\ \A a, c \in Browser : Sends(a, d)' /\ Sends(c, d)' => a = c
             /\ up[d] /\ ~SyncIsDue(d)' =>
                  /\ \A c \in Browser : Sends(c, d)' => Head(todo'[c]).message = Wanted(d)'
                  /\ (\A c \in Browser : ~Sends(c, d)') => told'[d] = Wanted(d)'
      BY <2>6, <1>8 DEF Exact
    <3>2. /\ \A a, c \in Browser : Sends(a, d) /\ Sends(c, d) => a = c
          /\ up[d] /\ ~SyncIsDue(d) => \A c \in Browser : Sends(c, d) => Head(todo[c]).message = Wanted(d)
      BY <2>5, <2>6, <3>1 DEF Exact
    <3>3. \A c \in Browser : ~Sends(c, d)' BY <3>2, <2>1, <2>2, <2>6
    <3>4. ASSUME up[d], ~SyncIsDue(d)' PROVE told'[d] = Wanted(d)'
      <4>1. Sends(b, d) /\ ~SyncIsDue(d) BY <3>4, <2>2, <2>4, <2>6
      <4>2. m = Wanted(d) BY <4>1, <3>2, <3>4, <1>2, <1>7
      <4>3. QED BY <4>2, <3>4, <2>3, <2>6, <1>10
    <3>5. QED BY <3>3, <3>4
  <2>7. CASE e # d
    <3>1. \A c \in Browser : (Sends(c, e)' <=> Sends(c, e)) /\ (Sends(c, e)' => Head(todo'[c]) = Head(todo[c]))
      BY <2>1, <2>2, <2>7, <1>9
    <3>2. QED BY <3>1, <2>3, <2>4, <2>5, <2>7, <1>8, <1>10, ExactStays
  <2>8. QED BY <2>6, <2>7
<1>19. AudioIsWanted'
  <2>1. ASSUME NEW e \in Device PROVE Has(todo[b], Op("stopAudio", e)) => Has(todo'[b], Op("stopAudio", e))
    <3>1. Op("stopAudio", e).op = "stopAudio" BY OpFacts
    <3>2. QED BY <3>1, <1>2, <1>7, <1>9, <1>17
  <2>2. QED BY <2>1, <1>8, <1>9, AudioStays
<1>20. QED BY <1>8, <1>11, <1>13, <1>14, <1>15, <1>16, <1>18, <1>19, PreviewStep

\* Agents: no goroutine moves.
LEMMA AroundSteps ==
    ASSUME HubIndInv, UNCHANGED <<setting, phase, bound, todo, previewSubscribers, previewRequests,
                                  previewOrder, audioSubscribers>>,
           HubTypeOK', orphaned' = orphaned,
           \A d \in Device : up'[d] => clients'[d] = {} \/ (up[d] /\ clients'[d] = clients[d]),
           \A d \in Device : up'[d] /\ audioOn'[d] => up[d] /\ audioOn[d],
           \A d \in Device : \/ raced'[d]
                             \/ /\ raced'[d] = raced[d]
                                /\ ~up'[d] \/ (up[d] /\ told'[d] = told[d])
    PROVE  HubIndInv'
<1>1. \A c \in Browser : Lawful(c) /\ Same(c) BY DEF HubIndInv, TodoIsLawful, Same
<1>2. TodoIsLawful' BY <1>1, OthersStay DEF TodoIsLawful
<1>3. OrdersAreUnique' /\ RequestsAreSubscribed' BY DEF HubIndInv, OrdersAreUnique, RequestsAreSubscribed
<1>4. OrdersSuffice'
  <2>1. \A c \in Browser : HasNext(c, "setPreviewRequest")' => HasNext(c, "setPreviewRequest") BY DEF HasNext
  <2>2. QED BY <2>1, OrdersStay
<1>5. SyncsAreExact'
  <2> SUFFICES ASSUME NEW d \in Device, ~raced'[d] PROVE Exact(d)'
    BY DEF SyncsAreExact, Exact
  <2>1. Exact(d) BY DEF HubIndInv, SyncsAreExact
  <2>2. Wanted(d)' = Wanted(d) BY WantedStays
  <2>3. (SyncIsDue(d)' <=> SyncIsDue(d)) /\ \A c \in Browser : Sends(c, d)' <=> Sends(c, d)
    BY DEF SyncIsDue, Sends, HasNext
  <2>4. \A c \in Browser : todo'[c] = todo[c] OBVIOUS
  <2>5. QED BY <2>1, <2>2, <2>3, <2>4 DEF Exact
<1>6. AudioIsWanted' BY DEF HubIndInv, AudioIsWanted
<1>7. QED BY <1>2, <1>3, <1>4, <1>5, <1>6 DEF HubIndInv

LEMMA EnvironmentSteps ==
    ASSUME HubIndInv,
           \/ \E d \in Device : StallWrites(d) \/ RemoveAgent(d) \/ SetAgent(d)
           \/ UNCHANGED hubVars
    PROVE  HubIndInv'
<1>ty. HubTypeOK BY DEF HubIndInv
<1>2. ASSUME NEW d \in Device, RemoveAgent(d) PROVE HubIndInv'
  <2>1. /\ up' = [up EXCEPT ![d] = FALSE] /\ told' = [told EXCEPT ![d] = Nothing]
        /\ audioOn' = [audioOn EXCEPT ![d] = FALSE] /\ clients' = [clients EXCEPT ![d] = {}]
        /\ UNCHANGED <<setting, phase, bound, access, previewSubscribers, previewRequests, previewOrder,
                       audioSubscribers, todo, raced, orphaned>>
    BY <1>2 DEF RemoveAgent, AgentEnds, hub
  <2>2. /\ up' \in [Device -> BOOLEAN] /\ told' \in [Device -> Request \cup {Nothing}]
        /\ audioOn' \in [Device -> BOOLEAN] /\ clients' \in [Device -> SUBSET Browser]
        /\ ~up'[d] /\ ~audioOn'[d] /\ clients'[d] = {}
        /\ \A e \in Device : e # d => up'[e] = up[e] /\ told'[e] = told[e] /\ audioOn'[e] = audioOn[e]
                                        /\ clients'[e] = clients[e]
    BY <2>1, <1>ty DEF HubTypeOK
  <2>3. HubTypeOK' BY <2>1, <2>2, <1>ty DEF HubTypeOK
  <2>b. \A e \in Device : up[e] \in BOOLEAN BY <1>ty DEF HubTypeOK
  <2>5. \A e \in Device : raced'[e] \/ (raced'[e] = raced[e] /\ (~up'[e] \/ (up[e] /\ told'[e] = told[e])))
    BY <2>1, <2>2, <2>b
  <2>6. /\ \A e \in Device : up'[e] => clients'[e] = {} \/ (up[e] /\ clients'[e] = clients[e])
        /\ \A e \in Device : up'[e] /\ audioOn'[e] => up[e] /\ audioOn[e]
    BY <2>2
  <2>7. QED BY <2>1, <2>3, <2>5, <2>6, AroundSteps
<1>3. ASSUME NEW d \in Device, SetAgent(d) PROVE HubIndInv'
  <2>1. /\ up' = [up EXCEPT ![d] = TRUE] /\ raced' = [raced EXCEPT ![d] = TRUE]
        /\ told' = [told EXCEPT ![d] = Nothing] /\ audioOn' = [audioOn EXCEPT ![d] = FALSE]
        /\ clients' = [clients EXCEPT ![d] = {}]
        /\ UNCHANGED <<setting, phase, bound, access, previewSubscribers, previewRequests, previewOrder,
                       audioSubscribers, todo, orphaned>>
    BY <1>3 DEF SetAgent, AgentEnds, hub
  <2>2. /\ up' \in [Device -> BOOLEAN] /\ raced' \in [Device -> BOOLEAN] /\ raced'[d]
        /\ told' \in [Device -> Request \cup {Nothing}] /\ audioOn' \in [Device -> BOOLEAN]
        /\ clients' \in [Device -> SUBSET Browser] /\ ~audioOn'[d] /\ clients'[d] = {}
        /\ \A e \in Device : e # d => up'[e] = up[e] /\ raced'[e] = raced[e] /\ told'[e] = told[e]
                                        /\ audioOn'[e] = audioOn[e] /\ clients'[e] = clients[e]
    BY <2>1, <1>ty DEF HubTypeOK
  <2>3. HubTypeOK' BY <2>1, <2>2, <1>ty DEF HubTypeOK
  <2>5. \A e \in Device : raced'[e] \/ (raced'[e] = raced[e] /\ (~up'[e] \/ (up[e] /\ told'[e] = told[e])))
    BY <2>1, <2>2
  <2>6. /\ \A e \in Device : up'[e] => clients'[e] = {} \/ (up[e] /\ clients'[e] = clients[e])
        /\ \A e \in Device : up'[e] /\ audioOn'[e] => up[e] /\ audioOn[e]
    BY <2>2
  <2>7. QED BY <2>1, <2>3, <2>5, <2>6, AroundSteps
<1>5. ASSUME NEW d \in Device, StallWrites(d) PROVE HubIndInv'
  <2>1. /\ up' = [up EXCEPT ![d] = FALSE]
        /\ UNCHANGED <<setting, phase, bound, access, previewSubscribers, previewRequests, previewOrder,
                       audioSubscribers, todo, told, audioOn, clients, raced, orphaned>>
    BY <1>5 DEF StallWrites, hub, agent
  <2>2. up' \in [Device -> BOOLEAN] /\ ~up'[d] /\ \A e \in Device : e # d => up'[e] = up[e]
    BY <2>1, <1>ty DEF HubTypeOK
  <2>3. HubTypeOK' BY <2>1, <2>2, <1>ty DEF HubTypeOK
  <2>b. \A e \in Device : up[e] \in BOOLEAN BY <1>ty DEF HubTypeOK
  <2>5. \A e \in Device : raced'[e] \/ (raced'[e] = raced[e] /\ (~up'[e] \/ (up[e] /\ told'[e] = told[e])))
    BY <2>1, <2>2, <2>b
  <2>6. /\ \A e \in Device : up'[e] => clients'[e] = {} \/ (up[e] /\ clients'[e] = clients[e])
        /\ \A e \in Device : up'[e] /\ audioOn'[e] => up[e] /\ audioOn[e]
    BY <2>1, <2>2
  <2>7. QED BY <2>1, <2>3, <2>5, <2>6, AroundSteps
<1>4. CASE UNCHANGED hubVars
  <2>1. UNCHANGED <<setting, phase, bound, access, previewSubscribers, previewRequests, previewOrder,
                    audioSubscribers, todo, up, told, audioOn, clients, raced, orphaned>>
    BY <1>4 DEF hubVars, hub, agent
  <2>2. HubTypeOK' BY <2>1, <1>ty DEF HubTypeOK
  <2>4. \A e \in Device : raced'[e] \/ (raced'[e] = raced[e] /\ (~up'[e] \/ (up[e] /\ told'[e] = told[e])))
    BY <2>1
  <2>5. /\ \A e \in Device : up'[e] => clients'[e] = {} \/ (up[e] /\ clients'[e] = clients[e])
        /\ \A e \in Device : up'[e] /\ audioOn'[e] => up[e] /\ audioOn[e]
    BY <2>1
  <2>6. QED BY <2>1, <2>2, <2>4, <2>5, AroundSteps
<1>6. QED BY <1>2, <1>3, <1>4, <1>5

\* The hub starts empty.
LEMMA HubStarts == HubInit => HubIndInv
<1> SUFFICES ASSUME HubInit PROVE HubIndInv
  OBVIOUS
<1>1. /\ setting \in Settings /\ phase = [b \in Browser |-> "new"] /\ bound = [b \in Browser |-> NoDevice]
      /\ access \in [Browser -> SUBSET Device] /\ previewSubscribers = [d \in Device |-> {}]
      /\ previewRequests = [d \in Device |-> [b \in Browser |-> Nothing]] /\ previewOrder = 0
      /\ audioSubscribers = [d \in Device |-> {}] /\ todo = [b \in Browser |-> <<>>]
      /\ up = [d \in Device |-> TRUE] /\ told = [d \in Device |-> Nothing]
      /\ audioOn = [d \in Device |-> FALSE] /\ clients = [d \in Device |-> {}] /\ raced = [d \in Device |-> FALSE]
      /\ orphaned = {}
  BY DEF HubInit
<1>2. HubTypeOK
  <2>1. todo \in [Browser -> Seq(TodoItem)] BY <1>1
  <2>2. previewOrder \in 0..MaxRequests BY <1>1, HubAssumption
  <2>3. QED BY <1>1, <2>1, <2>2 DEF HubTypeOK, Phases
<1>3. \A b \in Browser : todo[b] = <<>> /\ phase[b] = "new" BY <1>1
<1>4. \A d \in Device, b \in Browser : previewRequests[d][b] = Nothing BY <1>1
<1>5. TodoIsLawful BY <1>3 DEF TodoIsLawful, Lawful
<1>6. OrdersAreUnique /\ RequestsAreSubscribed BY <1>4 DEF OrdersAreUnique, RequestsAreSubscribed
<1>7. OrdersSuffice
  <2>1. Asking = {} BY <1>3 DEF Asking, HasNext
  <2>2. Cardinality(Asking) = 0 BY <2>1, FS_EmptySet
  <2>3. QED BY <2>2, <1>1, HubAssumption DEF OrdersSuffice
<1>8. SyncsAreExact
  <2> SUFFICES ASSUME NEW d \in Device PROVE Exact(d)
    BY DEF SyncsAreExact
  <2>1. \A b \in Browser : ~Sends(b, d) BY <1>3 DEF Sends, HasNext
  <2>2. RequestsOf(d) = {} BY <1>4 DEF RequestsOf
  <2>3. Wanted(d) = Nothing BY <2>2 DEF Wanted, Preferred
  <2>4. told[d] = Nothing BY <1>1
  <2>5. QED BY <2>1, <2>3, <2>4 DEF Exact
<1>9. AudioIsWanted BY <1>1 DEF AudioIsWanted
<1>10. QED BY <1>2, <1>5, <1>6, <1>7, <1>8, <1>9 DEF HubIndInv

LEMMA HubSteps == HubIndInv /\ [HubNext]_hubVars => HubIndInv'
<1> SUFFICES ASSUME HubIndInv, [HubNext]_hubVars PROVE HubIndInv'
  OBVIOUS
<1>1. ASSUME NEW b \in Browser, AddBrowser(b) \/ CloseBrowser(b) PROVE HubIndInv'
  BY <1>1, SocketSteps
<1>2. ASSUME NEW b \in Browser, Message(b) PROVE HubIndInv'
  <2>1. PICK d \in Device : Connect(b, d) \/ Use(b, d) \/ StartPreview(b, d) \/ StopPreview(b, d)
                              \/ StartAudio(b, d) \/ StopAudio(b, d)
    BY <1>2 DEF Message
  <2>2. QED BY <2>1, SocketSteps, StartPreviewStep, StopPreviewStep, ListenSteps
<1>3. ASSUME NEW b \in Browser, Continue(b) PROVE HubIndInv'
  BY <1>3, SocketSteps, SetPreviewStep, SelectPreviewStep, SendPreviewStep, StartAudioSteps, StopAudioStep,
     RemoveAudioStep, RemoveBrowserStep DEF Continue
<1>4. QED BY <1>1, <1>2, <1>3, EnvironmentSteps DEF HubNext

\* What the invariant is for.
LEMMA HubInvFollows == HubIndInv => HubInv
<1> SUFFICES ASSUME HubIndInv PROVE HubInv
  OBVIOUS
<1>1. SelectionIsOrderFree BY SelectionIsWanted DEF SelectionIsOrderFree
<1>2. GoneLeavesNothing
  <2>1. \A b \in Browser : phase[b] = "gone" => Released(b) /\ Silent(b) /\ Unseen(b) BY NextGone
  <2>2. QED BY <2>1 DEF GoneLeavesNothing, Released, Silent, Unseen
<1>3. SerialSyncIsExact
  <2>1. SUFFICES ASSUME NEW d \in Device, up[d], ~raced[d], Work(d) = {} PROVE told[d] = Wanted(d)
    BY DEF SerialSyncIsExact
  <2>2. \A b \in Browser : \A i \in 1..Len(todo[b]) : todo[b][i].device # d BY <2>1 DEF Work
  <2>3. ~SyncIsDue(d) BY <2>2, SyncFacts DEF SyncIsDue, Has
  <2>4. ASSUME NEW b \in Browser, Sends(b, d) PROVE FALSE
    <3>1. PICK q \in Seq(TodoItem) : q = todo[b] BY HubFacts
    <3>2. q # <<>> /\ Head(q).device = d BY <2>4, <3>1 DEF Sends, HasNext
    <3>3. Len(q) \in Nat /\ Len(q) > 0 /\ Head(q) = q[1] BY <3>2
    <3>4. 1 \in 1..Len(q) BY <3>3
    <3>5. QED BY <2>2, <3>1, <3>2, <3>3, <3>4
  <2>5. Exact(d) BY DEF HubIndInv, SyncsAreExact
  <2>6. QED BY <2>1, <2>3, <2>4, <2>5 DEF Exact
<1>4. QED BY <1>1, <1>2, <1>3 DEF HubInv, HubIndInv

\* For any number of browsers and devices, and however their goroutines
\* interleave: whatever the order of the map, the newest foreground request is
\* selected; a request never outlives its subscription; a closed socket leaves
\* nothing behind in the hub nor at its agent; a sync that ran alone makes the
\* agent run exactly what is wanted; and an agent that can be reached captures
\* audio only for a listener or until a stop on its way, except for what an undo
\* left behind.  Writes may miss their deadline at any time, and agents may
\* reconnect at any time.
THEOREM HubAsksForWhatIsWanted == HubSpec => []HubInv
<1>1. HubSpec => []HubIndInv BY HubStarts, HubSteps, PTL DEF HubSpec
<1>2. QED BY <1>1, HubInvFollows, PTL

(***************************************************************************)
(* Audio frames.  What keeps a queue in order is that a frame enters it    *)
(* once, while its publication still has the browser to serve: the frames  *)
(* of the device that are in the queue, or were taken from it, are older.  *)
(* And a publication that made room finds it again, unless another device  *)
(* of the browser has taken it.                                            *)
(***************************************************************************)

Publication ==
    [at: {"idle", "offer"}, left: SUBSET Listener]
      \cup [at: {"drop", "again"}, left: SUBSET Listener, to: Listener]

AudioShape ==
    /\ listens \in [Publisher -> SUBSET Listener]
    /\ queue \in [Listener -> Seq(Frame)]
    /\ pub \in [Publisher -> Publication]
    /\ heard \in [Listener -> [Publisher -> Nat]]

\* A publication serves subscribers, one at a time, and rests when it is done.
PublisherIsLawful ==
    \A d \in Publisher :
       /\ pub[d].at = "idle" => pub[d].left = {}
       /\ pub[d].left \subseteq listens[d]
       /\ pub[d].at \in {"drop", "again"} => pub[d].to \in pub[d].left

\* The frames of a device stand in the order they were made ...
Rising(q) ==
    \A i, j \in 1..Len(q) : i < j /\ q[i].device = q[j].device => q[i].number < q[j].number

\* ... behind what the browser has heard of it ...
Unheard(q, h) == \A i \in 1..Len(q) : h[q[i].device] < q[i].number

\* ... and before the frame that the device has still to offer to the browser,
\* when the devices have made c frames and their publications are p.
Sent(b, d, n, c, p) == n <= c[d] /\ (b \in p[d].left => n < c[d])

Ordered(b, q, h, c, p) ==
    /\ Rising(q) /\ Unheard(q, h)
    /\ \A i \in 1..Len(q) : Sent(b, q[i].device, q[i].number, c, p)
    /\ \A d \in Publisher : Sent(b, d, h[d], c, p)

QueuesAreOrdered == \A b \in Listener : Ordered(b, queue[b], heard[b], count, pub)

\* After the drop there is room, if nobody else publishes to the browser.
RoomIsKept ==
    \A d \in Publisher :
       pub[d].at = "again" /\ (\A e \in Publisher \ {d} : pub[d].to \notin listens[e])
          => Len(queue[pub[d].to]) < Capacity

AudioIndInv == AudioTypeOK /\ AudioShape /\ PublisherIsLawful /\ QueuesAreOrdered /\ RoomIsKept

\* Nothing is queued, published or heard at first.
LEMMA AudioStarts == AudioInit => AudioIndInv
<1> SUFFICES ASSUME AudioInit PROVE AudioIndInv
  OBVIOUS
<1>1. Resting \in Publication /\ Resting.left = {} /\ Resting.at = "idle" BY DEF Resting, Publication
<1>2. \A b \in Listener : queue[b] = <<>> /\ Len(queue[b]) = 0 /\ queue[b] \in Seq(Frame)
  BY DEF AudioInit
<1>3. AudioTypeOK BY <1>1, <1>2, FanoutAssumption DEF AudioTypeOK, AudioInit
<1>4. AudioShape BY <1>1, <1>2 DEF AudioShape, AudioInit
<1>5. PublisherIsLawful /\ RoomIsKept BY <1>1 DEF PublisherIsLawful, RoomIsKept, AudioInit
<1>6. QueuesAreOrdered BY <1>1, <1>2 DEF QueuesAreOrdered, Ordered, Rising, Unheard, Sent, AudioInit
<1>7. QED BY <1>3, <1>4, <1>5, <1>6 DEF AudioIndInv

\* Taking the oldest frame away leaves the others in order, behind it.
LEMMA WithoutHead ==
    ASSUME NEW q \in Seq(Frame), q # <<>>, Rising(q), NEW h \in [Publisher -> Nat], Unheard(q, h)
    PROVE  /\ Tail(q) \in Seq(Frame) /\ Len(Tail(q)) = Len(q) - 1 /\ Len(q) > 0
           /\ \A i \in 1..Len(Tail(q)) : i + 1 \in 1..Len(q) /\ Tail(q)[i] = q[i + 1]
           /\ Rising(Tail(q)) /\ Unheard(Tail(q), h)
           /\ Head(q) \in Frame /\ Head(q) = q[1] /\ h[Head(q).device] < Head(q).number
           /\ Unheard(Tail(q), [h EXCEPT ![Head(q).device] = Head(q).number])
<1>1. /\ Tail(q) \in Seq(Frame) /\ Len(Tail(q)) = Len(q) - 1 /\ Len(q) \in Nat /\ Len(q) > 0
      /\ \A i \in 1..Len(Tail(q)) : Tail(q)[i] = q[i + 1]
      /\ Head(q) = q[1]
  OBVIOUS
<1>2. \A i \in 1..Len(Tail(q)) : i \in Nat /\ i + 1 \in 1..Len(q) /\ 1 < i + 1 BY <1>1
<1>3. 1 \in 1..Len(q) /\ \A i \in 1..Len(q) : q[i] \in Frame /\ q[i].device \in Publisher /\ q[i].number \in Nat
  <2>1. \A f \in Frame : f.device \in Publisher /\ f.number \in Nat BY DEF Frame
  <2>2. \A i \in 1..Len(q) : q[i] \in Frame OBVIOUS
  <2>3. QED BY <1>1, <2>1, <2>2
<1>4. Rising(Tail(q)) BY <1>1, <1>2 DEF Rising
<1>5. Unheard(Tail(q), h) BY <1>1, <1>2 DEF Unheard
<1>6. h[Head(q).device] < Head(q).number BY <1>1, <1>3 DEF Unheard
<1>7. ASSUME NEW i \in 1..Len(Tail(q))
      PROVE  [h EXCEPT ![Head(q).device] = Head(q).number][Tail(q)[i].device] < Tail(q)[i].number
  <2>1. Tail(q)[i] = q[i + 1] /\ i + 1 \in 1..Len(q) /\ 1 < i + 1 BY <1>1, <1>2
  <2>2. q[1].device = q[i + 1].device => q[1].number < q[i + 1].number BY <2>1, <1>3 DEF Rising
  <2>3. h[q[i + 1].device] < q[i + 1].number BY <2>1 DEF Unheard
  <2>4. QED BY <2>1, <2>2, <2>3, <1>1, <1>3
<1>8. QED BY <1>1, <1>2, <1>3, <1>4, <1>5, <1>6, <1>7 DEF Unheard

\* A frame newer than those of its device goes to the end.
LEMMA WithNewest ==
    ASSUME NEW q \in Seq(Frame), Rising(q), NEW h \in [Publisher -> Nat], Unheard(q, h),
           NEW f \in Frame, h[f.device] < f.number,
           \A i \in 1..Len(q) : q[i].device = f.device => q[i].number < f.number
    PROVE  /\ Append(q, f) \in Seq(Frame) /\ Len(Append(q, f)) = Len(q) + 1
           /\ Append(q, f) # <<>> /\ Append(q, f)[Len(Append(q, f))] = f
           /\ \A i \in 1..Len(Append(q, f)) :
                (i \in 1..Len(q) /\ Append(q, f)[i] = q[i]) \/ Append(q, f)[i] = f
           /\ Rising(Append(q, f)) /\ Unheard(Append(q, f), h)
<1>1. /\ Append(q, f) \in Seq(Frame) /\ Len(Append(q, f)) = Len(q) + 1 /\ Len(q) \in Nat
      /\ \A i \in 1..Len(q) : Append(q, f)[i] = q[i]
      /\ Append(q, f)[Len(q) + 1] = f
  OBVIOUS
<1>2. \A i \in 1..Len(Append(q, f)) : i \in 1..Len(q) \/ i = Len(q) + 1 BY <1>1
<1>3. Rising(Append(q, f))
  <2> SUFFICES ASSUME NEW i \in 1..Len(Append(q, f)), NEW j \in 1..Len(Append(q, f)), i < j,
                      Append(q, f)[i].device = Append(q, f)[j].device
               PROVE  Append(q, f)[i].number < Append(q, f)[j].number
    BY DEF Rising
  <2>1. i \in 1..Len(q) /\ (j \in 1..Len(q) \/ j = Len(q) + 1) BY <1>1, <1>2
  <2>2. QED BY <2>1, <1>1 DEF Rising
<1>4. Unheard(Append(q, f), h) BY <1>1, <1>2 DEF Unheard
<1>5. QED BY <1>1, <1>2, <1>3, <1>4

\* What the parts of the invariant say of one publisher and one browser.
LEMMA AudioFacts ==
    ASSUME AudioIndInv
    PROVE  /\ listens \in [Publisher -> SUBSET Listener]
           /\ queue \in [Listener -> Seq(Frame)]
           /\ pub \in [Publisher -> Publication]
           /\ heard \in [Listener -> [Publisher -> Nat]]
           /\ count \in [Publisher -> 0..MaxFrames]
           /\ writer \in [Listener -> {"idle", "writing", "ended"}]
           /\ socket \in [Listener -> {"open", "closed"}]
           /\ \A b \in Listener : Len(queue[b]) <= Capacity
           /\ Capacity \in Nat \ {0} /\ MaxFrames \in Nat
BY FanoutAssumption DEF AudioIndInv, AudioTypeOK, AudioShape

\* The type invariant follows from the shape.
LEMMA AudioTyped ==
    ASSUME AudioShape', count' \in [Publisher -> 0..MaxFrames],
           writer' \in [Listener -> {"idle", "writing", "ended"}],
           socket' \in [Listener -> {"open", "closed"}],
           \A b \in Listener : Len(queue'[b]) <= Capacity
    PROVE  AudioTypeOK'
<1>1. \A d \in Publisher : pub'[d] \in Publication BY DEF AudioShape
<1>2. \A d \in Publisher : pub'[d].left \subseteq Listener /\ pub'[d].at \in {"idle", "offer", "drop", "again"}
  BY <1>1 DEF Publication
<1>3. QED BY <1>2 DEF AudioTypeOK, AudioShape


\* A publication that is done with a browser, or starts with a new frame, finds
\* the queue in order.
LEMMA OrderStays ==
    ASSUME NEW b \in Listener, NEW q \in Seq(Frame), NEW h \in [Publisher -> Nat],
           NEW c \in [Publisher -> 0..MaxFrames], NEW p \in [Publisher -> Publication],
           NEW c2 \in [Publisher -> 0..MaxFrames], NEW p2 \in [Publisher -> Publication],
           Ordered(b, q, h, c, p),
           \A d \in Publisher :
              c2[d] = c[d] + 1 \/ (c2[d] = c[d] /\ (b \in p2[d].left => b \in p[d].left))
    PROVE  Ordered(b, q, h, c2, p2)
<1>1. \A d \in Publisher : c[d] \in Nat /\ c2[d] \in Nat BY FanoutAssumption
<1>2. \A d \in Publisher, n \in Nat : Sent(b, d, n, c, p) => Sent(b, d, n, c2, p2)
  BY <1>1 DEF Sent
<1>3. \A i \in 1..Len(q) : q[i] \in Frame OBVIOUS
<1>4. \A f \in Frame : f.device \in Publisher /\ f.number \in Nat BY FanoutAssumption DEF Frame
<1>5. QED BY <1>2, <1>3, <1>4 DEF Ordered

\* The oldest frame is dropped, or taken and heard.
LEMMA OrderWithoutHead ==
    ASSUME NEW b \in Listener, NEW q \in Seq(Frame), NEW h \in [Publisher -> Nat],
           NEW c, NEW p, Ordered(b, q, h, c, p), q # <<>>
    PROVE  /\ Tail(q) \in Seq(Frame) /\ Len(Tail(q)) = Len(q) - 1 /\ Len(q) > 0
           /\ Ordered(b, Tail(q), h, c, p)
           /\ Head(q) \in Frame /\ h[Head(q).device] < Head(q).number
           /\ Ordered(b, Tail(q), [h EXCEPT ![Head(q).device] = Head(q).number], c, p)
<1>1. /\ Rising(q) /\ Unheard(q, h)
      /\ \A i \in 1..Len(q) : Sent(b, q[i].device, q[i].number, c, p)
      /\ \A d \in Publisher : Sent(b, d, h[d], c, p)
  BY DEF Ordered
<1>2. /\ Tail(q) \in Seq(Frame) /\ Len(Tail(q)) = Len(q) - 1 /\ Len(q) > 0
      /\ \A i \in 1..Len(Tail(q)) : i + 1 \in 1..Len(q) /\ Tail(q)[i] = q[i + 1]
      /\ Rising(Tail(q)) /\ Unheard(Tail(q), h)
      /\ Head(q) \in Frame /\ Head(q) = q[1] /\ h[Head(q).device] < Head(q).number
      /\ Unheard(Tail(q), [h EXCEPT ![Head(q).device] = Head(q).number])
  BY <1>1, WithoutHead
<1>3. \A i \in 1..Len(Tail(q)) : Sent(b, Tail(q)[i].device, Tail(q)[i].number, c, p) BY <1>1, <1>2
<1>4. Sent(b, Head(q).device, Head(q).number, c, p)
  <2>1. 1 \in 1..Len(q) BY <1>2
  <2>2. QED BY <1>1, <1>2, <2>1
<1>5. \A d \in Publisher : Sent(b, d, [h EXCEPT ![Head(q).device] = Head(q).number][d], c, p)
  BY <1>1, <1>4
<1>6. QED BY <1>1, <1>2, <1>3, <1>5 DEF Ordered

\* The frame of a publication that has the browser to serve goes to the end.
Newer(q, h, f) ==
    /\ h[f.device] < f.number
    /\ \A i \in 1..Len(q) : q[i].device = f.device => q[i].number < f.number

LEMMA OrderWithNewest ==
    ASSUME NEW b, NEW q \in Seq(Frame), NEW h \in [Publisher -> Nat], NEW c, NEW p,
           Ordered(b, q, h, c, p), NEW f \in Frame, f.number = c[f.device],
           b \notin p[f.device].left, Newer(q, h, f), NEW w, w = Append(q, f)
    PROVE  Ordered(b, w, h, c, p)
<1>1. /\ Rising(q) /\ Unheard(q, h)
      /\ \A i \in 1..Len(q) : Sent(b, q[i].device, q[i].number, c, p)
      /\ \A e \in Publisher : Sent(b, e, h[e], c, p)
  BY DEF Ordered
<1>2. f.number \in Nat BY FanoutAssumption DEF Frame
<1>3. /\ h[f.device] < f.number
      /\ \A i \in 1..Len(q) : q[i].device = f.device => q[i].number < f.number
  BY DEF Newer
<1>4. /\ Append(q, f) \in Seq(Frame) /\ Len(Append(q, f)) = Len(q) + 1
      /\ Append(q, f) # <<>> /\ Append(q, f)[Len(Append(q, f))] = f
      /\ \A i \in 1..Len(Append(q, f)) :
           (i \in 1..Len(q) /\ Append(q, f)[i] = q[i]) \/ Append(q, f)[i] = f
      /\ Rising(Append(q, f)) /\ Unheard(Append(q, f), h)
  BY ONLY <1>1, <1>3, f \in Frame, q \in Seq(Frame), h \in [Publisher -> Nat], WithNewest
<1>5. Sent(b, f.device, f.number, c, p) BY <1>2 DEF Sent
<1>6. \A i \in 1..Len(Append(q, f)) : Sent(b, Append(q, f)[i].device, Append(q, f)[i].number, c, p)
  BY <1>1, <1>4, <1>5
<1>7. Ordered(b, Append(q, f), h, c, p) BY <1>1, <1>4, <1>6 DEF Ordered
<1>8. QED BY <1>4, <1>7

\* What a step that leaves the publications and the queues alone preserves.
LEMMA AudioQuiet ==
    ASSUME AudioIndInv, UNCHANGED <<queue, pub, count, heard>>,
           listens' \in [Publisher -> SUBSET Listener],
           (\E d \in Publisher : pub[d].at # "idle") => listens' = listens,
           writer' \in [Listener -> {"idle", "writing", "ended"}],
           socket' \in [Listener -> {"open", "closed"}]
    PROVE  AudioIndInv'
<1>1. AudioShape' BY AudioFacts DEF AudioShape
<1>2. AudioTypeOK' BY <1>1, AudioFacts, AudioTyped
<1>3. PublisherIsLawful' BY DEF PublisherIsLawful, AudioIndInv
<1>4. QueuesAreOrdered' BY DEF QueuesAreOrdered, AudioIndInv
<1>5. RoomIsKept'
  <2> SUFFICES ASSUME NEW d \in Publisher, pub[d].at = "again",
                      \A e \in Publisher \ {d} : pub[d].to \notin listens'[e]
               PROVE  Len(queue[pub[d].to]) < Capacity
    BY DEF RoomIsKept
  <2>1. listens' = listens OBVIOUS
  <2>2. QED BY <2>1 DEF AudioIndInv, RoomIsKept
<1>6. QED BY <1>1, <1>2, <1>3, <1>4, <1>5 DEF AudioIndInv

\* Subscriptions, and what happens to a socket, leave the queues alone.
LEMMA ListenerSteps ==
    ASSUME AudioIndInv, NEW b \in Listener,
           \/ \E d \in Publisher : Subscribe(b, d) \/ Unsubscribe(b, d)
           \/ Written(b) \/ WriteFails(b) \/ Close(b) \/ Cleanup(b)
    PROVE  AudioIndInv'
<1>ty. /\ listens \in [Publisher -> SUBSET Listener]
       /\ writer \in [Listener -> {"idle", "writing", "ended"}]
       /\ socket \in [Listener -> {"open", "closed"}]
  BY AudioFacts
<1>1. ASSUME NEW d \in Publisher, Subscribe(b, d) \/ Unsubscribe(b, d) PROVE AudioIndInv'
  <2>1. /\ UNCHANGED <<queue, pub, count, writer, socket, heard>> /\ ~Locked
        /\ (listens' = [listens EXCEPT ![d] = @ \cup {b}] \/ listens' = [listens EXCEPT ![d] = @ \ {b}])
    BY <1>1 DEF Subscribe, Unsubscribe
  <2>2. listens' \in [Publisher -> SUBSET Listener] BY <2>1, <1>ty
  <2>3. QED BY <1>ty, <2>1, <2>2, AudioQuiet DEF Locked
<1>2. CASE Written(b)
  <2>1. /\ UNCHANGED <<listens, queue, pub, count, socket, heard>>
        /\ writer' \in [Listener -> {"idle", "writing", "ended"}]
    BY <1>2, <1>ty DEF Written
  <2>2. QED BY <1>ty, <2>1, AudioQuiet
<1>3. CASE WriteFails(b)
  <2>1. /\ UNCHANGED <<listens, queue, pub, count, heard>>
        /\ writer' \in [Listener -> {"idle", "writing", "ended"}]
        /\ socket' \in [Listener -> {"open", "closed"}]
    BY <1>3, <1>ty DEF WriteFails
  <2>2. QED BY <1>ty, <2>1, AudioQuiet
<1>4. CASE Close(b)
  <2>1. /\ UNCHANGED <<listens, queue, pub, count, writer, heard>>
        /\ socket' \in [Listener -> {"open", "closed"}]
    BY <1>4, <1>ty DEF Close
  <2>2. QED BY <1>ty, <2>1, AudioQuiet
<1>5. CASE Cleanup(b)
  <2>1. /\ UNCHANGED <<queue, pub, count, socket, heard>> /\ ~Locked
        /\ listens' \in [Publisher -> SUBSET Listener]
        /\ writer' \in [Listener -> {"idle", "writing", "ended"}]
    BY <1>5, <1>ty DEF Cleanup
  <2>2. QED BY <1>ty, <2>1, AudioQuiet DEF Locked
<1>6. QED BY <1>1, <1>2, <1>3, <1>4, <1>5

\* A step of one publication to r: the rooms of the others are not touched.
LEMMA PublicationMoves ==
    ASSUME AudioIndInv, NEW d \in Publisher, NEW r \in Publication, pub' = [pub EXCEPT ![d] = r],
           UNCHANGED <<listens, writer, socket, heard>>,
           queue' \in [Listener -> Seq(Frame)], count' \in [Publisher -> 0..MaxFrames],
           \A b \in Listener : Len(queue'[b]) <= Capacity,
           \A b \in Listener : Len(queue'[b]) <= Len(queue[b]) \/ b \in listens[d],
           r.at = "idle" => r.left = {}, r.left \subseteq listens[d],
           r.at \in {"drop", "again"} => r.to \in r.left,
           r.at = "again" => Len(queue'[r.to]) < Capacity,
           \A b \in Listener : Ordered(b, queue'[b], heard[b], count', pub')
    PROVE  AudioIndInv'
<1>ty. /\ pub \in [Publisher -> Publication] /\ listens \in [Publisher -> SUBSET Listener]
       /\ heard \in [Listener -> [Publisher -> Nat]] /\ queue \in [Listener -> Seq(Frame)]
       /\ writer \in [Listener -> {"idle", "writing", "ended"}]
       /\ socket \in [Listener -> {"open", "closed"}] /\ Capacity \in Nat
  BY AudioFacts
<1>p. pub' \in [Publisher -> Publication] /\ pub'[d] = r /\ \A e \in Publisher \ {d} : pub'[e] = pub[e]
  BY <1>ty
<1>1. AudioShape' BY <1>ty, <1>p DEF AudioShape
<1>2. AudioTypeOK'
  <2>1. /\ writer' \in [Listener -> {"idle", "writing", "ended"}]
        /\ socket' \in [Listener -> {"open", "closed"}]
    BY <1>ty
  <2>2. QED BY <1>1, <2>1, AudioTyped
<1>3. PublisherIsLawful'
  <2> SUFFICES ASSUME NEW e \in Publisher
               PROVE  /\ pub'[e].at = "idle" => pub'[e].left = {}
                      /\ pub'[e].left \subseteq listens[e]
                      /\ pub'[e].at \in {"drop", "again"} => pub'[e].to \in pub'[e].left
    BY DEF PublisherIsLawful
  <2>1. CASE e = d BY <2>1, <1>p
  <2>2. CASE e # d BY <2>2, <1>p DEF AudioIndInv, PublisherIsLawful
  <2>3. QED BY <2>1, <2>2
<1>4. QueuesAreOrdered' BY DEF QueuesAreOrdered
<1>5. RoomIsKept'
  <2> SUFFICES ASSUME NEW e \in Publisher, pub'[e].at = "again",
                      \A g \in Publisher \ {e} : pub'[e].to \notin listens[g]
               PROVE  Len(queue'[pub'[e].to]) < Capacity
    BY DEF RoomIsKept
  <2>1. CASE e = d BY <2>1, <1>p
  <2>2. CASE e # d
    <3>1. pub'[e] = pub[e] /\ d \in Publisher \ {e} BY <2>2, <1>p
    <3>2. Len(queue[pub[e].to]) < Capacity BY <3>1 DEF AudioIndInv, RoomIsKept
    <3>3. pub[e].to \in Listener
      <4>1. pub[e].to \in pub[e].left BY <3>1 DEF AudioIndInv, PublisherIsLawful
      <4>2. pub[e].left \subseteq listens[e] BY DEF AudioIndInv, PublisherIsLawful
      <4>3. QED BY <4>1, <4>2, <1>ty
    <3>4. Len(queue'[pub[e].to]) <= Len(queue[pub[e].to]) BY <3>1, <3>3
    <3>5. Len(queue'[pub[e].to]) \in Nat /\ Len(queue[pub[e].to]) \in Nat BY <3>3, <1>ty
    <3>6. QED BY <3>1, <3>2, <3>4, <3>5, <1>ty
  <2>3. QED BY <2>1, <2>2
<1>6. QED BY <1>1, <1>2, <1>3, <1>4, <1>5 DEF AudioIndInv

\* The next browsers of a publication that is done with one.
LEMMA DoneWith ==
    ASSUME AudioIndInv, NEW d \in Publisher, NEW b \in Listener
    PROVE  \E r \in Publication :
              r = [at |-> "offer", left |-> pub[d].left \ {b}] /\ r.left = pub[d].left \ {b}
                /\ r.at = "offer" /\ Done(d, b) = [pub EXCEPT ![d] = r]
<1>1. pub[d] \in Publication BY AudioFacts
<1>2. pub[d].left \subseteq Listener BY <1>1 DEF Publication
<1>3. PICK r : r = [at |-> "offer", left |-> pub[d].left \ {b}] OBVIOUS
<1>4. r \in Publication /\ r.left = pub[d].left \ {b} /\ r.at = "offer" BY <1>2, <1>3 DEF Publication
<1>5. Done(d, b) = [pub EXCEPT ![d] = r] BY <1>3, AudioFacts DEF Done
<1>6. QED BY <1>3, <1>4, <1>5

\* The frame goes to the end of the queue of a browser with room for it.
LEMMA FrameIsQueued ==
    ASSUME AudioIndInv, NEW d \in Publisher, NEW b \in pub[d].left, ~Full(b),
           queue' = [queue EXCEPT ![b] = Queued(b, d)], pub' = Done(d, b),
           UNCHANGED <<listens, count, writer, socket, heard>>
    PROVE  /\ AudioIndInv' /\ pub'[d].left = pub[d].left \ {b}
           /\ queue'[b] # <<>> /\ queue'[b][Len(queue'[b])] = Newest(d)
<1>ty. /\ pub \in [Publisher -> Publication] /\ listens \in [Publisher -> SUBSET Listener]
       /\ heard \in [Listener -> [Publisher -> Nat]] /\ queue \in [Listener -> Seq(Frame)]
       /\ count \in [Publisher -> 0..MaxFrames] /\ Capacity \in Nat
       /\ \A c \in Listener : Len(queue[c]) <= Capacity
  BY AudioFacts
<1>b. b \in Listener /\ b \in listens[d] /\ pub[d].left \subseteq listens[d]
  BY <1>ty DEF AudioIndInv, PublisherIsLawful
<1>1. PICK r \in Publication :
        r.left = pub[d].left \ {b} /\ r.at = "offer" /\ Done(d, b) = [pub EXCEPT ![d] = r]
  BY <1>b, DoneWith
<1>p. pub' \in [Publisher -> Publication] /\ pub'[d] = r /\ \A e \in Publisher \ {d} : pub'[e] = pub[e]
  BY <1>ty, <1>1
<1>left. \A e \in Publisher : pub'[e].left \subseteq pub[e].left BY <1>p, <1>1
<1>2. PICK f : f = [device |-> d, number |-> count[d]] OBVIOUS
<1>3. queue' = [queue EXCEPT ![b] = Append(queue[b], f)] /\ Newest(d) = f BY <1>2 DEF Queued, Newest
<1>o. \A c \in Listener : Ordered(c, queue[c], heard[c], count, pub) BY DEF AudioIndInv, QueuesAreOrdered
<1>4. PICK p2 : p2 = pub' OBVIOUS
<1>f. f \in Frame /\ f.device = d /\ f.number = count[d]
  <2>1. heard[b][d] < count[d] BY <1>o, <1>b DEF Ordered, Sent
  <2>2. heard[b][d] \in Nat /\ count[d] \in 0..MaxFrames /\ MaxFrames \in Nat BY <1>ty, <1>b, FanoutAssumption
  <2>3. count[d] \in 1..MaxFrames BY <2>1, <2>2
  <2>4. QED BY <1>2, <2>3 DEF Frame
<1>5. ASSUME NEW c \in Listener PROVE Ordered(c, queue[c], heard[c], count, p2)
  <2>1. PICK q \in Seq(Frame) : q = queue[c] BY <1>ty
  <2>2. PICK h \in [Publisher -> Nat] : h = heard[c] BY <1>ty
  <2>3. Ordered(c, q, h, count, pub) BY <1>o, <2>1, <2>2
  <2>4. \A e \in Publisher : count[e] = count[e] /\ (c \in p2[e].left => c \in pub[e].left)
    BY <1>left, <1>4
  <2>5. p2 \in [Publisher -> Publication] BY <1>p, <1>4
  <2>6. Ordered(c, q, h, count, p2)
    BY ONLY <2>3, <2>4, <2>5, <1>ty, q \in Seq(Frame), h \in [Publisher -> Nat], c \in Listener, OrderStays
  <2>7. QED BY <2>1, <2>2, <2>6
<1>w. PICK w \in Seq(Frame) :
        /\ w = Append(queue[b], f) /\ Len(w) = Len(queue[b]) + 1
        /\ w # <<>> /\ w[Len(w)] = f
        /\ Ordered(b, w, heard[b], count, p2)
  <2>1. PICK q \in Seq(Frame) : q = queue[b] BY <1>ty, <1>b
  <2>2. PICK h \in [Publisher -> Nat] : h = heard[b] BY <1>ty, <1>b
  <2>3. PICK c : c = count OBVIOUS
  <2>4. Newer(q, h, f) BY <2>1, <2>2, <1>o, <1>b, <1>f DEF Ordered, Sent, Newer
  <2>5. Ordered(b, q, h, c, p2) /\ f \in Frame /\ f.number = c[f.device] /\ b \notin p2[f.device].left
    BY <1>5, <1>b, <1>f, <1>p, <1>1, <1>4, <2>1, <2>2, <2>3
  <2>6. PICK w : w = Append(q, f) OBVIOUS
  <2>7. Ordered(b, w, h, c, p2)
    BY ONLY <2>4, <2>5, <2>6, q \in Seq(Frame), h \in [Publisher -> Nat], OrderWithNewest
  <2>8. w \in Seq(Frame) /\ Len(w) = Len(q) + 1 /\ w # <<>> /\ w[Len(w)] = f
    BY ONLY <2>6, <2>5, q \in Seq(Frame)
  <2>9. QED BY <2>1, <2>2, <2>3, <2>6, <2>7, <2>8
<1>6. /\ queue' \in [Listener -> Seq(Frame)] /\ queue'[b] = w
      /\ \A c \in Listener \ {b} : queue'[c] = queue[c]
  <2>1. queue' = [queue EXCEPT ![b] = w] BY <1>3, <1>w
  <2>2. QED BY ONLY <2>1, w \in Seq(Frame), <1>ty, <1>b
<1>7. Len(queue'[b]) <= Capacity
  <2>1. Len(queue[b]) < Capacity /\ Len(queue[b]) \in Nat BY <1>ty, <1>b DEF Full
  <2>2. QED BY <2>1, <1>w, <1>6, <1>ty
<1>8. \A c \in Listener : Len(queue'[c]) <= Capacity /\ (Len(queue'[c]) <= Len(queue[c]) \/ c \in listens[d])
  <2>1. \A c \in Listener : Len(queue[c]) \in Nat BY <1>ty
  <2>2. QED BY <1>6, <1>7, <1>b, <1>ty, <2>1
<1>9. \A c \in Listener : Ordered(c, queue'[c], heard[c], count', pub') BY <1>4, <1>5, <1>w, <1>6
<1>10. AudioIndInv'
  <2>1. pub' = [pub EXCEPT ![d] = r] /\ r.left \subseteq listens[d] /\ r.at = "offer" BY <1>1, <1>b
  <2>2. count' \in [Publisher -> 0..MaxFrames] BY <1>ty
  <2>3. QED BY <2>1, <2>2, <1>6, <1>8, <1>9, PublicationMoves
<1>11. QED BY <1>10, <1>p, <1>1, <1>3, <1>w, <1>6

\* A publication that moves on without a frame being queued.
LEMMA PublicationGoesOn ==
    ASSUME AudioIndInv, NEW d \in Publisher, NEW r \in Publication, pub' = [pub EXCEPT ![d] = r],
           UNCHANGED <<listens, queue, writer, socket, heard>>,
           count' \in [Publisher -> 0..MaxFrames],
           \A e \in Publisher : count'[e] = count[e] + 1 \/
              (count'[e] = count[e] /\ pub'[e].left \subseteq pub[e].left),
           r.at = "idle" => r.left = {}, r.left \subseteq listens[d],
           r.at \in {"drop", "again"} => r.to \in r.left,
           r.at = "again" => Len(queue[r.to]) < Capacity
    PROVE  AudioIndInv'
<1>ty. /\ pub \in [Publisher -> Publication] /\ queue \in [Listener -> Seq(Frame)]
       /\ heard \in [Listener -> [Publisher -> Nat]] /\ count \in [Publisher -> 0..MaxFrames]
       /\ \A c \in Listener : Len(queue[c]) <= Capacity
  BY AudioFacts
<1>1. ASSUME NEW b \in Listener PROVE Ordered(b, queue[b], heard[b], count', pub')
  <2>1. PICK q \in Seq(Frame) : q = queue[b] BY <1>ty
  <2>2. PICK h \in [Publisher -> Nat] : h = heard[b] BY <1>ty
  <2>3. Ordered(b, q, h, count, pub) BY <2>1, <2>2 DEF AudioIndInv, QueuesAreOrdered
  <2>4. PICK c2, p2 : c2 = count' /\ p2 = pub' OBVIOUS
  <2>5. c2 \in [Publisher -> 0..MaxFrames] /\ p2 \in [Publisher -> Publication] BY <1>ty, <2>4
  <2>6. \A e \in Publisher :
           c2[e] = count[e] + 1 \/ (c2[e] = count[e] /\ (b \in p2[e].left => b \in pub[e].left))
    BY <2>4
  <2>7. Ordered(b, q, h, c2, p2)
    BY ONLY <2>3, <2>5, <2>6, <1>ty, q \in Seq(Frame), h \in [Publisher -> Nat], b \in Listener, OrderStays
  <2>8. QED BY <2>1, <2>2, <2>4, <2>7
<1>2. \A b \in Listener : Ordered(b, queue'[b], heard[b], count', pub') BY <1>1
<1>3. \A b \in Listener : Len(queue'[b]) <= Len(queue[b]) \/ b \in listens[d]
  <2>1. \A b \in Listener : Len(queue[b]) \in Nat BY <1>ty
  <2>2. QED BY <2>1
<1>4. queue' \in [Listener -> Seq(Frame)] /\ \A b \in Listener : Len(queue'[b]) <= Capacity BY <1>ty
<1>5. r.at = "again" => Len(queue'[r.to]) < Capacity OBVIOUS
<1>6. UNCHANGED <<listens, writer, socket, heard>> OBVIOUS
<1>7. QED BY <1>2, <1>3, <1>4, <1>5, <1>6, PublicationMoves

\* A publication starts, ends, offers its frame, drops an old one and offers again.
LEMMA PublisherSteps ==
    ASSUME AudioIndInv, NEW d \in Publisher, Publish(d) \/ Publishing(d)
    PROVE  AudioIndInv'
<1>ty. /\ pub \in [Publisher -> Publication] /\ listens \in [Publisher -> SUBSET Listener]
       /\ heard \in [Listener -> [Publisher -> Nat]] /\ queue \in [Listener -> Seq(Frame)]
       /\ count \in [Publisher -> 0..MaxFrames] /\ Capacity \in Nat \ {0} /\ MaxFrames \in Nat
       /\ \A c \in Listener : Len(queue[c]) <= Capacity
  BY AudioFacts
<1>d. /\ pub[d] \in Publication /\ pub[d].left \subseteq listens[d] /\ pub[d].left \subseteq Listener
      /\ (pub[d].at \in {"drop", "again"} => pub[d].to \in pub[d].left)
  BY <1>ty DEF AudioIndInv, PublisherIsLawful
<1>1. CASE Publish(d)
  <2>1. /\ count' = [count EXCEPT ![d] = @ + 1] /\ count[d] < MaxFrames
        /\ pub' = [pub EXCEPT ![d] = [at |-> "offer", left |-> listens[d]]]
        /\ UNCHANGED <<listens, queue, writer, socket, heard>>
    BY <1>1 DEF Publish
  <2>2. PICK r : r = [at |-> "offer", left |-> listens[d]] OBVIOUS
  <2>3. r \in Publication /\ r.at = "offer" /\ r.left = listens[d] BY <2>2, <1>ty DEF Publication
  <2>4. count' \in [Publisher -> 0..MaxFrames] /\ count'[d] = count[d] + 1 BY <2>1, <1>ty
  <2>5. pub' = [pub EXCEPT ![d] = r] BY <2>1, <2>2
  <2>6. \A e \in Publisher : count'[e] = count[e] + 1 \/
              (count'[e] = count[e] /\ pub'[e].left \subseteq pub[e].left)
    BY <2>1, <2>4, <2>5, <1>ty
  <2>7. QED BY <2>1, <2>3, <2>4, <2>5, <2>6, PublicationGoesOn
<1>2. CASE PublishEnds(d)
  <2>1. /\ pub' = [pub EXCEPT ![d] = Resting] /\ UNCHANGED <<listens, queue, count, writer, socket, heard>>
    BY <1>2 DEF PublishEnds
  <2>2. Resting \in Publication /\ Resting.at = "idle" /\ Resting.left = {} BY DEF Resting, Publication
  <2>3. \A e \in Publisher : count'[e] = count[e] /\ pub'[e].left \subseteq pub[e].left
    BY <2>1, <2>2, <1>ty
  <2>4. count' \in [Publisher -> 0..MaxFrames] BY <2>1, <1>ty
  <2>5. QED BY <2>1, <2>2, <2>3, <2>4, PublicationGoesOn
<1>3. ASSUME NEW b \in Listener, Offer(d, b) PROVE AudioIndInv'
  <2>0. b \in pub[d].left /\ UNCHANGED <<listens, count, writer, socket, heard>> BY <1>3 DEF Offer
  <2>1. CASE Full(b)
    <3>1. pub' = [pub EXCEPT ![d] = [at |-> "drop", left |-> pub[d].left, to |-> b]] /\ UNCHANGED queue
      BY <1>3, <2>1, <1>ty DEF Offer
    <3>2. PICK r : r = [at |-> "drop", left |-> pub[d].left, to |-> b] OBVIOUS
    <3>3. r \in Publication /\ r.at = "drop" /\ r.left = pub[d].left /\ r.to = b
      BY <3>2, <1>d DEF Publication
    <3>4. pub' = [pub EXCEPT ![d] = r] BY <3>1, <3>2
    <3>5. \A e \in Publisher : count'[e] = count[e] /\ pub'[e].left \subseteq pub[e].left
      BY <2>0, <3>3, <3>4, <1>ty
    <3>6. count' \in [Publisher -> 0..MaxFrames] BY <2>0, <1>ty
    <3>7. QED BY <2>0, <3>1, <3>3, <3>4, <3>5, <3>6, <1>d, PublicationGoesOn
  <2>2. CASE ~Full(b)
    <3>1. queue' = [queue EXCEPT ![b] = Queued(b, d)] /\ pub' = Done(d, b) BY <1>3, <2>2 DEF Offer
    <3>2. QED BY <2>0, <2>2, <3>1, FrameIsQueued
  <2>3. QED BY <2>1, <2>2
<1>4. CASE Drop(d)
  <2>1. /\ pub[d].at = "drop" /\ queue' = [queue EXCEPT ![pub[d].to] = WithoutOldest(pub[d].to)]
        /\ pub' = [pub EXCEPT ![d].at = "again"] /\ UNCHANGED <<listens, count, writer, socket, heard>>
    BY <1>4 DEF Drop
  <2>2. PICK b \in Listener : b = pub[d].to /\ b \in pub[d].left BY <2>1, <1>d
  <2>3. PICK r : r = [pub[d] EXCEPT !.at = "again"] OBVIOUS
  <2>4. r \in Publication /\ r.at = "again" /\ r.left = pub[d].left /\ r.to = b
    <3>1. PICK o \in Publication : o = pub[d] BY <1>d
    <3>2. o.at = "drop" /\ o.to = b /\ r = [o EXCEPT !.at = "again"] BY <3>1, <2>1, <2>2, <2>3
    <3>3. r \in Publication /\ r.at = "again" /\ r.left = o.left /\ r.to = o.to
      BY ONLY o \in Publication, <3>2 DEF Publication
    <3>4. QED BY <3>1, <3>2, <3>3
  <2>5. pub' = [pub EXCEPT ![d] = r] BY <2>1, <2>3
  <2>6. /\ WithoutOldest(b) \in Seq(Frame) /\ Len(WithoutOldest(b)) < Capacity
        /\ Len(WithoutOldest(b)) <= Len(queue[b])
        /\ Ordered(b, WithoutOldest(b), heard[b], count, pub)
    <3>1. PICK q \in Seq(Frame) : q = queue[b] BY <1>ty
    <3>2. PICK h \in [Publisher -> Nat] : h = heard[b] BY <1>ty
    <3>3. Ordered(b, q, h, count, pub) BY <3>1, <3>2 DEF AudioIndInv, QueuesAreOrdered
    <3>4. CASE q = <<>>
      <4>1. WithoutOldest(b) = <<>> /\ WithoutOldest(b) = q BY <3>1, <3>4 DEF WithoutOldest
      <4>2. Len(q) = 0 BY <3>4
      <4>3. QED BY <4>1, <4>2, <3>1, <3>2, <3>3, <1>ty
    <3>5. CASE q # <<>>
      <4>1. WithoutOldest(b) = Tail(q) BY <3>1, <3>5 DEF WithoutOldest
      <4>2. PICK c, p : c = count /\ p = pub OBVIOUS
      <4>3. /\ Tail(q) \in Seq(Frame) /\ Len(Tail(q)) = Len(q) - 1 /\ Len(q) > 0
            /\ Ordered(b, Tail(q), h, c, p)
        BY <4>2, <3>3, <3>5, OrderWithoutHead
      <4>4. Len(q) \in Nat /\ Len(q) <= Capacity BY <3>1, <1>ty
      <4>5. QED BY <4>1, <4>2, <4>3, <4>4, <3>1, <3>2, <1>ty
    <3>6. QED BY <3>4, <3>5
  <2>7. PICK w \in Seq(Frame) :
          /\ w = WithoutOldest(b) /\ Len(w) < Capacity /\ Len(w) <= Len(queue[b])
          /\ Ordered(b, w, heard[b], count, pub)
    BY <2>6
  <2>8. /\ queue' \in [Listener -> Seq(Frame)] /\ queue'[b] = w
        /\ \A c \in Listener \ {b} : queue'[c] = queue[c]
    <3>1. queue' = [queue EXCEPT ![b] = w] BY <2>1, <2>2, <2>7
    <3>2. QED BY ONLY <3>1, w \in Seq(Frame), b \in Listener, <1>ty
  <2>9. \A c \in Listener : Len(queue'[c]) <= Capacity /\ Len(queue'[c]) <= Len(queue[c])
    <3>1. \A c \in Listener : Len(queue[c]) \in Nat BY <1>ty
    <3>2. Len(w) \in Nat OBVIOUS
    <3>3. \A c \in Listener \ {b} : Len(queue'[c]) <= Capacity /\ Len(queue'[c]) <= Len(queue[c])
      BY <3>1, <2>8, <1>ty
    <3>4. Len(queue'[b]) <= Capacity /\ Len(queue'[b]) <= Len(queue[b])
      <4>1. queue'[b] = w /\ Len(w) < Capacity /\ Len(w) <= Len(queue[b]) BY <2>7, <2>8
      <4>2. QED BY <4>1, <3>2, <1>ty
    <3>5. QED BY <3>3, <3>4
  <2>10. \A e \in Publisher : pub'[e].left = pub[e].left BY <2>4, <2>5, <1>ty
  <2>11. ASSUME NEW c \in Listener PROVE Ordered(c, queue'[c], heard[c], count', pub')
    <3>1. PICK q \in Seq(Frame) : q = queue'[c] BY <2>8
    <3>2. PICK h \in [Publisher -> Nat] : h = heard[c] BY <1>ty
    <3>3. Ordered(c, q, h, count, pub)
      BY <3>1, <3>2, <2>7, <2>8 DEF AudioIndInv, QueuesAreOrdered
    <3>4. PICK p2 : p2 = pub' OBVIOUS
    <3>5. p2 \in [Publisher -> Publication] BY <2>4, <2>5, <1>ty, <3>4
    <3>6. \A e \in Publisher : count[e] = count[e] /\ (c \in p2[e].left => c \in pub[e].left)
      BY <2>10, <3>4
    <3>7. Ordered(c, q, h, count, p2)
      BY ONLY <3>3, <3>5, <3>6, <1>ty, q \in Seq(Frame), h \in [Publisher -> Nat], c \in Listener, OrderStays
    <3>8. QED BY <3>1, <3>2, <3>4, <3>7, <2>1
  <2>12. count' \in [Publisher -> 0..MaxFrames] BY <2>1, <1>ty
  <2>13. r.left \subseteq listens[d] /\ r.to \in r.left /\ Len(queue'[r.to]) < Capacity
    BY <1>d, <2>2, <2>4, <2>7, <2>8
  <2>14. QED BY <2>1, <2>4, <2>5, <2>8, <2>9, <2>11, <2>12, <2>13, PublicationMoves
<1>5. CASE Again(d)
  <2>1. PICK b : b = pub[d].to OBVIOUS
  <2>2. /\ pub[d].at = "again" /\ pub' = Done(d, b) /\ UNCHANGED <<listens, count, writer, socket, heard>>
        /\ queue' = IF Full(b) THEN queue ELSE [queue EXCEPT ![b] = Queued(b, d)]
    BY <1>5, <2>1 DEF Again
  <2>3. b \in pub[d].left /\ b \in Listener BY <2>1, <2>2, <1>d
  <2>4. CASE Full(b)
    <3>1. PICK r \in Publication :
            r.left = pub[d].left \ {b} /\ r.at = "offer" /\ Done(d, b) = [pub EXCEPT ![d] = r]
      BY <2>3, DoneWith
    <3>2. UNCHANGED queue /\ pub' = [pub EXCEPT ![d] = r] BY <2>2, <2>4, <3>1
    <3>3. \A e \in Publisher : count'[e] = count[e] /\ pub'[e].left \subseteq pub[e].left
      BY <2>2, <3>1, <3>2, <1>ty
    <3>4. count' \in [Publisher -> 0..MaxFrames] BY <2>2, <1>ty
    <3>5. QED BY <2>2, <3>1, <3>2, <3>3, <3>4, <1>d, PublicationGoesOn
  <2>5. CASE ~Full(b) BY <2>2, <2>3, <2>5, FrameIsQueued
  <2>6. QED BY <2>4, <2>5
<1>6. QED BY <1>1, <1>2, <1>3, <1>4, <1>5 DEF Publishing

\* The writer takes the oldest frame, which is newer than what was heard.
LEMMA TakeStep ==
    ASSUME AudioIndInv, NEW b \in Listener, Take(b)
    PROVE  AudioIndInv' /\ \A d \in Publisher, c \in Listener : heard'[c][d] >= heard[c][d]
<1>ty. /\ pub \in [Publisher -> Publication] /\ listens \in [Publisher -> SUBSET Listener]
       /\ heard \in [Listener -> [Publisher -> Nat]] /\ queue \in [Listener -> Seq(Frame)]
       /\ count \in [Publisher -> 0..MaxFrames] /\ Capacity \in Nat \ {0}
       /\ writer \in [Listener -> {"idle", "writing", "ended"}]
       /\ socket \in [Listener -> {"open", "closed"}]
       /\ \A c \in Listener : Len(queue[c]) <= Capacity
  BY AudioFacts
<1>1. /\ queue[b] # <<>> /\ writer' = [writer EXCEPT ![b] = "writing"]
      /\ queue' = [queue EXCEPT ![b] = Tail(@)]
      /\ heard' = [heard EXCEPT ![b][Head(queue[b]).device] = Head(queue[b]).number]
      /\ UNCHANGED <<listens, pub, count, socket>>
  BY DEF Take
<1>2. PICK q \in Seq(Frame) : q = queue[b] BY <1>ty
<1>3. PICK h \in [Publisher -> Nat] : h = heard[b] BY <1>ty
<1>4. PICK c, p : c = count /\ p = pub OBVIOUS
<1>5. /\ Tail(q) \in Seq(Frame) /\ Len(Tail(q)) = Len(q) - 1 /\ Len(q) > 0
      /\ Head(q) \in Frame /\ h[Head(q).device] < Head(q).number
      /\ Ordered(b, Tail(q), [h EXCEPT ![Head(q).device] = Head(q).number], c, p)
  <2>1. Ordered(b, q, h, c, p) BY <1>2, <1>3, <1>4 DEF AudioIndInv, QueuesAreOrdered
  <2>2. q # <<>> BY <1>1, <1>2
  <2>3. QED BY <2>1, <2>2, OrderWithoutHead
<1>6. PICK w \in Seq(Frame) : w = Tail(q) BY <1>5
<1>7. PICK g : g = [h EXCEPT ![Head(q).device] = Head(q).number] OBVIOUS
<1>8. PICK f \in Frame : f = Head(q) BY <1>5
<1>9. f.device \in Publisher /\ f.number \in Nat BY FanoutAssumption DEF Frame
<1>10. g \in [Publisher -> Nat] /\ \A d \in Publisher : g[d] >= h[d]
  <2>1. g = [h EXCEPT ![f.device] = f.number] /\ h[f.device] < f.number BY <1>5, <1>7, <1>8
  <2>2. QED BY ONLY <2>1, <1>9, h \in [Publisher -> Nat]
<1>11. /\ queue' \in [Listener -> Seq(Frame)] /\ queue'[b] = w
       /\ \A x \in Listener \ {b} : queue'[x] = queue[x]
  <2>1. queue' = [queue EXCEPT ![b] = w] BY <1>1, <1>2, <1>6
  <2>2. QED BY ONLY <2>1, w \in Seq(Frame), b \in Listener, <1>ty
<1>12. /\ heard' \in [Listener -> [Publisher -> Nat]] /\ heard'[b] = g
       /\ \A x \in Listener \ {b} : heard'[x] = heard[x]
  <2>1. heard' = [heard EXCEPT ![b] = [heard[b] EXCEPT ![Head(queue[b]).device] = Head(queue[b]).number]]
    BY <1>1
  <2>2. heard' = [heard EXCEPT ![b] = g] BY <2>1, <1>2, <1>3, <1>7
  <2>3. QED BY ONLY <2>2, <1>10, b \in Listener, <1>ty
<1>13. \A x \in Listener : Len(queue'[x]) <= Capacity /\ Len(queue'[x]) <= Len(queue[x])
  <2>1. \A x \in Listener : Len(queue[x]) \in Nat BY <1>ty
  <2>2. \A x \in Listener \ {b} : Len(queue'[x]) <= Capacity /\ Len(queue'[x]) <= Len(queue[x])
    BY <2>1, <1>11, <1>ty
  <2>3. Len(queue'[b]) <= Capacity /\ Len(queue'[b]) <= Len(queue[b])
    <3>1. queue'[b] = w /\ Len(w) = Len(q) - 1 /\ Len(q) \in Nat /\ Len(q) <= Capacity
      BY <1>2, <1>5, <1>6, <1>11, <1>ty
    <3>2. QED BY <3>1, <1>2, <1>ty
  <2>4. QED BY <2>2, <2>3
<1>14. AudioShape' BY <1>ty, <1>1, <1>11, <1>12 DEF AudioShape
<1>15. AudioTypeOK'
  <2>1. /\ writer' \in [Listener -> {"idle", "writing", "ended"}]
        /\ socket' \in [Listener -> {"open", "closed"}] /\ count' \in [Publisher -> 0..MaxFrames]
    BY <1>1, <1>ty
  <2>2. QED BY <1>14, <2>1, <1>13, AudioTyped
<1>16. PublisherIsLawful' BY <1>1 DEF PublisherIsLawful, AudioIndInv
<1>17. QueuesAreOrdered'
  <2> SUFFICES ASSUME NEW x \in Listener PROVE Ordered(x, queue'[x], heard'[x], count, pub)
    BY <1>1 DEF QueuesAreOrdered
  <2>1. CASE x = b BY <2>1, <1>4, <1>5, <1>6, <1>7, <1>11, <1>12
  <2>2. CASE x # b BY <2>2, <1>11, <1>12 DEF AudioIndInv, QueuesAreOrdered
  <2>3. QED BY <2>1, <2>2
<1>18. RoomIsKept'
  <2> SUFFICES ASSUME NEW d \in Publisher, pub[d].at = "again",
                      \A e \in Publisher \ {d} : pub[d].to \notin listens[e]
               PROVE  Len(queue'[pub[d].to]) < Capacity
    BY <1>1 DEF RoomIsKept
  <2>1. Len(queue[pub[d].to]) < Capacity BY DEF AudioIndInv, RoomIsKept
  <2>2. pub[d].to \in Listener
    <3>1. pub[d].to \in pub[d].left /\ pub[d].left \subseteq listens[d] BY DEF AudioIndInv, PublisherIsLawful
    <3>2. QED BY <3>1, <1>ty
  <2>3. Len(queue'[pub[d].to]) <= Len(queue[pub[d].to]) BY <2>2, <1>13
  <2>4. Len(queue'[pub[d].to]) \in Nat /\ Len(queue[pub[d].to]) \in Nat BY <2>2, <1>11, <1>ty
  <2>5. QED BY <2>1, <2>3, <2>4, <1>ty
<1>19. AudioIndInv' BY <1>14, <1>15, <1>16, <1>17, <1>18 DEF AudioIndInv
<1>20. ASSUME NEW d \in Publisher, NEW x \in Listener PROVE heard'[x][d] >= heard[x][d]
  <2>1. heard[x][d] \in Nat BY <1>ty
  <2>2. QED BY <2>1, <1>3, <1>10, <1>12
<1>21. QED BY <1>19, <1>20

\* Every step keeps the queues lawful.
LEMMA AudioStep == AudioIndInv /\ [AudioNext]_audioVars => AudioIndInv'
<1> SUFFICES ASSUME AudioIndInv, [AudioNext]_audioVars PROVE AudioIndInv'
  OBVIOUS
<1>1. CASE UNCHANGED audioVars
  <2>1. UNCHANGED <<listens, queue, pub, count, writer, socket, heard>> BY <1>1 DEF audioVars
  <2>2. /\ listens' \in [Publisher -> SUBSET Listener]
        /\ writer' \in [Listener -> {"idle", "writing", "ended"}]
        /\ socket' \in [Listener -> {"open", "closed"}]
    BY <2>1, AudioFacts
  <2>3. QED BY <2>1, <2>2, AudioQuiet
<1>2. CASE AudioNext
  BY <1>2, PublisherSteps, ListenerSteps, TakeStep DEF AudioNext
<1>3. QED BY <1>1, <1>2

\* Whatever is published and whoever listens, the audio queues of the hub stay
\* well-formed and within the capacity of audioFrames (publishAudio, writeAudio).
THEOREM AudioQueuesAreBounded == AudioSpec => []AudioTypeOK
<1>1. AudioIndInv => AudioTypeOK BY DEF AudioIndInv
<1>2. QED BY <1>1, AudioStarts, AudioStep, PTL DEF AudioSpec

\* A browser hears the frames of a device in the order they were made, and a
\* publication that is done with a browser has its frame at the end of the queue,
\* unless the browser also listens to another device (publishAudio drops the
\* oldest frame, never the new one).
THEOREM NewestFrameIsKept == AudioSpec => NewestIsKeptInOrder
<1> DEFINE A == \A d \in Publisher :
      /\ \A b \in Listener : heard'[b][d] >= heard[b][d]
      /\ \A b \in pub[d].left :
           b \notin pub'[d].left /\ (\A e \in Publisher \ {d} : b \notin listens[e]) =>
             queue'[b] # <<>> /\ queue'[b][Len(queue'[b])] = Newest(d)
<1>1. AudioIndInv /\ [AudioNext]_audioVars => [A]_audioVars
  <2> SUFFICES ASSUME AudioIndInv, AudioNext PROVE A
    OBVIOUS
  <2>ty. /\ heard \in [Listener -> [Publisher -> Nat]] /\ pub \in [Publisher -> Publication]
         /\ listens \in [Publisher -> SUBSET Listener]
    BY AudioFacts
  <2>same. \A d \in Publisher, b \in Listener : heard[b][d] >= heard[b][d]
    <3>1. \A d \in Publisher, b \in Listener : heard[b][d] \in Nat BY <2>ty
    <3>2. QED BY <3>1
  <2>quiet. ASSUME UNCHANGED <<pub, heard>> PROVE A BY <2>quiet, <2>same
  <2>1. ASSUME NEW d \in Publisher, Publish(d) \/ Publishing(d) PROVE A
    <3>h. UNCHANGED heard
      BY <2>1 DEF Publish, Publishing, PublishEnds, Offer, Drop, Again
    <3>o. \A e \in Publisher \ {d} : pub'[e] = pub[e]
      BY <2>1, <2>ty DEF Publish, Publishing, PublishEnds, Offer, Drop, Again, Done
    <3>l. pub[d].left \subseteq listens[d] /\ pub[d].left \subseteq Listener
      BY <2>ty DEF AudioIndInv, PublisherIsLawful
    <3> SUFFICES ASSUME NEW b \in pub[d].left, b \notin pub'[d].left,
                        \A e \in Publisher \ {d} : b \notin listens[e]
                 PROVE  queue'[b] # <<>> /\ queue'[b][Len(queue'[b])] = Newest(d)
      BY <3>h, <3>o, <2>same
    <3>1. CASE Publish(d)
      <4>1. pub[d].left = {} BY <3>1 DEF Publish, AudioIndInv, PublisherIsLawful
      <4>2. QED BY <4>1
    <3>2. CASE PublishEnds(d) BY <3>2 DEF PublishEnds
    <3>3. ASSUME NEW c \in Listener, Offer(d, c)
          PROVE  queue'[b] # <<>> /\ queue'[b][Len(queue'[b])] = Newest(d)
      <4>0. c \in pub[d].left /\ UNCHANGED <<listens, count, writer, socket, heard>> BY <3>3 DEF Offer
      <4>1. CASE Full(c)
        <5>1. pub' = [pub EXCEPT ![d] = [at |-> "drop", left |-> pub[d].left, to |-> c]]
          BY <3>3, <4>1, <2>ty DEF Offer
        <5>2. pub'[d].left = pub[d].left BY <5>1, <2>ty
        <5>3. QED BY <5>2
      <4>2. CASE ~Full(c)
        <5>1. queue' = [queue EXCEPT ![c] = Queued(c, d)] /\ pub' = Done(d, c) BY <3>3, <4>2 DEF Offer
        <5>2. /\ pub'[d].left = pub[d].left \ {c}
              /\ queue'[c] # <<>> /\ queue'[c][Len(queue'[c])] = Newest(d)
          BY <4>0, <4>2, <5>1, FrameIsQueued
        <5>3. QED BY <5>2
      <4>3. QED BY <4>1, <4>2
    <3>4. CASE Drop(d)
      <4>1. pub' = [pub EXCEPT ![d].at = "again"] BY <3>4 DEF Drop
      <4>2. pub'[d] = [pub[d] EXCEPT !.at = "again"] BY <4>1, <2>ty
      <4>3. PICK o \in Publication : o = pub[d] BY <2>ty
      <4>4. [o EXCEPT !.at = "again"].left = o.left BY ONLY o \in Publication DEF Publication
      <4>5. QED BY <4>2, <4>3, <4>4
    <3>5. CASE Again(d)
      <4>1. PICK c : c = pub[d].to OBVIOUS
      <4>2. /\ pub[d].at = "again" /\ pub' = Done(d, c) /\ UNCHANGED <<listens, count, writer, socket, heard>>
            /\ queue' = IF Full(c) THEN queue ELSE [queue EXCEPT ![c] = Queued(c, d)]
        BY <3>5, <4>1 DEF Again
      <4>3. c \in pub[d].left BY <4>1, <4>2 DEF AudioIndInv, PublisherIsLawful
      <4>4. pub'[d].left = pub[d].left \ {c}
        <5>1. PICK r \in Publication : r.left = pub[d].left \ {c} /\ Done(d, c) = [pub EXCEPT ![d] = r]
          BY <4>3, <3>l, DoneWith
        <5>2. QED BY <5>1, <4>2, <2>ty
      <4>5. b = c BY <4>4
      <4>6. ~Full(c)
        <5>1. Len(queue[c]) < Capacity BY <4>1, <4>2, <4>5 DEF AudioIndInv, RoomIsKept
        <5>2. Len(queue[c]) \in Nat /\ Capacity \in Nat BY <4>3, <3>l, AudioFacts
        <5>3. QED BY <5>1, <5>2 DEF Full
      <4>7. queue'[c] # <<>> /\ queue'[c][Len(queue'[c])] = Newest(d)
        BY <4>2, <4>3, <4>6, FrameIsQueued
      <4>8. QED BY <4>5, <4>7
    <3>6. QED BY <2>1, <3>1, <3>2, <3>3, <3>4, <3>5 DEF Publishing
  <2>2. ASSUME NEW b \in Listener, Take(b) PROVE A
    <3>1. UNCHANGED pub BY <2>2 DEF Take
    <3>2. QED BY <2>2, <3>1, TakeStep
  <2>3. ASSUME NEW b \in Listener, NEW d \in Publisher, Subscribe(b, d) \/ Unsubscribe(b, d) PROVE A
    BY <2>3, <2>quiet DEF Subscribe, Unsubscribe
  <2>4. ASSUME NEW b \in Listener, Written(b) \/ WriteFails(b) \/ Close(b) \/ Cleanup(b) PROVE A
    BY <2>4, <2>quiet DEF Written, WriteFails, Close, Cleanup
  <2>5. QED BY <2>1, <2>2, <2>3, <2>4 DEF AudioNext
<1>2. QED BY <1>1, AudioStarts, AudioStep, PTL DEF AudioSpec, NewestIsKeptInOrder
=============================================================================
