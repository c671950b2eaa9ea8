--------------------------- MODULE BrowserSession ---------------------------
(***************************************************************************)
(* Who may hold a browser websocket: user tokens, websocket tickets and    *)
(* shares; connectClient, which checks them and registers the socket in    *)
(* the hub; the watcher of each socket; logout, and what an administrator  *)
(* changes while sockets are open.                                         *)
(*                                                                         *)
(* Tokens and tickets are signed and not stored, so they survive a         *)
(* restart; a logout is a stored exception (revokedUserTokens).  A share   *)
(* has no token of its own: its ticket names the share.                    *)
(*                                                                         *)
(* persist is one step, the write; module Enrollment shows that persistMu  *)
(* lets it be taken as one.                                                *)
(***************************************************************************)
EXTENDS Naturals, FiniteSets

CONSTANTS
    User,         \* user identifiers, drawn once
    Share,        \* share tokens, drawn once
    Token,        \* user access tokens, drawn once
    Conn,         \* browser connections, each used once
    Rights,       \* what the record of a user or share grants
    Request,      \* goroutines of requests that change users and shares
    Janitor,      \* the maintenance goroutine
    None,
    DbMayFail,    \* may a write of the state document fail?
    MaxVersion,   \* bound on password resets of one user
    MaxChanges,   \* bound on changes of users and shares
    MaxRestarts

Subject == User \cup Share
Key == Token \cup Share

ASSUME NamesAssumption ==
    /\ User \cap Share = {}
    /\ Token \cap Share = {}
    /\ None \notin Key
    /\ None \notin [ver : Nat, rights : Rights]
    /\ None \notin [subject : User, ver : Nat]
    /\ None \notin [subject : Subject, floor : Nat]
    /\ Request \cap Token = {}
    /\ Janitor \notin Request \cup Token

ASSUME LimitsAssumption ==
    /\ DbMayFail \in BOOLEAN
    /\ MaxVersion \in Nat
    /\ MaxChanges \in Nat
    /\ MaxRestarts \in Nat

\* User: TokenVersion, and the rest of what reflect.DeepEqual compares,
\* ExpiresAt included; a share's version never changes.
Record == [ver : 0..MaxVersion, rights : Rights]

\* The part of persistedState this module reads back.
Document == [rec : [Subject -> Record \cup {None}], revoked : SUBSET Token]

Goroutine == Token \cup Request \cup {Janitor}

VARIABLES
    mem,        \* MemoryStore
    disk,       \* the state document in PostgreSQL
    unsaved,    \* goroutines between a store operation and its persist
    born,       \* identifiers already drawn
    over,       \* which rights of whom are past their ExpiresAt
    claims,     \* what a token says, once issued
    lapsed,     \* tokens past their expiry
    tickets,    \* live websocket tickets, by what they stand for
    logout,     \* logout: where the request of a token is
    job,        \* what a request is about to confirm
    pc,         \* connectClient
    key,        \* connectClient: access
    peer,       \* browserPeer.user
    open,       \* sockets that are open
    browsers,   \* hub.browsers
    changes, restarts,
    loggedOut,  \* history: tokens whose logout was confirmed
    floor       \* history: versions below it were confirmed to be void

storeVars == <<mem, disk, unsaved>>
tokenVars == <<born, over, claims, lapsed, tickets>>
connVars == <<pc, key, peer, open, browsers>>
vars == <<storeVars, tokenVars, logout, job, connVars, changes, restarts,
          loggedOut, floor>>

TypeOK ==
    /\ mem \in Document
    /\ disk \in Document
    /\ unsaved \in SUBSET Goroutine
    /\ born \in SUBSET Subject
    /\ over \in SUBSET (Subject \X Rights)
    /\ claims \in [Token -> [subject : User, ver : 0..MaxVersion] \cup {None}]
    /\ lapsed \in SUBSET Token
    /\ tickets \in SUBSET Key
    /\ \A k \in tickets \cap Token : claims[k] # None
    /\ logout \in [Token -> {"none", "revoked", "saved", "failed"}]
    /\ job \in [Request -> [subject : Subject, floor : 0..MaxVersion + 1] \cup {None}]
    /\ pc \in [Conn -> {"idle", "checked", "admitted", "open", "serving",
                        "done"}]
    /\ key \in [Conn -> Key \cup {None}]
    /\ \A c \in Conn : pc[c] \in {"checked", "admitted", "open", "serving"} =>
            key[c] \in Key /\ (key[c] \in Token => claims[key[c]] # None)
    /\ peer \in [Conn -> Record \cup {None}]
    /\ open \in SUBSET Conn
    /\ browsers \in SUBSET Conn
    /\ changes \in 0..MaxChanges
    /\ restarts \in 0..MaxRestarts
    /\ loggedOut \in SUBSET Token
    /\ floor \in [Subject -> 0..MaxVersion + 1]

Init ==
    /\ mem = [rec |-> [s \in Subject |-> None], revoked |-> {}]
    /\ disk = mem
    /\ unsaved = {}
    /\ born = {}
    /\ over = {}
    /\ claims = [k \in Token |-> None]
    /\ lapsed = {}
    /\ tickets = {}
    /\ logout = [k \in Token |-> "none"]
    /\ job = [q \in Request |-> None]
    /\ pc = [c \in Conn |-> "idle"]
    /\ key = [c \in Conn |-> None]
    /\ peer = [c \in Conn |-> None]
    /\ open = {}
    /\ browsers = {}
    /\ changes = 0
    /\ restarts = 0
    /\ loggedOut = {}
    /\ floor = [s \in Subject |-> 0]

-----------------------------------------------------------------------------
(* Administrators, and users who share a device.  A request changes one       *)
(* record, persists (mutate drops the error) and answers; adminCreateUser and *)
(* shareCreate are a Create and an Update.                                    *)

Change(q, s, r, lowest) ==
    /\ job[q] = None
    /\ changes < MaxChanges
    /\ changes' = changes + 1
    /\ mem' = [mem EXCEPT !.rec[s] = r]
    /\ job' = [job EXCEPT ![q] = [subject |-> s, floor |-> lowest]]
    /\ unsaved' = unsaved \cup {q}
    /\ UNCHANGED <<disk, over, claims, lapsed, tickets, logout, connVars, restarts,
                   loggedOut, floor>>

\* CreateUser, CreateShare
Create(q, s, rights) ==
    /\ s \notin born
    /\ born' = born \cup {s}
    /\ Change(q, s, [ver |-> 0, rights |-> rights], 0)

\* UpdateUser and RenameUser, UpdateShare
Update(q, s, rights) ==
    /\ mem.rec[s] # None
    /\ rights # mem.rec[s].rights
    /\ Change(q, s, [mem.rec[s] EXCEPT !.rights = rights], 0)
    /\ UNCHANGED born

ResetPassword(q, u) ==
    /\ mem.rec[u] # None
    /\ mem.rec[u].ver < MaxVersion
    /\ Change(q, u, [mem.rec[u] EXCEPT !.ver = @ + 1], mem.rec[u].ver + 1)
    /\ UNCHANGED born

\* DeleteUser (the bootstrap administrator is another), RevokeShare.  The request
\* to revoke a share that is not in memory changes and writes nothing; it is
\* answered as a success, which confirms nothing here: the write of the request
\* that took the share away may still fail.
Delete(q, s) ==
    /\ mem.rec[s] # None
    /\ Change(q, s, None, MaxVersion + 1)
    /\ UNCHANGED born

\* the answer
Confirm(q) ==
    /\ job[q] # None
    /\ q \notin unsaved
    /\ floor' = [floor EXCEPT ![job[q].subject] =
                    IF @ < job[q].floor THEN job[q].floor ELSE @]
    /\ job' = [job EXCEPT ![q] = None]
    /\ UNCHANGED <<storeVars, tokenVars, logout, connVars, changes, restarts,
                   loggedOut>>

-----------------------------------------------------------------------------
(* Checks *)

Claims(k) == IF k \in Share THEN [subject |-> k, ver |-> 0] ELSE claims[k]

Over(s) == mem.rec[s] # None /\ <<s, mem.rec[s].rights>> \in over

\* SharesFor, AuthorizeShare: whoever looks for a share drops the ones that are
\* over, in memory only
Swept(k) ==
    IF k \in Share
    THEN [mem EXCEPT !.rec = [s \in Subject |-> IF s \in Share /\ Over(s) THEN None ELSE @[s]]]
    ELSE mem

\* Mutant: a logout is looked for under the wrong digest
MutantUserTokenRevoked(k) == FALSE

\* UserTokenRevoked: a revocation ends with its token
UserTokenRevoked(k) == k \in mem.revoked \ lapsed

\* Mutant: the token version is not compared
MutantUserForToken(k) ==
    LET r == mem.rec[Claims(k).subject]
    IN  r # None /\ ~Over(Claims(k).subject)

\* userForToken, shareForTicket
UserForToken(k) ==
    LET r == mem.rec[Claims(k).subject]
    IN  /\ r # None
        /\ r.ver = Claims(k).ver
        /\ ~Over(Claims(k).subject)

\* a token in the Authorization header, before its expiry
Bearer(k) == k \in Token \ lapsed /\ claims[k] # None

\* adminKickUser: sockets the hub holds under a name; the name a peer had when
\* it connected and the device of the request choose among those of a user, and
\* all shares go by one name
KickUser(s) ==
    /\ \E kicked \in SUBSET {c \in browsers :
                            LET t == Claims(key[c]).subject IN t = s \/ {s, t} \subseteq Share} :
        open' = open \ kicked
    /\ open' # open
    /\ UNCHANGED <<storeVars, tokenVars, logout, job, pc, key, peer, browsers,
                   changes, restarts, loggedOut, floor>>

-----------------------------------------------------------------------------
(* Users *)

\* login: the token carries the version Authenticate read
Login(u, k) ==
    /\ claims[k] = None
    /\ mem.rec[u] # None
    /\ ~Over(u)
    /\ claims' = [claims EXCEPT ![k] = [subject |-> u, ver |-> mem.rec[u].ver]]
    /\ UNCHANGED <<storeVars, born, over, lapsed, tickets, logout, job, connVars,
                   changes, restarts, loggedOut, floor>>

\* websocketTicket; every use of the ticket repeats the checks
IssueTicket(k) ==
    /\ k \notin tickets
    /\ k \in Share \/ (Bearer(k) /\ ~UserTokenRevoked(k))
    /\ UserForToken(k)
    /\ tickets' = tickets \cup {k}
    /\ mem' = Swept(k)
    /\ UNCHANGED <<disk, unsaved, born, over, claims, lapsed, logout, job, connVars,
                   changes, restarts, loggedOut, floor>>

\* logout: RevokeUserToken ...
Logout(k) ==
    /\ logout[k] = "none"
    /\ Bearer(k)
    /\ mem' = [mem EXCEPT !.revoked = @ \cup {k}]
    /\ logout' = [logout EXCEPT ![k] = "revoked"]
    /\ unsaved' = unsaved \cup {k}
    /\ UNCHANGED <<disk, tokenVars, job, connVars, changes, restarts,
                   loggedOut, floor>>

\* ... disconnectToken, and the answer
DisconnectToken(k) ==
    /\ logout[k] = "saved"
    /\ open' = open \ {c \in browsers : key[c] = k}
    /\ logout' = [logout EXCEPT ![k] = "none"]
    /\ loggedOut' = loggedOut \cup {k}
    /\ UNCHANGED <<storeVars, tokenVars, job, pc, key, peer, browsers, changes,
                   restarts, floor>>

\* "save logout": the user is told that it failed
LogoutFails(k) ==
    /\ logout[k] = "failed"
    /\ logout' = [logout EXCEPT ![k] = "none"]
    /\ UNCHANGED <<storeVars, tokenVars, job, connVars, changes, restarts,
                   loggedOut, floor>>

-----------------------------------------------------------------------------
(* The state document *)

\* Mutant: the error of RevokeUserToken is dropped, as mutate does
MutantPersist(g) ==
    /\ g \in unsaved
    /\ unsaved' = unsaved \ {g}
    /\ \E ok \in {TRUE} \cup {~DbMayFail} :
        /\ IF ok THEN disk' = mem ELSE disk' \in {disk, mem}
        /\ logout' = [k \in Token |->
                IF k = g /\ logout[k] = "revoked" THEN "saved" ELSE logout[k]]
    /\ UNCHANGED <<mem, tokenVars, job, connVars, changes, restarts,
                   loggedOut, floor>>

\* persist; an error may hide a write that took place
Persist(g) ==
    /\ g \in unsaved
    /\ unsaved' = unsaved \ {g}
    /\ \E ok \in {TRUE} \cup {~DbMayFail} :
        /\ IF ok THEN disk' = mem ELSE disk' \in {disk, mem}
        /\ logout' = [k \in Token |->
                IF k = g /\ logout[k] = "revoked"
                THEN IF ok THEN "saved" ELSE "failed" ELSE logout[k]]
    /\ UNCHANGED <<mem, tokenVars, job, connVars, changes, restarts,
                   loggedOut, floor>>

\* Clean, the part about revocations.  When nothing changes the step stands
\* for any of the control plane's requests that rewrite the document.
Clean ==
    /\ Janitor \notin unsaved
    /\ mem' = [mem EXCEPT !.revoked = @ \ lapsed]
    /\ unsaved' = unsaved \cup {Janitor}
    /\ mem' # mem \/ disk # mem
    /\ UNCHANGED <<disk, tokenVars, logout, job, connVars, changes, restarts,
                   loggedOut, floor>>

-----------------------------------------------------------------------------
(* connectClient *)

\* browserAccessFromRequest looks for a logout first ...
CheckToken(c, k) ==
    /\ pc[c] = "idle"
    /\ Bearer(k) \/ k \in tickets
    /\ k \in Token => ~UserTokenRevoked(k)
    /\ key' = [key EXCEPT ![c] = k]
    /\ pc' = [pc EXCEPT ![c] = "checked"]
    /\ UNCHANGED <<storeVars, tokenVars, logout, job, peer, open, browsers,
                   changes, restarts, loggedOut, floor>>

\* ... then reads the user or share
Admit(c) ==
    /\ pc[c] = "checked"
    /\ UserForToken(key[c])
    /\ peer' = [peer EXCEPT ![c] = mem.rec[Claims(key[c]).subject]]
    /\ pc' = [pc EXCEPT ![c] = "admitted"]
    /\ mem' = Swept(key[c])
    /\ UNCHANGED <<disk, unsaved, tokenVars, logout, job, key, open, browsers,
                   changes, restarts, loggedOut, floor>>

\* ... or finds none
Deny(c) ==
    /\ pc[c] = "checked"
    /\ ~UserForToken(key[c])
    /\ pc' = [pc EXCEPT ![c] = "done"]
    /\ mem' = Swept(key[c])
    /\ UNCHANGED <<disk, unsaved, tokenVars, logout, job, key, peer, open, browsers,
                   changes, restarts, loggedOut, floor>>

\* Upgrade, on what was read before, and the watcher starts; or it fails
Upgrade(c) ==
    /\ pc[c] = "admitted"
    /\ \/ /\ open' = open \cup {c}
          /\ pc' = [pc EXCEPT ![c] = "open"]
       \/ /\ pc' = [pc EXCEPT ![c] = "done"]
          /\ UNCHANGED open
    /\ UNCHANGED <<storeVars, tokenVars, logout, job, key, peer, browsers,
                   changes, restarts, loggedOut, floor>>

AddBrowser(c) ==
    /\ pc[c] = "open"
    /\ browsers' = browsers \cup {c}
    /\ pc' = [pc EXCEPT ![c] = "serving"]
    /\ UNCHANGED <<storeVars, tokenVars, logout, job, key, peer, open, changes,
                   restarts, loggedOut, floor>>

\* the read loop ends: removeBrowser
EndBrowser(c) ==
    /\ pc[c] = "serving"
    /\ c \notin open
    /\ browsers' = browsers \ {c}
    /\ pc' = [pc EXCEPT ![c] = "done"]
    /\ UNCHANGED <<storeVars, tokenVars, logout, job, key, peer, open, changes,
                   restarts, loggedOut, floor>>

\* Mutant: a changed record does not matter while the login is valid
MutantFresh(c) == ~UserTokenRevoked(key[c]) /\ UserForToken(key[c])

\* validateBrowserAccess, and the comparison with the user at connect time
Fresh(c) ==
    /\ ~UserTokenRevoked(key[c])
    /\ UserForToken(key[c])
    /\ mem.rec[Claims(key[c]).subject] = peer[c]

\* watchBrowserAccess: a tick that finds something closes the socket
WatchBrowserAccess(c) ==
    /\ pc[c] \in {"open", "serving"}
    /\ c \in open
    /\ ~Fresh(c)
    /\ open' = open \ {c}
    /\ mem' = Swept(key[c])
    /\ UNCHANGED <<disk, unsaved, tokenVars, logout, job, pc, key, peer, browsers,
                   changes, restarts, loggedOut, floor>>

-----------------------------------------------------------------------------
(* The browser, the clock, restarts *)

BrowserLeaves(c) ==
    /\ c \in open
    /\ open' = open \ {c}
    /\ UNCHANGED <<storeVars, tokenVars, logout, job, pc, key, peer, browsers,
                   changes, restarts, loggedOut, floor>>

Clock ==
    /\ \/ \E s \in Subject, doc \in {mem, disk} :
            /\ doc.rec[s] # None
            /\ over' = over \cup {<<s, doc.rec[s].rights>>}
            /\ over' # over
            /\ UNCHANGED <<lapsed, tickets>>
       \/ \E k \in Token \ lapsed :
            /\ claims[k] # None
            /\ lapsed' = lapsed \cup {k}
            /\ UNCHANGED <<over, tickets>>
       \/ \E k \in tickets : tickets' = tickets \ {k} /\ UNCHANGED <<over, lapsed>>
    /\ UNCHANGED <<storeVars, born, claims, logout, job, connVars, changes,
                   restarts, loggedOut, floor>>

\* NewPostgresStore, load; every goroutine and socket is gone
Restart ==
    /\ restarts < MaxRestarts
    /\ restarts' = restarts + 1
    /\ mem' = disk
    /\ unsaved' = {}
    /\ logout' = [k \in Token |-> "none"]
    /\ job' = [q \in Request |-> None]
    /\ pc' = [c \in Conn |-> IF pc[c] = "idle" THEN "idle" ELSE "done"]
    /\ open' = {}
    /\ browsers' = {}
    /\ UNCHANGED <<disk, tokenVars, key, peer, changes, loggedOut, floor>>

-----------------------------------------------------------------------------
Handler(c) ==
    Admit(c) \/ Deny(c) \/ Upgrade(c) \/ AddBrowser(c) \/ EndBrowser(c)

Next ==
    \/ \E q \in Request, s \in Subject, rights \in Rights :
            Create(q, s, rights) \/ Update(q, s, rights)
    \/ \E q \in Request, u \in User : ResetPassword(q, u)
    \/ \E q \in Request, s \in Subject : Delete(q, s)
    \/ \E q \in Request : Confirm(q)
    \/ \E s \in Subject : KickUser(s)
    \/ \E u \in User, k \in Token : Login(u, k)
    \/ \E k \in Key : IssueTicket(k)
    \/ \E k \in Token : Logout(k) \/ DisconnectToken(k) \/ LogoutFails(k)
    \/ \E g \in Goroutine : Persist(g)
    \/ Clean
    \/ \E c \in Conn, k \in Key : CheckToken(c, k)
    \/ \E c \in Conn : Handler(c) \/ WatchBrowserAccess(c) \/ BrowserLeaves(c)
    \/ Clock
    \/ Restart

Spec == Init /\ [][Next]_vars

\* The handler of a connection and its one-second watcher run on.
Fairness ==
    \A c \in Conn : WF_vars(Handler(c)) /\ WF_vars(WatchBrowserAccess(c))

FairSpec == Spec /\ Fairness

-----------------------------------------------------------------------------
(* Safety *)

\* A confirmed logout is final: a request that starts later with the token, or
\* with a ticket that was issued for it, is turned away until the token's own
\* end, whatever writes fail and restarts follow.
LogoutIsFinal ==
    [][\A c \in Conn :
        pc[c] = "idle" /\ pc'[c] = "checked" =>
            key'[c] \notin loggedOut \ lapsed]_vars

\* So is a confirmed password reset, deletion or revocation of a share: a request
\* that looks its user or share up later, also after a restart, is turned away.
\* (One that has just read the old record is still upgraded; the watcher finds
\* its socket: StaleBrowserLeavesHub.)
WithdrawalIsFinal ==
    [][\A c \in Conn :
        pc[c] = "checked" /\ pc'[c] = "admitted" =>
            Claims(key[c]).ver >= floor[Claims(key[c]).subject]]_vars

-----------------------------------------------------------------------------
(* Inductive strengthenings *)

\* A revocation on its way to the answer is in memory, then on disk, and
\* neither forgets it before the token ends.
LogoutStored ==
    /\ disk.revoked \subseteq mem.revoked \cup lapsed
    /\ loggedOut \subseteq disk.revoked \cup lapsed
    /\ \A k \in Token :
        /\ logout[k] = "revoked" => k \in mem.revoked \cup lapsed
        /\ logout[k] = "saved" => k \in disk.revoked \cup lapsed

LogoutInv == TypeOK /\ LogoutStored

\* No record is older than what was confirmed about it.
NoOlder(doc, s, n) == doc.rec[s] # None => doc.rec[s].ver >= n

WithdrawalStored ==
    /\ \A s \in Subject \ born :
        mem.rec[s] = None /\ disk.rec[s] = None /\ floor[s] = 0
    /\ \A s \in Subject : NoOlder(mem, s, floor[s]) /\ NoOlder(disk, s, floor[s])
    /\ \A q \in Request : job[q] # None =>
        /\ job[q].subject \in born
        /\ NoOlder(mem, job[q].subject, job[q].floor)
        /\ q \notin unsaved => NoOlder(disk, job[q].subject, job[q].floor)

WithdrawalInv == TypeOK /\ WithdrawalStored

-----------------------------------------------------------------------------
(* Liveness *)

\* Logout closes the sockets of its login, also one that passed the check
\* before the logout and reached the hub after disconnectToken - unless the
\* token runs out before the next tick.
LogoutClosesSockets ==
    \A c \in Conn, k \in Token :
        (c \in open /\ key[c] = k /\ k \in loggedOut) ~> (c \notin open \/ k \in lapsed)

\* A socket in the hub whose user or share was changed, was withdrawn or ran
\* out leaves the hub, unless that is taken back; also when that happened between
\* the look-up and the upgrade.
StaleBrowserLeavesHub ==
    \A c \in Conn :
        LET stale == LET s == Claims(key[c]).subject IN mem.rec[s] # peer[c] \/ Over(s)
        IN  (c \in browsers /\ stale) ~> (c \notin browsers \/ ~stale)
=============================================================================
