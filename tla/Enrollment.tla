----------------------------- MODULE Enrollment -----------------------------
(***************************************************************************)
(* How a phone gets its identity: deployment credentials, one-time         *)
(* enrollment tokens and agent tokens in the control plane's store; the    *)
(* host worker of adb-deployer that asks for an enrollment and runs the    *)
(* agent; the agent's hello, and the identity file it keeps.               *)
(*                                                                         *)
(* Unlike the task operations, these must not answer before the state      *)
(* document is written, so PostgresStore.persist is modelled in its parts: *)
(* take persistMu, snapshot the store, write, set healthErr, unlock.       *)
(*                                                                         *)
(* Every request of the control plane runs in a goroutine of the pool G    *)
(* (reused when its request is over), the maintenance loop in Janitor.     *)
(* Random tokens are members of Enr and Tok drawn once.                    *)
(***************************************************************************)
EXTENDS Naturals, FiniteSets

CONSTANTS
    Device,       \* phones, each with one host worker
    Cred,         \* deployment credentials
    Enr,          \* enrollment tokens
    Tok,          \* agent tokens
    G,            \* goroutines serving requests
    Janitor,      \* the maintenance goroutine
    Jwt,          \* an administrator's token in place of a credential
    Deployer,     \* what the deployer is configured with
    None,         \* no token, no goroutine, no issuer
    FaultKinds,   \* which faults may happen
    MaxFaults     \* bound on faults and on tokens running out

ASSUME NamesAssumption ==
    /\ None \notin Device \cup Cred \cup Enr \cup Tok \cup G \cup {Janitor, Jwt}
    /\ None \notin [device : Device, issuer : Cred \cup {Jwt}]
    /\ Janitor \notin G
    /\ Jwt \notin Cred \cup Enr
    /\ Enr \cap Tok = {}
    /\ Deployer \in Cred \cup {Jwt}

ASSUME LimitsAssumption ==
    /\ FaultKinds \subseteq
            {"link", "worker", "save", "db", "restart", "reset", "lapse"}
    /\ MaxFaults \in Nat

Goroutine == G \cup {Janitor}

\* The part of persistedState this module reads back.
Document == [cred : [Cred -> {"absent", "active", "revoked"}],
             enr : SUBSET Enr,
             tok : SUBSET Tok]

Blank == [cred |-> [c \in Cred |-> "absent"], enr |-> {}, tok |-> {}]

\* A request in progress: what it is about, how far it is, what persist said.
Stage == {"none", "changed", "writing", "replying"}
Job == [kind : {"create", "revoke"}, stage : Stage, ok : BOOLEAN, arg : Cred]
       \cup [kind : {"issue"}, stage : Stage, ok : BOOLEAN, arg : Enr \cup {None}]
       \cup [kind : {"register"}, stage : Stage, ok : BOOLEAN, arg : Tok]
       \cup [kind : {"register"}, stage : {"replying"}, ok : {FALSE}, arg : {None}]
       \cup [kind : {"idle", "clean"}, stage : Stage, ok : BOOLEAN, arg : {None}]

Idle == [kind |-> "idle", stage |-> "none", ok |-> FALSE, arg |-> None]
Stored(kind, arg) == [kind |-> kind, stage |-> "changed", ok |-> FALSE, arg |-> arg]
Answer(kind, ok, arg) == [kind |-> kind, stage |-> "replying", ok |-> ok, arg |-> arg]

VARIABLES
    mem,        \* MemoryStore
    disk,       \* the state document in PostgreSQL
    snap,       \* the snapshot a goroutine is writing
    persistMu,  \* PostgresStore.persistMu
    healthErr,  \* PostgresStore.healthErr # nil
    job,        \* requests in progress
    issued,     \* Enrollment.DeviceID and DeploymentCredentialID, once drawn
    granted,    \* the enrollment an agent token was given for, once drawn
    lapsed,     \* credentials and enrollments past ExpiresAt
    caller,     \* the goroutine a worker or an agent waits for
    worker,     \* hostLoop
    renew,      \* hostLoop: renewIdentity
    env,        \* the enrollment token the agent process was started with
    identity,   \* identity.json
    agent,      \* the agent process
    dbUp,       \* does PostgreSQL answer?
    faults,
    handed,     \* history: credentials shown to an administrator
    acked,      \* history: credentials whose revocation was confirmed
    disclosed   \* history: agent tokens received by an agent

storeVars == <<mem, disk, snap, persistMu, healthErr>>
tokenVars == <<issued, granted, lapsed>>
hostVars == <<caller, worker, renew, env, identity, agent>>
historyVars == <<handed, acked, disclosed>>
vars == <<storeVars, job, tokenVars, hostVars, dbUp, faults, historyVars>>

TypeOK ==
    /\ mem \in Document
    /\ disk \in Document
    /\ snap \in [Goroutine -> Document]
    /\ persistMu \in Goroutine \cup {None}
    /\ healthErr \in BOOLEAN
    /\ job \in [Goroutine -> Job]
    /\ issued \in [Enr -> [device : Device, issuer : Cred \cup {Jwt}] \cup {None}]
    /\ granted \in [Tok -> Enr \cup {None}]
    /\ lapsed \in SUBSET (Cred \cup Enr)
    /\ caller \in [Device -> G \cup {None}]
    /\ worker \in [Device -> {"start", "asking", "running"}]
    /\ renew \in [Device -> BOOLEAN]
    /\ env \in [Device -> Enr \cup {None}]
    /\ identity \in [Device -> Tok \cup {None}]
    /\ agent \in [Device -> {"down", "dial", "waiting", "online"}]
    /\ dbUp \in BOOLEAN
    /\ faults \in 0..MaxFaults
    /\ handed \in SUBSET Cred
    /\ acked \in SUBSET Cred
    /\ disclosed \in SUBSET Tok

Init ==
    /\ mem = Blank
    /\ disk = Blank
    /\ snap = [g \in Goroutine |-> Blank]
    /\ persistMu = None
    /\ healthErr = FALSE
    /\ job = [g \in Goroutine |-> Idle]
    /\ issued = [e \in Enr |-> None]
    /\ granted = [t \in Tok |-> None]
    /\ lapsed = {}
    /\ caller = [d \in Device |-> None]
    /\ worker = [d \in Device |-> "start"]
    /\ renew = [d \in Device |-> FALSE]
    /\ env = [d \in Device |-> None]
    /\ identity = [d \in Device |-> None]
    /\ agent = [d \in Device |-> "down"]
    /\ dbUp = TRUE
    /\ faults = 0
    /\ handed = {}
    /\ acked = {}
    /\ disclosed = {}

-----------------------------------------------------------------------------
(* Deployment credentials *)

\* storedDeploymentCredential.active; an administrator's JWT has no record
Active(i) == i = Jwt \/ (i \in Cred /\ mem.cred[i] = "active" /\ i \notin lapsed)

\* A random identifier: one that no store holds.
CreateDeploymentCredential(g, c) ==
    /\ job[g] = Idle
    /\ ~healthErr
    /\ mem.cred[c] = "absent"
    /\ c \notin lapsed
    /\ mem' = [mem EXCEPT !.cred[c] = "active"]
    /\ job' = [job EXCEPT ![g] = Stored("create", c)]
    /\ UNCHANGED <<disk, snap, persistMu, healthErr, tokenVars, hostVars, dbUp,
                   faults, historyVars>>

\* Not refused when the store is unhealthy; a second revocation of the same
\* credential persists again.
RevokeDeploymentCredential(g, c) ==
    /\ job[g] = Idle
    /\ mem.cred[c] # "absent"
    /\ mem' = [mem EXCEPT !.cred[c] = "revoked"]
    /\ job' = [job EXCEPT ![g] = Stored("revoke", c)]
    /\ UNCHANGED <<disk, snap, persistMu, healthErr, tokenVars, hostVars, dbUp,
                   faults, historyVars>>

-----------------------------------------------------------------------------
(* runHostAgent: the worker of a phone *)

NeedsToken(d) == renew[d] \/ identity[d] = None

\* a usable identity file: the agent is started without an enrollment
StartAgent(d) ==
    /\ worker[d] = "start"
    /\ ~NeedsToken(d)
    /\ worker' = [worker EXCEPT ![d] = "running"]
    /\ env' = [env EXCEPT ![d] = None]
    /\ agent' = [agent EXCEPT ![d] = "dial"]
    /\ UNCHANGED <<storeVars, job, tokenVars, caller, renew, identity, dbUp,
                   faults, historyVars>>

\* enrollmentToken sends its request; issuing needs an active credential and,
\* with a deployment credential, a healthy store
MayIssue == Active(Deployer) /\ (Deployer = Jwt \/ ~healthErr)

Ask(d, g) ==
    /\ worker[d] = "start"
    /\ NeedsToken(d)
    /\ Deployer \in handed \cup {Jwt}
    /\ job[g] = Idle
    /\ worker' = [worker EXCEPT ![d] = "asking"]
    /\ caller' = [caller EXCEPT ![d] = g]
    /\ UNCHANGED <<renew, env, identity, agent, dbUp, faults, historyVars>>

\* IssueDeploymentEnrollment, or CreateEnrollment for an administrator
IssueEnrollment(d, g, e) ==
    /\ Ask(d, g)
    /\ MayIssue
    /\ issued[e] = None
    /\ issued' = [issued EXCEPT ![e] = [device |-> d, issuer |-> Deployer]]
    /\ mem' = [mem EXCEPT !.enr = @ \cup {e}]
    /\ job' = [job EXCEPT ![g] = Stored("issue", e)]
    /\ UNCHANGED <<disk, snap, persistMu, healthErr, granted, lapsed>>

RefuseEnrollment(d, g) ==
    /\ Ask(d, g)
    /\ ~MayIssue
    /\ job' = [job EXCEPT ![g] = Answer("issue", FALSE, None)]
    /\ UNCHANGED <<storeVars, tokenVars>>

-----------------------------------------------------------------------------
(* agent_hello and the first half of registerAgent *)

Hello(d, g) ==
    /\ agent[d] = "dial"
    /\ job[g] = Idle
    /\ agent' = [agent EXCEPT ![d] = "waiting"]
    /\ caller' = [caller EXCEPT ![d] = g]
    /\ UNCHANGED <<disk, snap, persistMu, healthErr, issued, lapsed, worker, renew,
                   env, identity, dbUp, faults, historyVars>>

\* ValidateAgentToken
KnownAgent(d) == identity[d] \in mem.tok

\* Mutant: the issuer of the enrollment is not looked at again
MutantExchangeable(d, e) ==
    /\ ~healthErr
    /\ e \in mem.enr \ lapsed
    /\ issued[e].device = d

\* ExchangeEnrollment's conditions.  Every enrollment here was asked for by the
\* deployer and names a device; one drawn by hand for no device (DeviceID "",
\* which any device may use up) and a fixed -enrollment-token are left out.
Exchangeable(d, e) ==
    /\ ~healthErr
    /\ e \in mem.enr \ lapsed
    /\ issued[e].device = d
    /\ Active(issued[e].issuer)

AcceptKnown(d, g) ==
    /\ Hello(d, g)
    /\ KnownAgent(d)
    /\ job' = [job EXCEPT ![g] = Answer("register", TRUE, identity[d])]
    /\ UNCHANGED <<mem, granted>>

\* Mutant: the enrollment stays in the store
MutantExchangeEnrollment(d, g, t) ==
    LET e == env[d]
    IN  /\ Hello(d, g)
        /\ ~KnownAgent(d)
        /\ Exchangeable(d, e)
        /\ granted[t] = None
        /\ granted' = [granted EXCEPT ![t] = e]
        /\ mem' = [mem EXCEPT !.tok = @ \cup {t}]
        /\ job' = [job EXCEPT ![g] = Stored("register", t)]

\* ExchangeEnrollment: the token is used up, a credential takes its place
ExchangeEnrollment(d, g, t) ==
    LET e == env[d]
    IN  /\ Hello(d, g)
        /\ ~KnownAgent(d)
        /\ Exchangeable(d, e)
        /\ granted[t] = None
        /\ granted' = [granted EXCEPT ![t] = e]
        /\ mem' = [mem EXCEPT !.enr = @ \ {e}, !.tok = @ \cup {t}]
        /\ job' = [job EXCEPT ![g] = Stored("register", t)]

RejectHello(d, g) ==
    /\ Hello(d, g)
    /\ ~KnownAgent(d)
    /\ ~Exchangeable(d, env[d])
    /\ job' = [job EXCEPT ![g] = Answer("register", FALSE, None)]
    /\ UNCHANGED <<mem, granted>>

-----------------------------------------------------------------------------
(* PostgresStore.persist *)

\* Mutant: the snapshot is taken before the lock
MutantSnapshot(g) ==
    /\ job[g].stage = "changed"
    /\ persistMu' = g
    /\ snap' = [snap EXCEPT ![g] = mem]
    /\ job' = [job EXCEPT ![g].stage = "writing"]
    /\ UNCHANGED <<mem, disk, healthErr, tokenVars, hostVars, dbUp, faults,
                   historyVars>>

\* lock persistMu, snapshotJSON
Snapshot(g) ==
    /\ job[g].stage = "changed"
    /\ persistMu = None
    /\ persistMu' = g
    /\ snap' = [snap EXCEPT ![g] = mem]
    /\ job' = [job EXCEPT ![g].stage = "writing"]
    /\ UNCHANGED <<mem, disk, healthErr, tokenVars, hostVars, dbUp, faults,
                   historyVars>>

\* Mutant: the error is dropped, as mutate does
MutantWriteDocument(g) ==
    /\ job[g].stage = "writing"
    /\ \/ dbUp /\ disk' = snap[g]
       \/ ~dbUp /\ disk' \in {disk, snap[g]}
    /\ healthErr' = ~dbUp
    /\ persistMu' = None
    /\ snap' = [snap EXCEPT ![g] = Blank]
    /\ job' = [job EXCEPT ![g].stage = "replying", ![g].ok = TRUE]
    /\ UNCHANGED <<mem, tokenVars, hostVars, dbUp, faults, historyVars>>

\* pool.Exec and healthErr = err; an error may hide a write that took place
WriteDocument(g) ==
    /\ job[g].stage = "writing"
    /\ \/ dbUp /\ disk' = snap[g]
       \/ ~dbUp /\ disk' \in {disk, snap[g]}
    /\ healthErr' = ~dbUp
    /\ persistMu' = None
    /\ snap' = [snap EXCEPT ![g] = Blank]
    /\ job' = [job EXCEPT ![g].stage = "replying", ![g].ok = dbUp]
    /\ UNCHANGED <<mem, tokenVars, hostVars, dbUp, faults, historyVars>>

\* Mutant: the janitor cleans memory and writes nothing
MutantClean ==
    /\ job[Janitor] = Idle
    /\ mem' = [mem EXCEPT !.enr = @ \ lapsed]
    /\ UNCHANGED <<disk, snap, persistMu, job, healthErr, tokenVars, hostVars, dbUp,
                   faults, historyVars>>

\* Clean, the part about enrollments; like every mutate it does not ask
\* Healthy first
Clean ==
    /\ job[Janitor] = Idle
    /\ mem' = [mem EXCEPT !.enr = @ \ lapsed]
    /\ job' = [job EXCEPT ![Janitor] = Stored("clean", None)]
    /\ UNCHANGED <<disk, snap, persistMu, healthErr, tokenVars, hostVars, dbUp,
                   faults, historyVars>>

-----------------------------------------------------------------------------
(* Answers *)

Waiting(g) == {d \in Device : caller[d] = g}

\* the response to an administrator, or the end of Clean
ReplyAdmin(g) ==
    /\ job[g].stage = "replying"
    /\ job[g].kind \in {"create", "revoke", "clean"}
    /\ handed' = IF job[g].kind = "create" /\ job[g].ok
                 THEN handed \cup {job[g].arg} ELSE handed
    /\ acked' = IF job[g].kind = "revoke" /\ job[g].ok
                THEN acked \cup {job[g].arg} ELSE acked
    /\ job' = [job EXCEPT ![g] = Idle]
    /\ UNCHANGED <<storeVars, tokenVars, hostVars, dbUp, faults, disclosed>>

\* A token was issued: persist must have succeeded, except for CreateEnrollment,
\* whose error mutate drops.  The worker starts the agent with it.
IssuedOK(g) == job[g].ok \/ (Deployer = Jwt /\ job[g].arg # None)

ReplyIssue(g) ==
    /\ job[g].stage = "replying"
    /\ job[g].kind = "issue"
    /\ LET got == {d \in Waiting(g) : IssuedOK(g)}
       IN  /\ worker' = [d \in Device |->
                CASE d \in got -> "running"
                  [] d \in Waiting(g) \ got -> "start"
                  [] OTHER -> worker[d]]
           /\ env' = [d \in Device |-> IF d \in got THEN job[g].arg ELSE env[d]]
           /\ agent' = [d \in Device |-> IF d \in got THEN "dial" ELSE agent[d]]
           /\ renew' = [d \in Device |->
                IF d \in Waiting(g) \ got THEN FALSE ELSE renew[d]]
    /\ caller' = [d \in Device |-> IF d \in Waiting(g) THEN None ELSE caller[d]]
    /\ job' = [job EXCEPT ![g] = Idle]
    /\ UNCHANGED <<storeVars, tokenVars, identity, dbUp, faults, historyVars>>

\* Mutant: exit code 3 is an exit like any other
MutantReplyRegister(g) ==
    /\ job[g].stage = "replying"
    /\ job[g].kind = "register"
    /\ LET ok == job[g].ok
       IN  /\ agent' = [d \in Device |->
                IF d \notin Waiting(g) THEN agent[d]
                ELSE IF ok THEN "online" ELSE "down"]
           /\ identity' = [d \in Device |->
                IF d \in Waiting(g) /\ ok THEN job[g].arg ELSE identity[d]]
           /\ worker' = [d \in Device |->
                IF d \in Waiting(g) /\ ~ok THEN "start" ELSE worker[d]]
           /\ renew' = [d \in Device |->
                IF d \in Waiting(g) /\ ~ok THEN FALSE ELSE renew[d]]
           /\ disclosed' = IF ok /\ Waiting(g) # {}
                           THEN disclosed \cup {job[g].arg} ELSE disclosed
    /\ caller' = [d \in Device |-> IF d \in Waiting(g) THEN None ELSE caller[d]]
    /\ job' = [job EXCEPT ![g] = Idle]
    /\ UNCHANGED <<storeVars, tokenVars, env, dbUp, faults, handed, acked>>

\* agent_config reaches the agent, which saves the token; or "agent enrollment
\* rejected", on which it exits with code 3 and the worker will renew.
ReplyRegister(g) ==
    /\ job[g].stage = "replying"
    /\ job[g].kind = "register"
    /\ LET ok == job[g].ok
       IN  /\ agent' = [d \in Device |->
                IF d \notin Waiting(g) THEN agent[d]
                ELSE IF ok THEN "online" ELSE "down"]
           /\ identity' = [d \in Device |->
                IF d \in Waiting(g) /\ ok THEN job[g].arg ELSE identity[d]]
           /\ worker' = [d \in Device |->
                IF d \in Waiting(g) /\ ~ok THEN "start" ELSE worker[d]]
           /\ renew' = [d \in Device |->
                IF d \in Waiting(g) /\ ~ok THEN TRUE ELSE renew[d]]
           /\ disclosed' = IF ok /\ Waiting(g) # {}
                           THEN disclosed \cup {job[g].arg} ELSE disclosed
    /\ caller' = [d \in Device |-> IF d \in Waiting(g) THEN None ELSE caller[d]]
    /\ job' = [job EXCEPT ![g] = Idle]
    /\ UNCHANGED <<storeVars, tokenVars, env, dbUp, faults, handed, acked>>

-----------------------------------------------------------------------------
(* Faults and the clock *)

Fault(kind) ==
    /\ kind \in FaultKinds
    /\ faults < MaxFaults
    /\ faults' = faults + 1

\* a connection breaks: the agent dials again; the handler does not notice
\* before it answers
BreakLink(d) ==
    /\ Fault("link")
    /\ agent[d] \in {"waiting", "online"}
    /\ agent' = [agent EXCEPT ![d] = "dial"]
    /\ caller' = [caller EXCEPT ![d] = None]
    /\ UNCHANGED <<storeVars, job, tokenVars, worker, renew, env, identity, dbUp,
                   historyVars>>

\* the worker's request times out, or the agent process dies: runHostAgent
\* returns an error other than exit code 3
WorkerFails(d) ==
    /\ Fault("worker")
    /\ worker[d] \in {"asking", "running"}
    /\ worker' = [worker EXCEPT ![d] = "start"]
    /\ renew' = [renew EXCEPT ![d] = FALSE]
    /\ agent' = [agent EXCEPT ![d] = "down"]
    /\ caller' = [caller EXCEPT ![d] = None]
    /\ UNCHANGED <<storeVars, job, tokenVars, env, identity, dbUp, historyVars>>

\* saveIdentity fails: the error is logged and the agent stays connected, with
\* the identity file it had
SaveFails(g) ==
    /\ Fault("save")
    /\ job[g].stage = "replying"
    /\ job[g].kind = "register"
    /\ job[g].ok
    /\ Waiting(g) # {}
    /\ agent' = [d \in Device |-> IF d \in Waiting(g) THEN "online" ELSE agent[d]]
    /\ caller' = [d \in Device |-> IF d \in Waiting(g) THEN None ELSE caller[d]]
    /\ disclosed' = disclosed \cup {job[g].arg}
    /\ job' = [job EXCEPT ![g] = Idle]
    /\ UNCHANGED <<storeVars, tokenVars, worker, renew, env, identity, dbUp,
                   handed, acked>>

DbFails ==
    /\ Fault("db")
    /\ dbUp
    /\ dbUp' = FALSE
    /\ UNCHANGED <<storeVars, job, tokenVars, hostVars, historyVars>>

DbRecovers ==
    /\ ~dbUp
    /\ dbUp' = TRUE
    /\ UNCHANGED <<storeVars, job, tokenVars, hostVars, faults, historyVars>>

\* the control plane dies and is started again: NewPostgresStore, load
Restart(kind, document) ==
    /\ Fault(kind)
    /\ dbUp
    /\ mem' = document
    /\ disk' = document
    /\ persistMu' = None
    /\ snap' = [g \in Goroutine |-> Blank]
    /\ healthErr' = FALSE
    /\ job' = [g \in Goroutine |-> Idle]
    /\ caller' = [d \in Device |-> None]
    /\ worker' = [d \in Device |->
            IF worker[d] = "asking" THEN "start" ELSE worker[d]]
    /\ renew' = [d \in Device |-> IF worker[d] = "asking" THEN FALSE ELSE renew[d]]
    /\ agent' = [d \in Device |->
            IF agent[d] \in {"waiting", "online"} THEN "dial" ELSE agent[d]]
    /\ UNCHANGED <<tokenVars, env, identity, dbUp, historyVars>>

ServerRestart == Restart("restart", disk)

\* the service is set up anew with an empty database
DatabaseReset == Restart("reset", Blank)

\* an enrollment reaches ExpiresAt
LapseEnrollment(e) ==
    /\ Fault("lapse")
    /\ issued[e] # None
    /\ e \notin lapsed
    /\ lapsed' = lapsed \cup {e}
    /\ UNCHANGED <<storeVars, job, issued, granted, hostVars, dbUp, historyVars>>

\* a credential does: its enrollments were issued to end no later
LapseCredential(c) ==
    /\ Fault("lapse")
    /\ mem.cred[c] # "absent"
    /\ c \notin lapsed
    /\ lapsed' = lapsed \cup {c} \cup
            {e \in Enr : issued[e] # None /\ issued[e].issuer = c}
    /\ UNCHANGED <<storeVars, job, issued, granted, hostVars, dbUp, historyVars>>

-----------------------------------------------------------------------------
\* Fresh random tokens are interchangeable: the next one to draw from S.
Draw(S) == IF S = {} THEN {} ELSE {CHOOSE x \in S : TRUE}
FreshEnr == Draw({e \in Enr : issued[e] = None})
FreshTok == Draw({t \in Tok : granted[t] = None})

Host(d) ==
    \/ StartAgent(d)
    \/ \E g \in G :
        \/ \E e \in FreshEnr : IssueEnrollment(d, g, e)
        \/ RefuseEnrollment(d, g)
        \/ AcceptKnown(d, g)
        \/ \E t \in FreshTok : ExchangeEnrollment(d, g, t)
        \/ RejectHello(d, g)

Proceed(g) ==
    WriteDocument(g) \/ ReplyAdmin(g) \/ ReplyIssue(g) \/ ReplyRegister(g)

Next ==
    \/ \E g \in G, c \in Cred : CreateDeploymentCredential(g, c)
    \/ \E g \in G, c \in Cred : RevokeDeploymentCredential(g, c)
    \/ \E d \in Device : Host(d)
    \/ \E g \in Goroutine : Snapshot(g)
    \/ \E g \in Goroutine : Proceed(g)
    \/ Clean
    \/ \E d \in Device : BreakLink(d)
    \/ \E d \in Device : WorkerFails(d)
    \/ \E g \in G : SaveFails(g)
    \/ DbFails
    \/ DbRecovers
    \/ ServerRestart
    \/ DatabaseReset
    \/ \E e \in Enr : LapseEnrollment(e)
    \/ \E c \in Cred : LapseCredential(c)

Spec == Init /\ [][Next]_vars

\* Go's mutex hands itself over to a waiter that starves (SF on Snapshot);
\* started requests run on, the worker and the agent retry for ever, the
\* janitor ticks every minute.
Fairness ==
    /\ \A g \in Goroutine : SF_vars(Snapshot(g))
    /\ \A g \in Goroutine : WF_vars(Proceed(g))
    /\ \A d \in Device : WF_vars(Host(d))
    /\ WF_vars(Clean)

FairSpec == Spec /\ Fairness

-----------------------------------------------------------------------------
(* Safety *)

\* "Never report success or disclose a secret before that update is
\* acknowledged": a credential shown to the administrator is in the document,
\* and a confirmed revocation is in the document and in memory, whatever
\* failed writes and restarts follow.
AcknowledgedIsDurable ==
    /\ \A c \in handed : disk.cred[c] # "absent"
    /\ \A c \in acked : mem.cred[c] = "revoked" /\ disk.cred[c] = "revoked"

\* An enrolled agent is never turned away: the token in its identity file is
\* known to the running control plane and to the next one, and neither the
\* revocation nor the end of the deployment credential changes that.
IdentityStaysValid ==
    /\ \A d \in Device : identity[d] # None => identity[d] \in disclosed
    /\ disclosed \subseteq mem.tok \cap disk.tok

\* An enrollment token is one-time: at most one agent token that was ever
\* received came from it, also when a write failed and the control plane
\* restarted with the token unused.
OneIdentityPerEnrollment ==
    \A t, u \in disclosed : granted[t] = granted[u] => t = u

\* Once its revocation is confirmed, or its time is over, a credential's
\* enrollments enroll nobody.
RevokedIssuerEnrollsNobody ==
    [][\A t \in Tok :
        granted[t] = None /\ granted'[t] # None =>
            issued[granted'[t]].issuer \notin acked \cup lapsed]_vars

-----------------------------------------------------------------------------
(* The inductive strengthening, when the database is never replaced *)

\* One writer at a time.
OneWriter == \A g \in Goroutine : job[g].stage = "writing" => persistMu = g

\* Document b is no older than a: nothing granted, created or revoked in a is
\* undone in b.
Extends(a, b) ==
    /\ a.tok \subseteq b.tok
    /\ \A c \in Cred : /\ a.cred[c] # "absent" => b.cred[c] # "absent"
                       /\ a.cred[c] = "revoked" => b.cred[c] = "revoked"

\* The document, the snapshot on its way to it, and memory are in this order.
DocumentsOrdered ==
    /\ Extends(disk, mem)
    /\ \A g \in Goroutine : job[g].stage = "writing" =>
            Extends(disk, snap[g]) /\ Extends(snap[g], mem)

\* What request j changed is in document doc.
Holds(j, doc) ==
    /\ j.kind = "create" => j.arg \in Cred /\ doc.cred[j.arg] # "absent"
    /\ j.kind = "revoke" => j.arg \in Cred /\ doc.cred[j.arg] = "revoked"
    /\ j.kind = "register" => j.arg \in doc.tok

\* A request's change is in memory, then in its snapshot, then on disk.
ChangesOnTheirWay ==
    \A g \in Goroutine :
        /\ job[g].stage = "changed" => Holds(job[g], mem)
        /\ job[g].stage = "writing" => Holds(job[g], snap[g])
        /\ job[g].stage = "replying" /\ job[g].ok => Holds(job[g], disk)

\* In a document, an agent token and the enrollment it came from exclude each
\* other, and so do two agent tokens from one enrollment.
OneTime(doc) ==
    /\ \A e \in doc.enr : issued[e] # None
    /\ \A t \in doc.tok : granted[t] # None /\ granted[t] \notin doc.enr
    /\ \A t, u \in doc.tok : granted[t] = granted[u] => t = u

DocumentsOneTime ==
    /\ OneTime(mem)
    /\ OneTime(disk)
    /\ \A g \in Goroutine : OneTime(snap[g])
    /\ \A t \in Tok : granted[t] # None => issued[granted[t]] # None

EnrollParts ==
    /\ OneWriter
    /\ DocumentsOrdered
    /\ ChangesOnTheirWay
    /\ DocumentsOneTime
    /\ AcknowledgedIsDurable
    /\ IdentityStaysValid

\* The inductive invariant: writes of the document are ordered by persistMu,
\* and no answer overtakes the write it stands for.
EnrollInv == TypeOK /\ EnrollParts

-----------------------------------------------------------------------------
(* Liveness *)

\* A plugged-in phone ends up connected for good, if the database stays up and
\* the deployer's credential stays valid: a lost agent_config, a used or lapsed
\* enrollment, a rejected or unsaved identity and an unhealthy store are all
\* got over.  (Enr bounds the attempts: it must not run out.)
HostAgentComesOnline ==
    \A d \in Device :
        <>[](dbUp /\ Active(Deployer) /\ Deployer \in handed \cup {Jwt} /\ FreshEnr # {})
            => <>[](agent[d] = "online")

\* An outage ends: credential operations refuse to run while healthErr is set,
\* and the janitor's own write clears it.
HealthRecovers == <>[]dbUp => <>[]~healthErr
=============================================================================
