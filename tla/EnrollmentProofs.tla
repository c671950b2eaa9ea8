-------------------------- MODULE EnrollmentProofs --------------------------
(* Proofs about Enrollment for every number of phones, credentials, tokens, *)
(* goroutines and faults.                                                   *)
EXTENDS Enrollment, TLAPS

\* The document of a new store is a document.
LEMMA BlankDocument == Blank \in Document
  BY DEF Blank, Document

\* A goroutine without a request is in a state of Job.
LEMMA IdleJob == Idle \in Job
  BY DEF Idle, Job, Stage

\* The initial state, a new store and unplugged phones, is well typed.
LEMMA InitType == Init => TypeOK
<1> SUFFICES ASSUME Init PROVE TypeOK
  OBVIOUS
<1>1. healthErr \in BOOLEAN /\ dbUp \in BOOLEAN /\ renew \in [Device -> BOOLEAN]
  BY DEF Init
<1>2. /\ snap \in [Goroutine -> Document]
      /\ job \in [Goroutine -> Job]
  BY BlankDocument, IdleJob DEF Init
<1>3. faults \in 0..MaxFaults
  BY LimitsAssumption DEF Init
<1> QED
  BY <1>1, <1>2, <1>3, BlankDocument DEF Init, TypeOK

\* What a request carries, by its kind.
LEMMA JobFields ==
    ASSUME NEW j \in Job
    PROVE  /\ j.kind \in {"create", "revoke"} => j.arg \in Cred
           /\ j.kind = "issue" => j.arg \in Enr \cup {None}
           /\ j.kind = "register" /\ j.ok => j.arg \in Tok
  BY DEF Job

\* The stages of persist: the request stays what it is.
LEMMA JobStages ==
    ASSUME NEW j \in Job, j.stage \in {"changed", "writing"}, NEW b \in BOOLEAN
    PROVE  /\ [j EXCEPT !.stage = "writing"] \in Job
           /\ [j EXCEPT !.stage = "replying", !.ok = b] \in Job
<1>1. CASE j \in [kind : {"create", "revoke"}, stage : Stage, ok : BOOLEAN, arg : Cred]
  BY <1>1 DEF Job, Stage
<1>2. CASE j \in [kind : {"issue"}, stage : Stage, ok : BOOLEAN, arg : Enr \cup {None}]
  BY <1>2 DEF Job, Stage
<1>3. CASE j \in [kind : {"register"}, stage : Stage, ok : BOOLEAN, arg : Tok]
  BY <1>3 DEF Job, Stage
<1>4. CASE j \in [kind : {"idle", "clean"}, stage : Stage, ok : BOOLEAN, arg : {None}]
  BY <1>4 DEF Job, Stage
<1>5. j \notin [kind : {"register"}, stage : {"replying"}, ok : {FALSE}, arg : {None}]
  OBVIOUS
<1> QED
  BY <1>1, <1>2, <1>3, <1>4, <1>5 DEF Job

\* Drawing yields members of the set drawn from.
LEMMA DrawIn == ASSUME NEW S PROVE Draw(S) \subseteq S
  BY DEF Draw

\* Tokens are drawn from the right sets.
LEMMA FreshIn ==
    /\ FreshEnr \subseteq Enr
    /\ FreshTok \subseteq Tok
  BY DrawIn DEF FreshEnr, FreshTok

\* The documents a step builds are documents.
LEMMA DocumentUpdates ==
    ASSUME NEW doc \in Document
    PROVE  /\ \A c \in Cred : [doc EXCEPT !.cred[c] = "active"] \in Document
           /\ \A c \in Cred : [doc EXCEPT !.cred[c] = "revoked"] \in Document
           /\ \A e \in Enr : [doc EXCEPT !.enr = @ \cup {e}] \in Document
           /\ \A E : [doc EXCEPT !.enr = @ \ E] \in Document
           /\ \A e, t : t \in Tok =>
                [doc EXCEPT !.enr = @ \ {e}, !.tok = @ \cup {t}] \in Document
  BY DEF Document

\* Every request, reply, worker step and fault keeps the types.
LEMMA StepType == TypeOK /\ [Next]_vars => TypeOK'
<1> SUFFICES ASSUME TypeOK, [Next]_vars PROVE TypeOK'
  OBVIOUS
<1> USE NamesAssumption, LimitsAssumption
<1> USE DEF storeVars, tokenVars, hostVars, historyVars
<1>0. G \subseteq Goroutine /\ Janitor \in Goroutine
  BY DEF Goroutine
<1>1. ASSUME NEW g \in G, NEW c \in Cred, CreateDeploymentCredential(g, c)
      PROVE  TypeOK'
  <2>1. mem' \in Document
    BY <1>1, DocumentUpdates DEF TypeOK, CreateDeploymentCredential
  <2>2. Stored("create", c) \in Job
    BY DEF Stored, Job, Stage
  <2> QED
    BY <1>0, <1>1, <2>1, <2>2 DEF TypeOK, CreateDeploymentCredential
<1>2. ASSUME NEW g \in G, NEW c \in Cred, RevokeDeploymentCredential(g, c)
      PROVE  TypeOK'
  <2>1. mem' \in Document
    BY <1>2, DocumentUpdates DEF TypeOK, RevokeDeploymentCredential
  <2>2. Stored("revoke", c) \in Job
    BY DEF Stored, Job, Stage
  <2> QED
    BY <1>0, <1>2, <2>1, <2>2 DEF TypeOK, RevokeDeploymentCredential
<1>3. ASSUME NEW d \in Device, Host(d) PROVE TypeOK'
  <2>1. CASE StartAgent(d)
    BY <2>1 DEF TypeOK, StartAgent
  <2>2. ASSUME NEW g \in G, NEW e \in FreshEnr, IssueEnrollment(d, g, e)
        PROVE  TypeOK'
    <3>1. e \in Enr
      BY FreshIn
    <3>2. mem' \in Document
      BY <2>2, <3>1, DocumentUpdates DEF TypeOK, IssueEnrollment
    <3>3. Stored("issue", e) \in Job
      BY <3>1 DEF Stored, Job, Stage
    <3> QED
      BY <1>0, <2>2, <3>1, <3>2, <3>3 DEF TypeOK, IssueEnrollment, Ask
  <2>3. ASSUME NEW g \in G, RefuseEnrollment(d, g) PROVE TypeOK'
    <3>1. Answer("issue", FALSE, None) \in Job
      BY DEF Answer, Job, Stage
    <3> QED
      BY <1>0, <2>3, <3>1 DEF TypeOK, RefuseEnrollment, Ask
  <2>4. ASSUME NEW g \in G, AcceptKnown(d, g) PROVE TypeOK'
    <3>1. Answer("register", TRUE, identity[d]) \in Job
      BY <2>4 DEF Answer, Job, Stage, TypeOK, AcceptKnown, KnownAgent, Document
    <3> QED
      BY <1>0, <2>4, <3>1 DEF TypeOK, AcceptKnown, Hello
  <2>5. ASSUME NEW g \in G, NEW t \in FreshTok, ExchangeEnrollment(d, g, t)
        PROVE  TypeOK'
    <3>1. t \in Tok
      BY FreshIn
    <3>2. mem' \in Document
      BY <2>5, <3>1, DocumentUpdates DEF TypeOK, ExchangeEnrollment
    <3>3. Stored("register", t) \in Job
      BY <3>1 DEF Stored, Job, Stage
    <3>4. env[d] \in Enr
      BY <2>5 DEF TypeOK, ExchangeEnrollment, Exchangeable, Document
    <3> QED
      BY <1>0, <2>5, <3>1, <3>2, <3>3, <3>4 DEF TypeOK, ExchangeEnrollment, Hello
  <2>6. ASSUME NEW g \in G, RejectHello(d, g) PROVE TypeOK'
    <3>1. Answer("register", FALSE, None) \in Job
      BY DEF Answer, Job, Stage
    <3> QED
      BY <1>0, <2>6, <3>1 DEF TypeOK, RejectHello, Hello
  <2> QED
    BY <1>3, <2>1, <2>2, <2>3, <2>4, <2>5, <2>6 DEF Host
<1>4. ASSUME NEW g \in Goroutine, Snapshot(g) PROVE TypeOK'
  <2>1. [job[g] EXCEPT !.stage = "writing"] \in Job
    BY <1>4, JobStages DEF TypeOK, Snapshot
  <2> QED
    BY <1>4, <2>1 DEF TypeOK, Snapshot
<1>5. ASSUME NEW g \in Goroutine, Proceed(g) PROVE TypeOK'
  <2>1. job[g] \in Job
    BY DEF TypeOK
  <2>2. CASE WriteDocument(g)
    <3>0. [job[g] EXCEPT !.stage = "replying", !.ok = dbUp] \in Job
      BY <2>1, <2>2, JobStages DEF TypeOK, WriteDocument
    <3>1. job' \in [Goroutine -> Job]
      BY <2>2, <3>0 DEF TypeOK, WriteDocument
    <3>2. disk' \in Document
      BY <2>2 DEF TypeOK, WriteDocument
    <3> QED
      BY <2>2, <3>1, <3>2, BlankDocument DEF TypeOK, WriteDocument
  <2>3. CASE ReplyAdmin(g)
    <3>1. handed' \in SUBSET Cred /\ acked' \in SUBSET Cred
      BY <2>1, <2>3, JobFields DEF TypeOK, ReplyAdmin
    <3> QED
      BY <2>3, <3>1, IdleJob DEF TypeOK, ReplyAdmin
  <2>4. CASE ReplyIssue(g)
    <3>1. job[g].arg \in Enr \cup {None}
      BY <2>1, <2>4, JobFields DEF ReplyIssue
    <3>2. /\ worker' \in [Device -> {"start", "asking", "running"}]
          /\ agent' \in [Device -> {"down", "dial", "waiting", "online"}]
          /\ caller' \in [Device -> G \cup {None}]
      BY <2>4 DEF TypeOK, ReplyIssue
    <3>3. env' \in [Device -> Enr \cup {None}]
      BY <2>4, <3>1 DEF TypeOK, ReplyIssue
    <3>4. renew' \in [Device -> BOOLEAN]
      BY <2>4 DEF TypeOK, ReplyIssue
    <3> QED
      BY <2>4, <3>2, <3>3, <3>4, IdleJob DEF TypeOK, ReplyIssue
  <2>5. CASE ReplyRegister(g)
    <3>1. job[g].ok => job[g].arg \in Tok
      BY <2>1, <2>5, JobFields DEF ReplyRegister
    <3>2. /\ worker' \in [Device -> {"start", "asking", "running"}]
          /\ agent' \in [Device -> {"down", "dial", "waiting", "online"}]
          /\ caller' \in [Device -> G \cup {None}]
      BY <2>5 DEF TypeOK, ReplyRegister
    <3>3. identity' \in [Device -> Tok \cup {None}] /\ disclosed' \in SUBSET Tok
      BY <2>5, <3>1 DEF TypeOK, ReplyRegister
    <3>4. renew' \in [Device -> BOOLEAN]
      BY <2>5 DEF TypeOK, ReplyRegister
    <3> QED
      BY <2>5, <3>2, <3>3, <3>4, IdleJob DEF TypeOK, ReplyRegister
  <2> QED
    BY <1>5, <2>2, <2>3, <2>4, <2>5 DEF Proceed
<1>6. CASE Clean
  <2>1. mem' \in Document
    BY <1>6, DocumentUpdates DEF TypeOK, Clean
  <2>2. Stored("clean", None) \in Job
    BY DEF Stored, Job, Stage
  <2> QED
    BY <1>0, <1>6, <2>1, <2>2 DEF TypeOK, Clean
<1>7. ASSUME NEW d \in Device, BreakLink(d) PROVE TypeOK'
  BY <1>7 DEF TypeOK, BreakLink, Fault
<1>8. ASSUME NEW d \in Device, WorkerFails(d) PROVE TypeOK'
  BY <1>8 DEF TypeOK, WorkerFails, Fault
<1>9. CASE DbFails
  <2>1. dbUp' \in BOOLEAN
    BY <1>9 DEF DbFails
  <2> QED
    BY <1>9, <2>1 DEF TypeOK, DbFails, Fault
<1>10. CASE DbRecovers
  BY <1>10 DEF TypeOK, DbRecovers
<1>11. ASSUME NEW kind, NEW document \in Document, Restart(kind, document)
       PROVE  TypeOK'
  <2>1. /\ worker' \in [Device -> {"start", "asking", "running"}]
        /\ agent' \in [Device -> {"down", "dial", "waiting", "online"}]
        /\ renew' \in [Device -> BOOLEAN]
    BY <1>11 DEF TypeOK, Restart
  <2>2. /\ healthErr' \in BOOLEAN
        /\ snap' \in [Goroutine -> Document]
        /\ job' \in [Goroutine -> Job]
    BY <1>11, BlankDocument, IdleJob DEF Restart
  <2>3. faults' \in 0..MaxFaults
    BY <1>11 DEF TypeOK, Restart, Fault
  <2> QED
    BY <1>11, <2>1, <2>2, <2>3 DEF TypeOK, Restart
<1>12. ASSUME NEW e \in Enr, LapseEnrollment(e) PROVE TypeOK'
  BY <1>12 DEF TypeOK, LapseEnrollment, Fault
<1>13. ASSUME NEW c \in Cred, LapseCredential(c) PROVE TypeOK'
  BY <1>13 DEF TypeOK, LapseCredential, Fault
<1>14. ASSUME NEW g \in G, SaveFails(g) PROVE TypeOK'
  <2>1. job[g] \in Job
    BY <1>0 DEF TypeOK, Goroutine
  <2>2. job[g].arg \in Tok
    BY <1>14, <2>1, JobFields DEF SaveFails
  <2>3. agent' \in [Device -> {"down", "dial", "waiting", "online"}]
    BY <1>14 DEF TypeOK, SaveFails
  <2>4. caller' \in [Device -> G \cup {None}]
    BY <1>14 DEF TypeOK, SaveFails
  <2>5. job' \in [Goroutine -> Job]
    BY <1>14, IdleJob DEF TypeOK, SaveFails
  <2>6. disclosed' \in SUBSET Tok /\ faults' \in 0..MaxFaults
    BY <1>14, <2>2 DEF TypeOK, SaveFails, Fault
  <2> QED
    BY <1>14, <2>3, <2>4, <2>5, <2>6 DEF TypeOK, SaveFails
<1>15. CASE UNCHANGED vars
  BY <1>15 DEF vars, TypeOK
<1>16. disk \in Document
  BY DEF TypeOK
<1> QED
  BY <1>1, <1>2, <1>3, <1>4, <1>5, <1>6, <1>7, <1>8, <1>9, <1>10, <1>11,
     <1>12, <1>13, <1>14, <1>15, <1>16, BlankDocument DEF Next, ServerRestart, DatabaseReset

\* Every variable keeps its type, through failed writes and restarts.
THEOREM TypeCorrect == Spec => []TypeOK
  BY InitType, StepType, PTL DEF Spec

-----------------------------------------------------------------------------
(* The order of documents *)

\* A document is no older than itself.
LEMMA ExtendsReflexive == ASSUME NEW a PROVE Extends(a, a)
  BY DEF Extends

\* Later than a later document is later.
LEMMA ExtendsTransitive ==
    ASSUME NEW a, NEW b, NEW c, Extends(a, b), Extends(b, c)
    PROVE  Extends(a, c)
  BY DEF Extends

\* What a request changed is still there in a later document: tokens,
\* credentials and revocations are never taken back.
LEMMA HoldsLater ==
    ASSUME NEW j, NEW a, NEW b, Holds(j, a), Extends(a, b)
    PROVE  Holds(j, b)
  BY DEF Holds, Extends

\* The empty document has no token to use twice.
LEMMA BlankOneTime == OneTime(Blank)
  BY DEF OneTime, Blank

\* A new store satisfies the strengthening.
LEMMA InitParts == Init => EnrollParts
<1> SUFFICES ASSUME Init PROVE EnrollParts
  OBVIOUS
<1>1. OneWriter /\ ChangesOnTheirWay
  BY DEF Init, OneWriter, ChangesOnTheirWay, Idle
<1>2. DocumentsOrdered
  BY ExtendsReflexive DEF Init, DocumentsOrdered, Idle
<1>3. DocumentsOneTime
  BY BlankOneTime DEF Init, DocumentsOneTime
<1>4. AcknowledgedIsDurable /\ IdentityStaysValid
  BY DEF Init, AcknowledgedIsDurable, IdentityStaysValid
<1> QED
  BY <1>1, <1>2, <1>3, <1>4 DEF EnrollParts

-----------------------------------------------------------------------------
(* Three kinds of steps *)

\* A step that leaves the store alone: requests end, or are answered without
\* a change, and what is acknowledged is on disk.
LEMMA QuietStep ==
    ASSUME EnrollParts,
           UNCHANGED <<mem, disk, snap, persistMu, issued, granted>>,
           \A g \in Goroutine :
                \/ job'[g] = job[g]
                \/ /\ job'[g].stage \notin {"changed", "writing"}
                   /\ job'[g].stage = "replying" /\ job'[g].ok
                        => Holds(job'[g], disk),
           AcknowledgedIsDurable',
           IdentityStaysValid'
    PROVE  EnrollParts'
<1>1. OneWriter'
  BY DEF EnrollParts, OneWriter
<1>2. DocumentsOrdered'
  <2>1. Extends(disk, mem)'
    BY DEF EnrollParts, DocumentsOrdered, Extends
  <2>2. ASSUME NEW g \in Goroutine, job'[g].stage = "writing"
        PROVE  (Extends(disk, snap[g]) /\ Extends(snap[g], mem))'
    BY <2>2 DEF EnrollParts, DocumentsOrdered, Extends
  <2> QED
    BY <2>1, <2>2 DEF DocumentsOrdered
<1>3. ChangesOnTheirWay'
  <2> SUFFICES ASSUME NEW g \in Goroutine
               PROVE  /\ job'[g].stage = "changed" => Holds(job'[g], mem)
                      /\ job'[g].stage = "writing" => Holds(job'[g], snap[g])
                      /\ job'[g].stage = "replying" /\ job'[g].ok
                            => Holds(job'[g], disk)
    BY DEF ChangesOnTheirWay, Holds
  <2> QED
    BY DEF EnrollParts, ChangesOnTheirWay
<1>4. DocumentsOneTime'
  BY DEF EnrollParts, DocumentsOneTime, OneTime
<1> QED
  BY <1>1, <1>2, <1>3, <1>4 DEF EnrollParts

\* A store operation: request j of goroutine g changes memory, and adds to it.
LEMMA ChangeStep ==
    ASSUME TypeOK, EnrollParts,
           NEW g \in Goroutine, job[g] = Idle, NEW j, j.stage = "changed",
           job' = [job EXCEPT ![g] = j],
           Extends(mem, mem'),
           Holds(j, mem'),
           DocumentsOneTime',
           UNCHANGED <<disk, snap, persistMu, handed, acked, disclosed, identity>>
    PROVE  EnrollParts'
<1>1. /\ job'[g] = j
      /\ \A h \in Goroutine : h # g => job'[h] = job[h]
  BY DEF TypeOK
<1>2. OneWriter'
  BY <1>1 DEF EnrollParts, OneWriter
<1>3. Extends(disk, mem')
  BY ExtendsTransitive DEF EnrollParts, DocumentsOrdered
<1>4. ASSUME NEW h \in Goroutine, job'[h].stage = "writing"
      PROVE  Extends(disk, snap[h]) /\ Extends(snap[h], mem')
  <2>1. job[h].stage = "writing"
    BY <1>1, <1>4
  <2>2. Extends(disk, snap[h]) /\ Extends(snap[h], mem)
    BY <2>1 DEF EnrollParts, DocumentsOrdered
  <2> QED
    BY <2>2, ExtendsTransitive
<1>5. DocumentsOrdered'
  <2>1. Extends(disk, mem)'
    BY <1>3 DEF Extends
  <2>2. \A h \in Goroutine : job'[h].stage = "writing" =>
            (Extends(disk, snap[h]) /\ Extends(snap[h], mem))'
    BY <1>4 DEF Extends
  <2> QED
    BY <2>1, <2>2 DEF DocumentsOrdered
<1>6. ChangesOnTheirWay'
  <2> SUFFICES ASSUME NEW h \in Goroutine
               PROVE  /\ job'[h].stage = "changed" => Holds(job'[h], mem')
                      /\ job'[h].stage = "writing" => Holds(job'[h], snap[h])
                      /\ job'[h].stage = "replying" /\ job'[h].ok
                            => Holds(job'[h], disk)
    BY DEF ChangesOnTheirWay, Holds
  <2>1. CASE h = g
    BY <1>1, <2>1
  <2>2. CASE h # g
    <3>1. job[h].stage = "changed" => Holds(job[h], mem')
      BY HoldsLater DEF EnrollParts, ChangesOnTheirWay
    <3> QED
      BY <1>1, <2>2, <3>1 DEF EnrollParts, ChangesOnTheirWay
  <2> QED
    BY <2>1, <2>2
<1>7. AcknowledgedIsDurable' /\ IdentityStaysValid'
  BY DEF EnrollParts, AcknowledgedIsDurable, IdentityStaysValid, Extends, TypeOK
<1> QED
  BY <1>2, <1>5, <1>6, <1>7 DEF EnrollParts

\* Snapshot: under persistMu the copy holds every change made so far.
LEMMA SnapshotStep ==
    ASSUME TypeOK, EnrollParts, NEW g \in Goroutine, Snapshot(g)
    PROVE  EnrollParts'
<1> USE DEF storeVars, tokenVars, hostVars, historyVars
<1>1. /\ job'[g] = [job[g] EXCEPT !.stage = "writing"]
      /\ snap'[g] = mem
      /\ persistMu = None /\ persistMu' = g
      /\ \A h \in Goroutine : h # g => job'[h] = job[h] /\ snap'[h] = snap[h]
      /\ UNCHANGED <<mem, disk, issued, granted, identity, handed, acked, disclosed>>
  BY DEF TypeOK, Snapshot
<1>2. \A h \in Goroutine : job[h].stage # "writing"
  BY <1>1, NamesAssumption DEF EnrollParts, OneWriter, Goroutine
<1>3. job[g] \in Job /\ job[g].stage = "changed"
  BY DEF TypeOK, Snapshot
<1>4. /\ job'[g].stage = "writing" /\ job'[g].kind = job[g].kind
      /\ job'[g].arg = job[g].arg
  BY <1>1, <1>3 DEF Job
<1>5. OneWriter'
  BY <1>1, <1>2 DEF OneWriter
<1>6. DocumentsOrdered'
  <2>1. Extends(disk, mem) /\ Extends(mem, mem)
    BY ExtendsReflexive DEF EnrollParts, DocumentsOrdered
  <2>2. Extends(disk, mem)'
    BY <1>1, <2>1 DEF Extends
  <2>3. ASSUME NEW h \in Goroutine, job'[h].stage = "writing"
        PROVE  (Extends(disk, snap[h]) /\ Extends(snap[h], mem))'
    <3>1. h = g
      BY <1>1, <1>2, <2>3
    <3> QED
      BY <1>1, <2>1, <3>1 DEF Extends
  <2> QED
    BY <2>2, <2>3 DEF DocumentsOrdered
<1>7. ChangesOnTheirWay'
  <2> SUFFICES ASSUME NEW h \in Goroutine
               PROVE  /\ job'[h].stage = "changed" => Holds(job'[h], mem)
                      /\ job'[h].stage = "writing" => Holds(job'[h], snap'[h])
                      /\ job'[h].stage = "replying" /\ job'[h].ok
                            => Holds(job'[h], disk)
    BY <1>1 DEF ChangesOnTheirWay, Holds
  <2>1. CASE h = g
    <3>1. Holds(job[g], mem)
      BY <1>3 DEF EnrollParts, ChangesOnTheirWay
    <3>2. Holds(job'[g], snap'[g])
      BY <1>1, <1>4, <3>1 DEF Holds
    <3> QED
      BY <1>4, <2>1, <3>2
  <2>2. CASE h # g
    BY <1>1, <2>2 DEF EnrollParts, ChangesOnTheirWay
  <2> QED
    BY <2>1, <2>2
<1>8. DocumentsOneTime'
  BY <1>1 DEF EnrollParts, DocumentsOneTime, OneTime
<1>9. AcknowledgedIsDurable' /\ IdentityStaysValid'
  BY <1>1 DEF EnrollParts, AcknowledgedIsDurable, IdentityStaysValid
<1> QED
  BY <1>5, <1>6, <1>7, <1>8, <1>9 DEF EnrollParts

\* The document moves from what it was to the writer's snapshot, which only
\* adds to it.
LEMMA WriteStep ==
    ASSUME TypeOK, EnrollParts, NEW g \in Goroutine, WriteDocument(g)
    PROVE  EnrollParts'
<1> USE DEF storeVars, tokenVars, hostVars, historyVars
<1>1. /\ job[g].stage = "writing"
      /\ disk' = disk \/ disk' = snap[g]
      /\ dbUp => disk' = snap[g]
      /\ snap'[g] = Blank
      /\ job'[g] = [job[g] EXCEPT !.stage = "replying", !.ok = dbUp]
      /\ \A h \in Goroutine : h # g => job'[h] = job[h] /\ snap'[h] = snap[h]
      /\ UNCHANGED <<mem, issued, granted, identity, handed, acked, disclosed>>
  BY DEF TypeOK, WriteDocument
<1>2. \A h \in Goroutine : h # g => job[h].stage # "writing"
  BY <1>1 DEF EnrollParts, OneWriter
<1>3. job[g] \in Job
  BY DEF TypeOK
<1>4. /\ job'[g].stage = "replying" /\ job'[g].kind = job[g].kind
      /\ job'[g].arg = job[g].arg /\ job'[g].ok = dbUp
  BY <1>1, <1>3 DEF Job
<1>5. \A h \in Goroutine : job'[h].stage # "writing"
  BY <1>1, <1>2, <1>4
<1>6. Extends(disk, snap[g]) /\ Extends(snap[g], mem) /\ Extends(disk, mem)
  BY <1>1 DEF EnrollParts, DocumentsOrdered
<1>7. Extends(disk, disk') /\ Extends(disk', mem)
  BY <1>1, <1>6, ExtendsReflexive
<1>8. OneWriter'
  BY <1>5 DEF OneWriter
<1>9. DocumentsOrdered'
  <2>1. Extends(disk, mem)'
    BY <1>1, <1>7 DEF Extends
  <2> QED
    BY <1>5, <2>1 DEF DocumentsOrdered
<1>10. ChangesOnTheirWay'
  <2> SUFFICES ASSUME NEW h \in Goroutine
               PROVE  /\ job'[h].stage = "changed" => Holds(job'[h], mem)
                      /\ job'[h].stage = "replying" /\ job'[h].ok
                            => Holds(job'[h], disk')
    BY <1>1, <1>5 DEF ChangesOnTheirWay, Holds
  <2>1. CASE h = g
    <3>1. Holds(job[g], snap[g])
      BY <1>1 DEF EnrollParts, ChangesOnTheirWay
    <3>2. dbUp => Holds(job'[g], disk')
      BY <1>1, <1>4, <3>1 DEF Holds
    <3> QED
      BY <1>4, <2>1, <3>2
  <2>2. CASE h # g
    <3>1. job[h].stage = "replying" /\ job[h].ok => Holds(job[h], disk')
      BY <1>7, HoldsLater DEF EnrollParts, ChangesOnTheirWay
    <3> QED
      BY <1>1, <2>2, <3>1 DEF EnrollParts, ChangesOnTheirWay
  <2> QED
    BY <2>1, <2>2
<1>11. DocumentsOneTime'
  <2>1. OneTime(mem) /\ OneTime(disk) /\ \A h \in Goroutine : OneTime(snap[h])
    BY DEF EnrollParts, DocumentsOneTime
  <2>2. OneTime(disk)'
    BY <1>1, <2>1 DEF OneTime
  <2>3. \A h \in Goroutine : OneTime(snap[h])'
    <3> SUFFICES ASSUME NEW h \in Goroutine PROVE OneTime(snap[h])'
      OBVIOUS
    <3>1. CASE h = g
      BY <1>1, <3>1 DEF OneTime, Blank
    <3>2. CASE h # g
      BY <1>1, <2>1, <3>2 DEF OneTime
    <3> QED
      BY <3>1, <3>2
  <2>4. OneTime(mem)'
    BY <1>1, <2>1 DEF OneTime
  <2> QED
    BY <1>1, <2>2, <2>3, <2>4 DEF EnrollParts, DocumentsOneTime
<1>12. AcknowledgedIsDurable' /\ IdentityStaysValid'
  BY <1>1, <1>7
     DEF EnrollParts, AcknowledgedIsDurable, IdentityStaysValid, Extends, TypeOK
<1> QED
  BY <1>8, <1>9, <1>10, <1>11, <1>12 DEF EnrollParts

\* ServerRestart: memory becomes the document, and nothing acknowledged is
\* only in memory.
LEMMA RestartStep ==
    ASSUME TypeOK, EnrollParts, ServerRestart
    PROVE  EnrollParts'
<1> USE DEF storeVars, tokenVars, hostVars, historyVars
<1>1. /\ mem' = disk /\ disk' = disk
      /\ \A g \in Goroutine : snap'[g] = Blank /\ job'[g] = Idle
      /\ UNCHANGED <<issued, granted, identity, handed, acked, disclosed>>
  BY DEF ServerRestart, Restart
<1>2. \A g \in Goroutine : job'[g].stage = "none"
  BY <1>1 DEF Idle
<1>3. OneWriter' /\ ChangesOnTheirWay'
  BY <1>2 DEF OneWriter, ChangesOnTheirWay
<1>4. DocumentsOrdered'
  <2>1. Extends(disk, mem)'
    BY <1>1 DEF Extends
  <2> QED
    BY <1>2, <2>1 DEF DocumentsOrdered
<1>5. DocumentsOneTime'
  <2>1. OneTime(disk)' /\ OneTime(mem)'
    BY <1>1 DEF EnrollParts, DocumentsOneTime, OneTime
  <2>2. \A g \in Goroutine : OneTime(snap[g])'
    BY <1>1 DEF OneTime, Blank
  <2> QED
    BY <1>1, <2>1, <2>2 DEF EnrollParts, DocumentsOneTime
<1>6. AcknowledgedIsDurable' /\ IdentityStaysValid'
  BY <1>1 DEF EnrollParts, AcknowledgedIsDurable, IdentityStaysValid
<1> QED
  BY <1>3, <1>4, <1>5, <1>6 DEF EnrollParts

-----------------------------------------------------------------------------
(* Every step keeps the invariant *)

\* A step that only moves the hosts, or the environment.
LEMMA StillStep ==
    ASSUME EnrollParts,
           UNCHANGED <<mem, disk, snap, persistMu, issued, granted, job, identity,
                       handed, acked, disclosed>>
    PROVE  EnrollParts'
<1>1. AcknowledgedIsDurable' /\ IdentityStaysValid'
  BY DEF EnrollParts, AcknowledgedIsDurable, IdentityStaysValid
<1> QED
  BY <1>1, QuietStep

\* A request that is refused, or accepted without a change.
LEMMA AnswerStep ==
    ASSUME TypeOK, EnrollParts, NEW g \in Goroutine, NEW kind, NEW ok, NEW arg,
           job' = [job EXCEPT ![g] = Answer(kind, ok, arg)],
           ok => kind = "register" /\ arg \in disk.tok,
           UNCHANGED <<mem, disk, snap, persistMu, issued, granted, identity,
                       handed, acked, disclosed>>
    PROVE  EnrollParts'
<1>1. AcknowledgedIsDurable' /\ IdentityStaysValid'
  BY DEF EnrollParts, AcknowledgedIsDurable, IdentityStaysValid
<1>2. /\ job'[g] = Answer(kind, ok, arg)
      /\ \A h \in Goroutine : h # g => job'[h] = job[h]
  BY DEF TypeOK
<1>3. job'[g].stage = "replying" /\ (job'[g].ok => Holds(job'[g], disk))
  BY <1>2 DEF Answer, Holds
<1> QED
  BY <1>1, <1>2, <1>3, QuietStep

\* A request that ends: what it acknowledges has reached the disk.
LEMMA EndStep ==
    ASSUME TypeOK, EnrollParts, NEW g \in Goroutine,
           job' = [job EXCEPT ![g] = Idle],
           UNCHANGED <<mem, disk, snap, persistMu, issued, granted>>,
           AcknowledgedIsDurable', IdentityStaysValid'
    PROVE  EnrollParts'
<1>1. /\ job'[g] = Idle
      /\ \A h \in Goroutine : h # g => job'[h] = job[h]
  BY DEF TypeOK
<1> QED
  BY <1>1, QuietStep DEF Idle

\* Every step preserves the strengthening, if the database is not replaced.
LEMMA StepParts ==
    ASSUME "reset" \notin FaultKinds, TypeOK, EnrollParts, [Next]_vars
    PROVE  EnrollParts'
<1> USE DEF storeVars, tokenVars, hostVars, historyVars
<1>0. G \subseteq Goroutine /\ Janitor \in Goroutine
  BY DEF Goroutine
<1>1. ASSUME NEW g \in G, NEW c \in Cred, CreateDeploymentCredential(g, c)
      PROVE  EnrollParts'
  <2>1. mem' = [mem EXCEPT !.cred[c] = "active"] /\ mem.cred[c] = "absent"
    BY <1>1 DEF CreateDeploymentCredential
  <2>2. /\ mem'.enr = mem.enr /\ mem'.tok = mem.tok /\ mem'.cred[c] = "active"
        /\ \A b \in Cred : b # c => mem'.cred[b] = mem.cred[b]
    BY <2>1 DEF TypeOK, Document
  <2>3. Extends(mem, mem')
    BY <2>1, <2>2 DEF Extends
  <2>4. Holds(Stored("create", c), mem')
    BY <2>2 DEF Holds, Stored
  <2>5. DocumentsOneTime'
    BY <1>1, <2>2 DEF CreateDeploymentCredential, EnrollParts, DocumentsOneTime, OneTime
  <2>6. Stored("create", c).stage = "changed"
    BY DEF Stored
  <2> QED
    BY <1>0, <1>1, <2>3, <2>4, <2>5, <2>6, ChangeStep DEF CreateDeploymentCredential
<1>2. ASSUME NEW g \in G, NEW c \in Cred, RevokeDeploymentCredential(g, c)
      PROVE  EnrollParts'
  <2>1. mem' = [mem EXCEPT !.cred[c] = "revoked"]
    BY <1>2 DEF RevokeDeploymentCredential
  <2>2. /\ mem'.enr = mem.enr /\ mem'.tok = mem.tok /\ mem'.cred[c] = "revoked"
        /\ \A b \in Cred : b # c => mem'.cred[b] = mem.cred[b]
    BY <2>1 DEF TypeOK, Document
  <2>3. Extends(mem, mem')
    BY <2>2 DEF Extends
  <2>4. Holds(Stored("revoke", c), mem')
    BY <2>2 DEF Holds, Stored
  <2>5. DocumentsOneTime'
    BY <1>2, <2>2 DEF RevokeDeploymentCredential, EnrollParts, DocumentsOneTime, OneTime
  <2>6. Stored("revoke", c).stage = "changed"
    BY DEF Stored
  <2> QED
    BY <1>0, <1>2, <2>3, <2>4, <2>5, <2>6, ChangeStep DEF RevokeDeploymentCredential
<1>3. ASSUME NEW d \in Device, Host(d) PROVE EnrollParts'
  <2>1. CASE StartAgent(d)
    BY <2>1, StillStep DEF StartAgent
  <2>2. ASSUME NEW g \in G, NEW e \in FreshEnr, IssueEnrollment(d, g, e)
        PROVE  EnrollParts'
    <3>1. e \in Enr /\ issued[e] = None
      BY <2>2, FreshIn DEF IssueEnrollment
    <3>2. /\ mem'.enr = mem.enr \cup {e} /\ mem'.tok = mem.tok /\ mem'.cred = mem.cred
          /\ issued'[e] # None
          /\ \A f \in Enr : f # e => issued'[f] = issued[f]
          /\ UNCHANGED <<disk, snap, granted>>
      <4>1. issued' = [issued EXCEPT ![e] = [device |-> d, issuer |-> Deployer]]
        BY <2>2 DEF IssueEnrollment
      <4>2. [device |-> d, issuer |-> Deployer] # None
        BY NamesAssumption
      <4>3. mem' = [mem EXCEPT !.enr = @ \cup {e}]
        BY <2>2 DEF IssueEnrollment
      <4>4. UNCHANGED <<disk, snap, granted>>
        BY <2>2 DEF IssueEnrollment
      <4>5. mem'.enr = mem.enr \cup {e} /\ mem'.tok = mem.tok /\ mem'.cred = mem.cred
        BY <4>3 DEF TypeOK, Document
      <4>6. issued'[e] # None /\ \A f \in Enr : f # e => issued'[f] = issued[f]
        BY <3>1, <4>1, <4>2 DEF TypeOK
      <4> QED
        BY <4>4, <4>5, <4>6
    <3>3. Extends(mem, mem')
      BY <3>2 DEF Extends
    <3>4. Holds(Stored("issue", e), mem')
      BY DEF Holds, Stored
    <3>5. \A t \in Tok : granted[t] # e
      BY <3>1, NamesAssumption DEF EnrollParts, DocumentsOneTime
    <3>6. DocumentsOneTime'
      <4>1. ASSUME NEW doc \in Document, OneTime(doc)
            PROVE  /\ \A f \in doc.enr : issued'[f] # None
                   /\ \A t \in doc.tok : granted[t] # None /\ granted[t] \notin doc.enr
                   /\ \A t, u \in doc.tok : granted[t] = granted[u] => t = u
        BY <3>2, <4>1 DEF OneTime, Document
      <4>2. OneTime(mem)'
        <5>1. \A f \in mem'.enr : issued'[f] # None
          BY <3>2, <4>1 DEF EnrollParts, DocumentsOneTime, TypeOK
        <5>2. \A t \in mem.tok : granted[t] # e
          BY <3>5 DEF TypeOK, Document
        <5> QED
          BY <3>2, <5>1, <5>2 DEF EnrollParts, DocumentsOneTime, OneTime
      <4>3. OneTime(disk)'
        BY <3>2, <4>1 DEF EnrollParts, DocumentsOneTime, OneTime, TypeOK
      <4>4. \A h \in Goroutine : OneTime(snap[h])'
        BY <3>2, <4>1 DEF EnrollParts, DocumentsOneTime, OneTime, TypeOK
      <4>5. \A t \in Tok : granted[t] # None => issued'[granted[t]] # None
        BY <3>2, <3>5 DEF EnrollParts, DocumentsOneTime, TypeOK
      <4> QED
        BY <3>2, <4>2, <4>3, <4>4, <4>5 DEF DocumentsOneTime
    <3>7. Stored("issue", e).stage = "changed"
      BY DEF Stored
    <3> QED
      BY <1>0, <2>2, <3>3, <3>4, <3>6, <3>7, ChangeStep DEF IssueEnrollment, Ask
  <2>3. ASSUME NEW g \in G, RefuseEnrollment(d, g) PROVE EnrollParts'
    BY <1>0, <2>3, AnswerStep DEF RefuseEnrollment, Ask
  <2>4. ASSUME NEW g \in G, AcceptKnown(d, g) PROVE EnrollParts'
    <3>1. identity[d] \in mem.tok /\ identity[d] # None
      BY <2>4, NamesAssumption DEF AcceptKnown, KnownAgent, TypeOK, Document
    <3>2. identity[d] \in disk.tok
      BY <3>1 DEF EnrollParts, IdentityStaysValid
    <3> QED
      BY <1>0, <2>4, <3>2, AnswerStep DEF AcceptKnown, Hello
  <2>5. ASSUME NEW g \in G, NEW t \in FreshTok, ExchangeEnrollment(d, g, t)
        PROVE  EnrollParts'
    <3> DEFINE e == env[d]
    <3>1. t \in Tok /\ granted[t] = None /\ e \in mem.enr /\ e \in Enr
      BY <2>5, FreshIn DEF ExchangeEnrollment, Exchangeable, TypeOK, Document
    <3>2. /\ mem'.enr = mem.enr \ {e} /\ mem'.tok = mem.tok \cup {t}
          /\ mem'.cred = mem.cred
          /\ granted'[t] = e
          /\ \A u \in Tok : u # t => granted'[u] = granted[u]
          /\ UNCHANGED <<disk, snap, issued>>
      BY <2>5, <3>1 DEF ExchangeEnrollment, Hello, TypeOK, Document
    <3>3. Extends(mem, mem')
      BY <3>2 DEF Extends
    <3>4. Holds(Stored("register", t), mem')
      BY <3>2 DEF Holds, Stored
    <3>5. t \notin mem.tok /\ t \notin disk.tok /\ \A h \in Goroutine : t \notin snap[h].tok
      BY <3>1 DEF EnrollParts, DocumentsOneTime, OneTime
    <3>6. DocumentsOneTime'
      <4>1. ASSUME NEW doc \in Document, OneTime(doc), t \notin doc.tok
            PROVE  /\ \A f \in doc.enr : issued[f] # None
                   /\ \A u \in doc.tok : granted'[u] # None /\ granted'[u] \notin doc.enr
                   /\ \A u, w \in doc.tok : granted'[u] = granted'[w] => u = w
        BY <3>2, <4>1 DEF OneTime, Document
      <4>2. OneTime(mem)'
        <5>1. OneTime(mem) /\ mem \in Document
          BY DEF EnrollParts, DocumentsOneTime, TypeOK
        <5>2. \A u \in mem.tok : granted'[u] = granted[u] /\ granted[u] # e
          BY <3>1, <3>2, <3>5, <5>1 DEF OneTime, Document
        <5>3. e # None /\ issued[e] # None
          BY <3>1, <5>1, NamesAssumption DEF OneTime
        <5> QED
          BY <3>2, <5>1, <5>2, <5>3 DEF OneTime
      <4>3. OneTime(disk)'
        BY <3>2, <3>5, <4>1 DEF EnrollParts, DocumentsOneTime, OneTime, TypeOK
      <4>4. \A h \in Goroutine : OneTime(snap[h])'
        BY <3>2, <3>5, <4>1 DEF EnrollParts, DocumentsOneTime, OneTime, TypeOK
      <4>5. \A u \in Tok : granted'[u] # None => issued[granted'[u]] # None
        <5>1. issued[e] # None
          BY <3>1 DEF EnrollParts, DocumentsOneTime, OneTime
        <5> QED
          BY <3>2, <5>1 DEF EnrollParts, DocumentsOneTime
      <4> QED
        BY <3>2, <4>2, <4>3, <4>4, <4>5 DEF DocumentsOneTime
    <3>7. Stored("register", t).stage = "changed"
      BY DEF Stored
    <3> QED
      BY <1>0, <2>5, <3>3, <3>4, <3>6, <3>7, ChangeStep DEF ExchangeEnrollment, Hello
  <2>6. ASSUME NEW g \in G, RejectHello(d, g) PROVE EnrollParts'
    BY <1>0, <2>6, AnswerStep DEF RejectHello, Hello
  <2> QED
    BY <1>3, <2>1, <2>2, <2>3, <2>4, <2>5, <2>6 DEF Host
<1>4. ASSUME NEW g \in Goroutine, Snapshot(g) PROVE EnrollParts'
  BY <1>4, SnapshotStep
<1>5. ASSUME NEW g \in Goroutine, Proceed(g) PROVE EnrollParts'
  <2>1. CASE WriteDocument(g)
    BY <2>1, WriteStep
  <2>2. CASE ReplyAdmin(g)
    <3>1. job[g].ok => Holds(job[g], disk)
      BY <2>2 DEF ReplyAdmin, EnrollParts, ChangesOnTheirWay
    <3>2. \A c \in acked' : disk.cred[c] = "revoked"
      BY <2>2, <3>1 DEF ReplyAdmin, EnrollParts, AcknowledgedIsDurable, Holds
    <3>3. \A c \in handed' : disk.cred[c] # "absent"
      BY <2>2, <3>1 DEF ReplyAdmin, EnrollParts, AcknowledgedIsDurable, Holds
    <3>4. \A c \in acked' : c \in Cred
      BY <2>2, <3>1 DEF ReplyAdmin, TypeOK, Holds
    <3>5. AcknowledgedIsDurable'
      BY <2>2, <3>2, <3>3, <3>4
         DEF ReplyAdmin, AcknowledgedIsDurable, EnrollParts, DocumentsOrdered, Extends
    <3>6. IdentityStaysValid'
      BY <2>2 DEF ReplyAdmin, EnrollParts, IdentityStaysValid
    <3> QED
      BY <2>2, <3>5, <3>6, EndStep DEF ReplyAdmin
  <2>3. CASE ReplyIssue(g)
    <3>1. AcknowledgedIsDurable' /\ IdentityStaysValid'
      BY <2>3 DEF ReplyIssue, EnrollParts, AcknowledgedIsDurable, IdentityStaysValid
    <3> QED
      BY <2>3, <3>1, EndStep DEF ReplyIssue
  <2>4. CASE ReplyRegister(g)
    <3>1. job[g].ok => job[g].arg \in disk.tok
      BY <2>4 DEF ReplyRegister, EnrollParts, ChangesOnTheirWay, Holds
    <3>2. disk.tok \subseteq mem.tok
      BY DEF EnrollParts, DocumentsOrdered, Extends
    <3>3. disclosed' \subseteq mem.tok \cap disk.tok
      BY <2>4, <3>1, <3>2 DEF ReplyRegister, EnrollParts, IdentityStaysValid
    <3>4. \A d \in Device : identity'[d] # None => identity'[d] \in disclosed'
      BY <2>4 DEF ReplyRegister, Waiting, EnrollParts, IdentityStaysValid
    <3>5. AcknowledgedIsDurable' /\ IdentityStaysValid'
      BY <2>4, <3>3, <3>4
         DEF ReplyRegister, EnrollParts, AcknowledgedIsDurable, IdentityStaysValid
    <3> QED
      BY <2>4, <3>5, EndStep DEF ReplyRegister
  <2> QED
    BY <1>5, <2>1, <2>2, <2>3, <2>4 DEF Proceed
<1>6. CASE Clean
  <2>1. mem'.enr \subseteq mem.enr /\ mem'.tok = mem.tok /\ mem'.cred = mem.cred
    BY <1>6 DEF Clean, TypeOK, Document
  <2>2. Extends(mem, mem')
    BY <2>1 DEF Extends
  <2>3. Holds(Stored("clean", None), mem')
    BY DEF Holds, Stored
  <2>4. DocumentsOneTime'
    BY <1>6, <2>1 DEF Clean, EnrollParts, DocumentsOneTime, OneTime
  <2>5. Stored("clean", None).stage = "changed"
    BY DEF Stored
  <2> QED
    BY <1>0, <1>6, <2>2, <2>3, <2>4, <2>5, ChangeStep DEF Clean
<1>7. ASSUME NEW d \in Device, BreakLink(d) PROVE EnrollParts'
  BY <1>7, StillStep DEF BreakLink
<1>8. ASSUME NEW d \in Device, WorkerFails(d) PROVE EnrollParts'
  BY <1>8, StillStep DEF WorkerFails
<1>9. CASE DbFails
  BY <1>9, StillStep DEF DbFails
<1>10. CASE DbRecovers
  BY <1>10, StillStep DEF DbRecovers
<1>11. CASE ServerRestart
  BY <1>11, RestartStep
<1>12. ~DatabaseReset
  BY DEF DatabaseReset, Restart, Fault
<1>13. ASSUME NEW e \in Enr, LapseEnrollment(e) PROVE EnrollParts'
  BY <1>13, StillStep DEF LapseEnrollment
<1>14. ASSUME NEW c \in Cred, LapseCredential(c) PROVE EnrollParts'
  BY <1>14, StillStep DEF LapseCredential
<1>15. ASSUME NEW g \in G, SaveFails(g) PROVE EnrollParts'
  <2>1. g \in Goroutine
    BY <1>0
  <2>2. job[g].arg \in disk.tok
    BY <1>15, <2>1 DEF SaveFails, EnrollParts, ChangesOnTheirWay, Holds
  <2>3. disclosed' \subseteq mem.tok \cap disk.tok
    BY <1>15, <2>2 DEF SaveFails, EnrollParts, IdentityStaysValid, DocumentsOrdered, Extends
  <2>4. AcknowledgedIsDurable' /\ IdentityStaysValid'
    BY <1>15, <2>3 DEF SaveFails, EnrollParts, AcknowledgedIsDurable, IdentityStaysValid
  <2> QED
    BY <1>15, <2>1, <2>4, EndStep DEF SaveFails
<1>16. CASE UNCHANGED vars
  BY <1>16, StillStep DEF vars
<1> QED
  BY <1>1, <1>2, <1>3, <1>4, <1>5, <1>6, <1>7, <1>8, <1>9, <1>10, <1>11,
     <1>12, <1>13, <1>14, <1>15, <1>16 DEF Next

\* The strengthening holds in every reachable state, unless the database is
\* replaced by an empty one.
THEOREM EnrollInvariant ==
    ASSUME "reset" \notin FaultKinds
    PROVE  Spec => []EnrollInv
<1>1. Init => EnrollInv
  BY InitType, InitParts DEF EnrollInv
<1>2. EnrollInv /\ [Next]_vars => EnrollInv'
  BY StepType, StepParts DEF EnrollInv
<1> QED
  BY <1>1, <1>2, PTL DEF Spec

\* What the control plane confirmed about deployment credentials survives
\* failed writes and restarts.
THEOREM AcknowledgedDurable ==
    ASSUME "reset" \notin FaultKinds
    PROVE  Spec => []AcknowledgedIsDurable
<1>1. EnrollInv => AcknowledgedIsDurable
  BY DEF EnrollInv, EnrollParts
<1> QED
  BY <1>1, EnrollInvariant, PTL

\* The identity file of an enrolled agent is accepted by every later control
\* plane, whatever happens to the credential it was enrolled with.
THEOREM IdentityValid ==
    ASSUME "reset" \notin FaultKinds
    PROVE  Spec => []IdentityStaysValid
<1>1. EnrollInv => IdentityStaysValid
  BY DEF EnrollInv, EnrollParts
<1> QED
  BY <1>1, EnrollInvariant, PTL

\* An enrollment token gives one identity, whatever writes fail.
THEOREM EnrollmentIsOneTime ==
    ASSUME "reset" \notin FaultKinds
    PROVE  Spec => []OneIdentityPerEnrollment
<1>1. EnrollInv => OneIdentityPerEnrollment
  BY DEF EnrollInv, EnrollParts, IdentityStaysValid, DocumentsOneTime, OneTime,
         OneIdentityPerEnrollment
<1> QED
  BY <1>1, EnrollInvariant, PTL

\* ExchangeEnrollment looks at the issuer again: once the revocation of a credential
\* is confirmed, or its time is over, no agent token comes from its enrollments,
\* also not after a restart.
THEOREM RevokedEnrollsNobody ==
    ASSUME "reset" \notin FaultKinds
    PROVE  Spec => RevokedIssuerEnrollsNobody
<1> DEFINE Respects == \A t \in Tok :
        granted[t] = None /\ granted'[t] # None =>
            issued[granted'[t]].issuer \notin acked \cup lapsed
<1>1. EnrollInv /\ [Next]_vars => [Respects]_vars
  <2> SUFFICES ASSUME EnrollInv, [Next]_vars PROVE [Respects]_vars
    OBVIOUS
  <2> USE NamesAssumption
  <2> USE DEF storeVars, tokenVars, hostVars, historyVars
  <2>1. CASE UNCHANGED granted
    BY <2>1
  <2>2. ASSUME NEW d \in Device, NEW g \in G, NEW t \in FreshTok, ExchangeEnrollment(d, g, t)
        PROVE  Respects
    <3>1. /\ TypeOK /\ \A c \in acked : mem.cred[c] = "revoked"
      BY DEF EnrollInv, EnrollParts, AcknowledgedIsDurable
    <3>2. /\ granted' = [granted EXCEPT ![t] = env[d]]
          /\ Active(issued[env[d]].issuer)
      BY <2>2 DEF ExchangeEnrollment, Exchangeable
    <3>3. issued[env[d]].issuer \notin acked \cup lapsed
      BY <3>1, <3>2 DEF TypeOK, Active
    <3>4. \A u \in Tok : granted[u] = None /\ granted'[u] # None => granted'[u] = env[d]
      BY <3>1, <3>2 DEF TypeOK
    <3> QED
      BY <3>3, <3>4
  <2>3. ASSUME NEW d \in Device, Host(d) PROVE Respects
    BY <2>1, <2>2, <2>3 DEF Host, StartAgent, IssueEnrollment, Ask, RefuseEnrollment,
       AcceptKnown, RejectHello
  <2>4. ASSUME NEW g \in Goroutine, Proceed(g) PROVE Respects
    BY <2>1, <2>4 DEF Proceed, WriteDocument, ReplyAdmin, ReplyIssue, ReplyRegister
  <2> HIDE DEF Respects
  <2> QED
    BY <2>1, <2>3, <2>4
       DEF Next, CreateDeploymentCredential, RevokeDeploymentCredential, Snapshot, Clean,
           BreakLink, WorkerFails, SaveFails, DbFails, DbRecovers, ServerRestart,
           DatabaseReset, Restart, LapseEnrollment, LapseCredential, vars
<1> QED
  BY <1>1, EnrollInvariant, PTL DEF Spec, RevokedIssuerEnrollsNobody
=============================================================================
