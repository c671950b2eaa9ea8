------------------------- MODULE TaskDispatchProofs -------------------------
(* Proofs about TaskDispatch for every number of tasks, devices,           *)
(* connections and faults.                                                 *)
EXTENDS TaskDispatch, TLAPS

\* The initial state, an empty store and no connection, is well typed.
LEMMA InitType == Init => TypeOK
  BY ConnAssumption, BoundAssumption
     DEF Init, TypeOK, Status, Presence, Document

\* Sequences: what appending, and taking the first element, yields.
LEMMA AppendInSeq ==
    ASSUME NEW S, NEW s \in Seq(S), NEW m \in S
    PROVE  Append(s, m) \in Seq(S)
  OBVIOUS

\* What receiving a message takes and leaves.
LEMMA HeadTailInSeq ==
    ASSUME NEW S, NEW s \in Seq(S), s # <<>>
    PROVE  Head(s) \in S /\ Tail(s) \in Seq(S)
  OBVIOUS

\* A message to the server names a task; a result also an outcome.
LEMMA ToServerFields ==
    ASSUME NEW m \in ToServerMsg
    PROVE  /\ m.task \in Task
           /\ m.type = "task_result" => m.status \in Outcome
  BY DEF ToServerMsg

\* The socket writes keep the queues well typed.
LEMMA WriteAgentType ==
    ASSUME TypeOK, NEW c \in Conn, NEW m \in ToAgentMsg, WriteAgent(c, m)
    PROVE  toAgent' \in [Conn -> Seq(ToAgentMsg)]
<1>1. toAgent[c] \in Seq(ToAgentMsg)
  BY DEF TypeOK
<1>2. Append(toAgent[c], m) \in Seq(ToAgentMsg)
  BY <1>1, AppendInSeq
<1> QED
  BY <1>2 DEF TypeOK, WriteAgent

\* sendAgent writes to the hub's socket, if there is one.
LEMMA SendAgentType ==
    ASSUME TypeOK, NEW d \in Device, NEW m \in ToAgentMsg, SendAgent(d, m)
    PROVE  toAgent' \in [Conn -> Seq(ToAgentMsg)]
<1>1. CASE agents[d] = NoConn
  BY <1>1 DEF SendAgent, TypeOK
<1>2. CASE agents[d] # NoConn
  <2>1. agents[d] \in Conn /\ WriteAgent(agents[d], m)
    BY <1>2 DEF SendAgent, TypeOK
  <2> QED
    BY <2>1, WriteAgentType
<1> QED
  BY <1>1, <1>2

\* The agent's writes keep the queue to the server well typed.
LEMMA WriteServerType ==
    ASSUME TypeOK, NEW c \in Conn, NEW m \in ToServerMsg, WriteServer(c, m)
    PROVE  toServer' \in [Conn -> Seq(ToServerMsg)]
<1>1. toServer[c] \in Seq(ToServerMsg)
  BY DEF TypeOK
<1>2. Append(toServer[c], m) \in Seq(ToServerMsg)
  BY <1>1, AppendInSeq
<1> QED
  BY <1>2 DEF TypeOK, WriteServer

\* The handler reads a message of the type it switches on.
LEMMA ReceiveType ==
    ASSUME TypeOK, NEW c \in Conn, NEW type, Receive(c, type)
    PROVE  /\ toServer' \in [Conn -> Seq(ToServerMsg)]
           /\ Head(toServer[c]).task \in Task
           /\ type = "task_result" => Head(toServer[c]).status \in Outcome
<1>1. toServer[c] \in Seq(ToServerMsg) /\ toServer[c] # <<>>
  BY DEF TypeOK, Receive
<1>2. Head(toServer[c]) \in ToServerMsg /\ Tail(toServer[c]) \in Seq(ToServerMsg)
  BY <1>1, HeadTailInSeq
<1>3. toServer' = [toServer EXCEPT ![c] = Tail(@)] /\ Head(toServer[c]).type = type
  BY DEF Receive
<1> QED
  BY <1>2, <1>3, ToServerFields DEF TypeOK

\* SetTaskStatus keeps the task map and marks its goroutine for persist.
LEMMA SetTaskStatusType ==
    ASSUME TypeOK, NEW c \in Conn, NEW t \in Task, NEW s \in Status,
           SetTaskStatus(c, t, s)
    PROVE  /\ status' \in [Task -> [Device -> Status]]
           /\ unsaved' \in SUBSET Goroutine
<1>1. ConnDevice[c] \in Device /\ c \in Goroutine
  BY ConnAssumption DEF Goroutine
<1>2. CASE status[t][ConnDevice[c]] # "none"
  <2>1. /\ status' = [status EXCEPT ![t][ConnDevice[c]] = s]
        /\ unsaved' = unsaved \cup {c}
    BY <1>2 DEF SetTaskStatus
  <2>2. status' \in [Task -> [Device -> Status]]
    BY <1>1, <2>1 DEF TypeOK
  <2>3. unsaved' \in SUBSET Goroutine
    BY <1>1, <2>1 DEF TypeOK
  <2> QED
    BY <2>2, <2>3
<1>3. CASE status[t][ConnDevice[c]] = "none"
  BY <1>3 DEF TypeOK, SetTaskStatus
<1> QED
  BY <1>2, <1>3

\* Every handler, agent, janitor and fault step keeps the types.
LEMMA StepType == TypeOK /\ [Next]_vars => TypeOK'
<1> SUFFICES ASSUME TypeOK, [Next]_vars PROVE TypeOK'
  OBVIOUS
<1> USE ConnAssumption, BoundAssumption
<1> USE DEF storeVars, handlerVars, netVars, agentVars, historyVars
<1>1. ASSUME NEW g \in Goroutine, Persist(g) PROVE TypeOK'
  BY <1>1 DEF TypeOK, Persist, Document
<1>2. ASSUME NEW t \in Task, NEW targets \in SUBSET Device, CreateTask(t, targets)
      PROVE TypeOK'
  BY <1>2 DEF TypeOK, CreateTask, Status, Goroutine
<1>3. ASSUME NEW t \in Task, NEW d \in Device, NotifyTask(t, d) PROVE TypeOK'
  <2>1. Available(t) \in ToAgentMsg
    BY DEF Available, ToAgentMsg
  <2>2. toAgent' \in [Conn -> Seq(ToAgentMsg)]
    BY <1>3, <2>1, SendAgentType DEF NotifyTask
  <2> QED
    BY <1>3, <2>2 DEF TypeOK, NotifyTask
<1>4. ASSUME NEW t \in Task, Expire(t) PROVE TypeOK'
  BY <1>4 DEF TypeOK, Expire
<1>5. CASE Clean
  BY <1>5 DEF TypeOK, Clean, Status, Goroutine, Rewrites
<1>6. ASSUME NEW d \in Device, DeleteOfflineDevice(d) PROVE TypeOK'
  BY <1>6 DEF TypeOK, DeleteOfflineDevice, Presence, Goroutine
<1>7. ASSUME NEW c \in Conn, Handler(c) PROVE TypeOK'
  <2>1. CASE UpsertAgentDevice(c)
    BY <2>1 DEF TypeOK, UpsertAgentDevice, Presence, Goroutine
  <2>2. CASE SetAgent(c)
    BY <2>2 DEF TypeOK, SetAgent
  <2>2a. CASE ClosePrevious(c)
    BY <2>2a DEF TypeOK, ClosePrevious
  <2>3. CASE ListPending(c)
    BY <2>3 DEF TypeOK, ListPending, PendingTasks
  <2>4. ASSUME NEW t \in Task, Announce(c, t) PROVE TypeOK'
    <3>1. Available(t) \in ToAgentMsg
      BY DEF Available, ToAgentMsg
    <3>2. toAgent' \in [Conn -> Seq(ToAgentMsg)]
      BY <2>4, <3>1, WriteAgentType DEF Announce
    <3> QED
      BY <2>4, <3>2 DEF TypeOK, Announce
  <2>5. CASE HandleClaim(c)
    <3>1. /\ toServer' \in [Conn -> Seq(ToServerMsg)]
          /\ Head(toServer[c]).task \in Task
      BY <2>5, ReceiveType DEF HandleClaim
    <3> QED
      BY <2>5, <3>1 DEF TypeOK, HandleClaim, Status, Goroutine
  <2>6. CASE RefuseClaim(c)
    <3>1. toServer' \in [Conn -> Seq(ToServerMsg)]
      BY <2>6, ReceiveType DEF RefuseClaim
    <3> QED
      BY <2>6, <3>1 DEF TypeOK, RefuseClaim
  <2>7. CASE Dispatch(c)
    <3>1. claim[c] \in Task /\ ConnDevice[c] \in Device
      BY <2>7 DEF TypeOK, Dispatch
    <3>2. TaskDispatchMsg(claim[c]) \in ToAgentMsg
      BY <3>1 DEF TaskDispatchMsg, ToAgentMsg
    <3>3. toAgent' \in [Conn -> Seq(ToAgentMsg)]
      BY <2>7, <3>1, <3>2, SendAgentType DEF Dispatch
    <3>4. dispatches' \in [Task -> [Device -> Nat]]
      BY <2>7, <3>1 DEF TypeOK, Dispatch
    <3>5. bare' \in SUBSET (Task \X Device)
      BY <2>7, <3>1 DEF TypeOK, Dispatch
    <3> QED
      BY <2>7, <3>3, <3>4, <3>5 DEF TypeOK, Dispatch
  <2>8. CASE HandleStarted(c)
    <3>1. /\ toServer' \in [Conn -> Seq(ToServerMsg)]
          /\ Head(toServer[c]).task \in Task
      BY <2>8, ReceiveType DEF HandleStarted
    <3>2. /\ status' \in [Task -> [Device -> Status]]
          /\ unsaved' \in SUBSET Goroutine
      BY <2>8, <3>1, SetTaskStatusType DEF HandleStarted, Status
    <3> QED
      BY <2>8, <3>1, <3>2 DEF TypeOK, HandleStarted
  <2>9. CASE HandleResult(c)
    <3>1. /\ toServer' \in [Conn -> Seq(ToServerMsg)]
          /\ Head(toServer[c]).task \in Task
          /\ Head(toServer[c]).status \in Outcome
      BY <2>9, ReceiveType DEF HandleResult
    <3>2. /\ status' \in [Task -> [Device -> Status]]
          /\ unsaved' \in SUBSET Goroutine
      BY <2>9, <3>1, SetTaskStatusType DEF HandleResult, Status, Outcome
    <3> QED
      BY <2>9, <3>1, <3>2 DEF TypeOK, HandleResult
  <2>10. CASE EndConnection(c)
    <3>1. <<>> \in Seq(ToServerMsg)
      OBVIOUS
    <3>2. toServer' \in [Conn -> Seq(ToServerMsg)]
      BY <2>10, <3>1 DEF TypeOK, EndConnection
    <3>3. agents' \in [Device -> Conn \cup {NoConn}]
      BY <2>10 DEF TypeOK, EndConnection
    <3> QED
      BY <2>10, <3>2, <3>3 DEF TypeOK, EndConnection
  <2>11. CASE MarkOffline(c)
    BY <2>11 DEF TypeOK, MarkOffline, Presence, Goroutine
  <2>12. CASE MarkLeasedUnknown(c)
    BY <2>12 DEF TypeOK, MarkLeasedUnknown, MarkedUnknown, Status, Goroutine
  <2> QED
    BY <1>7, <2>1, <2>2, <2>2a, <2>3, <2>4, <2>5, <2>6, <2>7, <2>8, <2>9, <2>10,
       <2>11, <2>12 DEF Handler
<1>8. ASSUME NEW c \in Conn, Connect(c) PROVE TypeOK'
  BY <1>8 DEF TypeOK, Connect
<1>9. ASSUME NEW c \in Conn, Heartbeat(c) PROVE TypeOK'
  BY <1>9 DEF TypeOK, Heartbeat, Presence, Goroutine, Rewrites
<1>10. ASSUME NEW d \in Device, Agent(d) PROVE TypeOK'
  <2>1. CASE HandleAvailable(d)
    <3> DEFINE c == agentConn[d]
    <3>1. c \in Conn /\ toAgent[c] \in Seq(ToAgentMsg) /\ toAgent[c] # <<>>
      BY <2>1 DEF TypeOK, HandleAvailable
    <3>2. Head(toAgent[c]) \in ToAgentMsg /\ Tail(toAgent[c]) \in Seq(ToAgentMsg)
      BY <3>1, HeadTailInSeq
    <3>3. [type |-> "task_claim", task |-> Head(toAgent[c]).task] \in ToServerMsg
      BY <3>2 DEF ToAgentMsg, ToServerMsg
    <3>4. toServer' \in [Conn -> Seq(ToServerMsg)]
      BY <2>1, <3>1, <3>3, WriteServerType DEF HandleAvailable
    <3> QED
      BY <2>1, <3>1, <3>2, <3>4 DEF TypeOK, HandleAvailable
  <2>2. CASE HandleDispatch(d)
    <3> DEFINE c == agentConn[d]
    <3>1. c \in Conn /\ toAgent[c] \in Seq(ToAgentMsg) /\ toAgent[c] # <<>>
      BY <2>2 DEF TypeOK, HandleDispatch
    <3>2. Head(toAgent[c]) \in ToAgentMsg /\ Tail(toAgent[c]) \in Seq(ToAgentMsg)
      BY <3>1, HeadTailInSeq
    <3>3. [conn |-> c, task |-> Head(toAgent[c]).task, stage |-> "starting"]
            \in Execution
      BY <3>1, <3>2 DEF ToAgentMsg, Execution
    <3> QED
      BY <2>2, <3>1, <3>2, <3>3 DEF TypeOK, HandleDispatch
  <2>3. CASE LoseConnection(d)
    BY <2>3 DEF TypeOK, LoseConnection
  <2> QED
    BY <1>10, <2>1, <2>2, <2>3 DEF Agent
<1>11. ASSUME NEW e \in exec, Execute(e) PROVE TypeOK'
  <2>1. CASE ReportStarted(e)
    <3>1. e \in Execution
      BY DEF TypeOK
    <3>2. [type |-> "task_started", task |-> e.task] \in ToServerMsg
      BY <3>1 DEF Execution, ToServerMsg
    <3>3. toServer' \in [Conn -> Seq(ToServerMsg)]
      BY <2>1, <3>1, <3>2, WriteServerType DEF ReportStarted, Execution
    <3>4. [e EXCEPT !.stage = "running"] \in Execution
      BY <3>1 DEF Execution
    <3> QED
      BY <2>1, <3>3, <3>4 DEF TypeOK, ReportStarted
  <2>2. ASSUME NEW outcome \in Outcome, ReportResult(e, outcome) PROVE TypeOK'
    <3>1. e \in Execution
      BY DEF TypeOK
    <3>2. [type |-> "task_result", task |-> e.task, status |-> outcome]
            \in ToServerMsg
      BY <3>1 DEF Execution, ToServerMsg
    <3>3. toServer' \in [Conn -> Seq(ToServerMsg)]
      BY <2>2, <3>1, <3>2, WriteServerType DEF ReportResult, Execution
    <3>4. <<e.task, ConnDevice[e.conn], outcome>> \in Task \X Device \X Outcome
      BY <3>1 DEF Execution
    <3> QED
      BY <2>2, <3>3, <3>4 DEF TypeOK, ReportResult
  <2> QED
    BY <1>11, <2>1, <2>2 DEF Execute
<1>12. ASSUME NEW c \in Conn, BreakLink(c) PROVE TypeOK'
  BY <1>12 DEF TypeOK, BreakLink, Fault
<1>13. ASSUME NEW c \in Conn, NEW end \in {"server", "agent"}, StallWrites(c, end)
       PROVE TypeOK'
  BY <1>13 DEF TypeOK, StallWrites, Fault
<1>14. ASSUME NEW d \in Device, AgentCrash(d) PROVE TypeOK'
  BY <1>14 DEF TypeOK, AgentCrash, Fault
<1>15. CASE ServerRestart
  BY <1>15 DEF TypeOK, ServerRestart, Fault, Document
<1>16. CASE UNCHANGED vars
  BY <1>16 DEF vars, TypeOK
<1> QED
  BY <1>1, <1>2, <1>3, <1>4, <1>5, <1>6, <1>7, <1>8, <1>9, <1>10, <1>11,
     <1>12, <1>13, <1>14, <1>15, <1>16 DEF Next

\* Every variable keeps its type: in particular the hub, the handlers and the
\* state document stay well formed through restarts.
THEOREM TypeCorrect == Spec => []TypeOK
  BY InitType, StepType, PTL DEF Spec

-----------------------------------------------------------------------------
(* At most one dispatch *)

\* An empty store satisfies the strengthening.
LEMMA InitDispatch == Init => DispatchParts
  BY DEF Init, DispatchParts, FreshTasks, ClaimHeld, ClaimExclusive,
         UndispatchedWhenQueued, AtMostOnceDispatch

\* A step that leaves the task maps alone and takes no handler into
\* "dispatching" keeps the invariant.
LEMMA QuietStep ==
    ASSUME DispatchParts,
           UNCHANGED <<status, disk, submitted, dispatches>>,
           \A c \in Conn : pc'[c] = "dispatching" =>
               /\ pc[c] = "dispatching"
               /\ claim'[c] = claim[c]
               /\ c \notin unsaved' => c \notin unsaved
    PROVE  DispatchParts'
<1>1. FreshTasks' /\ UndispatchedWhenQueued' /\ AtMostOnceDispatch'
  BY DEF DispatchParts, FreshTasks, UndispatchedWhenQueued, AtMostOnceDispatch
<1>2. ClaimHeld'
  BY DEF DispatchParts, ClaimHeld
<1>3. ClaimExclusive'
  BY DEF DispatchParts, ClaimExclusive
<1> QED
  BY <1>1, <1>2, <1>3 DEF DispatchParts

\* task_started and task_result never make a task claimable again.
LEMMA ReportStep ==
    ASSUME TypeOK, DispatchParts, NEW c \in Conn, NEW t \in Task,
           NEW s \in {"running", "success", "failed"},
           SetTaskStatus(c, t, s),
           UNCHANGED <<disk, submitted, dispatches, pc, claim>>
    PROVE  DispatchParts'
<1> DEFINE d == ConnDevice[c]
<1>1. d \in Device
  BY ConnAssumption
<1>2. CASE status[t][d] = "none"
  BY <1>2, QuietStep DEF SetTaskStatus
<1>3. CASE status[t][d] # "none"
  <2>1. /\ status' = [status EXCEPT ![t][d] = s]
        /\ unsaved' = unsaved \cup {c}
    BY <1>3 DEF SetTaskStatus
  <2>2. \A u \in Task, e \in Device :
            status'[u][e] = IF u = t /\ e = d THEN s ELSE status[u][e]
    BY <1>1, <2>1 DEF TypeOK
  <2>3. FreshTasks'
    BY <1>1, <1>3, <2>2 DEF DispatchParts, FreshTasks
  <2>4. ClaimHeld'
    BY <2>1, <2>2, ConnAssumption DEF TypeOK, DispatchParts, ClaimHeld
  <2>5. ClaimExclusive'
    BY DEF DispatchParts, ClaimExclusive
  <2>6. UndispatchedWhenQueued'
    BY <2>2 DEF DispatchParts, UndispatchedWhenQueued
  <2>7. AtMostOnceDispatch'
    BY DEF DispatchParts, AtMostOnceDispatch
  <2> QED
    BY <2>3, <2>4, <2>5, <2>6, <2>7 DEF DispatchParts
<1> QED
  BY <1>2, <1>3

\* Every step preserves the strengthening, if every write succeeds.
LEMMA StepDispatch ==
    ASSUME DbMayFail = FALSE, TypeOK, DispatchParts, [Next]_vars
    PROVE  DispatchParts'
<1> USE ConnAssumption
<1> USE DEF storeVars, handlerVars, netVars, agentVars, historyVars
<1>1. ASSUME NEW g \in Goroutine, Persist(g) PROVE DispatchParts'
  <2>1. disk' = [status |-> status, device |-> device]
    BY <1>1 DEF Persist
  <2>2. FreshTasks' /\ UndispatchedWhenQueued'
    BY <1>1, <2>1 DEF Persist, DispatchParts, FreshTasks, UndispatchedWhenQueued
  <2>3. ClaimHeld'
    BY <1>1, <2>1 DEF Persist, DispatchParts, ClaimHeld
  <2>4. ClaimExclusive' /\ AtMostOnceDispatch'
    BY <1>1 DEF Persist, DispatchParts, ClaimExclusive, AtMostOnceDispatch
  <2> QED
    BY <2>2, <2>3, <2>4 DEF DispatchParts
<1>2. ASSUME NEW t \in Task, NEW targets \in SUBSET Device, CreateTask(t, targets)
      PROVE DispatchParts'
  <2>1. \A u \in Task \ {t}, d \in Device : status'[u][d] = status[u][d]
    BY <1>2 DEF CreateTask, TypeOK
  <2>2. \A d \in Device : dispatches[t][d] = 0 /\ disk.status[t][d] = "none"
    BY <1>2 DEF CreateTask, DispatchParts, FreshTasks
  <2>3. FreshTasks'
    BY <1>2, <2>1 DEF CreateTask, DispatchParts, FreshTasks
  <2>4. UndispatchedWhenQueued'
    BY <1>2, <2>1, <2>2 DEF CreateTask, DispatchParts, UndispatchedWhenQueued
  <2>5. ClaimHeld'
    <3> SUFFICES ASSUME NEW c \in Conn, pc[c] = "dispatching"
                 PROVE  /\ dispatches[claim[c]][ConnDevice[c]] = 0
                        /\ status'[claim[c]][ConnDevice[c]]
                               \notin {"none", "queued", "expired"}
                        /\ c \notin unsaved' =>
                             disk.status[claim[c]][ConnDevice[c]]
                               \notin {"queued", "expired"}
      BY <1>2 DEF CreateTask, ClaimHeld
    <3>1. claim[c] \in Task /\ ConnDevice[c] \in Device
      BY DEF TypeOK
    <3>2. status[claim[c]][ConnDevice[c]] # "none"
      BY DEF DispatchParts, ClaimHeld
    <3>3. claim[c] # t
      BY <1>2, <3>1, <3>2 DEF CreateTask, DispatchParts, FreshTasks
    <3> QED
      BY <1>2, <2>1, <3>1, <3>3 DEF CreateTask, DispatchParts, ClaimHeld
  <2>6. ClaimExclusive' /\ AtMostOnceDispatch'
    BY <1>2 DEF CreateTask, DispatchParts, ClaimExclusive, AtMostOnceDispatch
  <2> QED
    BY <2>3, <2>4, <2>5, <2>6 DEF DispatchParts
<1>3. ASSUME NEW t \in Task, NEW d \in Device, NotifyTask(t, d)
      PROVE DispatchParts'
  BY <1>3, QuietStep DEF NotifyTask
<1>4. ASSUME NEW t \in Task, Expire(t) PROVE DispatchParts'
  BY <1>4, QuietStep DEF Expire
<1>5. CASE Clean
  <2>1. \A t \in Task, d \in Device :
            \/ status'[t][d] = status[t][d]
            \/ status[t][d] = "queued" /\ status'[t][d] = "expired"
    BY <1>5 DEF Clean
  <2>2. FreshTasks' /\ UndispatchedWhenQueued'
    BY <1>5, <2>1 DEF Clean, DispatchParts, FreshTasks, UndispatchedWhenQueued
  <2>3. ClaimHeld'
    BY <1>5, <2>1 DEF Clean, Rewrites, TypeOK, DispatchParts, ClaimHeld
  <2>4. ClaimExclusive' /\ AtMostOnceDispatch'
    BY <1>5 DEF Clean, DispatchParts, ClaimExclusive, AtMostOnceDispatch
  <2> QED
    BY <2>2, <2>3, <2>4 DEF DispatchParts
<1>6. ASSUME NEW d \in Device, DeleteOfflineDevice(d) PROVE DispatchParts'
  BY <1>6, QuietStep DEF DeleteOfflineDevice
<1>7. ASSUME NEW c \in Conn, Handler(c) PROVE DispatchParts'
  <2>1. CASE UpsertAgentDevice(c)
    BY <2>1, QuietStep DEF UpsertAgentDevice, TypeOK
  <2>2. CASE SetAgent(c)
    BY <2>2, QuietStep DEF SetAgent, TypeOK
  <2>2a. CASE ClosePrevious(c)
    BY <2>2a, QuietStep DEF ClosePrevious, TypeOK
  <2>3. CASE ListPending(c)
    BY <2>3, QuietStep DEF ListPending, TypeOK
  <2>4. ASSUME NEW t \in Task, Announce(c, t) PROVE DispatchParts'
    BY <2>4, QuietStep DEF Announce
  <2>5. CASE HandleClaim(c)
    <3> DEFINE d == ConnDevice[c]
               t == Head(toServer[c]).task
    <3>1. t \in Task /\ d \in Device
      BY <2>5, ReceiveType DEF HandleClaim
    <3>2. /\ status[t][d] = "queued"
          /\ status' = [status EXCEPT ![t][d] = "leased"]
          /\ claim' = [claim EXCEPT ![c] = t]
          /\ pc' = [pc EXCEPT ![c] = "dispatching"]
          /\ unsaved' = unsaved \cup {c}
          /\ UNCHANGED <<disk, submitted, dispatches>>
      BY <2>5 DEF HandleClaim, Claimable
    <3> HIDE DEF d, t
    <3>3. \A u \in Task, e \in Device :
              status'[u][e] = IF u = t /\ e = d THEN "leased" ELSE status[u][e]
      BY <3>1, <3>2 DEF TypeOK
    <3>4. FreshTasks'
      BY <3>1, <3>2, <3>3 DEF DispatchParts, FreshTasks
    <3>5. UndispatchedWhenQueued'
      BY <3>2, <3>3 DEF DispatchParts, UndispatchedWhenQueued
    <3>6. claim'[c] = t /\ \A b \in Conn \ {c} : claim'[b] = claim[b] /\ pc'[b] = pc[b]
      BY <3>2 DEF TypeOK
    <3>7. \A b \in Conn \ {c} : pc[b] = "dispatching" /\ ConnDevice[b] = d
              => claim[b] # t
      BY <3>2 DEF DispatchParts, ClaimHeld
    <3>8. ClaimHeld'
      <4> SUFFICES ASSUME NEW b \in Conn, pc'[b] = "dispatching"
                   PROVE  /\ dispatches[claim'[b]][ConnDevice[b]] = 0
                          /\ status'[claim'[b]][ConnDevice[b]]
                                 \notin {"none", "queued", "expired"}
                          /\ b \notin unsaved' =>
                               disk.status[claim'[b]][ConnDevice[b]]
                                 \notin {"queued", "expired"}
        BY <3>2 DEF ClaimHeld
      <4>1. CASE b = c
        <5>1. dispatches[t][d] = 0
          BY <3>1, <3>2 DEF DispatchParts, UndispatchedWhenQueued
        <5> QED
          BY <4>1, <5>1, <3>1, <3>2, <3>3, <3>6 DEF d
      <4>2. CASE b # c
        <5>1. claim[b] \in Task /\ ConnDevice[b] \in Device /\ pc[b] = "dispatching"
          BY <4>2, <3>6 DEF TypeOK
        <5>2. status'[claim[b]][ConnDevice[b]] = status[claim[b]][ConnDevice[b]]
          BY <4>2, <5>1, <3>3, <3>7
        <5> QED
          BY <4>2, <5>1, <5>2, <3>2, <3>6 DEF DispatchParts, ClaimHeld
      <4> QED
        BY <4>1, <4>2
    <3>9. ClaimExclusive'
      BY <3>6, <3>7 DEF DispatchParts, ClaimExclusive, d
    <3>10. AtMostOnceDispatch'
      BY <3>2 DEF DispatchParts, AtMostOnceDispatch
    <3> QED
      BY <3>4, <3>5, <3>8, <3>9, <3>10 DEF DispatchParts
  <2>6. CASE RefuseClaim(c)
    BY <2>6, QuietStep DEF RefuseClaim
  <2>7. CASE Dispatch(c)
    <3> DEFINE d == ConnDevice[c]
               t == claim[c]
    <3>1. /\ pc[c] = "dispatching" /\ c \notin unsaved
          /\ pc' = [pc EXCEPT ![c] = "serving"]
          /\ claim' = [claim EXCEPT ![c] = NoTask]
          /\ dispatches' = [dispatches EXCEPT ![t][d] = @ + 1]
          /\ UNCHANGED <<status, disk, submitted, unsaved>>
      BY <2>7 DEF Dispatch
    <3>2. t \in Task /\ d \in Device
      BY <3>1 DEF TypeOK
    <3>3. /\ dispatches[t][d] = 0
          /\ status[t][d] \notin {"none", "queued", "expired"}
          /\ disk.status[t][d] \notin {"queued", "expired"}
      BY <3>1 DEF DispatchParts, ClaimHeld
    <3>4. \A b \in Conn \ {c} : pc[b] = "dispatching" /\ ConnDevice[b] = d
              => claim[b] # t
      BY <3>1 DEF DispatchParts, ClaimExclusive
    <3>5. \A b \in Conn : pc'[b] = "dispatching" =>
              b # c /\ pc[b] = "dispatching" /\ claim'[b] = claim[b]
      BY <3>1 DEF TypeOK
    <3> HIDE DEF d, t
    <3>6. \A u \in Task, e \in Device :
              dispatches'[u][e] = IF u = t /\ e = d THEN 1 ELSE dispatches[u][e]
      BY <3>1, <3>2, <3>3 DEF TypeOK
    <3>7. FreshTasks'
      BY <3>1, <3>2, <3>3, <3>6 DEF DispatchParts, FreshTasks
    <3>8. UndispatchedWhenQueued'
      BY <3>1, <3>3, <3>6 DEF DispatchParts, UndispatchedWhenQueued
    <3>9. AtMostOnceDispatch'
      BY <3>6 DEF DispatchParts, AtMostOnceDispatch
    <3>10. ClaimHeld'
      <4> SUFFICES ASSUME NEW b \in Conn, pc'[b] = "dispatching"
                   PROVE  /\ dispatches'[claim'[b]][ConnDevice[b]] = 0
                          /\ status[claim'[b]][ConnDevice[b]]
                                 \notin {"none", "queued", "expired"}
                          /\ b \notin unsaved =>
                               disk.status[claim'[b]][ConnDevice[b]]
                                 \notin {"queued", "expired"}
        BY <3>1 DEF ClaimHeld
      <4>1. b # c /\ pc[b] = "dispatching" /\ claim'[b] = claim[b]
        BY <3>5
      <4>2. claim[b] \in Task /\ ConnDevice[b] \in Device
        BY <4>1 DEF TypeOK
      <4>3. dispatches'[claim[b]][ConnDevice[b]] = dispatches[claim[b]][ConnDevice[b]]
        BY <3>4, <3>6, <4>1, <4>2
      <4> QED
        BY <4>1, <4>3 DEF DispatchParts, ClaimHeld
    <3>11. ClaimExclusive'
      BY <3>5 DEF DispatchParts, ClaimExclusive
    <3> QED
      BY <3>7, <3>8, <3>9, <3>10, <3>11 DEF DispatchParts
  <2>8. CASE HandleStarted(c)
    <3>1. Head(toServer[c]).task \in Task
      BY <2>8, ReceiveType DEF HandleStarted
    <3> QED
      BY <2>8, <3>1, ReportStep DEF HandleStarted
  <2>9. CASE HandleResult(c)
    <3>1. Head(toServer[c]).task \in Task /\ Head(toServer[c]).status \in Outcome
      BY <2>9, ReceiveType DEF HandleResult
    <3>2. Head(toServer[c]).status \in {"running", "success", "failed"}
      BY <3>1 DEF Outcome
    <3> QED
      BY <2>9, <3>1, <3>2, ReportStep DEF HandleResult
  <2>10. CASE EndConnection(c)
    BY <2>10, QuietStep DEF EndConnection, TypeOK
  <2>11. CASE MarkOffline(c)
    BY <2>11, QuietStep DEF MarkOffline, TypeOK
  <2>12. CASE MarkLeasedUnknown(c)
    <3>1. \A t \in Task, d \in Device :
              \/ status'[t][d] = status[t][d]
              \/ /\ status[t][d] \in {"leased", "running"}
                 /\ status'[t][d] = "unknown"
      BY <2>12 DEF MarkLeasedUnknown, MarkedUnknown, TypeOK
    <3>2. /\ \A b \in Conn : pc'[b] = "dispatching" => pc[b] = "dispatching"
          /\ \A b \in Conn : b \notin unsaved' => b \notin unsaved
          /\ UNCHANGED <<disk, submitted, dispatches, claim>>
      BY <2>12 DEF MarkLeasedUnknown, TypeOK
    <3>3. FreshTasks' /\ UndispatchedWhenQueued'
      BY <3>1, <3>2 DEF DispatchParts, FreshTasks, UndispatchedWhenQueued
    <3>4. ClaimHeld'
      BY <3>1, <3>2 DEF TypeOK, DispatchParts, ClaimHeld
    <3>5. ClaimExclusive' /\ AtMostOnceDispatch'
      BY <3>2 DEF DispatchParts, ClaimExclusive, AtMostOnceDispatch
    <3> QED
      BY <3>3, <3>4, <3>5 DEF DispatchParts
  <2> QED
    BY <1>7, <2>1, <2>2, <2>2a, <2>3, <2>4, <2>5, <2>6, <2>7, <2>8, <2>9, <2>10,
       <2>11, <2>12 DEF Handler
<1>8. ASSUME NEW c \in Conn, Connect(c) PROVE DispatchParts'
  BY <1>8, QuietStep DEF Connect, TypeOK
<1>9. ASSUME NEW c \in Conn, Heartbeat(c) PROVE DispatchParts'
  BY <1>9, QuietStep DEF Heartbeat, Rewrites
<1>10. ASSUME NEW d \in Device, Agent(d) PROVE DispatchParts'
  BY <1>10, QuietStep
     DEF Agent, HandleAvailable, HandleDispatch, LoseConnection
<1>11. ASSUME NEW e \in exec, Execute(e) PROVE DispatchParts'
  BY <1>11, QuietStep DEF Execute, ReportStarted, ReportResult
<1>12. ASSUME NEW c \in Conn, BreakLink(c) PROVE DispatchParts'
  BY <1>12, QuietStep DEF BreakLink
<1>13. ASSUME NEW c \in Conn, NEW end \in {"server", "agent"}, StallWrites(c, end)
       PROVE DispatchParts'
  BY <1>13, QuietStep DEF StallWrites
<1>14. ASSUME NEW d \in Device, AgentCrash(d) PROVE DispatchParts'
  BY <1>14, QuietStep DEF AgentCrash
<1>15. CASE ServerRestart
  <2>1. /\ status' = disk.status
        /\ \A c \in Conn : pc'[c] # "dispatching"
        /\ UNCHANGED <<disk, submitted, dispatches>>
    BY <1>15 DEF ServerRestart
  <2> QED
    BY <2>1 DEF DispatchParts, FreshTasks, ClaimHeld, ClaimExclusive,
                UndispatchedWhenQueued, AtMostOnceDispatch
<1>16. CASE UNCHANGED vars
  BY <1>16, QuietStep DEF vars
<1> QED
  BY <1>1, <1>2, <1>3, <1>4, <1>5, <1>6, <1>7, <1>8, <1>9, <1>10, <1>11,
     <1>12, <1>13, <1>14, <1>15, <1>16 DEF Next

\* When the database accepts every write, the whole strengthening holds of
\* every reachable state.
THEOREM DispatchInvariant ==
    ASSUME DbMayFail = FALSE
    PROVE  Spec => []DispatchInv
<1>1. Init => DispatchInv
  BY InitType, InitDispatch DEF DispatchInv
<1>2. DispatchInv /\ [Next]_vars => DispatchInv'
  BY StepType, StepDispatch DEF DispatchInv
<1> QED
  BY <1>1, <1>2, PTL DEF Spec

\* ClaimTask leases from "queued" only and the lease is stored before
\* sendAgent: no task is handed twice to a device, for every number of
\* tasks, devices, reconnects, broken links and control-plane restarts.
THEOREM AtMostOnce ==
    ASSUME DbMayFail = FALSE
    PROVE  Spec => []AtMostOnceDispatch
<1>1. DispatchInv => AtMostOnceDispatch
  BY DEF DispatchInv, DispatchParts
<1> QED
  BY <1>1, DispatchInvariant, PTL

\* A task shown as queued or expired, in memory or in the state document,
\* was never handed out.
THEOREM QueuedMeansUndispatched ==
    ASSUME DbMayFail = FALSE
    PROVE  Spec => []UndispatchedWhenQueued
<1>1. DispatchInv => UndispatchedWhenQueued
  BY DEF DispatchInv, DispatchParts
<1> QED
  BY <1>1, DispatchInvariant, PTL
=============================================================================
