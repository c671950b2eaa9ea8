---------------------------- MODULE TaskDispatch ----------------------------
(***************************************************************************)
(* Batch tasks and agent presence: the path from POST /api/tasks to the    *)
(* shell command on a phone and back.                                      *)
(*                                                                         *)
(* Control plane (backend/internal/controlplane): every agent websocket is *)
(* served by one goroutine, registerAgent; every POST /api/tasks by one    *)
(* createTask; a janitor runs Store.Clean each minute.  They share the     *)
(* realtime hub (which socket is the agent of a device) and the store.     *)
(* Each store operation is one critical section of MemoryStore; after it   *)
(* the same goroutine writes the whole store to PostgreSQL as one document *)
(* (PostgresStore.persist) and only then goes on.                          *)
(*                                                                         *)
(* Agent (agent/internal/agent): one sequential read loop per connection,  *)
(* one goroutine per dispatched task.  A task goroutine outlives its       *)
(* connection and answers on the writer of the connection it came from.    *)
(*                                                                         *)
(* A connection is dialled once; the pool Conn stands for the successive   *)
(* sockets of the agents.  Authentication is in module Enrollment.         *)
(***************************************************************************)
EXTENDS Integers, Sequences, FiniteSets

CONSTANTS
    Task,         \* task identifiers
    Device,       \* device identifiers
    Conn,         \* websocket connections, each dialled at most once
    ConnDevice,   \* the device whose agent dials a connection
    NoConn,       \* "no socket" in the hub and in the agent
    NoTask,       \* "no task in hand" in a handler
    Janitor,      \* the maintenance goroutine
    Admin,        \* the goroutine serving DELETE /api/devices/{id}
    DbMayFail,    \* may a write of the state document fail?
    MaxInFlight,  \* capacity of one direction of a connection (bound)
    MaxFaults     \* total of broken links, stalls, crashes, restarts (bound)

ASSUME ConnAssumption ==
    /\ ConnDevice \in [Conn -> Device]
    /\ NoConn \notin Conn
    /\ NoTask \notin Task

ASSUME GoroutineAssumption ==
    /\ Conn \cap Task = {}
    /\ Janitor \notin Conn \cup Task
    /\ Admin \notin Conn \cup Task
    /\ Janitor # Admin

ASSUME BoundAssumption ==
    /\ DbMayFail \in BOOLEAN
    /\ MaxInFlight \in Nat \ {0}
    /\ MaxFaults \in Nat

-----------------------------------------------------------------------------
(* Values *)

\* TaskStatus of model.go; "none" is a task the store does not hold, or a
\* device that is not one of its targets.
Status == {"none", "queued", "leased", "running", "success", "failed",
           "unknown", "expired"}

\* A Device row: missing, or its Online flag.
Presence == {"absent", "offline", "online"}

Outcome == {"success", "failed"}

Goroutine == Conn \cup Task \cup {Janitor, Admin}

ToAgentMsg == [type : {"task_available", "task_dispatch"}, task : Task,
               payload : BOOLEAN]

ToServerMsg == [type : {"task_claim", "task_started"}, task : Task]
               \cup [type : {"task_result"}, task : Task, status : Outcome]

\* The part of persistedState this module reads back.
Document == [status : [Task -> [Device -> Status]],
             device : [Device -> Presence]]

\* One executeTask goroutine of an agent.
Execution == [conn : Conn, task : Task, stage : {"starting", "running"}]

VARIABLES
    status,      \* tasks[t].Devices[d].Status
    payload,     \* tasks whose Payload is in memory
    device,      \* devices[d]
    submitted,   \* task identifiers already drawn by CreateTask
    expired,     \* tasks whose ExpiresAt is in the past
    disk,        \* the state document in PostgreSQL
    unsaved,     \* goroutines between a store operation and its persist
    notify,      \* createTask: targets still to be notified
    agents,      \* hub.agents
    pc,          \* registerAgent: where the handler of a connection is
    todo,        \* registerAgent: PendingTasks not yet announced
    claim,       \* handleAgentMessage: the task claimed and not yet sent
    previous,    \* registerAgent: the replaced socket, not yet closed
    link,        \* the socket
    mute,        \* ends whose writes fail for good after a write timeout
    toAgent, toServer,    \* messages in flight
    agentConn,   \* the connection an agent reads from
    exec,        \* executeTask goroutines
    faults,      \* environment faults so far (bound)
    dispatches,  \* history: task_dispatch messages the server has sent
    bare,        \* history: dispatches sent without the submitted payload
    ran          \* history: outcomes agents have really produced

storeVars == <<status, payload, device, submitted, expired, disk, unsaved>>
handlerVars == <<pc, todo, claim, previous>>
netVars == <<link, mute, toAgent, toServer>>
agentVars == <<agentConn, exec>>
historyVars == <<dispatches, bare, ran>>
vars == <<storeVars, notify, agents, handlerVars, netVars, agentVars, faults,
          historyVars>>

TypeOK ==
    /\ status \in [Task -> [Device -> Status]]
    /\ payload \in SUBSET Task
    /\ device \in [Device -> Presence]
    /\ submitted \in SUBSET Task
    /\ expired \in SUBSET Task
    /\ disk \in Document
    /\ unsaved \in SUBSET Goroutine
    /\ notify \in [Task -> SUBSET Device]
    /\ agents \in [Device -> Conn \cup {NoConn}]
    /\ pc \in [Conn -> {"idle", "hello", "upserted", "replacing", "listing",
                        "serving", "dispatching", "removed", "offlined",
                        "done"}]
    /\ todo \in [Conn -> SUBSET Task]
    /\ claim \in [Conn -> Task \cup {NoTask}]
    /\ previous \in [Conn -> Conn \cup {NoConn}]
    /\ \A c \in Conn : pc[c] = "dispatching" => claim[c] \in Task
    /\ link \in [Conn -> {"unused", "open", "closed"}]
    /\ mute \in SUBSET (Conn \X {"server", "agent"})
    /\ toAgent \in [Conn -> Seq(ToAgentMsg)]
    /\ toServer \in [Conn -> Seq(ToServerMsg)]
    /\ agentConn \in [Device -> Conn \cup {NoConn}]
    /\ exec \in SUBSET Execution
    /\ faults \in 0..MaxFaults
    /\ dispatches \in [Task -> [Device -> Nat]]
    /\ bare \in SUBSET (Task \X Device)
    /\ ran \in SUBSET (Task \X Device \X Outcome)

Init ==
    /\ status = [t \in Task |-> [d \in Device |-> "none"]]
    /\ payload = {}
    /\ device = [d \in Device |-> "absent"]
    /\ submitted = {}
    /\ expired = {}
    /\ disk = [status |-> status, device |-> device]
    /\ unsaved = {}
    /\ notify = [t \in Task |-> {}]
    /\ agents = [d \in Device |-> NoConn]
    /\ pc = [c \in Conn |-> "idle"]
    /\ todo = [c \in Conn |-> {}]
    /\ claim = [c \in Conn |-> NoTask]
    /\ previous = [c \in Conn |-> NoConn]
    /\ link = [c \in Conn |-> "unused"]
    /\ mute = {}
    /\ toAgent = [c \in Conn |-> <<>>]
    /\ toServer = [c \in Conn |-> <<>>]
    /\ agentConn = [d \in Device |-> NoConn]
    /\ exec = {}
    /\ faults = 0
    /\ dispatches = [t \in Task |-> [d \in Device |-> 0]]
    /\ bare = {}
    /\ ran = {}

-----------------------------------------------------------------------------
(* Writing to a socket.  A write to a closed socket, or from an end that    *)
(* has timed out once, fails and every caller ignores the error; otherwise  *)
(* it waits for room.                                                       *)

Writable(c, end) == link[c] = "open" /\ <<c, end>> \notin mute

\* socketPeer.writeJSON on the socket of connection c
WriteAgent(c, m) ==
    \/ /\ Writable(c, "server")
       /\ Len(toAgent[c]) < MaxInFlight
       /\ toAgent' = [toAgent EXCEPT ![c] = Append(@, m)]
    \/ /\ ~Writable(c, "server")
       /\ UNCHANGED toAgent

\* realtimeHub.sendAgent: to whichever socket the hub holds now
SendAgent(d, m) ==
    \/ agents[d] # NoConn /\ WriteAgent(agents[d], m)
    \/ agents[d] = NoConn /\ UNCHANGED toAgent

\* lockedWriter.writeJSON
WriteServer(c, m) ==
    \/ /\ Writable(c, "agent")
       /\ Len(toServer[c]) < MaxInFlight
       /\ toServer' = [toServer EXCEPT ![c] = Append(@, m)]
    \/ /\ ~Writable(c, "agent")
       /\ UNCHANGED toServer

Available(t) == [type |-> "task_available", task |-> t, payload |-> FALSE]
TaskDispatchMsg(t) ==
    [type |-> "task_dispatch", task |-> t, payload |-> t \in payload]

-----------------------------------------------------------------------------
(* Store *)

\* PostgresStore.persist, called by the goroutine that changed the store.
\* mutate ignores its error.
Persist(g) ==
    /\ g \in unsaved
    /\ unsaved' = unsaved \ {g}
    /\ \/ disk' = [status |-> status, device |-> device]
       \/ DbMayFail /\ UNCHANGED disk
    /\ UNCHANGED <<status, payload, device, submitted, expired, notify, agents,
                   handlerVars, netVars, agentVars, faults, historyVars>>

\* Goroutine g, which may have changed nothing, goes on to persist.  Its write
\* matters when it did, or when an earlier write failed and none is under way.
Rewrites(g, changed) ==
    IF changed \/ (unsaved = {} /\ disk # [status |-> status, device |-> device])
    THEN unsaved \cup {g} ELSE unsaved

\* PendingTasks
PendingTasks(d) == {t \in Task \ expired : status[t][d] = "queued"}

\* Mutant: a lease that does not look at the current status
MutantClaimable(t, d) == t \notin expired /\ status[t][d] # "none"

\* ClaimTask succeeds: found, not expired, queued for this device
Claimable(t, d) == t \notin expired /\ status[t][d] = "queued"

\* Mutant: the disconnect handling also overwrites finished tasks
MutantMarkedUnknown(d) ==
    [t \in Task |->
        IF status[t][d] \in {"leased", "running", "success"}
        THEN [status[t] EXCEPT ![d] = "unknown"]
        ELSE status[t]]

\* MarkLeasedUnknown
MarkedUnknown(d) ==
    [t \in Task |->
        IF status[t][d] \in {"leased", "running"}
        THEN [status[t] EXCEPT ![d] = "unknown"]
        ELSE status[t]]

\* createTask up to the persist of CreateTask: a fresh identifier, every
\* target queued.
CreateTask(t, targets) ==
    /\ t \notin submitted
    /\ targets # {}
    /\ submitted' = submitted \cup {t}
    /\ payload' = payload \cup {t}
    /\ status' = [status EXCEPT ![t] =
                    [d \in Device |-> IF d \in targets THEN "queued" ELSE "none"]]
    /\ unsaved' = unsaved \cup {t}
    /\ notify' = [notify EXCEPT ![t] = targets]
    /\ UNCHANGED <<device, expired, disk, agents, handlerVars, netVars,
                   agentVars, faults, historyVars>>

\* createTask, the loop over the stored targets: notifyTask
NotifyTask(t, d) ==
    /\ t \notin unsaved
    /\ d \in notify[t]
    /\ notify' = [notify EXCEPT ![t] = @ \ {d}]
    /\ SendAgent(d, Available(t))
    /\ UNCHANGED <<storeVars, agents, handlerVars, link, mute, toServer,
                   agentVars, faults, historyVars>>

\* The wall clock passes the task's ExpiresAt.
Expire(t) ==
    /\ t \in submitted \ expired
    /\ expired' = expired \cup {t}
    /\ UNCHANGED <<status, payload, device, submitted, disk, unsaved, notify,
                   agents, handlerVars, netVars, agentVars, faults,
                   historyVars>>

\* Mutant: the janitor drops what is finished and leaves the queue alone
MutantClean ==
    /\ Janitor \notin unsaved
    /\ UNCHANGED <<storeVars, notify, agents, handlerVars, netVars, agentVars,
                   faults, historyVars>>

\* Clean, the part about tasks
Clean ==
    /\ Janitor \notin unsaved
    /\ status' = [t \in Task |-> [d \in Device |->
                    IF t \in expired /\ status[t][d] = "queued"
                    THEN "expired" ELSE status[t][d]]]
    /\ unsaved' = Rewrites(Janitor, status' # status)
    /\ UNCHANGED <<payload, device, submitted, expired, disk, notify, agents,
                   handlerVars, netVars, agentVars, faults, historyVars>>

\* DELETE /api/devices/{id}: DeleteOfflineDevice
DeleteOfflineDevice(d) ==
    /\ Admin \notin unsaved
    /\ device[d] = "offline"
    /\ device' = [device EXCEPT ![d] = "absent"]
    /\ unsaved' = unsaved \cup {Admin}
    /\ UNCHANGED <<status, payload, submitted, expired, disk, notify, agents,
                   handlerVars, netVars, agentVars, faults, historyVars>>

-----------------------------------------------------------------------------
(* registerAgent: the life of one connection's handler *)

\* UpsertAgentDevice
UpsertAgentDevice(c) ==
    /\ pc[c] = "hello"
    /\ pc' = [pc EXCEPT ![c] = "upserted"]
    /\ device' = [device EXCEPT ![ConnDevice[c]] = "online"]
    /\ unsaved' = unsaved \cup {c}
    /\ UNCHANGED <<status, payload, submitted, expired, disk, notify, agents,
                   todo, claim, previous, netVars, agentVars, faults,
                   historyVars>>

\* hub.setAgent returns the socket it replaces, if any
SetAgent(c) ==
    LET d == ConnDevice[c]
    IN  /\ pc[c] = "upserted"
        /\ c \notin unsaved
        /\ pc' = [pc EXCEPT ![c] = IF agents[d] = NoConn THEN "listing"
                                  ELSE "replacing"]
        /\ previous' = [previous EXCEPT ![c] = agents[d]]
        /\ agents' = [agents EXCEPT ![d] = c]
        /\ UNCHANGED <<storeVars, notify, todo, claim, netVars, agentVars,
                       faults, historyVars>>

\* Mutant: the replaced socket is left open
MutantClosePrevious(c) ==
    /\ pc[c] = "replacing"
    /\ pc' = [pc EXCEPT ![c] = "listing"]
    /\ previous' = [previous EXCEPT ![c] = NoConn]
    /\ UNCHANGED <<storeVars, notify, agents, todo, claim, netVars, agentVars,
                   faults, historyVars>>

\* previous.close(), no lock held since setAgent
ClosePrevious(c) ==
    /\ pc[c] = "replacing"
    /\ pc' = [pc EXCEPT ![c] = "listing"]
    /\ link' = [x \in Conn |-> IF x = previous[c] THEN "closed" ELSE link[x]]
    /\ previous' = [previous EXCEPT ![c] = NoConn]
    /\ UNCHANGED <<storeVars, notify, agents, todo, claim, mute, toAgent,
                   toServer, agentVars, faults, historyVars>>

\* Mutant: a connecting agent is not told of the tasks that wait for it
MutantListPending(c) ==
    /\ pc[c] = "listing"
    /\ pc' = [pc EXCEPT ![c] = "serving"]
    /\ UNCHANGED <<storeVars, notify, agents, todo, claim, previous, netVars,
                   agentVars, faults, historyVars>>

\* for taskID := range PendingTasks(deviceID): the list is read once
ListPending(c) ==
    /\ pc[c] = "listing"
    /\ pc' = [pc EXCEPT ![c] = "serving"]
    /\ todo' = [todo EXCEPT ![c] = PendingTasks(ConnDevice[c])]
    /\ UNCHANGED <<storeVars, notify, agents, claim, previous, netVars,
                   agentVars, faults, historyVars>>

\* ... and announced one by one, on this connection's own socket
Announce(c, t) ==
    /\ pc[c] = "serving"
    /\ t \in todo[c]
    /\ todo' = [todo EXCEPT ![c] = @ \ {t}]
    /\ WriteAgent(c, Available(t))
    /\ UNCHANGED <<storeVars, notify, agents, pc, claim, previous, link, mute,
                   toServer, agentVars, faults, historyVars>>

\* The handler is in conn.ReadMessage.
Reading(c) == pc[c] = "serving" /\ todo[c] = {} /\ c \notin unsaved

\* ReadMessage returns a message of the given type; m is that message.
Receive(c, type) ==
    /\ Reading(c)
    /\ toServer[c] # <<>>
    /\ Head(toServer[c]).type = type
    /\ toServer' = [toServer EXCEPT ![c] = Tail(@)]

\* Mutant: the heartbeat refreshes LastSeen and forgets Online
MutantHeartbeat(c) ==
    /\ Reading(c)
    /\ UNCHANGED <<storeVars, notify, agents, handlerVars, netVars, agentVars,
                   faults, historyVars>>

\* The agent's heartbeat ticker and the handling of its message, TouchDevice.
\* The message commutes with the task messages of its connection, so it is
\* not queued; one may still be waiting when the link is already closed.
Heartbeat(c) ==
    LET d == ConnDevice[c]
    IN  /\ Reading(c)
        /\ device' = [device EXCEPT ![d] = IF @ = "absent" THEN @ ELSE "online"]
        /\ unsaved' = Rewrites(c, device' # device)
        /\ UNCHANGED <<status, payload, submitted, expired, disk, notify,
                       agents, handlerVars, netVars, agentVars, faults,
                       historyVars>>

\* task_claim: ClaimTask grants the lease ...
HandleClaim(c) ==
    LET d == ConnDevice[c]
        t == Head(toServer[c]).task
    IN  /\ Receive(c, "task_claim")
        /\ Claimable(t, d)
        /\ status' = [status EXCEPT ![t][d] = "leased"]
        /\ claim' = [claim EXCEPT ![c] = t]
        /\ pc' = [pc EXCEPT ![c] = "dispatching"]
        /\ unsaved' = unsaved \cup {c}
        /\ UNCHANGED <<payload, device, submitted, expired, disk, notify,
                       agents, todo, previous, link, mute, toAgent, agentVars,
                       faults, historyVars>>

\* ... or refuses it: the message is dropped without an answer
RefuseClaim(c) ==
    /\ Receive(c, "task_claim")
    /\ ~Claimable(Head(toServer[c]).task, ConnDevice[c])
    /\ UNCHANGED <<storeVars, notify, agents, handlerVars, link, mute, toAgent,
                   agentVars, faults, historyVars>>

\* Mutant: the task is sent before the lease is stored
MutantDispatch(c) ==
    LET d == ConnDevice[c]
        t == claim[c]
    IN  /\ pc[c] = "dispatching"
        /\ pc' = [pc EXCEPT ![c] = "serving"]
        /\ claim' = [claim EXCEPT ![c] = NoTask]
        /\ SendAgent(d, TaskDispatchMsg(t))
        /\ dispatches' = [dispatches EXCEPT ![t][d] = @ + 1]
        /\ bare' = IF t \in payload THEN bare ELSE bare \cup {<<t, d>>}
        /\ UNCHANGED <<storeVars, notify, agents, todo, previous, link, mute,
                       toServer, agentVars, faults, ran>>

\* hub.sendAgent(task_dispatch) once the lease is stored.  The asset of an
\* install or push_file task always exists: assets are never deleted.
Dispatch(c) ==
    LET d == ConnDevice[c]
        t == claim[c]
    IN  /\ pc[c] = "dispatching"
        /\ c \notin unsaved
        /\ pc' = [pc EXCEPT ![c] = "serving"]
        /\ claim' = [claim EXCEPT ![c] = NoTask]
        /\ SendAgent(d, TaskDispatchMsg(t))
        /\ dispatches' = [dispatches EXCEPT ![t][d] = @ + 1]
        /\ bare' = IF t \in payload THEN bare ELSE bare \cup {<<t, d>>}
        /\ UNCHANGED <<storeVars, notify, agents, todo, previous, link, mute,
                       toServer, agentVars, faults, ran>>

\* SetTaskStatus as called for task_started and task_result; it persists
\* only when the task is found.
SetTaskStatus(c, t, s) ==
    LET d == ConnDevice[c]
    IN  \/ /\ status[t][d] # "none"
           /\ status' = [status EXCEPT ![t][d] = s]
           /\ unsaved' = unsaved \cup {c}
        \/ /\ status[t][d] = "none"
           /\ UNCHANGED <<status, unsaved>>

HandleStarted(c) ==
    /\ Receive(c, "task_started")
    /\ SetTaskStatus(c, Head(toServer[c]).task, "running")
    /\ UNCHANGED <<payload, device, submitted, expired, disk, notify, agents,
                   handlerVars, link, mute, toAgent, agentVars, faults,
                   historyVars>>

\* Mutant: every result is taken for a success
MutantHandleResult(c) ==
    /\ Receive(c, "task_result")
    /\ SetTaskStatus(c, Head(toServer[c]).task, "success")
    /\ UNCHANGED <<payload, device, submitted, expired, disk, notify, agents,
                   handlerVars, link, mute, toAgent, agentVars, faults,
                   historyVars>>

HandleResult(c) ==
    /\ Receive(c, "task_result")
    /\ SetTaskStatus(c, Head(toServer[c]).task, Head(toServer[c]).status)
    /\ UNCHANGED <<payload, device, submitted, expired, disk, notify, agents,
                   handlerVars, link, mute, toAgent, agentVars, faults,
                   historyVars>>

\* ReadMessage fails; the deferred removeAgent.  Frames already received may
\* still have been read, or are lost now.
EndConnection(c) ==
    LET d == ConnDevice[c]
    IN  /\ Reading(c)
        /\ link[c] = "closed"
        /\ toServer' = [toServer EXCEPT ![c] = <<>>]
        /\ \/ /\ agents[d] = c
              /\ agents' = [agents EXCEPT ![d] = NoConn]
              /\ pc' = [pc EXCEPT ![c] = "removed"]
           \/ /\ agents[d] # c
              /\ pc' = [pc EXCEPT ![c] = "done"]
              /\ UNCHANGED agents
        /\ UNCHANGED <<storeVars, notify, todo, claim, previous, link, mute,
                       toAgent, agentVars, faults, historyVars>>

\* ... and, when it removed this socket, MarkOffline
MarkOffline(c) ==
    LET d == ConnDevice[c]
    IN  /\ pc[c] = "removed"
        /\ pc' = [pc EXCEPT ![c] = "offlined"]
        /\ device' = [device EXCEPT ![d] = IF @ = "absent" THEN @ ELSE "offline"]
        /\ unsaved' = unsaved \cup {c}
        /\ UNCHANGED <<status, payload, submitted, expired, disk, notify,
                       agents, todo, claim, previous, netVars, agentVars,
                       faults, historyVars>>

\* ... and MarkLeasedUnknown
MarkLeasedUnknown(c) ==
    /\ pc[c] = "offlined"
    /\ c \notin unsaved
    /\ pc' = [pc EXCEPT ![c] = "done"]
    /\ status' = MarkedUnknown(ConnDevice[c])
    /\ unsaved' = unsaved \cup {c}
    /\ UNCHANGED <<payload, device, submitted, expired, disk, notify, agents,
                   todo, claim, previous, netVars, agentVars, faults,
                   historyVars>>

-----------------------------------------------------------------------------
(* The agent *)

\* connect: dial and send agent_hello; the handshake succeeds
Connect(c) ==
    /\ agentConn[ConnDevice[c]] = NoConn
    /\ link[c] = "unused"
    /\ link' = [link EXCEPT ![c] = "open"]
    /\ pc' = [pc EXCEPT ![c] = "hello"]
    /\ agentConn' = [agentConn EXCEPT ![ConnDevice[c]] = c]
    /\ UNCHANGED <<storeVars, notify, agents, todo, claim, previous, mute,
                   toAgent, toServer, exec, faults, historyVars>>

\* handleMessage: task_available is answered with task_claim
HandleAvailable(d) ==
    LET c == agentConn[d]
    IN  /\ c # NoConn
        /\ toAgent[c] # <<>>
        /\ Head(toAgent[c]).type = "task_available"
        /\ toAgent' = [toAgent EXCEPT ![c] = Tail(@)]
        /\ WriteServer(c, [type |-> "task_claim", task |-> Head(toAgent[c]).task])
        /\ UNCHANGED <<storeVars, notify, agents, handlerVars, link, mute,
                       agentVars, faults, historyVars>>

\* handleMessage: task_dispatch starts an executeTask goroutine
HandleDispatch(d) ==
    LET c == agentConn[d]
    IN  /\ c # NoConn
        /\ toAgent[c] # <<>>
        /\ Head(toAgent[c]).type = "task_dispatch"
        /\ toAgent' = [toAgent EXCEPT ![c] = Tail(@)]
        /\ exec' = exec \cup {[conn |-> c, task |-> Head(toAgent[c]).task,
                               stage |-> "starting"]}
        /\ UNCHANGED <<storeVars, notify, agents, handlerVars, link, mute,
                       toServer, agentConn, faults, historyVars>>

\* executeTask: task_started ...
ReportStarted(e) ==
    /\ e.stage = "starting"
    /\ WriteServer(e.conn, [type |-> "task_started", task |-> e.task])
    /\ exec' = (exec \ {e}) \cup {[e EXCEPT !.stage = "running"]}
    /\ UNCHANGED <<storeVars, notify, agents, handlerVars, link, mute, toAgent,
                   agentConn, faults, historyVars>>

\* ... runTask, then task_result
ReportResult(e, outcome) ==
    /\ e.stage = "running"
    /\ WriteServer(e.conn, [type |-> "task_result", task |-> e.task,
                            status |-> outcome])
    /\ exec' = exec \ {e}
    /\ ran' = ran \cup {<<e.task, ConnDevice[e.conn], outcome>>}
    /\ UNCHANGED <<storeVars, notify, agents, handlerVars, link, mute, toAgent,
                   agentConn, faults, dispatches, bare>>

\* connect returns: the read loop of a closed socket fails
LoseConnection(d) ==
    /\ agentConn[d] # NoConn
    /\ link[agentConn[d]] = "closed"
    /\ agentConn' = [agentConn EXCEPT ![d] = NoConn]
    /\ UNCHANGED <<storeVars, notify, agents, handlerVars, netVars, exec,
                   faults, historyVars>>

-----------------------------------------------------------------------------
(* Faults *)

Fault == faults < MaxFaults /\ faults' = faults + 1

\* the network breaks a connection
BreakLink(c) ==
    /\ Fault
    /\ link[c] = "open"
    /\ link' = [link EXCEPT ![c] = "closed"]
    /\ UNCHANGED <<storeVars, notify, agents, handlerVars, mute, toAgent,
                   toServer, agentVars, historyVars>>

\* a write misses its 15 s deadline: gorilla/websocket fails every later
\* write of that end, while reads of the same socket go on
StallWrites(c, end) ==
    /\ Fault
    /\ Writable(c, end)
    /\ mute' = mute \cup {<<c, end>>}
    /\ UNCHANGED <<storeVars, notify, agents, handlerVars, link, toAgent,
                   toServer, agentVars, historyVars>>

\* the agent process dies and is started again
AgentCrash(d) ==
    /\ Fault
    /\ agentConn[d] # NoConn
    /\ agentConn' = [agentConn EXCEPT ![d] = NoConn]
    /\ exec' = {e \in exec : ConnDevice[e.conn] # d}
    /\ link' = [link EXCEPT ![agentConn[d]] = "closed"]
    /\ UNCHANGED <<storeVars, notify, agents, handlerVars, mute, toAgent,
                   toServer, historyVars>>

\* the control plane dies and is started again: load reads the document
\* back, the hub starts empty.  The document has no Payload (json:"-").
ServerRestart ==
    /\ Fault
    /\ status' = disk.status
    /\ device' = disk.device
    /\ payload' = {}
    /\ unsaved' = {}
    /\ notify' = [t \in Task |-> {}]
    /\ agents' = [d \in Device |-> NoConn]
    /\ pc' = [c \in Conn |-> IF pc[c] = "idle" THEN "idle" ELSE "done"]
    /\ todo' = [c \in Conn |-> {}]
    /\ claim' = [c \in Conn |-> NoTask]
    /\ previous' = [c \in Conn |-> NoConn]
    /\ link' = [c \in Conn |-> IF link[c] = "open" THEN "closed" ELSE link[c]]
    /\ toServer' = [c \in Conn |-> <<>>]
    /\ UNCHANGED <<submitted, expired, disk, mute, toAgent, agentVars,
                   historyVars>>

-----------------------------------------------------------------------------
Handler(c) ==
    \/ UpsertAgentDevice(c) \/ SetAgent(c) \/ ClosePrevious(c) \/ ListPending(c)
    \/ \E t \in Task : Announce(c, t)
    \/ HandleClaim(c) \/ RefuseClaim(c) \/ Dispatch(c)
    \/ HandleStarted(c) \/ HandleResult(c)
    \/ EndConnection(c) \/ MarkOffline(c) \/ MarkLeasedUnknown(c)

Agent(d) ==
    \/ HandleAvailable(d) \/ HandleDispatch(d) \/ LoseConnection(d)

Execute(e) ==
    \/ ReportStarted(e)
    \/ \E outcome \in Outcome : ReportResult(e, outcome)

Next ==
    \/ \E g \in Goroutine : Persist(g)
    \/ \E t \in Task, targets \in SUBSET Device : CreateTask(t, targets)
    \/ \E t \in Task, d \in Device : NotifyTask(t, d)
    \/ \E t \in Task : Expire(t)
    \/ Clean
    \/ \E d \in Device : DeleteOfflineDevice(d)
    \/ \E c \in Conn : Handler(c)
    \/ \E c \in Conn : Connect(c)
    \/ \E c \in Conn : Heartbeat(c)
    \/ \E d \in Device : Agent(d)
    \/ \E e \in exec : Execute(e)
    \/ \E c \in Conn : BreakLink(c)
    \/ \E c \in Conn, end \in {"server", "agent"} : StallWrites(c, end)
    \/ \E d \in Device : AgentCrash(d)
    \/ ServerRestart

Spec == Init /\ [][Next]_vars

\* Fairness, per goroutine: a handler, a createTask, the janitor, an agent's
\* read loop and its heartbeat ticker run when they can, and TCP reports a
\* dead peer (EndConnection, LoseConnection).  A message waits for the heartbeats
\* before it and their writes, not for those after it: hence the strong fairness
\* of Handler.  Faults, users, the clock, a new dial and the end of a task's own
\* run are not promised.
Fairness ==
    /\ \A c \in Conn : WF_vars(Persist(c)) /\ SF_vars(Handler(c))
    /\ \A c \in Conn : WF_vars(Writable(c, "agent") /\ Heartbeat(c))
    /\ \A t \in Task : WF_vars(Persist(t) \/ \E d \in Device : NotifyTask(t, d))
    /\ WF_vars(Persist(Janitor) \/ Clean)
    /\ \A d \in Device : WF_vars(Agent(d))

FairSpec == Spec /\ Fairness

-----------------------------------------------------------------------------
(* Safety *)

\* A batch task is handed to a device at most once, whatever reconnects,
\* late claims of a replaced connection and control-plane restarts do in
\* between: ClaimTask leases only from "queued", and the lease is in the
\* database before sendAgent.
AtMostOnceDispatch ==
    \A t \in Task, d \in Device : dispatches[t][d] <= 1

\* A task the store still calls queued (so that it will be offered again) or
\* reports as expired was never handed to the device - in memory, and in the
\* document a restart would load.
UndispatchedWhenQueued ==
    \A t \in Task, d \in Device :
        \/ status[t][d] \in {"queued", "expired"}
        \/ disk.status[t][d] \in {"queued", "expired"}
        => dispatches[t][d] = 0

\* What the store reports as success or failed is what the agent's run
\* really returned, in memory and in the state document: no status is made up by
\* expiry, disconnect or restart, and the document never runs ahead of the store.
OutcomeIsReal ==
    \A t \in Task, d \in Device : \A s \in {status[t][d], disk.status[t][d]} :
        s \in Outcome => <<t, d, s>> \in ran

\* A finished task stays finished with the same outcome: neither a late
\* task_started, nor the disconnect handling of another connection, nor the
\* janitor overwrites it.  Only a restart can (it may load an older document).
OutcomeStable ==
    [][\A t \in Task, d \in Device :
        status[t][d] \in Outcome =>
            \/ status'[t][d] = status[t][d]
            \/ ServerRestart]_vars

\* A replaced connection does not stay: an open socket that entered the hub is
\* either the one the hub routes to, or some handler of the same device has
\* replaced it and still holds it, to close it before it goes on.  Between
\* setAgent and previous.close() both are open, and handlers may replace each
\* other meanwhile.
OneOpenAgentSocket ==
    \A c \in Conn :
        /\ pc[c] \in {"replacing", "listing", "serving", "dispatching"}
        /\ link[c] = "open"
        => \/ agents[ConnDevice[c]] = c
           \/ \E b \in Conn : /\ ConnDevice[b] = ConnDevice[c]
                             /\ pc[b] = "replacing"
                             /\ previous[b] = c

-----------------------------------------------------------------------------
(* The inductive strengthening of AtMostOnceDispatch *)

\* A task identifier not yet drawn is in no map and was never handed out.
FreshTasks ==
    \A t \in Task \ submitted, d \in Device :
        /\ status[t][d] = "none"
        /\ disk.status[t][d] = "none"
        /\ dispatches[t][d] = 0

\* A handler between lease and dispatch holds a task that was not handed out
\* yet and that no store, in memory or - once it has persisted - on disk,
\* will offer again.
ClaimHeld ==
    \A c \in Conn :
        pc[c] = "dispatching" =>
            /\ dispatches[claim[c]][ConnDevice[c]] = 0
            /\ status[claim[c]][ConnDevice[c]] \notin {"none", "queued", "expired"}
            /\ c \notin unsaved =>
                 disk.status[claim[c]][ConnDevice[c]] \notin {"queued", "expired"}

\* Two handlers never hold the same task of one device.
ClaimExclusive ==
    \A c, b \in Conn :
        /\ pc[c] = "dispatching" /\ pc[b] = "dispatching"
        /\ claim[c] = claim[b] /\ ConnDevice[c] = ConnDevice[b]
        => c = b

DispatchParts ==
    /\ FreshTasks
    /\ ClaimHeld
    /\ ClaimExclusive
    /\ UndispatchedWhenQueued
    /\ AtMostOnceDispatch

\* The inductive invariant: a lease in a handler's hands is exclusive, stored
\* before it is sent, and its task is offered to nobody else.
DispatchInv == TypeOK /\ DispatchParts

-----------------------------------------------------------------------------
(* Liveness *)

\* The agent of d is, and stays, the one the hub routes to, on a socket that
\* works in both directions.
Connected(d) ==
    /\ agentConn[d] # NoConn
    /\ agents[d] = agentConn[d]
    /\ Writable(agentConn[d], "server")
    /\ Writable(agentConn[d], "agent")

\* No lost wake-up: a queued task of a device whose agent stays connected is
\* leased or expires.  createTask stores before it notifies and registerAgent
\* enters the hub before it lists, so one of the two announces it.
QueuedTaskIsTaken ==
    \A t \in Task, d \in Device :
        <>[]Connected(d) => (status[t][d] = "queued" ~> status[t][d] # "queued")

\* A task past its TTL does not stay queued: the janitor expires it.
ExpiredTaskLeavesQueue ==
    \A t \in Task, d \in Device :
        t \in expired /\ status[t][d] = "queued" ~> status[t][d] # "queued"

\* When a device's agent stays connected and nobody deletes the device, it
\* ends up shown online, whatever an older connection's handler wrote: the
\* heartbeat repairs it.
ConnectedIsShownOnline ==
    \A d \in Device :
        <>[](Connected(d) /\ device[d] # "absent") => <>[](device[d] = "online")

-----------------------------------------------------------------------------
(* What the repository claims and the code does not do *)

\* TestReplacedAgentDoesNotMarkNewConnectionOffline: the handler of an old
\* connection does not mark the device offline under its replacement.
ReplacedAgentKeepsPresence ==
    [][\A c \in Conn :
        pc[c] = "removed" /\ pc'[c] = "offlined"
            => agents[ConnDevice[c]] = NoConn]_vars

\* "durable, restart-safe state": every dispatch carries the payload that
\* was submitted.
DispatchCarriesPayload == bare = {}
=============================================================================
