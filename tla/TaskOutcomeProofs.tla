------------------------- MODULE TaskOutcomeProofs --------------------------
(***************************************************************************)
(* Outcomes of batch tasks, for every number of tasks, devices,            *)
(* connections and faults: what is reported really happened, it stays      *)
(* reported, and TaskDispatch implements TaskLifecycle.                    *)
(*                                                                         *)
(* The argument follows one token per task and device: the lease in a      *)
(* handler's hands, then the task_dispatch on its way, then the goroutine  *)
(* that executes it, then its reports.  There is never a second token, and *)
(* while there is one the store says that the task was given away and is   *)
(* not finished.  With failing writes a restart may hand a task out again; *)
(* then only what can still reach the server counts as a token.            *)
(***************************************************************************)
EXTENDS TaskRefinement, TaskDispatchProofs

\* leased, and not known to be finished
Given == {"leased", "running", "unknown"}

ReportType == {"task_started", "task_result"}
Kind == {"lease", "dispatch", "starting", "running"}

\* Can what happens on connection c still reach the server?  When no write
\* fails, a task is handed out once, and all connections count.
Effective(c) == link[c] = "open" \/ DbMayFail = FALSE

\* Message i to the agent of connection c hands task t over.
Sent(c, t, i) ==
    /\ i \in 1..Len(toAgent[c])
    /\ toAgent[c][i].type = "task_dispatch" /\ toAgent[c][i].task = t

\* The token of task t is at connection c: kind says in which form, i is the
\* position of a message.
Held(c, t, kind, i) ==
    \/ kind = "lease" /\ i = 0 /\ pc[c] = "dispatching" /\ claim[c] = t
    \/ kind = "dispatch" /\ Effective(c) /\ Sent(c, t, i)
    \/ /\ kind \in {"starting", "running"} /\ i = 0 /\ Effective(c)
       /\ [conn |-> c, task |-> t, stage |-> kind] \in exec

\* Message i from the agent of connection c is a report on task t.
Reported(c, t, type, i) ==
    /\ i \in 1..Len(toServer[c])
    /\ toServer[c][i].type = type /\ toServer[c][i].task = t

\* A task has one token on a device, in one place.
OneToken ==
    \A t \in Task, b, c \in Conn, k, l \in Kind, i, j \in Nat :
        ConnDevice[b] = ConnDevice[c] /\ Held(b, t, k, i) /\ Held(c, t, l, j)
            => b = c /\ k = l /\ i = j

\* A task that reported its result has no token any more; one that reported its
\* start is running on the same connection.
ReportsComeLast ==
    \A t \in Task, b, c \in Conn, k \in Kind, i, j \in Nat, r \in ReportType :
        ConnDevice[b] = ConnDevice[c] /\ Held(b, t, k, i) /\ Reported(c, t, r, j)
            => b = c /\ k = "running" /\ r = "task_started"

\* The reports on a task are on one connection, each once, the start first.
ReportsInOrder ==
    \A t \in Task, b, c \in Conn, i, j \in Nat, r, q \in ReportType :
        ConnDevice[b] = ConnDevice[c] /\ Reported(b, t, r, i) /\ Reported(c, t, q, j)
            => /\ b = c
               /\ r = q => i = j
               /\ r = "task_started" /\ q = "task_result" => i < j

\* While a task has a token or a report under way, the store calls it given away
\* and unfinished.
TokenIsGiven ==
    \A t \in Task, c \in Conn, i \in Nat :
        \/ \E k \in Kind : Held(c, t, k, i)
        \/ \E r \in ReportType : Reported(c, t, r, i)
        => status[t][ConnDevice[c]] \in Given

\* When no write fails: what has a token has not ended before ...
TokenHasNotRun ==
    DbMayFail = FALSE =>
        \A t \in Task, c \in Conn, k \in Kind, i \in Nat, o \in Outcome :
            Held(c, t, k, i) => <<t, ConnDevice[c], o>> \notin ran

\* ... and what is on its way to, on, or back from a device was handed to it.
TokenWasHanded ==
    DbMayFail = FALSE =>
        \A t \in Task, c \in Conn, i \in Nat :
            \/ \E k \in Kind : k # "lease" /\ Held(c, t, k, i)
            \/ \E r \in ReportType : Reported(c, t, r, i)
            => dispatches[t][ConnDevice[c]] > 0

\* ... as was what has run.
RunWasHanded ==
    DbMayFail = FALSE =>
        \A t \in Task, d \in Device, o \in Outcome :
            <<t, d, o>> \in ran => dispatches[t][d] > 0

TokenParts ==
    /\ OneToken
    /\ ReportsComeLast
    /\ ReportsInOrder
    /\ TokenIsGiven
    /\ TokenHasNotRun
    /\ TokenWasHanded
    /\ RunWasHanded

-----------------------------------------------------------------------------
(* What the tokens rest on *)

\* An identifier that was not drawn yet is in no store.
FreshStore ==
    \A t \in Task \ submitted, d \in Device :
        status[t][d] = "none" /\ disk.status[t][d] = "none"

\* The hub routes to a socket of the device; a connection that was not dialled
\* carries nothing.
Wiring ==
    /\ \A d \in Device : agents[d] # NoConn => ConnDevice[agents[d]] = d
    /\ \A c \in Conn : link[c] = "unused" =>
          toAgent[c] = <<>> /\ \A e \in exec : e.conn # c

\* When no write fails, a task that was handed out, or whose lease is stored,
\* is in the document.
HandedIsStored ==
    DbMayFail = FALSE =>
        /\ \A t \in Task, d \in Device : dispatches[t][d] > 0 =>
              status[t][d] # "none" /\ disk.status[t][d] # "none"
        /\ \A c \in Conn : pc[c] = "dispatching" /\ c \notin unsaved =>
              disk.status[claim[c]][ConnDevice[c]] # "none"

\* A result on its way to the server is one the agent's run returned.
ResultsAreReal ==
    \A c \in Conn, t \in Task, i \in Nat :
        Reported(c, t, "task_result", i) =>
            <<t, ConnDevice[c], toServer[c][i].status>> \in ran

-----------------------------------------------------------------------------
\* A step that makes no token and no report, but may move messages forward,
\* keeps the invariant, if it does not take back a task that is given away.
LEMMA NoNewToken ==
    ASSUME TokenParts,
           NEW n \in [Conn -> Nat], NEW m \in [Conn -> Nat],
           \A c \in Conn, t \in Task, k \in Kind, i \in Nat :
               Held(c, t, k, i)' =>
                   IF k = "dispatch" THEN Held(c, t, k, i + n[c]) ELSE Held(c, t, k, i),
           \A c \in Conn, t \in Task, r \in ReportType, i \in Nat :
               Reported(c, t, r, i)' => Reported(c, t, r, i + m[c]),
           \A c \in Conn, t \in Task, i \in Nat :
               \/ \E k \in Kind : Held(c, t, k, i)'
               \/ \E r \in ReportType : Reported(c, t, r, i)'
               => (status[t][ConnDevice[c]] \in Given => status'[t][ConnDevice[c]] \in Given),
           UNCHANGED <<ran, dispatches>>
    PROVE  TokenParts'
<1>1. OneToken'
  BY DEF TokenParts, OneToken
<1>2. ReportsComeLast'
  BY DEF TokenParts, ReportsComeLast
<1>3. ReportsInOrder'
  BY DEF TokenParts, ReportsInOrder
<1>4. TokenIsGiven'
  BY DEF TokenParts, TokenIsGiven
<1>5. TokenHasNotRun'
  BY DEF TokenParts, TokenHasNotRun
<1>6. TokenWasHanded'
  BY DEF TokenParts, TokenWasHanded
<1>7. RunWasHanded'
  BY DEF TokenParts, RunWasHanded
<1> QED
  BY <1>1, <1>2, <1>3, <1>4, <1>5, <1>6, <1>7 DEF TokenParts

\* The step moves the token of task u to place (b, l, p); at most its start, at
\* place q, has been reported.  Other messages may move forward, by n and m.
NewTokenAt(n, m, b, u, l, p, q) ==
    /\ \A c \in Conn, t \in Task, k \in Kind, i \in Nat :
           Held(c, t, k, i)' /\ (t # u \/ ConnDevice[c] # ConnDevice[b]) =>
               IF k = "dispatch" THEN Held(c, t, k, i + n[c]) ELSE Held(c, t, k, i)
    /\ \A c \in Conn, k \in Kind, i \in Nat :
           Held(c, u, k, i)' /\ ConnDevice[c] = ConnDevice[b] => c = b /\ k = l /\ i = p
    /\ \A c \in Conn, t \in Task, r \in ReportType, i \in Nat :
           Reported(c, t, r, i)' /\ (t # u \/ ConnDevice[c] # ConnDevice[b]) =>
               Reported(c, t, r, i + m[c])
    /\ \A c \in Conn, r \in ReportType, i \in Nat :
           Reported(c, u, r, i)' /\ ConnDevice[c] = ConnDevice[b] =>
               c = b /\ l = "running" /\ r = "task_started" /\ i = q
    /\ \A t \in Task, d \in Device : status[t][d] \in Given => status'[t][d] \in Given
    /\ status'[u][ConnDevice[b]] \in Given
    /\ DbMayFail = FALSE =>
           /\ \A o \in Outcome : <<u, ConnDevice[b], o>> \notin ran
           /\ l # "lease" => dispatches'[u][ConnDevice[b]] > 0
           /\ \A t \in Task, d \in Device : dispatches[t][d] > 0 => dispatches'[t][d] > 0
    /\ UNCHANGED ran

\* Such a step keeps the invariant.
LEMMA OneNewToken ==
    ASSUME TokenParts,
           NEW n \in [Conn -> Nat], NEW m \in [Conn -> Nat],
           NEW b \in Conn, NEW u \in Task, NEW l \in Kind, NEW p \in Nat, NEW q \in Nat,
           NewTokenAt(n, m, b, u, l, p, q)
    PROVE  TokenParts'
<1> USE DEF NewTokenAt
<1> USE ConnAssumption
<1>1. OneToken'
  <2> SUFFICES ASSUME NEW t \in Task, NEW c \in Conn, NEW e \in Conn,
                      NEW k \in Kind, NEW h \in Kind, NEW i \in Nat, NEW j \in Nat,
                      ConnDevice[c] = ConnDevice[e], Held(c, t, k, i)', Held(e, t, h, j)'
               PROVE  c = e /\ k = h /\ i = j
    BY DEF OneToken
  <2>1. CASE t = u /\ ConnDevice[c] = ConnDevice[b]
    BY <2>1
  <2>2. CASE t # u \/ ConnDevice[c] # ConnDevice[b]
    <3>1. /\ IF k = "dispatch" THEN Held(c, t, k, i + n[c]) ELSE Held(c, t, k, i)
          /\ IF h = "dispatch" THEN Held(e, t, h, j + n[e]) ELSE Held(e, t, h, j)
      BY <2>2
    <3> QED
      BY <3>1 DEF TokenParts, OneToken
  <2> QED
    BY <2>1, <2>2
<1>2. ReportsComeLast'
  <2> SUFFICES ASSUME NEW t \in Task, NEW c \in Conn, NEW e \in Conn,
                      NEW k \in Kind, NEW i \in Nat, NEW j \in Nat, NEW r \in ReportType,
                      ConnDevice[c] = ConnDevice[e], Held(c, t, k, i)', Reported(e, t, r, j)'
               PROVE  c = e /\ k = "running" /\ r = "task_started"
    BY DEF ReportsComeLast
  <2>1. CASE t = u /\ ConnDevice[c] = ConnDevice[b]
    BY <2>1
  <2>2. CASE t # u \/ ConnDevice[c] # ConnDevice[b]
    <3>1. /\ IF k = "dispatch" THEN Held(c, t, k, i + n[c]) ELSE Held(c, t, k, i)
          /\ Reported(e, t, r, j + m[e])
      BY <2>2
    <3> QED
      BY <3>1 DEF TokenParts, ReportsComeLast
  <2> QED
    BY <2>1, <2>2
<1>3. ReportsInOrder'
  <2> SUFFICES ASSUME NEW t \in Task, NEW c \in Conn, NEW e \in Conn,
                      NEW i \in Nat, NEW j \in Nat, NEW r \in ReportType, NEW s \in ReportType,
                      ConnDevice[c] = ConnDevice[e], Reported(c, t, r, i)', Reported(e, t, s, j)'
               PROVE  /\ c = e
                      /\ r = s => i = j
                      /\ r = "task_started" /\ s = "task_result" => i < j
    BY DEF ReportsInOrder
  <2>1. CASE t = u /\ ConnDevice[c] = ConnDevice[b]
    BY <2>1
  <2>2. CASE t # u \/ ConnDevice[c] # ConnDevice[b]
    <3>1. Reported(c, t, r, i + m[c]) /\ Reported(e, t, s, j + m[e])
      BY <2>2
    <3> QED
      BY <3>1 DEF TokenParts, ReportsInOrder
  <2> QED
    BY <2>1, <2>2
<1>4. TokenIsGiven'
  BY DEF TokenParts, TokenIsGiven
<1>5. TokenHasNotRun'
  BY DEF TokenParts, TokenHasNotRun
<1>6. TokenWasHanded'
  BY DEF TokenParts, TokenWasHanded
<1>7. RunWasHanded'
  BY DEF TokenParts, RunWasHanded
<1> QED
  BY <1>1, <1>2, <1>3, <1>4, <1>5, <1>6, <1>7 DEF TokenParts

\* Where the elements of a queue are after its head was taken ...
LEMMA TailAt ==
    ASSUME NEW S, NEW s \in Seq(S), s # <<>>, NEW i \in 1..Len(Tail(s))
    PROVE  i + 1 \in 1..Len(s) /\ Tail(s)[i] = s[i + 1]
  OBVIOUS

\* ... and after a message was appended.
LEMMA AppendAt ==
    ASSUME NEW S, NEW s \in Seq(S), NEW m \in S, NEW i \in 1..Len(Append(s, m))
    PROVE  \/ i \in 1..Len(s) /\ Append(s, m)[i] = s[i]
           \/ i = Len(s) + 1 /\ Append(s, m)[i] = m
  OBVIOUS

\* Receiving moves the reports of one connection one place forward.
LEMMA ReportedAfterReceive ==
    ASSUME TypeOK, NEW b \in Conn, NEW type, Receive(b, type),
           NEW c \in Conn, NEW t \in Task, NEW r \in ReportType, NEW i \in Nat,
           Reported(c, t, r, i)'
    PROVE  \/ c # b /\ Reported(c, t, r, i) /\ toServer'[c][i] = toServer[c][i]
           \/ c = b /\ Reported(c, t, r, i + 1) /\ toServer'[c][i] = toServer[c][i + 1]
<1>1. /\ toServer[b] \in Seq(ToServerMsg) /\ toServer \in [Conn -> Seq(ToServerMsg)]
      /\ toServer[b] # <<>> /\ toServer' = [toServer EXCEPT ![b] = Tail(@)]
  BY DEF TypeOK, Receive
<1>2. CASE c # b
  BY <1>1, <1>2 DEF Reported
<1>3. CASE c = b
  <2>1. toServer'[c] = Tail(toServer[b])
    BY <1>1, <1>3
  <2>2. i \in 1..Len(Tail(toServer[b]))
    BY <2>1 DEF Reported
  <2>3. i + 1 \in 1..Len(toServer[b]) /\ Tail(toServer[b])[i] = toServer[b][i + 1]
    BY <1>1, <2>2, TailAt
  <2> QED
    BY <1>3, <2>1, <2>3 DEF Reported
<1> QED
  BY <1>2, <1>3

\* The agent's write adds at most its message, at the end, while the link is open.
LEMMA ReportedAfterWrite ==
    ASSUME TypeOK, NEW b \in Conn, NEW msg \in ToServerMsg, WriteServer(b, msg),
           NEW c \in Conn, NEW t \in Task, NEW r \in ReportType, NEW i \in Nat,
           Reported(c, t, r, i)'
    PROVE  \/ Reported(c, t, r, i) /\ toServer'[c][i] = toServer[c][i]
           \/ /\ c = b /\ link[b] = "open" /\ i = Len(toServer[b]) + 1
              /\ toServer'[c][i] = msg /\ msg.type = r /\ msg.task = t
<1>1. toServer[b] \in Seq(ToServerMsg) /\ toServer \in [Conn -> Seq(ToServerMsg)]
  BY DEF TypeOK
<1>2. CASE toServer' = toServer
  BY <1>2 DEF Reported
<1>3. CASE /\ link[b] = "open"
           /\ toServer' = [toServer EXCEPT ![b] = Append(@, msg)]
  <2>1. CASE c # b
    BY <1>1, <1>3, <2>1 DEF Reported
  <2>2. CASE c = b
    <3>1. toServer'[c] = Append(toServer[b], msg)
      BY <1>1, <1>3, <2>2
    <3>2. i \in 1..Len(Append(toServer[b], msg))
      BY <3>1 DEF Reported
    <3>3. \/ i \in 1..Len(toServer[b]) /\ Append(toServer[b], msg)[i] = toServer[b][i]
          \/ i = Len(toServer[b]) + 1 /\ Append(toServer[b], msg)[i] = msg
      BY <1>1, <3>2, AppendAt
    <3> QED
      BY <1>3, <2>2, <3>1, <3>3 DEF Reported
  <2> QED
    BY <2>1, <2>2
<1> QED
  BY <1>2, <1>3 DEF WriteServer, Writable

\* The agent takes the next message of connection b.
AgentReads(b) ==
    toAgent[b] # <<>> /\ toAgent' = [toAgent EXCEPT ![b] = Tail(@)]

\* Reading moves what is on its way to an agent one place forward.
LEMMA SentAfterRead ==
    ASSUME TypeOK, NEW b \in Conn, AgentReads(b),
           NEW c \in Conn, NEW t \in Task, NEW i \in Nat, Sent(c, t, i)'
    PROVE  (c # b /\ Sent(c, t, i)) \/ (c = b /\ Sent(c, t, i + 1))
<1>1. /\ toAgent[b] \in Seq(ToAgentMsg) /\ toAgent \in [Conn -> Seq(ToAgentMsg)]
      /\ toAgent[b] # <<>> /\ toAgent' = [toAgent EXCEPT ![b] = Tail(@)]
  BY DEF TypeOK, AgentReads
<1>2. CASE c # b
  BY <1>1, <1>2 DEF Sent
<1>3. CASE c = b
  <2>1. toAgent'[c] = Tail(toAgent[b])
    BY <1>1, <1>3
  <2>2. i \in 1..Len(Tail(toAgent[b]))
    BY <2>1 DEF Sent
  <2>3. i + 1 \in 1..Len(toAgent[b]) /\ Tail(toAgent[b])[i] = toAgent[b][i + 1]
    BY <1>1, <2>2, TailAt
  <2> QED
    BY <1>3, <2>1, <2>3 DEF Sent
<1> QED
  BY <1>2, <1>3

\* The server's write adds at most its message, at the end, while the link is open.
LEMMA SentAfterWrite ==
    ASSUME TypeOK, NEW b \in Conn, NEW msg \in ToAgentMsg, WriteAgent(b, msg),
           NEW c \in Conn, NEW t \in Task, NEW i \in Nat, Sent(c, t, i)'
    PROVE  \/ Sent(c, t, i)
           \/ /\ c = b /\ link[b] = "open" /\ i = Len(toAgent[b]) + 1
              /\ msg.type = "task_dispatch" /\ msg.task = t
<1>1. toAgent[b] \in Seq(ToAgentMsg) /\ toAgent \in [Conn -> Seq(ToAgentMsg)]
  BY DEF TypeOK
<1>2. CASE toAgent' = toAgent
  BY <1>2 DEF Sent
<1>3. CASE /\ link[b] = "open"
           /\ toAgent' = [toAgent EXCEPT ![b] = Append(@, msg)]
  <2>1. CASE c # b
    BY <1>1, <1>3, <2>1 DEF Sent
  <2>2. CASE c = b
    <3>1. toAgent'[c] = Append(toAgent[b], msg)
      BY <1>1, <1>3, <2>2
    <3>2. i \in 1..Len(Append(toAgent[b], msg))
      BY <3>1 DEF Sent
    <3>3. \/ i \in 1..Len(toAgent[b]) /\ Append(toAgent[b], msg)[i] = toAgent[b][i]
          \/ i = Len(toAgent[b]) + 1 /\ Append(toAgent[b], msg)[i] = msg
      BY <1>1, <3>2, AppendAt
    <3> QED
      BY <1>3, <2>2, <3>1, <3>3 DEF Sent
  <2> QED
    BY <2>1, <2>2
<1> QED
  BY <1>2, <1>3 DEF WriteAgent, Writable

-----------------------------------------------------------------------------
(* One open socket *)

\* A connection that was not dialled has no handler.
NotDialled == \A c \in Conn : link[c] = "unused" => pc[c] = "idle"

\* Every step keeps it.
LEMMA StepDialled ==
    ASSUME TypeOK, NotDialled, [Next]_vars
    PROVE  NotDialled'
<1> USE ConnAssumption
<1> USE DEF TypeOK, NotDialled, storeVars, handlerVars, netVars, agentVars, historyVars
<1>1. ASSUME NEW c \in Conn, Handler(c) PROVE NotDialled'
  <2>1. \A x \in Conn : /\ link'[x] = "unused" => link[x] = "unused"
                        /\ pc'[x] = pc[x] \/ x = c
    BY <1>1 DEF Handler, UpsertAgentDevice, SetAgent, ClosePrevious, ListPending, Announce,
       HandleClaim, RefuseClaim, Dispatch, HandleStarted, HandleResult, EndConnection,
       MarkOffline, MarkLeasedUnknown
  <2>2. pc[c] # "idle"
    BY <1>1 DEF Handler, UpsertAgentDevice, SetAgent, ClosePrevious, ListPending, Announce,
       HandleClaim, RefuseClaim, Dispatch, HandleStarted, HandleResult, EndConnection,
       MarkOffline, MarkLeasedUnknown, Receive, Reading
  <2> QED
    BY <2>1, <2>2
<1>2. ASSUME NEW c \in Conn, Connect(c) \/ BreakLink(c) PROVE NotDialled'
  BY <1>2 DEF Connect, BreakLink
<1>3. ASSUME NEW d \in Device, AgentCrash(d) PROVE NotDialled'
  BY <1>3 DEF AgentCrash
<1>4. CASE ServerRestart
  BY <1>4 DEF ServerRestart
<1>5. CASE UNCHANGED <<pc, link>>
  BY <1>5
<1> QED
  BY <1>1, <1>2, <1>3, <1>4, <1>5
     DEF Next, Persist, CreateTask, NotifyTask, Expire, Clean, DeleteOfflineDevice, Heartbeat,
         Agent, HandleAvailable, HandleDispatch, LoseConnection, Execute, ReportStarted,
         ReportResult, StallWrites, vars

\* The handler that replaces a socket keeps it until it has closed it, and
\* removeAgent forgets only its own.
LEMMA StepSocket ==
    ASSUME TypeOK, NotDialled, OneOpenAgentSocket, [Next]_vars
    PROVE  OneOpenAgentSocket'
<1> USE ConnAssumption
<1> USE DEF TypeOK, OneOpenAgentSocket, storeVars, handlerVars, netVars, agentVars,
            historyVars
<1> DEFINE InHub(c) == pc[c] \in {"replacing", "listing", "serving", "dispatching"}
           Replaced(c) == \E b \in Conn : /\ ConnDevice[b] = ConnDevice[c]
                                          /\ pc[b] = "replacing" /\ previous[b] = c
<1>1. ASSUME agents' = agents, previous' = previous,
             \A x \in Conn : pc[x] = "replacing" => pc'[x] = "replacing",
             \A x \in Conn : InHub(x)' /\ link'[x] = "open" => InHub(x) /\ link[x] = "open"
      PROVE OneOpenAgentSocket'
  <2> SUFFICES ASSUME NEW x \in Conn, link'[x] = "open", InHub(x)'
               PROVE  agents'[ConnDevice[x]] = x \/ Replaced(x)'
    OBVIOUS
  <2>1. agents[ConnDevice[x]] = x \/ Replaced(x)
    BY <1>1
  <2> QED
    BY <1>1, <2>1
<1>2. ASSUME NEW c \in Conn, SetAgent(c) PROVE OneOpenAgentSocket'
  <2> SUFFICES ASSUME NEW x \in Conn, link'[x] = "open", InHub(x)'
               PROVE  agents'[ConnDevice[x]] = x \/ Replaced(x)'
    OBVIOUS
  <2>1. CASE x = c
    BY <1>2, <2>1 DEF SetAgent
  <2>2. CASE x # c /\ agents[ConnDevice[x]] = x
    BY <1>2, <2>2 DEF SetAgent
  <2>3. CASE x # c /\ agents[ConnDevice[x]] # x
    <3>1. PICK b \in Conn : /\ ConnDevice[b] = ConnDevice[x]
                           /\ pc[b] = "replacing" /\ previous[b] = x
      BY <1>2, <2>3 DEF SetAgent
    <3> QED
      BY <1>2, <3>1 DEF SetAgent
  <2> QED
    BY <2>1, <2>2, <2>3
<1>3. ASSUME NEW c \in Conn, ClosePrevious(c) PROVE OneOpenAgentSocket'
  <2> SUFFICES ASSUME NEW x \in Conn, link'[x] = "open", InHub(x)'
               PROVE  agents'[ConnDevice[x]] = x \/ Replaced(x)'
    OBVIOUS
  <2>1. agents' = agents /\ x # previous[c] /\ link[x] = "open" /\ InHub(x)
    BY <1>3 DEF ClosePrevious
  <2>2. CASE agents[ConnDevice[x]] # x
    <3>1. PICK b \in Conn : /\ ConnDevice[b] = ConnDevice[x]
                           /\ pc[b] = "replacing" /\ previous[b] = x
      BY <2>1, <2>2
    <3> QED
      BY <1>3, <2>1, <3>1 DEF ClosePrevious
  <2> QED
    BY <2>1, <2>2
<1>4. ASSUME NEW c \in Conn, EndConnection(c) PROVE OneOpenAgentSocket'
  <2> SUFFICES ASSUME NEW x \in Conn, link'[x] = "open", InHub(x)'
               PROVE  agents'[ConnDevice[x]] = x \/ Replaced(x)'
    OBVIOUS
  <2>1. /\ x # c /\ link[x] = "open" /\ InHub(x) /\ previous' = previous
        /\ agents[ConnDevice[x]] = x => agents'[ConnDevice[x]] = x
        /\ \A b \in Conn : pc[b] = "replacing" => pc'[b] = "replacing"
    BY <1>4 DEF EndConnection, Reading
  <2>2. agents[ConnDevice[x]] = x \/ Replaced(x)
    BY <2>1
  <2> QED
    BY <2>1, <2>2
<1>5. ASSUME NEW c \in Conn, Handler(c) PROVE OneOpenAgentSocket'
  BY <1>1, <1>2, <1>3, <1>4, <1>5 DEF Handler, UpsertAgentDevice, ListPending, Announce,
     HandleClaim, RefuseClaim, Dispatch, HandleStarted, HandleResult, MarkOffline,
     MarkLeasedUnknown, Reading, Receive
<1>6. ASSUME NEW c \in Conn, Connect(c) \/ BreakLink(c) PROVE OneOpenAgentSocket'
  <2>1. /\ agents' = agents /\ previous' = previous
        /\ \A x \in Conn : link'[x] = "open" /\ link[x] # "open" => pc'[x] = "hello"
        /\ \A x \in Conn : pc'[x] = pc[x] \/ (pc'[x] = "hello" /\ pc[x] = "idle")
    BY <1>6 DEF Connect, BreakLink, NotDialled
  <2> QED
    BY <1>1, <2>1
<1>7. ASSUME NEW d \in Device, AgentCrash(d) PROVE OneOpenAgentSocket'
  BY <1>1, <1>7 DEF AgentCrash
<1>8. CASE ServerRestart
  BY <1>8 DEF ServerRestart
<1>9. CASE UNCHANGED <<pc, previous, link, agents>>
  BY <1>1, <1>9
<1> QED
  BY <1>5, <1>6, <1>7, <1>8, <1>9
     DEF Next, Persist, CreateTask, NotifyTask, Expire, Clean, DeleteOfflineDevice, Heartbeat,
         Agent, HandleAvailable, HandleDispatch, LoseConnection, Execute, ReportStarted,
         ReportResult, StallWrites, vars

-----------------------------------------------------------------------------
(* The document and the sockets *)

\* SetTaskStatus changes one status, of a task that is found.
LEMMA SetTaskStatusAt ==
    ASSUME TypeOK, NEW c \in Conn, NEW t \in Task, NEW s, SetTaskStatus(c, t, s)
    PROVE  \A u \in Task, e \in Device :
               status'[u][e] = IF u = t /\ e = ConnDevice[c] /\ status[u][e] # "none"
                               THEN s ELSE status[u][e]
  BY ConnAssumption DEF TypeOK, SetTaskStatus

\* ClaimTask leases one task to one device.
LEMMA LeaseAt ==
    ASSUME TypeOK, NEW c \in Conn, NEW t \in Task,
           status' = [status EXCEPT ![t][ConnDevice[c]] = "leased"]
    PROVE  \A u \in Task, e \in Device :
               status'[u][e] = IF u = t /\ e = ConnDevice[c] THEN "leased" ELSE status[u][e]
  BY ConnAssumption DEF TypeOK

\* Identifiers are drawn at random and stored only after that.
LEMMA StepFresh ==
    ASSUME TypeOK, FreshStore, [Next]_vars
    PROVE  FreshStore'
<1> USE ConnAssumption
<1> USE DEF FreshStore, storeVars, handlerVars, netVars, agentVars, historyVars
<1>1. ASSUME NEW g \in Goroutine, Persist(g) PROVE FreshStore'
  BY <1>1 DEF TypeOK, Persist
<1>2. ASSUME NEW t \in Task, NEW targets \in SUBSET Device, CreateTask(t, targets)
      PROVE FreshStore'
  BY <1>2 DEF TypeOK, CreateTask
<1>3. CASE Clean
  BY <1>3 DEF TypeOK, Clean
<1>4. CASE ServerRestart
  BY <1>4 DEF TypeOK, ServerRestart
<1>5. ASSUME NEW c \in Conn, HandleClaim(c) PROVE FreshStore'
  <2>1. Head(toServer[c]).task \in Task
    BY <1>5, ReceiveType DEF HandleClaim
  <2> QED
    BY <1>5, <2>1, LeaseAt DEF HandleClaim, Claimable
<1>6. ASSUME NEW c \in Conn, HandleStarted(c) PROVE FreshStore'
  <2>1. Head(toServer[c]).task \in Task
    BY <1>6, ReceiveType DEF HandleStarted
  <2> QED
    BY <1>6, <2>1, SetTaskStatusAt DEF HandleStarted
<1>7. ASSUME NEW c \in Conn, HandleResult(c) PROVE FreshStore'
  <2>1. Head(toServer[c]).task \in Task
    BY <1>7, ReceiveType DEF HandleResult
  <2> QED
    BY <1>7, <2>1, SetTaskStatusAt DEF HandleResult
<1>8. ASSUME NEW c \in Conn, MarkLeasedUnknown(c) PROVE FreshStore'
  BY <1>8 DEF TypeOK, MarkLeasedUnknown, MarkedUnknown
<1>9. CASE UNCHANGED <<status, disk, submitted>>
  BY <1>9
<1>10. ASSUME NEW c \in Conn, Handler(c) PROVE FreshStore'
  BY <1>5, <1>6, <1>7, <1>8, <1>9, <1>10 DEF Handler, UpsertAgentDevice, SetAgent, ClosePrevious,
     ListPending, Announce, RefuseClaim, Dispatch, EndConnection, MarkOffline
<1>11. ASSUME NEW d \in Device, Agent(d) PROVE FreshStore'
  BY <1>9, <1>11 DEF Agent, HandleAvailable, HandleDispatch, LoseConnection
<1>12. ASSUME NEW e \in exec, Execute(e) PROVE FreshStore'
  BY <1>9, <1>12 DEF Execute, ReportStarted, ReportResult
<1> QED
  BY <1>1, <1>2, <1>3, <1>4, <1>9, <1>10, <1>11, <1>12
     DEF Next, NotifyTask, Expire, DeleteOfflineDevice, Connect, Heartbeat, BreakLink,
         StallWrites, AgentCrash, vars

\* The hub only ever holds sockets of the device, and nothing is written to, or
\* runs for, a connection that was not dialled: WriteAgent needs an open link,
\* and the agent reads from the connection it dialled.
LEMMA StepWiring ==
    ASSUME TypeOK, Wiring, [Next]_vars
    PROVE  Wiring'
<1> USE ConnAssumption
<1> USE DEF Wiring, storeVars, handlerVars, netVars, agentVars, historyVars
<1>1. CASE UNCHANGED <<agents, link, toAgent, exec>>
  BY <1>1
<1>2. ASSUME NEW c \in Conn, NEW msg, WriteAgent(c, msg), UNCHANGED <<agents, link, exec>>
      PROVE Wiring'
  BY <1>2 DEF TypeOK, WriteAgent, Writable
<1>3. ASSUME NEW d \in Device, NEW msg, SendAgent(d, msg),
             UNCHANGED <<agents, link, exec>>
      PROVE Wiring'
  <2>1. CASE agents[d] = NoConn
    BY <1>1, <1>3, <2>1 DEF SendAgent
  <2>2. CASE agents[d] # NoConn
    <3>1. agents[d] \in Conn /\ WriteAgent(agents[d], msg)
      BY <1>3, <2>2 DEF TypeOK, SendAgent
    <3> QED
      BY <1>2, <1>3, <3>1
  <2> QED
    BY <2>1, <2>2
<1>4. ASSUME NEW c \in Conn, SetAgent(c) \/ ClosePrevious(c) PROVE Wiring'
  <2>1. /\ agents' = agents \/ agents' = [agents EXCEPT ![ConnDevice[c]] = c]
        /\ \A b \in Conn : link'[b] \in {link[b], "closed"}
        /\ UNCHANGED <<toAgent, exec>>
    BY <1>4 DEF SetAgent, ClosePrevious, TypeOK
  <2>2. \A d \in Device : agents'[d] # NoConn => ConnDevice[agents'[d]] = d
    BY <2>1 DEF TypeOK
  <2>3. \A b \in Conn : link'[b] = "unused" => link[b] = "unused"
    BY <2>1
  <2> QED
    BY <2>1, <2>2, <2>3
<1>5. ASSUME NEW c \in Conn, EndConnection(c) PROVE Wiring'
  <2>1. /\ UNCHANGED <<link, toAgent, exec>>
        /\ agents' = agents \/ agents' = [agents EXCEPT ![ConnDevice[c]] = NoConn]
    BY <1>4, <1>5 DEF EndConnection
  <2> QED
    BY <2>1 DEF TypeOK
<1>6. ASSUME NEW c \in Conn, NEW t \in Task, Announce(c, t) PROVE Wiring'
  BY <1>2, <1>6 DEF Announce
<1>7. ASSUME NEW c \in Conn, Dispatch(c) PROVE Wiring'
  BY <1>3, <1>7 DEF Dispatch
<1>8. ASSUME NEW c \in Conn, Handler(c) PROVE Wiring'
  BY <1>1, <1>4, <1>6, <1>8, <1>7, <1>5 DEF Handler, UpsertAgentDevice, ListPending,
     HandleClaim, RefuseClaim, HandleStarted, HandleResult, MarkOffline, MarkLeasedUnknown
<1>9. ASSUME NEW d \in Device, HandleAvailable(d) \/ HandleDispatch(d) PROVE Wiring'
  BY <1>9 DEF TypeOK, HandleAvailable, HandleDispatch
<1>10. ASSUME NEW e \in exec, Execute(e) PROVE Wiring'
  <2>1. /\ UNCHANGED <<agents, link, toAgent>>
        /\ \A f \in exec' : \E g \in exec : f.conn = g.conn
    BY <1>10 DEF TypeOK, Execute, ReportStarted, ReportResult, Execution
  <2> QED
    BY <2>1
<1>11. ASSUME NEW c \in Conn, Connect(c) \/ BreakLink(c) PROVE Wiring'
  BY <1>11 DEF TypeOK, Connect, BreakLink
<1>12. ASSUME NEW d \in Device, AgentCrash(d) PROVE Wiring'
  BY <1>12 DEF TypeOK, AgentCrash
<1>13. CASE ServerRestart
  BY <1>13 DEF TypeOK, ServerRestart
<1> QED
  BY <1>1, <1>3, <1>8, <1>9, <1>10, <1>11, <1>12, <1>13
     DEF Next, Persist, CreateTask, NotifyTask, Expire, Clean, DeleteOfflineDevice, Heartbeat,
         Agent, LoseConnection, StallWrites, vars

\* Only executeTask writes a task_result, after runTask returned it, and only
\* SetTaskStatus, called for that message, writes an outcome into the store.
Real == ResultsAreReal /\ OutcomeIsReal

\* Every step keeps outcomes real.
LEMMA StepReal ==
    ASSUME TypeOK, Real, [Next]_vars
    PROVE  Real'
<1> USE ConnAssumption
<1> USE DEF storeVars, handlerVars, netVars, agentVars, historyVars
\* a step that neither reports nor stores an outcome
<1>1. ASSUME ran \subseteq ran',
             \A c \in Conn, t \in Task, i \in Nat :
                 Reported(c, t, "task_result", i)' =>
                     \E j \in Nat : /\ Reported(c, t, "task_result", j)
                                    /\ toServer'[c][i].status = toServer[c][j].status
      PROVE ResultsAreReal'
  BY <1>1 DEF Real, ResultsAreReal
<1>2. ASSUME ran \subseteq ran',
             \A t \in Task, d \in Device : \A s \in Outcome :
                 s = status'[t][d] \/ s = disk'.status[t][d] =>
                     s = status[t][d] \/ s = disk.status[t][d]
      PROVE OutcomeIsReal'
  BY <1>2 DEF Real, OutcomeIsReal
<1>3. ASSUME UNCHANGED <<toServer, ran>> PROVE ResultsAreReal'
  BY <1>3 DEF Real, ResultsAreReal, Reported
<1>4. ASSUME UNCHANGED <<status, disk, ran>> PROVE OutcomeIsReal'
  BY <1>4 DEF Real, OutcomeIsReal
<1>5. ASSUME NEW c \in Conn, NEW type, Receive(c, type), UNCHANGED ran
      PROVE  /\ ResultsAreReal'
             /\ Head(toServer[c]).task \in Task
             /\ type = "task_result" =>
                    /\ Head(toServer[c]).status \in Outcome
                    /\ <<Head(toServer[c]).task, ConnDevice[c], Head(toServer[c]).status>> \in ran
  <2>1. /\ toServer[c] # <<>> /\ Head(toServer[c]).type = type
        /\ toServer' = [toServer EXCEPT ![c] = Tail(@)]
        /\ toServer \in [Conn -> Seq(ToServerMsg)]
    BY <1>5 DEF Receive, TypeOK
  <2>2. ASSUME NEW b \in Conn, NEW t \in Task, NEW i \in Nat,
               Reported(b, t, "task_result", i)'
        PROVE  \E j \in Nat : /\ Reported(b, t, "task_result", j)
                              /\ toServer'[b][i].status = toServer[b][j].status
    <3>1. \/ Reported(b, t, "task_result", i) /\ toServer'[b][i] = toServer[b][i]
          \/ Reported(b, t, "task_result", i + 1) /\ toServer'[b][i] = toServer[b][i + 1]
      BY <1>5, <2>2, ReportedAfterReceive DEF ReportType
    <3> QED
      BY <3>1
  <2>3. ResultsAreReal'
    BY <1>1, <1>5, <2>2
  <2>4. Head(toServer[c]) = toServer[c][1] /\ 1 \in 1..Len(toServer[c])
    BY <2>1
  <2>5. /\ Head(toServer[c]).task \in Task
        /\ type = "task_result" => Head(toServer[c]).status \in Outcome
    BY <1>5, ReceiveType
  <2>6. type = "task_result" =>
            <<Head(toServer[c]).task, ConnDevice[c], Head(toServer[c]).status>> \in ran
    BY <2>1, <2>4, <2>5 DEF Real, ResultsAreReal, Reported
  <2> QED
    BY <2>3, <2>5, <2>6
<1>6. ASSUME NEW g \in Goroutine, Persist(g) PROVE Real'
  BY <1>2, <1>3, <1>6 DEF Persist, Real
<1>7. ASSUME NEW t \in Task, NEW targets \in SUBSET Device, CreateTask(t, targets)
      PROVE Real'
  BY <1>2, <1>3, <1>7 DEF CreateTask, Real, TypeOK, Outcome
<1>8. CASE Clean
  BY <1>2, <1>3, <1>8 DEF Clean, Real, TypeOK, Outcome
<1>9. ASSUME NEW c \in Conn, HandleClaim(c) PROVE Real'
  <2>1. ResultsAreReal' /\ Head(toServer[c]).task \in Task
    BY <1>5, <1>9 DEF HandleClaim
  <2> QED
    BY <1>2, <1>9, <2>1, LeaseAt DEF HandleClaim, Real, Outcome
<1>10. ASSUME NEW c \in Conn, HandleStarted(c) PROVE Real'
  <2>1. ResultsAreReal' /\ Head(toServer[c]).task \in Task
    BY <1>5, <1>10 DEF HandleStarted
  <2> QED
    BY <1>2, <1>10, <2>1, SetTaskStatusAt DEF HandleStarted, Real, Outcome
<1>11. ASSUME NEW c \in Conn, HandleResult(c) PROVE Real'
  <2>1. /\ ResultsAreReal' /\ Head(toServer[c]).task \in Task
        /\ <<Head(toServer[c]).task, ConnDevice[c], Head(toServer[c]).status>> \in ran
    BY <1>5, <1>11 DEF HandleResult
  <2>2. /\ SetTaskStatus(c, Head(toServer[c]).task, Head(toServer[c]).status)
        /\ UNCHANGED <<disk, ran>>
    BY <1>11 DEF HandleResult
  <2>3. OutcomeIsReal'
    <3>1. \A t \in Task, d \in Device :
              \/ status'[t][d] = status[t][d]
              \/ <<t, d, status'[t][d]>> \in ran
      BY <2>1, <2>2, SetTaskStatusAt
    <3> QED
      BY <2>2, <3>1 DEF Real, OutcomeIsReal
  <2> QED
    BY <2>1, <2>3 DEF Real
<1>12. ASSUME NEW c \in Conn, RefuseClaim(c) PROVE Real'
  BY <1>4, <1>5, <1>12 DEF RefuseClaim, Real
<1>13. ASSUME NEW c \in Conn, EndConnection(c) PROVE Real'
  <2>1. ResultsAreReal'
    BY <1>1, <1>13 DEF EndConnection, Reported, TypeOK
  <2> QED
    BY <1>4, <1>13, <2>1 DEF EndConnection, Real
<1>14. ASSUME NEW c \in Conn, MarkLeasedUnknown(c) PROVE Real'
  BY <1>2, <1>3, <1>14 DEF MarkLeasedUnknown, MarkedUnknown, Real, TypeOK, Outcome
<1>15. ASSUME NEW d \in Device, HandleAvailable(d) PROVE Real'
  <2> DEFINE c == agentConn[d]
             msg == [type |-> "task_claim", task |-> Head(toAgent[c]).task]
  <2>1. c \in Conn /\ toAgent[c] \in Seq(ToAgentMsg) /\ toAgent[c] # <<>>
    BY <1>15 DEF HandleAvailable, TypeOK
  <2>2. Head(toAgent[c]) \in ToAgentMsg
    BY <2>1, HeadTailInSeq
  <2>3. msg \in ToServerMsg /\ msg.type = "task_claim"
    BY <2>2 DEF ToAgentMsg, ToServerMsg
  <2>4. WriteServer(c, msg) /\ UNCHANGED <<status, disk, ran>>
    BY <1>15 DEF HandleAvailable
  <2>5. ASSUME NEW b \in Conn, NEW t \in Task, NEW i \in Nat,
               Reported(b, t, "task_result", i)'
        PROVE  Reported(b, t, "task_result", i) /\ toServer'[b][i] = toServer[b][i]
    BY <2>1, <2>3, <2>4, <2>5, ReportedAfterWrite DEF ReportType
  <2>6. ResultsAreReal'
    BY <1>1, <2>4, <2>5
  <2> QED
    BY <1>4, <2>4, <2>6 DEF Real
<1>16. ASSUME NEW e \in exec, ReportStarted(e) PROVE Real'
  <2> DEFINE msg == [type |-> "task_started", task |-> e.task]
  <2>1. e.conn \in Conn /\ msg \in ToServerMsg
    BY DEF TypeOK, Execution, ToServerMsg
  <2>2. WriteServer(e.conn, msg) /\ UNCHANGED <<status, disk, ran>>
    BY <1>16 DEF ReportStarted
  <2>3. ASSUME NEW b \in Conn, NEW t \in Task, NEW i \in Nat,
               Reported(b, t, "task_result", i)'
        PROVE  Reported(b, t, "task_result", i) /\ toServer'[b][i] = toServer[b][i]
    BY <2>1, <2>2, <2>3, ReportedAfterWrite DEF ReportType
  <2>4. ResultsAreReal'
    BY <1>1, <2>2, <2>3
  <2> QED
    BY <1>4, <2>2, <2>4 DEF Real
<1>17. ASSUME NEW e \in exec, NEW o \in Outcome, ReportResult(e, o) PROVE Real'
  <2> DEFINE msg == [type |-> "task_result", task |-> e.task, status |-> o]
  <2>1. e.conn \in Conn /\ msg \in ToServerMsg
    BY DEF TypeOK, Execution, ToServerMsg
  <2>2. /\ WriteServer(e.conn, msg)
        /\ ran' = ran \cup {<<e.task, ConnDevice[e.conn], o>>}
        /\ UNCHANGED <<status, disk>>
    BY <1>17 DEF ReportResult
  <2>3. ASSUME NEW b \in Conn, NEW t \in Task, NEW i \in Nat,
               Reported(b, t, "task_result", i)'
        PROVE  <<t, ConnDevice[b], toServer'[b][i].status>> \in ran'
    <3>1. \/ Reported(b, t, "task_result", i) /\ toServer'[b][i] = toServer[b][i]
          \/ b = e.conn /\ toServer'[b][i] = msg /\ msg.task = t
      BY <2>1, <2>2, <2>3, ReportedAfterWrite DEF ReportType
    <3> QED
      BY <2>2, <3>1 DEF Real, ResultsAreReal
  <2>4. ResultsAreReal'
    BY <2>3 DEF ResultsAreReal
  <2> QED
    BY <1>2, <2>2, <2>4 DEF Real
<1>18. CASE ServerRestart
  BY <1>1, <1>2, <1>18 DEF ServerRestart, Real, Reported
<1>19. CASE UNCHANGED <<status, disk, toServer, ran>>
  BY <1>3, <1>4, <1>19 DEF Real
<1>20. ASSUME NEW c \in Conn, Handler(c) PROVE Real'
  BY <1>9, <1>10, <1>11, <1>12, <1>13, <1>14, <1>19, <1>20 DEF Handler,
     UpsertAgentDevice, SetAgent, ClosePrevious, ListPending, Announce, Dispatch, MarkOffline
<1>21. ASSUME NEW d \in Device, Agent(d) PROVE Real'
  BY <1>15, <1>19, <1>21 DEF Agent, HandleDispatch, LoseConnection
<1> QED
  BY <1>6, <1>7, <1>8, <1>16, <1>17, <1>18, <1>19, <1>20, <1>21
     DEF Next, Execute, NotifyTask, Expire, DeleteOfflineDevice, Connect, Heartbeat, BreakLink,
         StallWrites, AgentCrash, vars

-----------------------------------------------------------------------------
(* Steps that make no token *)

\* No shift at all
ZeroShift == [c \in Conn |-> 0]

\* Connections may close, goroutines may die, what is on its way to the server may
\* be lost: the tokens that remain are where they were.
LEMMA QuietToken ==
    ASSUME TokenParts,
           \A c \in Conn : pc'[c] = "dispatching" => pc[c] = "dispatching" /\ claim'[c] = claim[c],
           \A c \in Conn : link'[c] = "open" => link[c] = "open",
           \A c \in Conn : toServer'[c] = toServer[c] \/ toServer'[c] = <<>>,
           exec' \subseteq exec,
           \A t \in Task, d \in Device : status[t][d] \in Given => status'[t][d] \in Given,
           UNCHANGED <<toAgent, ran, dispatches>>
    PROVE  TokenParts'
<1>1. ZeroShift \in [Conn -> Nat] /\ \A c \in Conn : ZeroShift[c] = 0
  BY DEF ZeroShift
<1>2. ASSUME NEW c \in Conn, NEW t \in Task, NEW k \in Kind, NEW i \in Nat,
             Held(c, t, k, i)'
      PROVE  Held(c, t, k, i)
  BY <1>2 DEF Held, Effective, Sent
<1>3. ASSUME NEW c \in Conn, NEW t \in Task, NEW r \in ReportType, NEW i \in Nat,
             Reported(c, t, r, i)'
      PROVE  Reported(c, t, r, i)
  BY <1>3 DEF Reported
<1>4. \A c \in Conn, t \in Task, k \in Kind, i \in Nat :
          Held(c, t, k, i)' =>
              IF k = "dispatch" THEN Held(c, t, k, i + ZeroShift[c]) ELSE Held(c, t, k, i)
  BY <1>1, <1>2
<1>5. \A c \in Conn, t \in Task, r \in ReportType, i \in Nat :
          Reported(c, t, r, i)' => Reported(c, t, r, i + ZeroShift[c])
  BY <1>1, <1>3
<1> QED
  BY <1>1, <1>4, <1>5, NoNewToken, ConnAssumption

\* The same while the handler of connection b receives a message.
LEMMA ReceiveToken ==
    ASSUME TypeOK, TokenParts, NEW b \in Conn, NEW type, Receive(b, type),
           \A c \in Conn, t \in Task, i \in Nat :
               \/ \E k \in Kind : Held(c, t, k, i)'
               \/ \E r \in ReportType : Reported(c, t, r, i)'
               => (status[t][ConnDevice[c]] \in Given => status'[t][ConnDevice[c]] \in Given),
           UNCHANGED <<pc, claim, link, toAgent, exec, ran, dispatches>>
    PROVE  TokenParts'
<1> DEFINE m == [c \in Conn |-> IF c = b THEN 1 ELSE 0]
<1>1. /\ ZeroShift \in [Conn -> Nat] /\ \A c \in Conn : ZeroShift[c] = 0
      /\ m \in [Conn -> Nat] /\ m[b] = 1 /\ \A c \in Conn : c # b => m[c] = 0
  BY DEF ZeroShift
<1> HIDE DEF m
<1>2. ASSUME NEW c \in Conn, NEW t \in Task, NEW k \in Kind, NEW i \in Nat,
             Held(c, t, k, i)'
      PROVE  Held(c, t, k, i)
  BY <1>2 DEF Held, Effective, Sent
<1>3. ASSUME NEW c \in Conn, NEW t \in Task, NEW r \in ReportType, NEW i \in Nat,
             Reported(c, t, r, i)'
      PROVE  Reported(c, t, r, i + m[c])
  <2>1. \/ c # b /\ Reported(c, t, r, i)
        \/ c = b /\ Reported(c, t, r, i + 1)
    BY <1>3, ReportedAfterReceive
  <2> QED
    BY <1>1, <2>1
<1>4. \A c \in Conn, t \in Task, k \in Kind, i \in Nat :
          Held(c, t, k, i)' =>
              IF k = "dispatch" THEN Held(c, t, k, i + ZeroShift[c]) ELSE Held(c, t, k, i)
  BY <1>1, <1>2
<1>5. \A c \in Conn, t \in Task, r \in ReportType, i \in Nat :
          Reported(c, t, r, i)' => Reported(c, t, r, i + m[c])
  BY <1>3
<1> QED
  BY <1>1, <1>4, <1>5, NoNewToken

\* The same while an announcement is written to connection b.
LEMMA AnnounceToken ==
    ASSUME TypeOK, TokenParts, NEW b \in Conn, NEW msg \in ToAgentMsg, WriteAgent(b, msg),
           msg.type # "task_dispatch",
           UNCHANGED <<status, pc, claim, link, toServer, exec, ran, dispatches>>
    PROVE  TokenParts'
<1>1. ZeroShift \in [Conn -> Nat] /\ \A c \in Conn : ZeroShift[c] = 0
  BY DEF ZeroShift
<1>2. ASSUME NEW c \in Conn, NEW t \in Task, NEW k \in Kind, NEW i \in Nat,
             Held(c, t, k, i)'
      PROVE  Held(c, t, k, i)
  <2>1. Sent(c, t, i)' => Sent(c, t, i)
    BY SentAfterWrite
  <2> QED
    BY <1>2, <2>1 DEF Held, Effective
<1>3. ASSUME NEW c \in Conn, NEW t \in Task, NEW r \in ReportType, NEW i \in Nat,
             Reported(c, t, r, i)'
      PROVE  Reported(c, t, r, i)
  BY <1>3 DEF Reported
<1>4. \A c \in Conn, t \in Task, k \in Kind, i \in Nat :
          Held(c, t, k, i)' =>
              IF k = "dispatch" THEN Held(c, t, k, i + ZeroShift[c]) ELSE Held(c, t, k, i)
  BY <1>1, <1>2
<1>5. \A c \in Conn, t \in Task, r \in ReportType, i \in Nat :
          Reported(c, t, r, i)' => Reported(c, t, r, i + ZeroShift[c])
  BY <1>1, <1>3
<1> QED
  BY <1>1, <1>4, <1>5, NoNewToken

\* The same while the agent of connection b answers an announcement with a claim.
LEMMA AnswerToken ==
    ASSUME TypeOK, TokenParts, NEW b \in Conn, AgentReads(b),
           NEW msg \in ToServerMsg, WriteServer(b, msg), msg.type \notin ReportType,
           UNCHANGED <<status, pc, claim, link, exec, ran, dispatches>>
    PROVE  TokenParts'
<1> DEFINE n == [c \in Conn |-> IF c = b THEN 1 ELSE 0]
<1>1. /\ ZeroShift \in [Conn -> Nat] /\ \A c \in Conn : ZeroShift[c] = 0
      /\ n \in [Conn -> Nat] /\ n[b] = 1 /\ \A c \in Conn : c # b => n[c] = 0
  BY DEF ZeroShift
<1> HIDE DEF n
<1>2. ASSUME NEW c \in Conn, NEW t \in Task, NEW k \in Kind, NEW i \in Nat,
             Held(c, t, k, i)'
      PROVE  IF k = "dispatch" THEN Held(c, t, k, i + n[c]) ELSE Held(c, t, k, i)
  <2>1. CASE k # "dispatch"
    BY <1>2, <2>1 DEF Held, Effective
  <2>2. CASE k = "dispatch"
    <3>1. Sent(c, t, i)'
      BY <1>2, <2>2 DEF Held
    <3>2. Sent(c, t, i + n[c])
      BY <1>1, <3>1, SentAfterRead
    <3> QED
      BY <1>2, <2>2, <3>2 DEF Held, Effective
  <2> QED
    BY <2>1, <2>2
<1>3. ASSUME NEW c \in Conn, NEW t \in Task, NEW r \in ReportType, NEW i \in Nat,
             Reported(c, t, r, i)'
      PROVE  Reported(c, t, r, i)
  BY <1>3, ReportedAfterWrite
<1>4. \A c \in Conn, t \in Task, k \in Kind, i \in Nat :
          Held(c, t, k, i)' =>
              IF k = "dispatch" THEN Held(c, t, k, i + n[c]) ELSE Held(c, t, k, i)
  BY <1>2
<1>5. \A c \in Conn, t \in Task, r \in ReportType, i \in Nat :
          Reported(c, t, r, i)' => Reported(c, t, r, i + ZeroShift[c])
  BY <1>1, <1>3
<1> QED
  BY <1>1, <1>4, <1>5, NoNewToken

-----------------------------------------------------------------------------
(* Steps that move a token *)

\* ClaimTask leases a queued task: nobody else can hold it.
LEMMA ClaimToken ==
    ASSUME TypeOK, TokenParts, DbMayFail = FALSE => DispatchParts,
           NEW b \in Conn, HandleClaim(b)
    PROVE  TokenParts'
<1> USE ConnAssumption
<1>0. PICK u \in Task : u = Head(toServer[b]).task
  BY ReceiveType DEF HandleClaim
<1> DEFINE d == ConnDevice[b]
           m == [c \in Conn |-> IF c = b THEN 1 ELSE 0]
<1>1. /\ ZeroShift \in [Conn -> Nat] /\ \A c \in Conn : ZeroShift[c] = 0
      /\ m \in [Conn -> Nat] /\ m[b] = 1 /\ \A c \in Conn : c # b => m[c] = 0
  BY DEF ZeroShift
<1>2. /\ Receive(b, "task_claim") /\ u \in Task /\ d \in Device
      /\ status[u][d] = "queued"
      /\ status' = [status EXCEPT ![u][d] = "leased"]
      /\ claim' = [claim EXCEPT ![b] = u] /\ pc' = [pc EXCEPT ![b] = "dispatching"]
      /\ UNCHANGED <<link, toAgent, exec, ran, dispatches>>
  BY <1>0 DEF HandleClaim, Claimable, agentVars, historyVars
<1> HIDE DEF d, m
<1>3. /\ \A c \in Conn, k \in Kind, i \in Nat : Held(c, u, k, i) => ConnDevice[c] # d
      /\ \A c \in Conn, r \in ReportType, i \in Nat : Reported(c, u, r, i) => ConnDevice[c] # d
  BY <1>2 DEF TokenParts, TokenIsGiven, Given
<1>4. ASSUME NEW c \in Conn, NEW t \in Task, NEW k \in Kind, NEW i \in Nat,
             Held(c, t, k, i)'
      PROVE  Held(c, t, k, i) \/ (t = u /\ c = b /\ k = "lease" /\ i = 0)
  BY <1>2, <1>4 DEF Held, Effective, Sent, TypeOK
<1>5. ASSUME NEW c \in Conn, NEW t \in Task, NEW r \in ReportType, NEW i \in Nat,
             Reported(c, t, r, i)'
      PROVE  Reported(c, t, r, i + m[c])
  <2>1. (c # b /\ Reported(c, t, r, i)) \/ (c = b /\ Reported(c, t, r, i + 1))
    BY <1>2, <1>5, ReportedAfterReceive
  <2> QED
    BY <1>1, <2>1
<1>6. \A t \in Task, e \in Device :
          status'[t][e] = IF t = u /\ e = d THEN "leased" ELSE status[t][e]
  BY <1>2, LeaseAt DEF d
<1>7. DbMayFail = FALSE => \A o \in Outcome : <<u, d, o>> \notin ran
  BY <1>2 DEF DispatchParts, UndispatchedWhenQueued, TokenParts, RunWasHanded
<1>8. \A c \in Conn, t \in Task, k \in Kind, i \in Nat :
          Held(c, t, k, i)' /\ (t # u \/ ConnDevice[c] # d) =>
              IF k = "dispatch" THEN Held(c, t, k, i + ZeroShift[c]) ELSE Held(c, t, k, i)
  BY <1>1, <1>4 DEF d
<1>9. \A c \in Conn, k \in Kind, i \in Nat :
          Held(c, u, k, i)' /\ ConnDevice[c] = d => c = b /\ k = "lease" /\ i = 0
  BY <1>2, <1>3, <1>4
<1>10. \A c \in Conn, r \in ReportType, i \in Nat :
          Reported(c, u, r, i)' => ConnDevice[c] # d
  BY <1>1, <1>2, <1>3, <1>5
<1> QED
  <2>1. NewTokenAt(ZeroShift, m, b, u, "lease", 0, 0)
    BY <1>2, <1>5, <1>6, <1>7, <1>8, <1>9, <1>10 DEF NewTokenAt, d, Given
  <2> QED
    BY <1>1, <2>1, OneNewToken DEF Kind

\* Dispatch turns the lease into a message to the hub's socket, or into nothing.
LEMMA DispatchToken ==
    ASSUME TypeOK, Wiring, TokenParts, NEW b \in Conn, Dispatch(b)
    PROVE  TokenParts'
<1> USE ConnAssumption
<1>0. PICK u \in Task : u = claim[b]
  BY DEF Dispatch, TypeOK
<1> DEFINE d == ConnDevice[b]
           msg == TaskDispatchMsg(u)
<1>1. ZeroShift \in [Conn -> Nat] /\ \A c \in Conn : ZeroShift[c] = 0
  BY DEF ZeroShift
<1>2. /\ u \in Task /\ d \in Device /\ pc[b] = "dispatching" /\ pc'[b] # "dispatching"
      /\ \A c \in Conn : c # b => pc'[c] = pc[c] /\ claim'[c] = claim[c]
      /\ SendAgent(d, msg)
      /\ dispatches' = [dispatches EXCEPT ![u][d] = @ + 1]
      /\ UNCHANGED <<status, link, toServer, exec, ran>>
  BY <1>0 DEF Dispatch, TypeOK, storeVars, agentVars
<1>3. msg \in ToAgentMsg /\ msg.task = u
  BY <1>2 DEF TaskDispatchMsg, ToAgentMsg
<1>4. \A t \in Task, e \in Device :
          /\ dispatches[t][e] > 0 => dispatches'[t][e] > 0
          /\ dispatches'[u][d] > 0
  BY <1>2 DEF TypeOK
<1>5. Held(b, u, "lease", 0)
  BY <1>0, <1>2 DEF Held
<1> HIDE DEF d, msg
<1>6. /\ \A c \in Conn, k \in Kind, i \in Nat :
             Held(c, u, k, i) /\ ConnDevice[c] = d => c = b /\ k = "lease"
      /\ \A c \in Conn, r \in ReportType, i \in Nat : Reported(c, u, r, i) => ConnDevice[c] # d
      /\ status[u][d] \in Given
      /\ DbMayFail = FALSE => \A o \in Outcome : <<u, d, o>> \notin ran
  BY <1>2, <1>5 DEF d, Kind, TokenParts, OneToken, ReportsComeLast, TokenIsGiven, TokenHasNotRun
<1>7. ASSUME NEW c \in Conn, NEW t \in Task, NEW r \in ReportType, NEW i \in Nat,
             Reported(c, t, r, i)'
      PROVE  Reported(c, t, r, i)
  BY <1>2, <1>7 DEF Reported
<1>8. ASSUME NEW c \in Conn, NEW t \in Task, NEW k \in Kind, NEW i \in Nat,
             Held(c, t, k, i)', k # "dispatch"
      PROVE  Held(c, t, k, i) /\ (t # u \/ ConnDevice[c] # d)
  <2>1. Held(c, t, k, i) /\ ~(k = "lease" /\ c = b)
    BY <1>2, <1>8 DEF Held, Effective
  <2> QED
    BY <1>6, <2>1
<1>9. CASE toAgent' = toAgent
  <2>1. ASSUME NEW c \in Conn, NEW t \in Task, NEW k \in Kind, NEW i \in Nat,
               Held(c, t, k, i)'
        PROVE  Held(c, t, k, i) /\ (t # u \/ ConnDevice[c] # d)
    <3>1. CASE k # "dispatch"
      BY <1>8, <2>1, <3>1
    <3>2. CASE k = "dispatch"
      <4>1. Held(c, t, k, i)
        BY <1>2, <1>9, <2>1, <3>2 DEF Held, Effective, Sent
      <4> QED
        BY <1>6, <3>2, <4>1
    <3> QED
      BY <3>1, <3>2
  <2>2. \A c \in Conn, t \in Task, k \in Kind, i \in Nat :
            Held(c, t, k, i)' /\ (t # u \/ ConnDevice[c] # d) =>
                IF k = "dispatch" THEN Held(c, t, k, i + ZeroShift[c]) ELSE Held(c, t, k, i)
    BY <1>1, <2>1
  <2>3. \A c \in Conn, t \in Task, r \in ReportType, i \in Nat :
            Reported(c, t, r, i)' /\ (t # u \/ ConnDevice[c] # d) =>
                Reported(c, t, r, i + ZeroShift[c])
    BY <1>1, <1>7
  <2>4. /\ \A c \in Conn, k \in Kind, i \in Nat : Held(c, u, k, i)' => ConnDevice[c] # d
        /\ \A c \in Conn, r \in ReportType, i \in Nat : Reported(c, u, r, i)' => ConnDevice[c] # d
    BY <1>2, <1>6, <1>7, <2>1
  <2> QED
    <3>1. NewTokenAt(ZeroShift, ZeroShift, b, u, "dispatch", 0, 0)
      BY <1>2, <1>4, <1>6, <2>2, <2>3, <2>4 DEF NewTokenAt, d
    <3> QED
      BY <1>1, <3>1, OneNewToken DEF Kind
<1>10. CASE agents[d] # NoConn /\ WriteAgent(agents[d], msg)
  <2>a. PICK a \in Conn : a = agents[d]
    BY <1>2, <1>10 DEF TypeOK
  <2>p. PICK p \in Nat : p = Len(toAgent[a]) + 1
    <3>1. toAgent[a] \in Seq(ToAgentMsg)
      BY DEF TypeOK
    <3> QED
      BY <3>1
  <2>1. ConnDevice[a] = d /\ WriteAgent(a, msg)
    BY <1>2, <1>10, <2>a DEF Wiring
  <2>2. ASSUME NEW c \in Conn, NEW t \in Task, NEW i \in Nat, Held(c, t, "dispatch", i)'
        PROVE  \/ Held(c, t, "dispatch", i) /\ (t # u \/ ConnDevice[c] # d)
               \/ t = u /\ c = a /\ i = p
    <3>1. Sent(c, t, i)' /\ Effective(c)
      BY <1>2, <2>2 DEF Held, Effective
    <3>2. Sent(c, t, i) \/ (t = u /\ c = a /\ i = p)
      BY <1>3, <2>p, <2>1, <3>1, SentAfterWrite
    <3>3. Held(c, t, "dispatch", i) \/ (t = u /\ c = a /\ i = p)
      BY <3>1, <3>2 DEF Held
    <3> QED
      BY <1>6, <3>3 DEF Kind
  <2>3. \A c \in Conn, t \in Task, k \in Kind, i \in Nat :
            Held(c, t, k, i)' /\ (t # u \/ ConnDevice[c] # ConnDevice[a]) =>
                IF k = "dispatch" THEN Held(c, t, k, i + ZeroShift[c]) ELSE Held(c, t, k, i)
    BY <1>1, <1>8, <2>1, <2>2
  <2>4. \A c \in Conn, k \in Kind, i \in Nat :
            Held(c, u, k, i)' /\ ConnDevice[c] = ConnDevice[a] =>
                c = a /\ k = "dispatch" /\ i = p
    BY <1>2, <1>8, <2>1, <2>2
  <2>5. \A c \in Conn, t \in Task, r \in ReportType, i \in Nat :
            Reported(c, t, r, i)' /\ (t # u \/ ConnDevice[c] # ConnDevice[a]) =>
                Reported(c, t, r, i + ZeroShift[c])
    BY <1>1, <1>7
  <2>6. \A c \in Conn, r \in ReportType, i \in Nat :
            Reported(c, u, r, i)' => ConnDevice[c] # ConnDevice[a]
    BY <1>2, <1>6, <1>7, <2>1
  <2> QED
    <3>1. NewTokenAt(ZeroShift, ZeroShift, a, u, "dispatch", p, 0)
      BY <1>2, <1>4, <1>6, <2>1, <2>3, <2>4, <2>5, <2>6 DEF NewTokenAt
    <3> QED
      BY <1>1, <3>1, OneNewToken DEF Kind
<1> QED
  BY <1>2, <1>9, <1>10 DEF SendAgent

\* The agent's read loop turns a task_dispatch into a goroutine.
LEMMA StartToken ==
    ASSUME TypeOK, TokenParts, NEW d \in Device, HandleDispatch(d)
    PROVE  TokenParts'
<1> USE ConnAssumption
<1>0. PICK b \in Conn : b = agentConn[d]
  BY DEF HandleDispatch, TypeOK
<1>1. PICK u \in Task : u = Head(toAgent[b]).task
  <2>1. toAgent[b] \in Seq(ToAgentMsg) /\ toAgent[b] # <<>>
    BY <1>0 DEF HandleDispatch, TypeOK
  <2>2. Head(toAgent[b]) \in ToAgentMsg
    BY <2>1, HeadTailInSeq
  <2> QED
    BY <2>2 DEF ToAgentMsg
<1> DEFINE n == [c \in Conn |-> IF c = b THEN 1 ELSE 0]
<1>2. /\ ZeroShift \in [Conn -> Nat] /\ \A c \in Conn : ZeroShift[c] = 0
      /\ n \in [Conn -> Nat] /\ n[b] = 1 /\ \A c \in Conn : c # b => n[c] = 0
  BY DEF ZeroShift
<1> HIDE DEF n
<1>3. /\ AgentReads(b) /\ Head(toAgent[b]).type = "task_dispatch"
      /\ exec' = exec \cup {[conn |-> b, task |-> u, stage |-> "starting"]}
      /\ UNCHANGED <<status, pc, claim, link, toServer, ran, dispatches>>
  BY <1>0, <1>1 DEF HandleDispatch, AgentReads, storeVars, handlerVars, historyVars
<1>4. Sent(b, u, 1)
  <2>1. toAgent[b] \in Seq(ToAgentMsg) /\ toAgent[b] # <<>>
    BY <1>3 DEF AgentReads, TypeOK
  <2>2. toAgent[b][1] = Head(toAgent[b]) /\ 1 \in 1..Len(toAgent[b])
    BY <2>1
  <2> QED
    BY <1>1, <1>3, <2>2 DEF Sent
<1>5. ASSUME NEW c \in Conn, NEW t \in Task, NEW r \in ReportType, NEW i \in Nat,
             Reported(c, t, r, i)'
      PROVE  Reported(c, t, r, i)
  BY <1>3, <1>5 DEF Reported
<1>6. ASSUME NEW c \in Conn, NEW t \in Task, NEW k \in Kind, NEW i \in Nat,
             Held(c, t, k, i)', k # "dispatch"
      PROVE  \/ Held(c, t, k, i)
             \/ t = u /\ c = b /\ k = "starting" /\ i = 0 /\ Effective(b)
  BY <1>3, <1>6 DEF Held, Effective
<1>7. ASSUME NEW c \in Conn, NEW t \in Task, NEW i \in Nat, Held(c, t, "dispatch", i)'
      PROVE  Held(c, t, "dispatch", i + n[c]) /\ i > 0
  <2>1. Sent(c, t, i)' /\ Effective(c) /\ i > 0
    BY <1>3, <1>7 DEF Held, Effective, Sent
  <2>2. Sent(c, t, i + n[c])
    BY <1>2, <1>3, <2>1, SentAfterRead
  <2> QED
    BY <2>1, <2>2 DEF Held
<1>8. CASE ~Effective(b)
  <2>1. \A c \in Conn, t \in Task, k \in Kind, i \in Nat :
            Held(c, t, k, i)' =>
                IF k = "dispatch" THEN Held(c, t, k, i + n[c]) ELSE Held(c, t, k, i)
    BY <1>6, <1>7, <1>8
  <2>2. \A c \in Conn, t \in Task, r \in ReportType, i \in Nat :
            Reported(c, t, r, i)' => Reported(c, t, r, i + ZeroShift[c])
    BY <1>2, <1>5
  <2> QED
    BY <1>2, <1>3, <2>1, <2>2, NoNewToken
<1>9. CASE Effective(b)
  <2>1. Held(b, u, "dispatch", 1)
    BY <1>4, <1>9 DEF Held
  <2>2. /\ \A c \in Conn, k \in Kind, i \in Nat :
               Held(c, u, k, i) /\ ConnDevice[c] = ConnDevice[b] =>
                   c = b /\ k = "dispatch" /\ i = 1
        /\ \A c \in Conn, r \in ReportType, i \in Nat :
               Reported(c, u, r, i) => ConnDevice[c] # ConnDevice[b]
        /\ status[u][ConnDevice[b]] \in Given
        /\ DbMayFail = FALSE =>
               /\ \A o \in Outcome : <<u, ConnDevice[b], o>> \notin ran
               /\ dispatches[u][ConnDevice[b]] > 0
    <3>1. "dispatch" \in Kind /\ "dispatch" # "running" /\ "dispatch" # "lease" /\ 1 \in Nat
      BY DEF Kind
    <3>2. \A c \in Conn, k \in Kind, i \in Nat :
               Held(c, u, k, i) /\ ConnDevice[c] = ConnDevice[b] =>
                   c = b /\ k = "dispatch" /\ i = 1
      BY <2>1, <3>1 DEF TokenParts, OneToken
    <3>3. \A c \in Conn, r \in ReportType, i \in Nat :
               Reported(c, u, r, i) => ConnDevice[c] # ConnDevice[b]
      BY <2>1, <3>1 DEF TokenParts, ReportsComeLast
    <3>4. status[u][ConnDevice[b]] \in Given
      BY <2>1, <3>1 DEF TokenParts, TokenIsGiven
    <3>5. DbMayFail = FALSE => \A o \in Outcome : <<u, ConnDevice[b], o>> \notin ran
      BY <2>1, <3>1 DEF TokenParts, TokenHasNotRun
    <3>6. DbMayFail = FALSE => dispatches[u][ConnDevice[b]] > 0
      BY <2>1, <3>1 DEF TokenParts, TokenWasHanded
    <3> QED
      BY <3>2, <3>3, <3>4, <3>5, <3>6
  <2>3. \A c \in Conn, t \in Task, k \in Kind, i \in Nat :
            Held(c, t, k, i)' /\ (t # u \/ ConnDevice[c] # ConnDevice[b]) =>
                IF k = "dispatch" THEN Held(c, t, k, i + n[c]) ELSE Held(c, t, k, i)
    BY <1>6, <1>7
  <2>4. ASSUME NEW c \in Conn, NEW k \in Kind, NEW i \in Nat,
               Held(c, u, k, i)', ConnDevice[c] = ConnDevice[b]
        PROVE  c = b /\ k = "starting" /\ i = 0
    <3>1. CASE k = "dispatch"
      <4>1. Held(c, u, "dispatch", i + n[c]) /\ i > 0
        BY <1>7, <2>4, <3>1
      <4>2. i + n[c] \in Nat /\ "dispatch" \in Kind
        BY <1>2 DEF Kind
      <4>3. c = b /\ i + n[c] = 1
        BY <2>2, <2>4, <4>1, <4>2
      <4> QED
        BY <1>2, <4>1, <4>3
    <3>2. CASE k # "dispatch"
      BY <1>6, <2>2, <2>4, <3>2
    <3> QED
      BY <3>1, <3>2
  <2>5. \A c \in Conn, t \in Task, r \in ReportType, i \in Nat :
            Reported(c, t, r, i)' => Reported(c, t, r, i + ZeroShift[c])
    BY <1>2, <1>5
  <2>6. \A c \in Conn, r \in ReportType, i \in Nat :
            Reported(c, u, r, i)' => ConnDevice[c] # ConnDevice[b]
    BY <1>5, <2>2
  <2>7. NewTokenAt(n, ZeroShift, b, u, "starting", 0, 0)
    BY <1>3, <2>2, <2>3, <2>4, <2>5, <2>6 DEF NewTokenAt
  <2> QED
    BY <1>2, <2>7, OneNewToken DEF Kind
<1> QED
  BY <1>8, <1>9

\* executeTask reports the start, and goes on to run.
LEMMA StartedToken ==
    ASSUME TypeOK, TokenParts, NEW e \in exec, ReportStarted(e)
    PROVE  TokenParts'
<1> USE ConnAssumption
<1>0. PICK b \in Conn, u \in Task : e = [conn |-> b, task |-> u, stage |-> "starting"]
  <2>1. e \in Execution /\ e.stage = "starting"
    BY DEF TypeOK, ReportStarted
  <2> QED
    BY <2>1 DEF Execution
<1> DEFINE msg == [type |-> "task_started", task |-> u]
<1>1. ZeroShift \in [Conn -> Nat] /\ \A c \in Conn : ZeroShift[c] = 0
  BY DEF ZeroShift
<1>2. /\ WriteServer(b, msg) /\ msg \in ToServerMsg
      /\ exec' = (exec \ {e}) \cup {[conn |-> b, task |-> u, stage |-> "running"]}
      /\ UNCHANGED <<status, pc, claim, link, toAgent, ran, dispatches>>
  <2>1. [e EXCEPT !.stage = "running"] = [conn |-> b, task |-> u, stage |-> "running"]
    BY <1>0
  <2> QED
    BY <1>0, <2>1 DEF ReportStarted, ToServerMsg, storeVars, handlerVars, historyVars
<1>3. PICK q \in Nat : q = Len(toServer[b]) + 1
  <2>1. toServer[b] \in Seq(ToServerMsg)
    BY DEF TypeOK
  <2> QED
    BY <2>1
<1>4. ASSUME NEW c \in Conn, NEW t \in Task, NEW r \in ReportType, NEW i \in Nat,
             Reported(c, t, r, i)'
      PROVE  \/ Reported(c, t, r, i)
             \/ /\ c = b /\ t = u /\ r = "task_started" /\ i = q /\ Effective(b)
  <2>1. \/ Reported(c, t, r, i)
        \/ /\ c = b /\ link[b] = "open" /\ i = Len(toServer[b]) + 1
           /\ msg.type = r /\ msg.task = t
    BY <1>2, <1>4, ReportedAfterWrite
  <2> QED
    BY <1>3, <2>1 DEF Effective
<1> HIDE DEF msg
<1>5. ASSUME NEW c \in Conn, NEW t \in Task, NEW k \in Kind, NEW i \in Nat,
             Held(c, t, k, i)'
      PROVE  \/ Held(c, t, k, i) /\ ~(c = b /\ t = u /\ k = "starting")
             \/ t = u /\ c = b /\ k = "running" /\ i = 0 /\ Effective(b)
  BY <1>0, <1>2, <1>5 DEF Held, Effective, Sent
<1>6. CASE ~Effective(b)
  <2>1. \A c \in Conn, t \in Task, k \in Kind, i \in Nat :
            Held(c, t, k, i)' =>
                IF k = "dispatch" THEN Held(c, t, k, i + ZeroShift[c]) ELSE Held(c, t, k, i)
    BY <1>1, <1>5, <1>6
  <2>2. \A c \in Conn, t \in Task, r \in ReportType, i \in Nat :
            Reported(c, t, r, i)' => Reported(c, t, r, i + ZeroShift[c])
    BY <1>1, <1>4, <1>6
  <2> QED
    BY <1>1, <1>2, <2>1, <2>2, NoNewToken
<1>7. CASE Effective(b)
  <2>1. Held(b, u, "starting", 0)
    BY <1>0, <1>7 DEF Held
  <2>2. "starting" \in Kind /\ "starting" # "running" /\ "starting" # "lease" /\ 0 \in Nat
    BY DEF Kind
  <2>3. \A c \in Conn, k \in Kind, i \in Nat :
            Held(c, u, k, i) /\ ConnDevice[c] = ConnDevice[b] => c = b /\ k = "starting"
    BY <2>1, <2>2 DEF TokenParts, OneToken
  <2>4. \A c \in Conn, r \in ReportType, i \in Nat :
            Reported(c, u, r, i) => ConnDevice[c] # ConnDevice[b]
    BY <2>1, <2>2 DEF TokenParts, ReportsComeLast
  <2>5. /\ status[u][ConnDevice[b]] \in Given
        /\ DbMayFail = FALSE =>
               /\ \A o \in Outcome : <<u, ConnDevice[b], o>> \notin ran
               /\ dispatches[u][ConnDevice[b]] > 0
    BY <2>1, <2>2 DEF TokenParts, TokenIsGiven, TokenHasNotRun, TokenWasHanded
  <2>6. \A c \in Conn, t \in Task, k \in Kind, i \in Nat :
            Held(c, t, k, i)' /\ (t # u \/ ConnDevice[c] # ConnDevice[b]) =>
                IF k = "dispatch" THEN Held(c, t, k, i + ZeroShift[c]) ELSE Held(c, t, k, i)
    BY <1>1, <1>5
  <2>7. \A c \in Conn, k \in Kind, i \in Nat :
            Held(c, u, k, i)' /\ ConnDevice[c] = ConnDevice[b] =>
                c = b /\ k = "running" /\ i = 0
    BY <1>5, <2>3
  <2>8. \A c \in Conn, t \in Task, r \in ReportType, i \in Nat :
            Reported(c, t, r, i)' /\ (t # u \/ ConnDevice[c] # ConnDevice[b]) =>
                Reported(c, t, r, i + ZeroShift[c])
    BY <1>1, <1>4
  <2>9. \A c \in Conn, r \in ReportType, i \in Nat :
            Reported(c, u, r, i)' /\ ConnDevice[c] = ConnDevice[b] =>
                c = b /\ r = "task_started" /\ i = q
    BY <1>4, <2>4
  <2>10. NewTokenAt(ZeroShift, ZeroShift, b, u, "running", 0, q)
    BY <1>2, <2>5, <2>6, <2>7, <2>8, <2>9 DEF NewTokenAt
  <2> QED
    BY <1>1, <2>10, OneNewToken DEF Kind
<1> QED
  BY <1>6, <1>7

\* executeTask reports the result and ends: its token becomes the last report.
LEMMA ResultToken ==
    ASSUME TypeOK, TokenParts, NEW e \in exec, NEW o \in Outcome, ReportResult(e, o)
    PROVE  TokenParts'
<1> USE ConnAssumption
<1>0. PICK b \in Conn, u \in Task : e = [conn |-> b, task |-> u, stage |-> "running"]
  <2>1. e \in Execution /\ e.stage = "running"
    BY DEF TypeOK, ReportResult
  <2> QED
    BY <2>1 DEF Execution
<1> DEFINE msg == [type |-> "task_result", task |-> u, status |-> o]
<1>1. /\ WriteServer(b, msg) /\ msg \in ToServerMsg
      /\ exec' = exec \ {e}
      /\ ran' = ran \cup {<<u, ConnDevice[b], o>>}
      /\ UNCHANGED <<status, pc, claim, link, toAgent, dispatches>>
  BY <1>0 DEF ReportResult, ToServerMsg, storeVars, handlerVars
<1>2. PICK q \in Nat : q = Len(toServer[b]) + 1
  <2>1. toServer[b] \in Seq(ToServerMsg)
    BY DEF TypeOK
  <2> QED
    BY <2>1
<1>3. ASSUME NEW c \in Conn, NEW t \in Task, NEW r \in ReportType, NEW i \in Nat,
             Reported(c, t, r, i)'
      PROVE  \/ Reported(c, t, r, i)
             \/ c = b /\ t = u /\ r = "task_result" /\ i = q /\ Effective(b)
  <2>1. \/ Reported(c, t, r, i)
        \/ /\ c = b /\ link[b] = "open" /\ i = Len(toServer[b]) + 1
           /\ msg.type = r /\ msg.task = t
    BY <1>1, <1>3, ReportedAfterWrite
  <2> QED
    BY <1>2, <2>1 DEF Effective
<1> HIDE DEF msg
<1>4. ASSUME NEW c \in Conn, NEW t \in Task, NEW k \in Kind, NEW i \in Nat,
             Held(c, t, k, i)'
      PROVE  Held(c, t, k, i) /\ ~(c = b /\ t = u /\ k = "running")
  BY <1>0, <1>1, <1>4 DEF Held, Effective, Sent
<1>5. Effective(b) => Held(b, u, "running", 0)
  BY <1>0 DEF Held
<1>6. "running" \in Kind /\ "running" # "lease" /\ 0 \in Nat
  BY DEF Kind
<1>7. ASSUME Effective(b), NEW c \in Conn, NEW k \in Kind, NEW i \in Nat,
             ConnDevice[c] = ConnDevice[b]
      PROVE  ~Held(c, u, k, i)'
  BY <1>4, <1>5, <1>6, <1>7 DEF TokenParts, OneToken
<1>8. ASSUME Effective(b), NEW c \in Conn, NEW r \in ReportType, NEW i \in Nat,
             ConnDevice[c] = ConnDevice[b], Reported(c, u, r, i)
      PROVE  c = b /\ r = "task_started" /\ i < q
  <2>1. c = b /\ r = "task_started"
    BY <1>5, <1>6, <1>8 DEF TokenParts, ReportsComeLast
  <2>2. toServer[b] \in Seq(ToServerMsg) /\ i \in 1..Len(toServer[b])
    BY <1>8, <2>1 DEF TypeOK, Reported
  <2> QED
    BY <1>2, <2>1, <2>2
<1>9. OneToken'
  BY <1>4 DEF TokenParts, OneToken
<1>10. ReportsComeLast'
  <2> SUFFICES ASSUME NEW t \in Task, NEW c \in Conn, NEW f \in Conn,
                      NEW k \in Kind, NEW i \in Nat, NEW j \in Nat, NEW r \in ReportType,
                      ConnDevice[c] = ConnDevice[f], Held(c, t, k, i)', Reported(f, t, r, j)'
               PROVE  c = f /\ k = "running" /\ r = "task_started"
    BY DEF ReportsComeLast
  <2>1. Held(c, t, k, i)
    BY <1>4
  <2>2. CASE Reported(f, t, r, j)
    BY <2>1, <2>2 DEF TokenParts, ReportsComeLast
  <2>3. CASE f = b /\ t = u /\ Effective(b)
    BY <1>7, <2>3
  <2> QED
    BY <1>3, <2>2, <2>3
<1>11. ReportsInOrder'
  <2> SUFFICES ASSUME NEW t \in Task, NEW c \in Conn, NEW f \in Conn,
                      NEW i \in Nat, NEW j \in Nat, NEW r \in ReportType, NEW s \in ReportType,
                      ConnDevice[c] = ConnDevice[f], Reported(c, t, r, i)', Reported(f, t, s, j)'
               PROVE  /\ c = f
                      /\ r = s => i = j
                      /\ r = "task_started" /\ s = "task_result" => i < j
    BY DEF ReportsInOrder
  <2>1. CASE Reported(c, t, r, i) /\ Reported(f, t, s, j)
    BY <2>1 DEF TokenParts, ReportsInOrder
  <2>2. CASE t = u /\ ConnDevice[c] = ConnDevice[b] /\ Effective(b)
    <3>1. \/ c = b /\ ((r = "task_started" /\ i < q) \/ (r = "task_result" /\ i = q))
          \/ Reported(c, u, r, i)
      BY <1>3, <2>2
    <3>2. \/ f = b /\ ((s = "task_started" /\ j < q) \/ (s = "task_result" /\ j = q))
          \/ Reported(f, u, s, j)
      BY <1>3, <2>2
    <3>3. Reported(c, u, r, i) => c = b /\ r = "task_started" /\ i < q
      BY <1>8, <2>2
    <3>4. Reported(f, u, s, j) => f = b /\ s = "task_started" /\ j < q
      BY <1>8, <2>2
    <3>5. r = "task_started" /\ s = "task_started" =>
              Reported(c, u, r, i) /\ Reported(f, u, s, j)
      BY <1>3, <2>2
    <3> QED
      BY <2>1, <2>2, <3>1, <3>2, <3>3, <3>4, <3>5
  <2>3. \/ Reported(c, t, r, i) /\ Reported(f, t, s, j)
        \/ t = u /\ ConnDevice[c] = ConnDevice[b] /\ Effective(b)
    BY <1>3
  <2> QED
    BY <2>1, <2>2, <2>3
<1>12. TokenIsGiven'
  <2>1. Effective(b) => status[u][ConnDevice[b]] \in Given
    BY <1>5, <1>6 DEF TokenParts, TokenIsGiven
  <2>2. ASSUME NEW t \in Task, NEW c \in Conn, NEW i \in Nat,
               \/ \E k \in Kind : Held(c, t, k, i)'
               \/ \E r \in ReportType : Reported(c, t, r, i)'
        PROVE  status[t][ConnDevice[c]] \in Given
    <3>1. \/ \E k \in Kind : Held(c, t, k, i)
          \/ \E r \in ReportType : Reported(c, t, r, i)
          \/ c = b /\ t = u /\ Effective(b)
      BY <1>3, <1>4, <2>2
    <3> QED
      BY <2>1, <3>1 DEF TokenParts, TokenIsGiven
  <2> QED
    BY <1>1, <2>2 DEF TokenIsGiven
<1>13. TokenHasNotRun'
  <2> SUFFICES ASSUME DbMayFail = FALSE, NEW t \in Task, NEW c \in Conn, NEW k \in Kind,
                      NEW i \in Nat, NEW p \in Outcome, Held(c, t, k, i)'
               PROVE  <<t, ConnDevice[c], p>> \notin ran'
    BY DEF TokenHasNotRun
  <2>1. Held(c, t, k, i) /\ Effective(b)
    BY <1>4 DEF Effective
  <2>2. <<t, ConnDevice[c], p>> \notin ran
    BY <2>1 DEF TokenParts, TokenHasNotRun
  <2>3. t # u \/ ConnDevice[c] # ConnDevice[b]
    BY <1>7, <2>1
  <2> QED
    BY <1>1, <2>2, <2>3
<1>14. ASSUME DbMayFail = FALSE PROVE dispatches[u][ConnDevice[b]] > 0
  BY <1>5, <1>6, <1>14 DEF Effective, TokenParts, TokenWasHanded
<1>15. TokenWasHanded'
  <2> SUFFICES ASSUME DbMayFail = FALSE, NEW t \in Task, NEW c \in Conn, NEW i \in Nat,
                      \/ \E k \in Kind : k # "lease" /\ Held(c, t, k, i)'
                      \/ \E r \in ReportType : Reported(c, t, r, i)'
               PROVE  dispatches'[t][ConnDevice[c]] > 0
    BY DEF TokenWasHanded
  <2>1. \/ \E k \in Kind : k # "lease" /\ Held(c, t, k, i)
        \/ \E r \in ReportType : Reported(c, t, r, i)
        \/ c = b /\ t = u
    BY <1>3, <1>4
  <2> QED
    BY <1>1, <1>14, <2>1 DEF TokenParts, TokenWasHanded
<1>16. RunWasHanded'
  BY <1>1, <1>14 DEF TokenParts, RunWasHanded
<1> QED
  BY <1>9, <1>10, <1>11, <1>12, <1>13, <1>15, <1>16 DEF TokenParts

\* SetTaskStatus with an outcome: the report was the last trace of the token.
LEMMA OutcomeToken ==
    ASSUME TypeOK, TokenParts, NEW b \in Conn, HandleResult(b)
    PROVE  TokenParts'
<1> USE ConnAssumption
<1>0. PICK u \in Task : u = Head(toServer[b]).task
  BY ReceiveType DEF HandleResult
<1>1. /\ Receive(b, "task_result")
      /\ SetTaskStatus(b, u, Head(toServer[b]).status)
      /\ UNCHANGED <<pc, claim, link, toAgent, exec, ran, dispatches>>
  BY <1>0 DEF HandleResult, handlerVars, agentVars, historyVars
<1>2. Reported(b, u, "task_result", 1)
  <2>1. toServer[b] \in Seq(ToServerMsg) /\ toServer[b] # <<>>
        /\ Head(toServer[b]).type = "task_result"
    BY <1>1 DEF Receive, TypeOK
  <2>2. toServer[b][1] = Head(toServer[b]) /\ 1 \in 1..Len(toServer[b])
    BY <2>1
  <2> QED
    BY <1>0, <2>1, <2>2 DEF Reported
<1>3. "task_result" \in ReportType /\ "task_result" # "task_started" /\ 1 \in Nat
  BY DEF ReportType
<1>4. \A t \in Task, d \in Device :
          t # u \/ d # ConnDevice[b] => status'[t][d] = status[t][d]
  BY <1>1, SetTaskStatusAt
<1>5. ASSUME NEW c \in Conn, NEW k \in Kind, NEW i \in Nat, Held(c, u, k, i)',
             ConnDevice[c] = ConnDevice[b]
      PROVE  FALSE
  <2>1. Held(c, u, k, i)
    BY <1>1, <1>5 DEF Held, Effective, Sent
  <2> QED
    BY <1>2, <1>3, <1>5, <2>1 DEF TokenParts, ReportsComeLast
<1>6. ASSUME NEW c \in Conn, NEW r \in ReportType, NEW i \in Nat, Reported(c, u, r, i)',
             ConnDevice[c] = ConnDevice[b]
      PROVE  FALSE
  <2>1. \/ c # b /\ Reported(c, u, r, i)
        \/ c = b /\ Reported(c, u, r, i + 1)
    BY <1>1, <1>6, ReportedAfterReceive
  <2>2. i > 0
    BY <1>6 DEF Reported
  <2>3. CASE c # b /\ Reported(c, u, r, i)
    BY <1>2, <1>3, <1>6, <2>3 DEF TokenParts, ReportsInOrder
  <2>4. CASE c = b /\ Reported(c, u, r, i + 1)
    <3>1. (r = "task_result" => i + 1 = 1) /\ (r = "task_started" => i + 1 < 1)
      BY <1>2, <1>3, <1>6, <2>4 DEF TokenParts, ReportsInOrder
    <3> QED
      BY <2>2, <3>1 DEF ReportType
  <2> QED
    BY <2>1, <2>3, <2>4
<1>7. ASSUME NEW c \in Conn, NEW t \in Task, NEW i \in Nat,
             \/ \E k \in Kind : Held(c, t, k, i)'
             \/ \E r \in ReportType : Reported(c, t, r, i)'
      PROVE  status'[t][ConnDevice[c]] = status[t][ConnDevice[c]]
  BY <1>4, <1>5, <1>6, <1>7
<1> QED
  BY <1>1, <1>7, ReceiveToken

\* A restart loads the document: what has a token was handed out after its lease
\* was stored and has not ended, so the document too calls it given away.  When
\* writes may fail, no token survives the closing of all connections.
LEMMA RestartToken ==
    ASSUME TypeOK, TokenParts, Real, HandedIsStored, DbMayFail = FALSE => DispatchParts,
           ServerRestart
    PROVE  TokenParts'
<1> USE ConnAssumption
<1>1. /\ status' = disk.status
      /\ \A c \in Conn : pc'[c] # "dispatching"
      /\ \A c \in Conn : link'[c] # "open"
      /\ \A c \in Conn : toServer'[c] = <<>>
      /\ UNCHANGED <<disk, toAgent, exec, ran, dispatches>>
  BY DEF ServerRestart, TypeOK, agentVars, historyVars
<1>2. ASSUME NEW c \in Conn, NEW t \in Task, NEW k \in Kind, NEW i \in Nat,
             Held(c, t, k, i)'
      PROVE  DbMayFail = FALSE /\ Held(c, t, k, i) /\ k # "lease"
  BY <1>1, <1>2 DEF Held, Effective, Sent
<1>3. \A c \in Conn, t \in Task, r \in ReportType, i \in Nat : ~Reported(c, t, r, i)'
  BY <1>1 DEF Reported
<1>4. ASSUME NEW c \in Conn, NEW t \in Task, NEW k \in Kind, NEW i \in Nat,
             Held(c, t, k, i)'
      PROVE  status'[t][ConnDevice[c]] \in Given
  <2> DEFINE d == ConnDevice[c]
  <2>1. DbMayFail = FALSE /\ Held(c, t, k, i) /\ k # "lease" /\ d \in Device
    BY <1>2, <1>4
  <2>2. dispatches[t][d] > 0
    BY <2>1 DEF TokenParts, TokenWasHanded
  <2>3. disk.status[t][d] \notin {"none", "queued", "expired"}
    BY <2>1, <2>2 DEF DispatchParts, UndispatchedWhenQueued, HandedIsStored, TypeOK
  <2>4. disk.status[t][d] \notin Outcome
    BY <2>1 DEF TokenParts, TokenHasNotRun, Real, OutcomeIsReal
  <2>5. disk.status[t][d] \in Status
    BY <2>1 DEF TypeOK, Document
  <2> QED
    BY <1>1, <2>3, <2>4, <2>5 DEF Status, Outcome, Given
<1>5. ZeroShift \in [Conn -> Nat] /\ \A c \in Conn : ZeroShift[c] = 0
  BY DEF ZeroShift
<1>6. \A c \in Conn, t \in Task, k \in Kind, i \in Nat :
          Held(c, t, k, i)' =>
              IF k = "dispatch" THEN Held(c, t, k, i + ZeroShift[c]) ELSE Held(c, t, k, i)
  <2>1. \A c \in Conn, t \in Task, k \in Kind, i \in Nat : Held(c, t, k, i)' => Held(c, t, k, i)
    BY <1>2
  <2> QED
    BY <1>5, <2>1
<1>7. \A c \in Conn, t \in Task, i \in Nat :
          \/ \E k \in Kind : Held(c, t, k, i)'
          \/ \E r \in ReportType : Reported(c, t, r, i)'
          => (status[t][ConnDevice[c]] \in Given => status'[t][ConnDevice[c]] \in Given)
  BY <1>3, <1>4
<1> QED
  BY <1>1, <1>3, <1>5, <1>6, <1>7, NoNewToken

\* A freshly dialled connection carries nothing.
LEMMA ConnectToken ==
    ASSUME TypeOK, Wiring, TokenParts, NEW b \in Conn, Connect(b)
    PROVE  TokenParts'
<1> USE ConnAssumption
<1>1. /\ link[b] = "unused" /\ link' = [link EXCEPT ![b] = "open"]
      /\ pc' = [pc EXCEPT ![b] = "hello"]
      /\ UNCHANGED <<status, claim, toAgent, toServer, exec, ran, dispatches>>
  BY DEF Connect, storeVars, historyVars
<1>2. toAgent[b] = <<>> /\ \A e \in exec : e.conn # b
  BY <1>1 DEF Wiring
<1>3. ASSUME NEW c \in Conn, NEW t \in Task, NEW k \in Kind, NEW i \in Nat,
             Held(c, t, k, i)'
      PROVE  Held(c, t, k, i)
  <2>1. CASE c # b
    BY <1>1, <1>3, <2>1 DEF Held, Effective, Sent, TypeOK
  <2>2. CASE c = b
    BY <1>1, <1>2, <1>3, <2>2 DEF Held, Effective, Sent, TypeOK
  <2> QED
    BY <2>1, <2>2
<1>4. ASSUME NEW c \in Conn, NEW t \in Task, NEW r \in ReportType, NEW i \in Nat,
             Reported(c, t, r, i)'
      PROVE  Reported(c, t, r, i)
  BY <1>1, <1>4 DEF Reported
<1>5. ZeroShift \in [Conn -> Nat] /\ \A c \in Conn : ZeroShift[c] = 0
  BY DEF ZeroShift
<1>6. \A c \in Conn, t \in Task, k \in Kind, i \in Nat :
          Held(c, t, k, i)' =>
              IF k = "dispatch" THEN Held(c, t, k, i + ZeroShift[c]) ELSE Held(c, t, k, i)
  BY <1>3, <1>5
<1>7. \A c \in Conn, t \in Task, r \in ReportType, i \in Nat :
          Reported(c, t, r, i)' => Reported(c, t, r, i + ZeroShift[c])
  BY <1>4, <1>5
<1> QED
  BY <1>1, <1>5, <1>6, <1>7, NoNewToken

\* When no write fails: the lease is in the document before the task is sent, and
\* stays there.
LEMMA StepStored ==
    ASSUME TypeOK, HandedIsStored, DbMayFail = FALSE => DispatchParts, [Next]_vars
    PROVE  HandedIsStored'
<1> SUFFICES ASSUME DbMayFail = FALSE PROVE HandedIsStored'
  BY DEF HandedIsStored
<1> USE ConnAssumption
<1> USE DEF storeVars, handlerVars, netVars, agentVars, historyVars
\* no row is dropped, and no stored lease appears
<1>1. ASSUME \A t \in Task, d \in Device :
                 dispatches[t][d] > 0 => (status'[t][d] = "none" => status[t][d] = "none"),
             \A c \in Conn : pc'[c] = "dispatching" /\ c \notin unsaved' =>
                 pc[c] = "dispatching" /\ c \notin unsaved /\ claim'[c] = claim[c],
             UNCHANGED <<disk, dispatches>>
      PROVE HandedIsStored'
  BY <1>1 DEF HandedIsStored
<1>2. ASSUME NEW g \in Goroutine, Persist(g) PROVE HandedIsStored'
  BY <1>2 DEF Persist, HandedIsStored, DispatchParts, ClaimHeld
<1>3. ASSUME NEW t \in Task, NEW targets \in SUBSET Device, CreateTask(t, targets)
      PROVE HandedIsStored'
  <2>1. \A d \in Device : dispatches[t][d] = 0
    BY <1>3 DEF CreateTask, DispatchParts, FreshTasks
  <2>2. \A u \in Task : u # t => status'[u] = status[u]
    BY <1>3 DEF CreateTask, TypeOK
  <2> QED
    BY <1>1, <1>3, <2>1, <2>2 DEF CreateTask
<1>4. CASE Clean
  BY <1>1, <1>4 DEF Clean, Rewrites
<1>5. ASSUME NEW c \in Conn, HandleClaim(c) PROVE HandedIsStored'
  <2>1. Head(toServer[c]).task \in Task
    BY <1>5, ReceiveType DEF HandleClaim
  <2>2. \A t \in Task, d \in Device : status'[t][d] = "none" => status[t][d] = "none"
    BY <1>5, <2>1, LeaseAt DEF HandleClaim
  <2>3. \A b \in Conn : pc'[b] = "dispatching" /\ b \notin unsaved' =>
            pc[b] = "dispatching" /\ b \notin unsaved /\ claim'[b] = claim[b]
    BY <1>5 DEF HandleClaim, TypeOK
  <2> QED
    BY <1>1, <1>5, <2>2, <2>3 DEF HandleClaim
<1>6. ASSUME NEW c \in Conn, HandleStarted(c) \/ HandleResult(c) PROVE HandedIsStored'
  <2>1. PICK t \in Task, s \in {"running", "success", "failed"} : SetTaskStatus(c, t, s)
    BY <1>6, ReceiveType DEF HandleStarted, HandleResult, Outcome
  <2>2. \A u \in Task, d \in Device : status'[u][d] = "none" => status[u][d] = "none"
    BY <2>1, SetTaskStatusAt
  <2>3. unsaved \subseteq unsaved' /\ UNCHANGED <<disk, dispatches, pc, claim>>
    BY <1>6, <2>1 DEF HandleStarted, HandleResult, SetTaskStatus
  <2> QED
    BY <1>1, <2>2, <2>3
<1>7. ASSUME NEW c \in Conn, Dispatch(c) PROVE HandedIsStored'
  <2> DEFINE u == claim[c]
             d == ConnDevice[c]
  <2>1. /\ u \in Task /\ d \in Device /\ pc[c] = "dispatching" /\ c \notin unsaved
        /\ dispatches' = [dispatches EXCEPT ![u][d] = @ + 1]
        /\ pc'[c] # "dispatching"
        /\ \A b \in Conn : b # c => pc'[b] = pc[b] /\ claim'[b] = claim[b]
        /\ UNCHANGED <<status, disk, unsaved>>
    BY <1>7 DEF Dispatch, TypeOK
  <2>2. status[u][d] # "none" /\ disk.status[u][d] # "none"
    BY <2>1 DEF HandedIsStored, DispatchParts, ClaimHeld
  <2>3. \A t \in Task, e \in Device :
            dispatches'[t][e] > 0 => dispatches[t][e] > 0 \/ (t = u /\ e = d)
    BY <2>1 DEF TypeOK
  <2> QED
    BY <2>1, <2>2, <2>3 DEF HandedIsStored
<1>8. ASSUME NEW c \in Conn, MarkLeasedUnknown(c) PROVE HandedIsStored'
  <2>1. \A t \in Task, d \in Device : status'[t][d] = "none" => status[t][d] = "none"
    BY <1>8 DEF MarkLeasedUnknown, MarkedUnknown, TypeOK
  <2>2. /\ \A b \in Conn : pc'[b] = "dispatching" => pc[b] = "dispatching"
        /\ unsaved \subseteq unsaved' /\ UNCHANGED <<disk, dispatches, claim>>
    BY <1>8 DEF MarkLeasedUnknown, TypeOK
  <2> QED
    BY <1>1, <2>1, <2>2
<1>9. CASE ServerRestart
  BY <1>9 DEF ServerRestart, HandedIsStored, TypeOK
<1>10. CASE /\ \A c \in Conn : pc'[c] = "dispatching" => pc[c] = "dispatching"
            /\ unsaved \subseteq unsaved' /\ UNCHANGED <<status, disk, dispatches, claim>>
  BY <1>1, <1>10
<1>11. ASSUME NEW c \in Conn, UpsertAgentDevice(c) \/ SetAgent(c) \/ ClosePrevious(c)
                \/ ListPending(c) \/ EndConnection(c) \/ MarkOffline(c) \/ Connect(c)
      PROVE HandedIsStored'
  <2>1. \A b \in Conn : pc'[b] = "dispatching" => pc[b] = "dispatching"
    BY <1>11 DEF UpsertAgentDevice, SetAgent, ClosePrevious,
       ListPending, EndConnection, MarkOffline,
       Connect, TypeOK
  <2> QED
    BY <1>10, <1>11, <2>1 DEF UpsertAgentDevice, SetAgent, ClosePrevious,
       ListPending, EndConnection, MarkOffline,
       Connect
<1>12. ASSUME NEW c \in Conn, Handler(c) PROVE HandedIsStored'
  BY <1>5, <1>6, <1>7, <1>8, <1>10, <1>11, <1>12 DEF Handler, Announce, RefuseClaim
<1>13. ASSUME NEW d \in Device, Agent(d) PROVE HandedIsStored'
  BY <1>10, <1>13 DEF Agent, HandleAvailable, HandleDispatch, LoseConnection
<1>14. ASSUME NEW e \in exec, Execute(e) PROVE HandedIsStored'
  BY <1>10, <1>14 DEF Execute, ReportStarted, ReportResult
<1> QED
  BY <1>2, <1>3, <1>4, <1>9, <1>10, <1>11, <1>12, <1>13, <1>14
     DEF Next, NotifyTask, Expire, DeleteOfflineDevice, Heartbeat, Rewrites, BreakLink,
         StallWrites, AgentCrash, vars

-----------------------------------------------------------------------------
(* Every step keeps the tokens *)

\* The actions of Next, one by one.
LEMMA StepToken ==
    ASSUME TypeOK, FreshStore, Wiring, Real, HandedIsStored, TokenParts,
           DbMayFail = FALSE => DispatchParts, [Next]_vars
    PROVE  TokenParts'
<1> USE ConnAssumption
<1> USE DEF storeVars, handlerVars, netVars, agentVars, historyVars
\* nothing but the store, the presence and the hub changes
<1>1. ASSUME \A t \in Task, d \in Device : status[t][d] \in Given => status'[t][d] \in Given,
             \A c \in Conn : pc'[c] = "dispatching" => pc[c] = "dispatching",
             UNCHANGED <<claim, link, toAgent, toServer, exec, ran, dispatches>>
      PROVE TokenParts'
  BY <1>1, QuietToken
<1>2. CASE UNCHANGED <<status, pc, claim, link, toAgent, toServer, exec, ran, dispatches>>
  BY <1>1, <1>2
<1>3. ASSUME NEW t \in Task, NEW targets \in SUBSET Device, CreateTask(t, targets)
      PROVE TokenParts'
  <2>1. \A u \in Task, d \in Device : status[u][d] \in Given => status'[u][d] \in Given
    BY <1>3 DEF CreateTask, TypeOK, FreshStore, Given
  <2> QED
    BY <1>1, <1>3, <2>1 DEF CreateTask
<1>4. ASSUME NEW t \in Task, NEW d \in Device, NotifyTask(t, d) PROVE TokenParts'
  <2>1. Available(t) \in ToAgentMsg /\ Available(t).type # "task_dispatch"
    BY DEF Available, ToAgentMsg
  <2>2. CASE agents[d] = NoConn
    BY <1>2, <1>4, <2>2 DEF NotifyTask, SendAgent
  <2>3. CASE agents[d] # NoConn
    <3>1. agents[d] \in Conn /\ WriteAgent(agents[d], Available(t))
      BY <1>4, <2>3 DEF NotifyTask, SendAgent, TypeOK
    <3> QED
      BY <1>4, <2>1, <3>1, AnnounceToken DEF NotifyTask
  <2> QED
    BY <2>2, <2>3
<1>5. CASE Clean
  <2>1. \A t \in Task, d \in Device : status[t][d] \in Given => status'[t][d] \in Given
    BY <1>5 DEF Clean, Given
  <2> QED
    BY <1>1, <1>5, <2>1 DEF Clean
<1>6. ASSUME NEW c \in Conn, UpsertAgentDevice(c) \/ ListPending(c) \/ MarkOffline(c)
      PROVE TokenParts'
  <2>1. \A b \in Conn : pc'[b] = "dispatching" => pc[b] = "dispatching"
    BY <1>6 DEF UpsertAgentDevice, ListPending, MarkOffline, TypeOK
  <2> QED
    BY <1>1, <1>6, <2>1 DEF UpsertAgentDevice, ListPending, MarkOffline
<1>7. ASSUME NEW c \in Conn, SetAgent(c) \/ ClosePrevious(c) PROVE TokenParts'
  <2>1. /\ \A b \in Conn : pc'[b] = "dispatching" => pc[b] = "dispatching"
        /\ \A b \in Conn : link'[b] = "open" => link[b] = "open"
        /\ UNCHANGED <<status, claim, toAgent, toServer, exec, ran, dispatches>>
    BY <1>7 DEF SetAgent, ClosePrevious, TypeOK
  <2> QED
    BY <2>1, QuietToken
<1>8. ASSUME NEW c \in Conn, NEW t \in Task, Announce(c, t) PROVE TokenParts'
  <2>1. Available(t) \in ToAgentMsg /\ Available(t).type # "task_dispatch"
    BY DEF Available, ToAgentMsg
  <2> QED
    BY <1>8, <2>1, AnnounceToken DEF Announce
<1>9. ASSUME NEW c \in Conn, RefuseClaim(c) PROVE TokenParts'
  BY <1>9, ReceiveToken DEF RefuseClaim
<1>10. ASSUME NEW c \in Conn, HandleStarted(c) PROVE TokenParts'
  <2>1. PICK t \in Task : SetTaskStatus(c, t, "running")
    BY <1>10, ReceiveType DEF HandleStarted
  <2>2. \A u \in Task, d \in Device : status[u][d] \in Given => status'[u][d] \in Given
    BY <2>1, SetTaskStatusAt DEF Given
  <2> QED
    BY <1>10, <2>2, ReceiveToken DEF HandleStarted
<1>11. ASSUME NEW c \in Conn, EndConnection(c) PROVE TokenParts'
  <2>1. /\ \A b \in Conn : pc'[b] = "dispatching" => pc[b] = "dispatching"
        /\ \A b \in Conn : toServer'[b] = toServer[b] \/ toServer'[b] = <<>>
        /\ UNCHANGED <<status, claim, link, toAgent, exec, ran, dispatches>>
    BY <1>11 DEF EndConnection, TypeOK
  <2> QED
    BY <2>1, QuietToken
<1>12. ASSUME NEW c \in Conn, MarkLeasedUnknown(c) PROVE TokenParts'
  <2>1. \A t \in Task, d \in Device : status[t][d] \in Given => status'[t][d] \in Given
    BY <1>12 DEF MarkLeasedUnknown, MarkedUnknown, Given, TypeOK
  <2>2. \A b \in Conn : pc'[b] = "dispatching" => pc[b] = "dispatching"
    BY <1>12 DEF MarkLeasedUnknown, TypeOK
  <2> QED
    BY <1>1, <1>12, <2>1, <2>2 DEF MarkLeasedUnknown
<1>13. ASSUME NEW d \in Device, HandleAvailable(d) PROVE TokenParts'
  <2>0. PICK c \in Conn : c = agentConn[d]
    BY <1>13 DEF HandleAvailable, TypeOK
  <2> DEFINE msg == [type |-> "task_claim", task |-> Head(toAgent[c]).task]
  <2>1. /\ AgentReads(c) /\ WriteServer(c, msg)
        /\ UNCHANGED <<status, pc, claim, link, exec, ran, dispatches>>
    BY <1>13, <2>0 DEF HandleAvailable, AgentReads
  <2>2. Head(toAgent[c]) \in ToAgentMsg
    <3>1. toAgent[c] \in Seq(ToAgentMsg) /\ toAgent[c] # <<>>
      BY <2>1 DEF AgentReads, TypeOK
    <3> QED
      BY <3>1, HeadTailInSeq
  <2>3. msg \in ToServerMsg /\ msg.type \notin ReportType
    BY <2>2 DEF ToAgentMsg, ToServerMsg, ReportType
  <2> QED
    BY <2>1, <2>3, AnswerToken
<1>14. ASSUME NEW c \in Conn, BreakLink(c) PROVE TokenParts'
  <2>1. /\ \A b \in Conn : link'[b] = "open" => link[b] = "open"
        /\ UNCHANGED <<status, pc, claim, toAgent, toServer, exec, ran, dispatches>>
    BY <1>14 DEF BreakLink, TypeOK
  <2> QED
    BY <2>1, QuietToken
<1>15. ASSUME NEW d \in Device, AgentCrash(d) PROVE TokenParts'
  <2>1. /\ \A b \in Conn : link'[b] = "open" => link[b] = "open"
        /\ exec' \subseteq exec
        /\ UNCHANGED <<status, pc, claim, toAgent, toServer, ran, dispatches>>
    BY <1>15 DEF AgentCrash, TypeOK
  <2> QED
    BY <2>1, QuietToken
<1>16. ASSUME NEW c \in Conn, Handler(c) PROVE TokenParts'
  BY <1>6, <1>7, <1>8, <1>9, <1>10, <1>11, <1>12, <1>16, ClaimToken, DispatchToken,
     OutcomeToken DEF Handler
<1>17. ASSUME NEW d \in Device, Agent(d) PROVE TokenParts'
  BY <1>2, <1>13, <1>17, StartToken DEF Agent, LoseConnection
<1>18. ASSUME NEW e \in exec, Execute(e) PROVE TokenParts'
  BY <1>18, StartedToken, ResultToken DEF Execute
<1> QED
  BY <1>2, <1>3, <1>4, <1>5, <1>14, <1>15, <1>16, <1>17, <1>18, RestartToken, ConnectToken
     DEF Next, Persist, Expire, DeleteOfflineDevice, Heartbeat, StallWrites, vars

\* Nothing has happened yet.
LEMMA InitToken == Init => TokenParts /\ FreshStore /\ Wiring /\ Real /\ HandedIsStored
<1> SUFFICES ASSUME Init PROVE TokenParts /\ FreshStore /\ Wiring /\ Real /\ HandedIsStored
  OBVIOUS
<1> USE ConnAssumption
<1>1. /\ \A c \in Conn, t \in Task, k \in Kind, i \in Nat : ~Held(c, t, k, i)
      /\ \A c \in Conn, t \in Task, r \in ReportType, i \in Nat : ~Reported(c, t, r, i)
      /\ \A c \in Conn, t \in Task, i \in Nat : ~Reported(c, t, "task_result", i)
  BY DEF Init, Held, Sent, Reported
<1>2. TokenParts
  BY <1>1 DEF Init, TokenParts, OneToken, ReportsComeLast, ReportsInOrder, TokenIsGiven,
     TokenHasNotRun, TokenWasHanded, RunWasHanded
<1>3. FreshStore /\ Wiring /\ HandedIsStored
  BY DEF Init, FreshStore, Wiring, HandedIsStored
<1>4. Real
  BY <1>1 DEF Init, Real, ResultsAreReal, OutcomeIsReal, Outcome
<1> QED
  BY <1>2, <1>3, <1>4

-----------------------------------------------------------------------------
(* The invariant, and what follows from it *)

OutcomeInv ==
    /\ TypeOK
    /\ FreshStore
    /\ Wiring
    /\ Real
    /\ HandedIsStored
    /\ TokenParts
    /\ DbMayFail = FALSE => DispatchParts

\* What the store, the messages and the goroutines know of a task fits together,
\* whatever the network, the agents, the database and restarts do: there is one
\* token per task and device, and the store never forgets that it gave it away.
THEOREM OutcomeInvariant == Spec => []OutcomeInv
<1>1. Init => OutcomeInv
  BY InitType, InitDispatch, InitToken DEF OutcomeInv
<1>2. OutcomeInv /\ [Next]_vars => OutcomeInv'
  <2> SUFFICES ASSUME OutcomeInv, [Next]_vars PROVE OutcomeInv'
    OBVIOUS
  <2> USE DEF OutcomeInv
  <2>1. TypeOK'
    BY StepType
  <2>2. FreshStore' /\ Wiring'
    BY StepFresh, StepWiring
  <2>3. Real' /\ HandedIsStored'
    BY StepReal, StepStored
  <2>4. TokenParts'
    BY StepToken
  <2>5. (DbMayFail = FALSE => DispatchParts)'
    BY StepDispatch
  <2> QED
    BY <2>1, <2>2, <2>3, <2>4, <2>5
<1> QED
  BY <1>1, <1>2, PTL DEF Spec

\* hub.setAgent and previous.close(): whatever number of agents dial and redial, and
\* in whatever order their handlers enter the hub, an open socket that entered it is
\* the one it routes to, or a handler that replaced it is about to close it.
THEOREM OneSocket == Spec => []OneOpenAgentSocket
<1>1. Init => NotDialled /\ OneOpenAgentSocket
  BY DEF Init, NotDialled, OneOpenAgentSocket
<1>2. TypeOK /\ NotDialled /\ [Next]_vars => NotDialled'
  BY StepDialled
<1>3. TypeOK /\ NotDialled /\ OneOpenAgentSocket /\ [Next]_vars => OneOpenAgentSocket'
  BY StepSocket
<1> QED
  BY <1>1, <1>2, <1>3, TypeCorrect, PTL DEF Spec

\* SetTaskStatus stores no outcome the agent's runTask did not return: success and
\* failed, in memory and in the document, are never made up, even when writes of
\* the document fail.
THEOREM RealOutcomes == Spec => []OutcomeIsReal
<1>1. OutcomeInv => OutcomeIsReal
  BY DEF OutcomeInv, Real
<1> QED
  BY <1>1, OutcomeInvariant, PTL

\* SetTaskStatus checks nothing, and yet no late task_started, second result,
\* disconnect or expiry overwrites a finished task: by the token, none can still
\* be on its way.  Only a restart can go back to an older document.
THEOREM StableOutcomes == Spec => OutcomeStable
<1> DEFINE Stable == \A t \in Task, d \in Device :
                        status[t][d] \in Outcome =>
                            \/ status'[t][d] = status[t][d]
                            \/ ServerRestart
<1>1. OutcomeInv /\ [Next]_vars => [Stable]_vars
  <2> SUFFICES ASSUME OutcomeInv, [Next]_vars PROVE [Stable]_vars
    OBVIOUS
  <2> USE ConnAssumption DEF storeVars, handlerVars, netVars, agentVars, historyVars
  <2>0. TypeOK /\ FreshStore /\ TokenParts
    BY DEF OutcomeInv
  <2>1. CASE UNCHANGED status \/ ServerRestart
    BY <2>1
  <2>2. ASSUME NEW t \in Task, NEW targets \in SUBSET Device, CreateTask(t, targets)
        PROVE Stable
    BY <2>0, <2>2 DEF CreateTask, TypeOK, FreshStore, Outcome
  <2>3. CASE Clean
    BY <2>3 DEF Clean, Outcome
  <2>4. ASSUME NEW c \in Conn, HandleClaim(c) PROVE Stable
    <3>1. Head(toServer[c]).task \in Task
      BY <2>0, <2>4, ReceiveType DEF HandleClaim
    <3> QED
      BY <2>0, <2>4, <3>1, LeaseAt DEF HandleClaim, Claimable, Outcome
  <2>5. ASSUME NEW c \in Conn, HandleStarted(c) \/ HandleResult(c) PROVE Stable
    <3>1. PICK r \in ReportType : Receive(c, r)
      BY <2>5 DEF HandleStarted, HandleResult, ReportType
    <3>2. PICK u \in Task : u = Head(toServer[c]).task
      BY <2>0, <3>1, ReceiveType
    <3>3. PICK s \in {"running", Head(toServer[c]).status} : SetTaskStatus(c, u, s)
      BY <2>5, <3>2 DEF HandleStarted, HandleResult
    <3>4. Reported(c, u, r, 1)
      <4>1. toServer[c] \in Seq(ToServerMsg) /\ toServer[c] # <<>> /\ Head(toServer[c]).type = r
        BY <2>0, <3>1 DEF Receive, TypeOK
      <4>2. toServer[c][1] = Head(toServer[c]) /\ 1 \in 1..Len(toServer[c])
        BY <4>1
      <4> QED
        BY <3>2, <4>1, <4>2 DEF Reported
    <3>5. status[u][ConnDevice[c]] \in Given
      <4>1. 1 \in Nat
        OBVIOUS
      <4> QED
        BY <2>0, <3>4, <4>1 DEF TokenParts, TokenIsGiven
    <3> QED
      BY <2>0, <3>3, <3>5, SetTaskStatusAt DEF Given, Outcome
  <2>6. ASSUME NEW c \in Conn, MarkLeasedUnknown(c) PROVE Stable
    BY <2>0, <2>6 DEF MarkLeasedUnknown, MarkedUnknown, TypeOK, Outcome
  <2>7. ASSUME NEW c \in Conn, Handler(c) PROVE Stable
    BY <2>1, <2>4, <2>5, <2>6, <2>7 DEF Handler, UpsertAgentDevice, SetAgent, ClosePrevious,
       ListPending,
       Announce, RefuseClaim, Dispatch, EndConnection, MarkOffline
  <2>8. ASSUME NEW d \in Device, Agent(d) PROVE Stable
    BY <2>1, <2>8 DEF Agent, HandleAvailable, HandleDispatch, LoseConnection
  <2>9. ASSUME NEW e \in exec, Execute(e) PROVE Stable
    BY <2>1, <2>9 DEF Execute, ReportStarted, ReportResult
  <2> HIDE DEF Stable
  <2> QED
    BY <2>1, <2>2, <2>3, <2>7, <2>8, <2>9
       DEF Next, Persist, NotifyTask, Expire, DeleteOfflineDevice, Connect, Heartbeat,
           BreakLink, StallWrites, AgentCrash, vars
<1> QED
  BY <1>1, OutcomeInvariant, PTL DEF Spec, OutcomeStable

-----------------------------------------------------------------------------
(* TaskDispatch implements TaskLifecycle *)

\* what the abstract specification calls handed
HandedSet == {p \in Task \X Device : dispatches[p[1]][p[2]] > 0}

\* A pair is in it when the task was dispatched to the device.
LEMMA HandedAt ==
    ASSUME NEW t \in Task, NEW d \in Device
    PROVE  <<t, d>> \in HandedSet <=> dispatches[t][d] > 0
  BY DEF HandedSet

\* Every step is one of the abstract steps, or changes nothing they speak of.
LEMMA LifecycleStep ==
    ASSUME DbMayFail = FALSE, OutcomeInv, [Next]_vars
    PROVE  [Lifecycle!Next]_(Lifecycle!vars)
<1> USE ConnAssumption
<1> USE DEF storeVars, handlerVars, netVars, agentVars, historyVars
<1>0. TypeOK /\ FreshStore /\ Real /\ HandedIsStored /\ TokenParts /\ DispatchParts
  BY DEF OutcomeInv
<1>1. ASSUME UNCHANGED <<status, disk, dispatches, ran>> PROVE UNCHANGED Lifecycle!vars
  BY <1>1 DEF Lifecycle!vars
\* a change of the status map alone
<1>2. ASSUME UNCHANGED <<disk, dispatches, ran>>,
             \A t \in Task, d \in Device :
                 \/ status'[t][d] = status[t][d]
                 \/ Lifecycle!Edge(t, d, status[t][d], status'[t][d])
      PROVE [Lifecycle!Next]_(Lifecycle!vars)
  <2>1. CASE status' = status
    BY <1>1, <1>2, <2>1
  <2>2. CASE status' # status
    <3>1. Lifecycle!Move
      BY <1>2, <2>2 DEF Lifecycle!Move
    <3> QED
      BY <3>1 DEF Lifecycle!Next
  <2> QED
    BY <2>1, <2>2
<1>3. ASSUME NEW g \in Goroutine, Persist(g) PROVE Lifecycle!Save
  BY <1>3 DEF Persist, Lifecycle!Save
<1>4. ASSUME NEW t \in Task, NEW targets \in SUBSET Device, CreateTask(t, targets)
      PROVE [Lifecycle!Next]_(Lifecycle!vars)
  <2>1. \A u \in Task, d \in Device :
            \/ status'[u][d] = status[u][d]
            \/ status[u][d] = "none" /\ status'[u][d] = "queued" /\ disk.status[u][d] = "none"
    BY <1>0, <1>4 DEF CreateTask, TypeOK, FreshStore
  <2> QED
    BY <1>2, <1>4, <2>1 DEF CreateTask, Lifecycle!Edge
<1>5. ASSUME Clean PROVE [Lifecycle!Next]_(Lifecycle!vars)
  <2>1. \A u \in Task, d \in Device :
            \/ status'[u][d] = status[u][d]
            \/ status[u][d] = "queued" /\ status'[u][d] = "expired"
    BY <1>5 DEF Clean
  <2> QED
    BY <1>2, <1>5, <2>1 DEF Clean, Lifecycle!Edge
<1>6. ASSUME NEW c \in Conn, HandleClaim(c) PROVE [Lifecycle!Next]_(Lifecycle!vars)
  <2>1. Head(toServer[c]).task \in Task
    BY <1>0, <1>6, ReceiveType DEF HandleClaim
  <2>2. \A u \in Task, d \in Device :
            \/ status'[u][d] = status[u][d]
            \/ status[u][d] = "queued" /\ status'[u][d] = "leased"
    BY <1>0, <1>6, <2>1, LeaseAt DEF HandleClaim, Claimable
  <2> QED
    BY <1>2, <1>6, <2>2 DEF HandleClaim, Lifecycle!Edge
<1>7. ASSUME NEW c \in Conn, MarkLeasedUnknown(c) PROVE [Lifecycle!Next]_(Lifecycle!vars)
  <2>1. \A u \in Task, d \in Device :
            \/ status'[u][d] = status[u][d]
            \/ status[u][d] \in {"leased", "running"} /\ status'[u][d] = "unknown"
    BY <1>0, <1>7 DEF MarkLeasedUnknown, MarkedUnknown, TypeOK
  <2> QED
    BY <1>2, <1>7, <2>1 DEF MarkLeasedUnknown, Lifecycle!Edge
\* what the first message on a connection reports was handed to its device
<1>8. ASSUME NEW c \in Conn, NEW r \in ReportType, Receive(c, r),
             NEW u \in Task, u = Head(toServer[c]).task
      PROVE  /\ status[u][ConnDevice[c]] \in Given
             /\ <<u, ConnDevice[c]>> \in HandedSet
             /\ r = "task_result" => <<u, ConnDevice[c], Head(toServer[c]).status>> \in ran
  <2>1. toServer[c] \in Seq(ToServerMsg) /\ toServer[c] # <<>> /\ Head(toServer[c]).type = r
    BY <1>0, <1>8 DEF Receive, TypeOK
  <2>2. toServer[c][1] = Head(toServer[c]) /\ 1 \in 1..Len(toServer[c]) /\ 1 \in Nat
    BY <2>1
  <2>3. Reported(c, u, r, 1)
    BY <1>8, <2>1, <2>2 DEF Reported
  <2>4. status[u][ConnDevice[c]] \in Given
    BY <1>0, <2>2, <2>3 DEF TokenParts, TokenIsGiven
  <2>5. dispatches[u][ConnDevice[c]] > 0
    BY <1>0, <2>2, <2>3 DEF TokenParts, TokenWasHanded
  <2>6. r = "task_result" => <<u, ConnDevice[c], Head(toServer[c]).status>> \in ran
    BY <1>0, <2>2, <2>3 DEF Real, ResultsAreReal
  <2> QED
    BY <2>4, <2>5, <2>6, HandedAt
<1>9. ASSUME NEW c \in Conn, HandleStarted(c) PROVE [Lifecycle!Next]_(Lifecycle!vars)
  <2>1. PICK u \in Task : u = Head(toServer[c]).task
    BY <1>0, <1>9, ReceiveType DEF HandleStarted
  <2>2. Receive(c, "task_started") /\ SetTaskStatus(c, u, "running")
        /\ UNCHANGED <<disk, dispatches, ran>>
    BY <1>9, <2>1 DEF HandleStarted
  <2>3. status[u][ConnDevice[c]] \in Given /\ <<u, ConnDevice[c]>> \in HandedSet
    BY <1>8, <2>1, <2>2 DEF ReportType
  <2>4. \A t \in Task, d \in Device :
            \/ status'[t][d] = status[t][d]
            \/ status[t][d] \in Given /\ status'[t][d] = "running" /\ <<t, d>> \in HandedSet
    BY <1>0, <2>2, <2>3, SetTaskStatusAt
  <2> QED
    BY <1>2, <2>2, <2>4 DEF Lifecycle!Edge, Lifecycle!Given, Given, HandedSet
<1>10. ASSUME NEW c \in Conn, HandleResult(c) PROVE [Lifecycle!Next]_(Lifecycle!vars)
  <2>1. PICK u \in Task : u = Head(toServer[c]).task
    BY <1>0, <1>10, ReceiveType DEF HandleResult
  <2>2. PICK o \in Outcome : o = Head(toServer[c]).status
    BY <1>0, <1>10, ReceiveType DEF HandleResult
  <2>3. Receive(c, "task_result") /\ SetTaskStatus(c, u, o)
        /\ UNCHANGED <<disk, dispatches, ran>>
    BY <1>10, <2>1, <2>2 DEF HandleResult
  <2>4. status[u][ConnDevice[c]] \in Given /\ <<u, ConnDevice[c], o>> \in ran
    BY <1>8, <2>1, <2>2, <2>3 DEF ReportType
  <2>5. \A t \in Task, d \in Device :
            \/ status'[t][d] = status[t][d]
            \/ /\ status[t][d] \in Given /\ status'[t][d] \in Outcome
               /\ <<t, d, status'[t][d]>> \in ran
    BY <1>0, <2>3, <2>4, SetTaskStatusAt
  <2> QED
    BY <1>2, <2>3, <2>5 DEF Lifecycle!Edge, Lifecycle!Given, Given, Lifecycle!Outcome, Outcome
<1>11. ASSUME NEW c \in Conn, Dispatch(c) PROVE [Lifecycle!Next]_(Lifecycle!vars)
  <2> DEFINE u == claim[c]
             d == ConnDevice[c]
  <2>1. /\ u \in Task /\ d \in Device /\ pc[c] = "dispatching" /\ c \notin unsaved
        /\ dispatches' = [dispatches EXCEPT ![u][d] = @ + 1]
        /\ UNCHANGED <<status, disk, ran>>
    BY <1>0, <1>11 DEF Dispatch, TypeOK
  <2>2. dispatches[u][d] = 0 /\ disk.status[u][d] \notin {"queued", "expired"}
    BY <1>0, <2>1 DEF DispatchParts, ClaimHeld
  <2>3. status[u][d] \in Given
    <3>1. Held(c, u, "lease", 0) /\ "lease" \in Kind /\ 0 \in Nat
      BY <2>1 DEF Held, Kind
    <3> QED
      BY <1>0, <2>1, <3>1 DEF TokenParts, TokenIsGiven
  <2>4. \A t \in Task, e \in Device :
            dispatches'[t][e] > 0 <=> dispatches[t][e] > 0 \/ (t = u /\ e = d)
    BY <1>0, <2>1 DEF TypeOK
  <2>5. HandedSet' = HandedSet \cup {<<u, d>>} /\ <<u, d>> \notin HandedSet
    BY <2>1, <2>2, <2>4 DEF HandedSet
  <2>6. Lifecycle!HandOver(u, d)
    BY <2>1, <2>2, <2>3, <2>5 DEF HandedSet, Given, Lifecycle!HandOver, Lifecycle!Given,
       Lifecycle!Open
  <2> QED
    BY <2>1, <2>6 DEF Lifecycle!Next
<1>12. ASSUME NEW e \in exec, NEW o \in Outcome, ReportResult(e, o)
       PROVE  [Lifecycle!Next]_(Lifecycle!vars)
  <2>1. PICK b \in Conn, u \in Task : e = [conn |-> b, task |-> u, stage |-> "running"]
    <3>1. e \in Execution /\ e.stage = "running"
      BY <1>0, <1>12 DEF TypeOK, ReportResult
    <3> QED
      BY <3>1 DEF Execution
  <2> DEFINE d == ConnDevice[b]
  <2>2. /\ ran' = ran \cup {<<u, d, o>>} /\ d \in Device
        /\ UNCHANGED <<status, disk, dispatches>>
    BY <1>12, <2>1 DEF ReportResult
  <2>3. Held(b, u, "running", 0) /\ "running" \in Kind /\ "running" # "lease" /\ 0 \in Nat
    BY <2>1 DEF Held, Effective, Kind
  <2>4. \A p \in Outcome : <<u, d, p>> \notin ran
    BY <1>0, <2>3 DEF TokenParts, TokenHasNotRun
  <2>5. <<u, d>> \in HandedSet
    BY <1>0, <2>2, <2>3, HandedAt DEF TokenParts, TokenWasHanded
  <2>6. Lifecycle!Run(u, d, o)
    BY <2>2, <2>4, <2>5 DEF HandedSet, Outcome, Lifecycle!Run, Lifecycle!Outcome
  <2> QED
    BY <2>2, <2>6 DEF Lifecycle!Next, Lifecycle!Outcome, Outcome
<1>13. ASSUME ServerRestart PROVE Lifecycle!Restart
  BY <1>13 DEF ServerRestart, Lifecycle!Restart
<1>14. ASSUME NEW c \in Conn, Handler(c) PROVE [Lifecycle!Next]_(Lifecycle!vars)
  BY <1>1, <1>6, <1>7, <1>9, <1>10, <1>11, <1>14 DEF Handler, UpsertAgentDevice, SetAgent, ClosePrevious,
     ListPending, Announce, RefuseClaim, EndConnection, MarkOffline
<1>15. ASSUME NEW d \in Device, Agent(d) PROVE UNCHANGED Lifecycle!vars
  BY <1>1, <1>15 DEF Agent, HandleAvailable, HandleDispatch, LoseConnection
<1>16. ASSUME NEW e \in exec, Execute(e) PROVE [Lifecycle!Next]_(Lifecycle!vars)
  BY <1>1, <1>12, <1>16 DEF Execute, ReportStarted
<1>17. Lifecycle!Save \/ Lifecycle!Restart => Lifecycle!Next
  BY DEF Lifecycle!Next
<1> QED
  BY <1>1, <1>3, <1>4, <1>5, <1>13, <1>14, <1>15, <1>16, <1>17
     DEF Next, NotifyTask, Expire, DeleteOfflineDevice, Connect, Heartbeat, BreakLink,
         StallWrites, AgentCrash, vars

\* Sockets, claims, leases, reports, restarts and the state document together do what
\* TaskLifecycle promises a user: for every number of tasks, devices, connections and
\* faults, as long as writes of the document succeed.
THEOREM LifecycleRefinement ==
    ASSUME DbMayFail = FALSE
    PROVE  Spec => ImplementsLifecycle
<1>1. Init => Lifecycle!Init
  BY DEF Init, Lifecycle!Init
<1>2. OutcomeInv /\ [Next]_vars => [Lifecycle!Next]_(Lifecycle!vars)
  BY LifecycleStep
<1> QED
  BY <1>1, <1>2, OutcomeInvariant, PTL DEF Spec, ImplementsLifecycle, Lifecycle!Spec
=============================================================================
