----------------------------- MODULE PreviewHub -----------------------------
(***************************************************************************)
(* The viewers' side of the realtime hub of the control plane              *)
(* (src/backend/internal/controlplane/realtime.go, preview.go,             *)
(* audio_stream.go and the browser loop of server.go).                     *)
(*                                                                         *)
(* Every browser socket is served by one goroutine that handles its        *)
(* messages in order; the goroutines of different browsers interleave.     *)
(* The hub's maps are changed under one lock, but a handler takes and      *)
(* releases the lock several times, and writes to the agent's socket       *)
(* outside of it.  todo[b] holds the critical sections that b's goroutine  *)
(* still has to run for the message in hand; the socket's write lock makes *)
(* each write to an agent one step, and the agent applies what it reads in *)
(* the order of the writes, so told, audioOn and clients stand for what    *)
(* the agent does.                                                         *)
(***************************************************************************)
EXTENDS Naturals, FiniteSets, Sequences, SequencesExt

CONSTANTS
    Browser,        \* browser sockets (one randomID per connection)
    Device,         \* devices
    NoDevice,       \* the deviceID of a browser that has not connected yet
    Nothing,        \* a missing map entry, the nil request, stop_preview
    Settings,       \* what browsers ask for, whose agents may stall or reconnect
    MaxRequests     \* bound: preview requests ever made (previewOrder)

\* A request as the hub stores it: "foreground" is preview == false.
Request == [by: Browser, foreground: BOOLEAN, awake: BOOLEAN, order: 1..MaxRequests]

ASSUME HubAssumption ==
    /\ IsFiniteSet(Browser) /\ IsFiniteSet(Device)
    /\ NoDevice \notin Device
    /\ Nothing \notin Request
    /\ Settings \subseteq [kinds: SUBSET {"preview", "audio", "client"}, leaving: SUBSET Device]
    /\ MaxRequests \in Nat

VARIABLES
    setting,            \* one of Settings, fixed
    phase,              \* life of a browser socket
    bound,              \* browserPeer.deviceID
    access,             \* devices of the user the browser was admitted as, fixed
    previewSubscribers, \* hub map: device -> subscribed browsers
    previewRequests,    \* hub map: device -> browser -> request
    previewOrder,       \* hub counter
    audioSubscribers,   \* hub map: device -> listening browsers
    todo,               \* what a browser's goroutine has left to do
    up,                 \* sendAgent reaches the device's agent: it is in the hub,
                        \* and its socket takes writes
    told,               \* last preview command written to the agent
    audioOn,            \* last audio command written to the agent was a start
    clients,            \* browsers the agent keeps sessions or shells for
    raced,              \* history: two syncs of the device overlapped
    orphaned            \* history: an undo took the last listener of a capture

hub == <<previewSubscribers, previewRequests, previewOrder, audioSubscribers>>
agent == <<told, audioOn, clients>>
hubVars == <<setting, phase, bound, access, hub, todo, up, agent, raced, orphaned>>

Phases == {"new", "open", "closing", "gone"}

\* The ops a handler splits into, in the names of the functions they call.
Op(name, d) == [op |-> name, device |-> d]
Ask(d, fg, aw) == [op |-> "setPreviewRequest", device |-> d, foreground |-> fg, awake |-> aw]
SendPreview(d, m) == [op |-> "sendPreview", device |-> d, message |-> m]
SyncPreview(d) == Op("syncPreview", d)

\* Asked of peer.user, a copy that no later change of the user reaches: the
\* watcher ends the socket instead.
CanAccessDevice(b, d) == d \in access[b]

Idle(b) == phase[b] = "open" /\ todo[b] = <<>>
HasNext(b, name) == todo[b] # <<>> /\ Head(todo[b]).op = name
Work(d) == {b \in Browser : \E i \in 1..Len(todo[b]) : todo[b][i].device = d}

HubInit ==
    /\ setting \in Settings
    /\ phase = [b \in Browser |-> "new"]
    /\ bound = [b \in Browser |-> NoDevice]
    /\ access \in [Browser -> SUBSET Device]
    /\ previewSubscribers = [d \in Device |-> {}]
    /\ previewRequests = [d \in Device |-> [b \in Browser |-> Nothing]]
    /\ previewOrder = 0
    /\ audioSubscribers = [d \in Device |-> {}]
    /\ todo = [b \in Browser |-> <<>>]
    /\ up = [d \in Device |-> TRUE]
    /\ told = [d \in Device |-> Nothing]
    /\ audioOn = [d \in Device |-> FALSE]
    /\ clients = [d \in Device |-> {}]
    /\ raced = [d \in Device |-> FALSE]
    /\ orphaned = {}

-----------------------------------------------------------------------------
(* Selection: a loop over a Go map, whose order is arbitrary.              *)

RequestsOf(d) == {previewRequests[d][b] : b \in Browser} \ {Nothing}

\* One turn of the loop: does request r replace the selected one?
Replaces(selected, r) ==
    \/ selected = Nothing
    \/ r.foreground /\ ~selected.foreground
    \/ r.foreground = selected.foreground /\ r.order > selected.order

SelectStep(selected, r) == IF Replaces(selected, r) THEN r ELSE selected

\* What is selected after each turn when the map is ranged over in the order of s.
Selecting(s) ==
    LET selected[i \in 0..Len(s)] ==
          IF i = 0 THEN Nothing ELSE SelectStep(selected[i - 1], s[i])
    IN  selected

\* selectedPreviewRequest, for that order.
SelectedIn(s) ==
    LET selected == Selecting(s)[Len(s)]
        awake == \E i \in 1..Len(s) : s[i].awake
    IN  IF selected = Nothing THEN Nothing ELSE [selected EXCEPT !.awake = awake]

SelectedPreviewRequests(d) == {SelectedIn(s) : s \in SetToSeqs(RequestsOf(d))}

-----------------------------------------------------------------------------
(* The browser loop.                                                       *)

\* connectClient: the peer enters the hub.
AddBrowser(b) ==
    /\ phase[b] = "new"
    /\ phase' = [phase EXCEPT ![b] = "open"]
    /\ UNCHANGED <<setting, bound, access, hub, todo, up, agent, raced,
                   orphaned>>

\* "connect": bind the browser to a device; the agent ignores client_connected.
Connect(b, d) ==
    /\ Idle(b)
    /\ CanAccessDevice(b, d)
    /\ bound' = [bound EXCEPT ![b] = d]
    /\ UNCHANGED <<setting, phase, access, hub, todo, up, agent, raced,
                   orphaned>>

\* "forward", "pty_open", "file_open": the agent opens state for the client.
\* Files ask for the bound device, the others for any device of the user.
Use(b, d) ==
    /\ Idle(b)
    /\ CanAccessDevice(b, d)
    /\ clients' = [clients EXCEPT ![d] = IF up[d] THEN @ \cup {b} ELSE @]
    /\ UNCHANGED <<setting, phase, bound, access, hub, todo, up, told, audioOn,
                   raced, orphaned>>

\* "start_preview": subscribe, then store the request, then sync.
StartPreview(b, d) ==
    /\ Idle(b)
    /\ CanAccessDevice(b, d)
    /\ previewOrder + Cardinality({c \in Browser : HasNext(c, "setPreviewRequest")}) < MaxRequests
    /\ previewSubscribers' = [previewSubscribers EXCEPT ![d] = @ \cup {b}]
    /\ \E fg, aw \in BOOLEAN :
         todo' = [todo EXCEPT ![b] = <<Ask(d, fg, aw), SyncPreview(d)>>]
    /\ UNCHANGED <<setting, phase, bound, access, previewRequests, previewOrder,
                   audioSubscribers, up, agent, raced, orphaned>>

\* setPreviewRequest stores whatever it is given: it does not ask whether the
\* browser is still subscribed.
SetPreviewRequest(b) ==
    /\ HasNext(b, "setPreviewRequest")
    /\ LET a == Head(todo[b]) IN
         /\ previewOrder' = previewOrder + 1
         /\ previewRequests' = [previewRequests EXCEPT ![a.device][b] =
              [by |-> b, foreground |-> a.foreground, awake |-> a.awake,
               order |-> previewOrder + 1]]
    /\ todo' = [todo EXCEPT ![b] = Tail(@)]
    /\ UNCHANGED <<setting, phase, bound, access, previewSubscribers,
                   audioSubscribers, up, agent, raced, orphaned>>

\* unsubscribePreview removes the request with the subscription.
DropPreview(b, ds) ==
    /\ previewSubscribers' =
         [d \in Device |-> previewSubscribers[d] \ (IF d \in ds THEN {b} ELSE {})]
    /\ previewRequests' =
         [d \in Device |-> IF d \in ds
                             THEN [previewRequests[d] EXCEPT ![b] = Nothing]
                             ELSE previewRequests[d]]

\* Mutant: sync only when the last subscriber leaves.
MutantStopPreview(b, d) ==
    /\ Idle(b)
    /\ CanAccessDevice(b, d)
    /\ DropPreview(b, {d})
    /\ todo' = [todo EXCEPT ![b] =
         IF previewSubscribers[d] \subseteq {b} THEN <<SyncPreview(d)>> ELSE <<>>]
    /\ UNCHANGED <<setting, phase, bound, access, previewOrder,
                   audioSubscribers, up, agent, raced, orphaned>>

\* "stop_preview"
StopPreview(b, d) ==
    /\ Idle(b)
    /\ CanAccessDevice(b, d)
    /\ DropPreview(b, {d})
    /\ todo' = [todo EXCEPT ![b] = <<SyncPreview(d)>>]
    /\ UNCHANGED <<setting, phase, bound, access, previewOrder,
                   audioSubscribers, up, agent, raced, orphaned>>

\* syncPreview, first half: select under the read lock.
Select(b) ==
    /\ HasNext(b, "syncPreview")
    /\ LET d == Head(todo[b]).device IN
         /\ \E m \in SelectedPreviewRequests(d) :
              todo' = [todo EXCEPT ![b] = <<SendPreview(d, m)>> \o Tail(@)]
         /\ raced' = [raced EXCEPT ![d] =
              \E c \in Browser \ {b} :
                 HasNext(c, "sendPreview") /\ Head(todo[c]).device = d]
    /\ UNCHANGED <<setting, phase, bound, access, hub, up, agent, orphaned>>

\* syncPreview, second half: write what was selected, without the lock.
Send(b) ==
    /\ HasNext(b, "sendPreview")
    /\ LET d == Head(todo[b]).device IN
         told' = [told EXCEPT ![d] = IF up[d] THEN Head(todo[b]).message ELSE @]
    /\ todo' = [todo EXCEPT ![b] = Tail(@)]
    /\ UNCHANGED <<setting, phase, bound, access, hub, up, audioOn, clients,
                   raced, orphaned>>

\* startBrowserAudio: subscribe first, so that no packet is missed.
StartAudio(b, d) ==
    /\ Idle(b)
    /\ CanAccessDevice(b, d)
    /\ audioSubscribers' = [audioSubscribers EXCEPT ![d] = @ \cup {b}]
    /\ todo' = [todo EXCEPT ![b] = <<Op("startAudio", d)>>]
    /\ orphaned' = orphaned \ {d}
    /\ UNCHANGED <<setting, phase, bound, access, previewSubscribers,
                   previewRequests, previewOrder, up, agent, raced>>

\* ... then tell the agent; when that fails, take the subscription back.
SendStartAudio(b) ==
    /\ HasNext(b, "startAudio")
    /\ LET d == Head(todo[b]).device IN
         /\ audioOn' = [audioOn EXCEPT ![d] = @ \/ up[d]]
         /\ todo' = [todo EXCEPT ![b] = IF up[d] THEN <<>> ELSE <<Op("undoAudio", d)>>]
    /\ UNCHANGED <<setting, phase, bound, access, hub, up, told, clients,
                   raced, orphaned>>

\* unsubscribeAudio: TRUE when b was the last listener.
WasLast(b, d) == audioSubscribers[d] = {b}

\* The undo ignores that answer: a capture may go on without a listener.
UndoAudio(b) ==
    /\ HasNext(b, "undoAudio")
    /\ LET d == Head(todo[b]).device IN
         /\ audioSubscribers' = [audioSubscribers EXCEPT ![d] = @ \ {b}]
         /\ orphaned' = IF WasLast(b, d) THEN orphaned \cup {d} ELSE orphaned
    /\ todo' = [todo EXCEPT ![b] = Tail(@)]
    /\ UNCHANGED <<setting, phase, bound, access, previewSubscribers,
                   previewRequests, previewOrder, up, agent, raced>>

\* "stop_audio": only the last listener stops the agent.
StopAudio(b, d) ==
    /\ Idle(b)
    /\ CanAccessDevice(b, d)
    /\ b \in audioSubscribers[d]
    /\ audioSubscribers' = [audioSubscribers EXCEPT ![d] = @ \ {b}]
    /\ todo' = [todo EXCEPT ![b] = IF WasLast(b, d) THEN <<Op("stopAudio", d)>> ELSE <<>>]
    /\ UNCHANGED <<setting, phase, bound, access, previewSubscribers,
                   previewRequests, previewOrder, up, agent, raced, orphaned>>

SendStopAudio(b) ==
    /\ HasNext(b, "stopAudio")
    /\ audioOn' = [audioOn EXCEPT ![Head(todo[b]).device] = @ /\ ~up[Head(todo[b]).device]]
    /\ todo' = [todo EXCEPT ![b] = Tail(@)]
    /\ UNCHANGED <<setting, phase, bound, access, hub, up, told, clients,
                   raced, orphaned>>

-----------------------------------------------------------------------------
(* The deferred cleanup of connectClient.                                  *)

\* The read fails, whatever the reason; the handler in hand has returned.
CloseBrowser(b) ==
    /\ Idle(b)
    /\ phase' = [phase EXCEPT ![b] = "closing"]
    /\ todo' = [todo EXCEPT ![b] = <<Op("clientDisconnected", bound[b]),
                                     Op("removeAudioBrowser", NoDevice),
                                     Op("removeBrowser", NoDevice)>>]
    /\ UNCHANGED <<setting, bound, access, hub, up, agent, raced, orphaned>>

\* client_disconnected goes to the device of the last "connect" only, once.
ClientDisconnected(b) ==
    /\ HasNext(b, "clientDisconnected")
    /\ clients' = [d \in Device |-> clients[d] \ (IF d = bound[b] /\ up[d] THEN {b} ELSE {})]
    /\ todo' = [todo EXCEPT ![b] = Tail(@)]
    /\ UNCHANGED <<setting, phase, bound, access, hub, up, told, audioOn,
                   raced, orphaned>>

\* removeAudioBrowser, then one stop_audio per device left without listeners.
RemoveAudioBrowser(b) ==
    /\ HasNext(b, "removeAudioBrowser")
    /\ audioSubscribers' = [d \in Device |-> audioSubscribers[d] \ {b}]
    /\ \E s \in SetToSeqs({Op("stopAudio", d) : d \in {e \in Device : WasLast(b, e)}}) :
         todo' = [todo EXCEPT ![b] = s \o Tail(@)]
    /\ UNCHANGED <<setting, phase, bound, access, previewSubscribers,
                   previewRequests, previewOrder, up, agent, raced, orphaned>>

\* removeBrowser, then one syncPreview per device the browser was watching.
RemoveBrowser(b) ==
    /\ HasNext(b, "removeBrowser")
    /\ phase' = [phase EXCEPT ![b] = "gone"]
    /\ LET watched == {d \in Device : b \in previewSubscribers[d]} IN
         /\ DropPreview(b, watched)
         /\ \E s \in SetToSeqs({SyncPreview(d) : d \in watched}) :
              todo' = [todo EXCEPT ![b] = s]
    /\ UNCHANGED <<setting, bound, access, previewOrder, audioSubscribers, up,
                   agent, raced, orphaned>>

-----------------------------------------------------------------------------
(* Environment: agents.                                                    *)

\* A write misses its deadline: this and every later write fails, while the
\* agent keeps its place in the hub and goes on with what it was told.
StallWrites(d) ==
    /\ d \in setting.leaving /\ up[d]
    /\ up' = [up EXCEPT ![d] = FALSE]
    /\ UNCHANGED <<setting, phase, bound, access, hub, todo, agent, raced,
                   orphaned>>

\* The sessions, shells and captures of an agent end with its socket.
AgentEnds(d) ==
    /\ told' = [told EXCEPT ![d] = Nothing]
    /\ audioOn' = [audioOn EXCEPT ![d] = FALSE]
    /\ clients' = [clients EXCEPT ![d] = {}]

RemoveAgent(d) ==
    /\ d \in setting.leaving
    /\ up' = [up EXCEPT ![d] = FALSE]
    /\ AgentEnds(d)
    /\ UNCHANGED <<setting, phase, bound, access, hub, todo, raced, orphaned>>

\* setAgent, in the place of a stalled agent or of none: nothing is sent for the
\* viewers that are waiting.
SetAgent(d) ==
    /\ ~up[d]
    /\ up' = [up EXCEPT ![d] = TRUE]
    /\ raced' = [raced EXCEPT ![d] = TRUE]
    /\ AgentEnds(d)
    /\ UNCHANGED <<setting, phase, bound, access, hub, todo, orphaned>>

Message(b) ==
    \E d \in Device :
       \/ "client" \in setting.kinds /\ (Connect(b, d) \/ Use(b, d))
       \/ "preview" \in setting.kinds /\ (StartPreview(b, d) \/ StopPreview(b, d))
       \/ "audio" \in setting.kinds /\ (StartAudio(b, d) \/ StopAudio(b, d))

Continue(b) ==
    \/ SetPreviewRequest(b)  \/ Select(b)          \/ Send(b)
    \/ SendStartAudio(b)     \/ UndoAudio(b)       \/ SendStopAudio(b)
    \/ ClientDisconnected(b) \/ RemoveAudioBrowser(b)
    \/ RemoveBrowser(b)

HubNext ==
    \/ \E b \in Browser : AddBrowser(b) \/ Message(b) \/ CloseBrowser(b) \/ Continue(b)
    \/ \E d \in Device : StallWrites(d) \/ RemoveAgent(d) \/ SetAgent(d)

HubSpec == HubInit /\ [][HubNext]_hubVars

-----------------------------------------------------------------------------
(* Properties.                                                             *)

TodoItem ==
    [op: {"syncPreview", "startAudio", "undoAudio", "stopAudio",
          "clientDisconnected", "removeAudioBrowser", "removeBrowser"}, device: Device \cup {NoDevice}]
      \cup [op: {"setPreviewRequest"}, device: Device, foreground: BOOLEAN, awake: BOOLEAN]
      \cup [op: {"sendPreview"}, device: Device, message: Request \cup {Nothing}]

HubTypeOK ==
    /\ setting \in Settings
    /\ phase \in [Browser -> Phases]
    /\ bound \in [Browser -> Device \cup {NoDevice}]
    /\ access \in [Browser -> SUBSET Device]
    /\ previewSubscribers \in [Device -> SUBSET Browser]
    /\ previewRequests \in [Device -> [Browser -> Request \cup {Nothing}]]
    /\ previewOrder \in 0..MaxRequests
    /\ audioSubscribers \in [Device -> SUBSET Browser]
    /\ todo \in [Browser -> Seq(TodoItem)]
    /\ up \in [Device -> BOOLEAN]
    /\ told \in [Device -> Request \cup {Nothing}]
    /\ audioOn \in [Device -> BOOLEAN]
    /\ clients \in [Device -> SUBSET Browser]
    /\ raced \in [Device -> BOOLEAN]
    /\ orphaned \in SUBSET Device

\* How a request is chosen, stated without the loop: foreground requests first,
\* then the newest.
Preferred(rs) ==
    LET top == IF \E r \in rs : r.foreground THEN {r \in rs : r.foreground} ELSE rs
        newest == CHOOSE r \in top : \A q \in top : q.order <= r.order
    IN  IF rs = {} THEN Nothing
        ELSE [newest EXCEPT !.awake = \E r \in rs : r.awake]

\* What the hub wants of the agent.
Wanted(d) == Preferred(RequestsOf(d))

\* The answer of selectedPreviewRequest does not depend on the order in which
\* Go ranges over the map: it is the newest foreground request, or the newest
\* of all when there is none, awake when any viewer asked for it.
SelectionIsOrderFree == \A d \in Device : SelectedPreviewRequests(d) = {Wanted(d)}

\* A stored request always belongs to a subscriber.  setPreviewRequest runs in
\* a later critical section than subscribePreview and does not look: a request
\* left behind would be selected, and keep the capture running, for good.
RequestsAreSubscribed ==
    \A d \in Device, b \in Browser :
       previewRequests[d][b] # Nothing => b \in previewSubscribers[d]

\* Once the cleanup of a socket has taken the browser out of the hub, no map of
\* the hub mentions it (publishAudio and publishPreview would write to it), and
\* the agent of the device it was connected to keeps nothing for it: unless its
\* socket stalled, and then until that socket ends.
GoneLeavesNothing ==
    \A b \in Browser : phase[b] = "gone" =>
       \A d \in Device :
          /\ b \notin previewSubscribers[d] \cup audioSubscribers[d]
          /\ previewRequests[d][b] = Nothing
          /\ d = bound[b] /\ up[d] => b \notin clients[d]

\* When the syncs of a device did not overlap, then as soon as nobody is busy
\* with the device its agent runs exactly what the hub wants, whatever came
\* before: a sync that ran alone repairs an earlier race or reconnect.
SerialSyncIsExact ==
    \A d \in Device :
       up[d] /\ ~raced[d] /\ Work(d) = {} /\ (\A b \in Browser : phase[b] # "closing")
          => told[d] = Wanted(d)

\* An agent that can be reached captures audio only while somebody listens or a
\* stop_audio is on its way, whatever failed before.  The one exception is in the
\* code: the undo of a failed start_audio drops the answer of unsubscribeAudio, so
\* an agent that came back for another listener, who left meanwhile, goes on; it
\* lasts until the next browser listens, whose stop_audio ends the capture.
AudioIsWanted ==
    \A d \in Device \ orphaned : up[d] /\ audioOn[d] =>
       \/ audioSubscribers[d] # {}
       \/ \E b \in Browser : \E i \in 1..Len(todo[b]) : todo[b][i] = Op("stopAudio", d)

\* The invariant of the hub: the agent is asked for what the remaining viewers
\* want, and for nothing on behalf of those that are gone.
HubInv ==
    /\ HubTypeOK
    /\ SelectionIsOrderFree
    /\ RequestsAreSubscribed
    /\ GoneLeavesNothing
    /\ SerialSyncIsExact
    /\ AudioIsWanted
=============================================================================
