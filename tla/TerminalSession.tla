--------------------------- MODULE TerminalSession ---------------------------
(***************************************************************************)
(* The remote shells of an agent (src/agent/internal/agent/terminal.go).   *)
(* A shell is opened by a signalling message or by the first message of a  *)
(* WebRTC data channel (webrtc.go), and closed by a message, by the end of *)
(* its channel, of its peer connection, of its browser or of the agent's   *)
(* connection, or because it exits.                                        *)
(*                                                                         *)
(* The signalling reader, the peer callbacks and every data channel are    *)
(* goroutines of their own; a channel's callbacks run one at a time, which *)
(* the unguarded flag opened relies on.  An id is clientID:sessionID, and  *)
(* the browser chooses sessionID: nothing keeps the socket and the         *)
(* channels of a browser, or two of its channels, from opening one id.     *)
(***************************************************************************)
EXTENDS Integers, Sequences, FiniteSets

CONSTANTS
    Owner,       \* browser connections
    Key,         \* ids of sessions, clientID:sessionID
    OwnerOf,     \* id -> client
    Channel,     \* data channels
    KeyOf,       \* channel -> the id its label names
    Reader,      \* the goroutine that handles signalling messages
    Callback,    \* the goroutine of a peer's state change
    Outside,     \* a goroutine outside the manager
    MaxShells    \* bound: shells started

Thread == {Reader, Callback} \cup Channel

Shell == [key: Key, by: Thread, state: {"open", "closing", "closed"}, reading: BOOLEAN,
          reports: 0..1]
Opening == [do: {"replace", "start", "enter"}, key: Key, shell: 0..MaxShells]
Closing == [do: {"close"}, keys: SUBSET Key, revoke: SUBSET Owner]

ASSUME TerminalAssumption ==
    /\ OwnerOf \in [Key -> Owner] /\ KeyOf \in [Channel -> Key]
    /\ {Reader, Callback} \cap Channel = {} /\ Reader # Callback
    /\ MaxShells \in Nat
    /\ Outside \notin Opening \cup Closing

VARIABLES
    shut,      \* m.closed
    sessions,  \* m.sessions: key -> index into shells, 0 for none
    shells,    \* every shell started, and its reading goroutine
    thread,    \* what a goroutine does in the manager
    channel,   \* state of the data channels
    peer,      \* state of a client's WebRTC session
    gone,      \* clients whose client_disconnected was handled, all at the end
    contested  \* history: ids that two goroutines were opening at once

terminalVars == <<shut, sessions, shells, thread, channel, peer, gone, contested>>

TerminalInit ==
    /\ shut = FALSE
    /\ sessions = [k \in Key |-> 0]
    /\ shells = <<>>
    /\ thread = [t \in Thread |-> Outside]
    /\ channel = [d \in Channel |-> "none"]
    /\ peer = [c \in Owner |-> "none"]
    /\ gone = {} /\ contested = {}

Free(t) == thread[t] = Outside
Does(t, what) == thread[t] # Outside /\ thread[t].do = what
Begin(t, work) == thread' = [thread EXCEPT ![t] = work]
OpenKey(k) == [do |-> "replace", key |-> k, shell |-> 0]
IsOpening(t, k) == thread[t] \in Opening /\ thread[t].key = k
CloseKeys(keys) == [do |-> "close", keys |-> keys, revoke |-> {}]
KeysOf(c) == {k \in Key : OwnerOf[k] = c /\ sessions[k] # 0}
\* onClose of a shell over a data channel closes the channel.
ChannelsAfter(h) ==
    [d \in Channel |-> IF d = shells[h].by /\ channel[d] = "live" THEN "closing" ELSE channel[d]]

-----------------------------------------------------------------------------
\* Mutant: whatever session has the key is closed.
MutantIsExpected(k, expected) == sessions[k] # 0

\* closeSession's check: the session is there, and the expected one if any (0: any).
IsExpected(k, expected) == sessions[k] # 0 /\ expected \in {0, sessions[k]}

Forget(k) == sessions' = [sessions EXCEPT ![k] = 0]

\* closeSession under the lock: whoever deletes the session closes its shell.
CloseSession(k, expected) ==
    IF IsExpected(k, expected)
      THEN /\ shells' = [shells EXCEPT ![sessions[k]].state = "closing"]
           /\ Forget(k)
      ELSE UNCHANGED <<shells, sessions>>

\* Outside the lock: terminal.Close and onClose (pty_closed, or the channel closed).
FinishClose(h) ==
    /\ shells[h].state = "closing"
    /\ shells' = [shells EXCEPT ![h].state = "closed", ![h].reports = @ + 1]
    /\ channel' = ChannelsAfter(h)
    /\ UNCHANGED <<shut, sessions, thread, peer, gone, contested>>

\* read: the shell exits, or its handle was closed.
ReadEnds(h) ==
    /\ shells[h].reading
    /\ LET k == shells[h].key
       IN  IF IsExpected(k, h)
             THEN /\ shells' = [shells EXCEPT ![sessions[k]].state = "closing",
                                              ![h].reading = FALSE]
                  /\ Forget(k)
             ELSE /\ shells' = [shells EXCEPT ![h].reading = FALSE]
                  /\ UNCHANGED sessions
    /\ UNCHANGED <<shut, thread, channel, peer, gone, contested>>

\* open: an older session with this id is closed first ...
Replace(t) ==
    /\ Does(t, "replace")
    /\ CloseSession(thread[t].key, 0)
    /\ Begin(t, [thread[t] EXCEPT !.do = "start"])
    /\ UNCHANGED <<shut, channel, peer, gone, contested>>

\* ... then OpenTerminal starts a shell or fails ...
StartShell(t) ==
    /\ Does(t, "start")
    /\ Len(shells) < MaxShells
    /\ shells' = Append(shells, [key |-> thread[t].key, by |-> t, state |-> "open",
                                 reading |-> FALSE, reports |-> 0])
    /\ Begin(t, [thread[t] EXCEPT !.do = "enter", !.shell = Len(shells) + 1])
    /\ UNCHANGED <<shut, sessions, channel, peer, gone, contested>>

StartFails(t) ==
    /\ Does(t, "start")
    /\ Begin(t, Outside)
    /\ channel' = [d \in Channel |-> IF d = t THEN "ready" ELSE channel[d]]
    /\ UNCHANGED <<shut, sessions, shells, peer, gone, contested>>

\* Mutant: a closed manager takes sessions.
MutantAccepts == TRUE

Accepts == ~shut

\* ... which becomes the session, whatever the id has by now, unless the manager
\* was closed meanwhile.
Enter(t) ==
    /\ Does(t, "enter")
    /\ LET h == thread[t].shell IN
       IF Accepts
         THEN /\ sessions' = [sessions EXCEPT ![thread[t].key] = h]
              /\ shells' = [shells EXCEPT ![h].reading = TRUE]
              /\ channel' = [d \in Channel |-> IF d = t THEN "live" ELSE channel[d]]
         ELSE /\ shells' = [shells EXCEPT ![h].state = "closed"]
              /\ channel' = [d \in Channel |-> IF d = t THEN "ready" ELSE channel[d]]
              /\ UNCHANGED sessions
    /\ Begin(t, Outside)
    /\ UNCHANGED <<shut, peer, gone, contested>>

\* CloseSession and Close of the WebRTC manager: forgotten, closed in the background.
Revoke(cs) == peer' = [c \in Owner |-> IF c \in cs /\ peer[c] = "up" THEN "closing" ELSE peer[c]]

\* Close, CloseClient and CloseAll close the keys they collected one by one.
CloseNext(t) ==
    /\ Does(t, "close")
    /\ \E k \in thread[t].keys :
         CloseSession(k, 0) /\ Begin(t, [thread[t] EXCEPT !.keys = @ \ {k}])
    /\ UNCHANGED <<shut, channel, peer, gone, contested>>

CloseReturns(t) ==
    /\ Does(t, "close") /\ thread[t].keys = {}
    /\ Begin(t, Outside)
    /\ Revoke(thread[t].revoke)
    /\ UNCHANGED <<shut, sessions, shells, channel, gone, contested>>

-----------------------------------------------------------------------------
\* open is called: nothing is held between the close of the older session and
\* the entry of the new one, so another goroutine may be opening the same id.
BeginOpen(t, k) ==
    /\ Begin(t, OpenKey(k))
    /\ contested' = contested \cup {j \in {k} : \E o \in Thread : IsOpening(o, j)}

\* The signalling reader
PtyOpen(k) ==
    /\ Free(Reader) /\ ~shut /\ OwnerOf[k] \notin gone
    /\ Len(shells) < MaxShells
    /\ BeginOpen(Reader, k)
    /\ UNCHANGED <<shut, sessions, shells, channel, peer, gone>>

PtyClose(k) ==
    /\ Free(Reader) /\ ~shut /\ OwnerOf[k] \notin gone
    /\ sessions[k] # 0
    /\ Begin(Reader, CloseKeys({k}))
    /\ UNCHANGED <<shut, sessions, shells, channel, peer, gone, contested>>

\* request-offer, answer: the client's peer is connected.
PeerConnects(c) ==
    /\ Free(Reader) /\ ~shut /\ c \notin gone /\ peer[c] = "none"
    /\ peer' = [peer EXCEPT ![c] = "up"]
    /\ UNCHANGED <<shut, sessions, shells, thread, channel, gone, contested>>

\* client_disconnected: CloseClient, then webrtc.CloseSession.
ClientDisconnected(c) ==
    /\ Free(Reader) /\ ~shut /\ c \notin gone
    /\ Begin(Reader, [CloseKeys(KeysOf(c)) EXCEPT !.revoke = {c}])
    /\ gone' = gone \cup {c}
    /\ UNCHANGED <<shut, sessions, shells, channel, peer, contested>>

\* The connection ends: webrtc.Close, then CloseAll.
CloseAll ==
    /\ Free(Reader) /\ ~shut
    /\ Revoke(Owner)
    /\ shut' = TRUE
    /\ gone' = Owner
    /\ Begin(Reader, CloseKeys({k \in Key : sessions[k] # 0}))
    /\ UNCHANGED <<sessions, shells, channel, contested>>

\* removeSession: the peer has failed.
PeerFails(c) ==
    /\ Free(Callback) /\ peer[c] = "up"
    /\ peer' = [peer EXCEPT ![c] = "closing"]
    /\ Begin(Callback, CloseKeys(KeysOf(c)))
    /\ UNCHANGED <<shut, sessions, shells, channel, gone, contested>>

-----------------------------------------------------------------------------
\* A browser makes a data channel; its first message opens the shell.
ChannelOpens(d) ==
    /\ channel[d] = "none" /\ peer[OwnerOf[KeyOf[d]]] = "up"
    /\ channel' = [channel EXCEPT ![d] = "ready"]
    /\ UNCHANGED <<shut, sessions, shells, thread, peer, gone, contested>>

ChannelMessage(d) ==
    /\ Free(d) /\ channel[d] = "ready" /\ peer[OwnerOf[KeyOf[d]]] = "up"
    /\ Len(shells) < MaxShells
    /\ channel' = [channel EXCEPT ![d] = "opening"]
    /\ BeginOpen(d, KeyOf[d])
    /\ UNCHANGED <<shut, sessions, shells, peer, gone>>

\* Mutant: the end of a channel is not noticed.
MutantAfterChannel(d) == {}

AfterChannel(d) == {KeyOf[d]}

\* OnClose, after the message that is being handled: the browser closes the
\* channel, its shell has ended, or the peer is closed.
ChannelCloses(d) ==
    /\ Free(d) /\ channel[d] \in {"ready", "live", "closing"}
    /\ channel' = [channel EXCEPT ![d] = "closed"]
    /\ Begin(d, CloseKeys(AfterChannel(d)))
    /\ UNCHANGED <<shut, sessions, shells, peer, gone, contested>>

Proceed(t) == Replace(t) \/ StartShell(t) \/ StartFails(t) \/ Enter(t)
             \/ CloseNext(t) \/ CloseReturns(t)

TerminalNext ==
    \/ \E t \in Thread : Proceed(t)
    \/ \E h \in DOMAIN shells : FinishClose(h) \/ ReadEnds(h)
    \/ \E k \in Key : PtyOpen(k) \/ PtyClose(k)
    \/ \E c \in Owner : PeerConnects(c) \/ ClientDisconnected(c) \/ PeerFails(c)
    \/ \E d \in Channel : ChannelOpens(d) \/ ChannelMessage(d) \/ ChannelCloses(d)
    \/ CloseAll

TerminalSpec == TerminalInit /\ [][TerminalNext]_terminalVars

\* Goroutines go on; a read returns once its handle is closed; a closed peer
\* ends its channels.
TerminalFairness ==
    /\ \A t \in Thread : WF_terminalVars(Proceed(t))
    /\ \A h \in 1..MaxShells :
         /\ WF_terminalVars(h \in DOMAIN shells /\ FinishClose(h))
         /\ WF_terminalVars(h \in DOMAIN shells /\ shells[h].state = "closed" /\ ReadEnds(h))
    /\ \A d \in Channel :
         WF_terminalVars((peer[OwnerOf[KeyOf[d]]] = "closing" \/ channel[d] = "closing") /\ ChannelCloses(d))

-----------------------------------------------------------------------------
\* reports counts onClose: a shell's end is reported once, whoever closes it.
TerminalTypeOK ==
    /\ shut \in BOOLEAN /\ gone \subseteq Owner /\ contested \subseteq Key
    /\ sessions \in [Key -> 0..Len(shells)]
    /\ shells \in Seq(Shell)
    /\ thread \in [Thread -> Opening \cup Closing \cup {Outside}]
    /\ channel \in [Channel -> {"none", "ready", "opening", "live", "closing", "closed"}]
    /\ peer \in [Owner -> {"none", "up", "closing"}]

\* A running shell can always be reached: it is the session of its id or just
\* being opened; when CloseAll has returned, none runs that is not being opened.
\* Shells are lost for one reason only, that two goroutines were opening an id
\* at once: the later entry overwrites the earlier one (terminal.go:78).
NoLostShell ==
    \A h \in DOMAIN shells : shells[h].state = "open" =>
       \/ \E t \in Thread : Does(t, "enter") /\ thread[t].shell = h
       \/ sessions[shells[h].key] = h /\ (shut => ~Free(Reader))
       \/ shells[h].key \in contested

\* A session is taken away from its shell only because this shell ended, or
\* somebody was asked to close or replace this id, or entered it after opening it
\* at the same time as another: the late end of an older shell's reading
\* goroutine never closes its successor.
EndsForItsOwnReason ==
    [][\A k \in Key : sessions[k] # 0 /\ sessions'[k] # sessions[k] =>
         \/ shells[sessions[k]].reading /\ ~shells'[sessions[k]].reading
         \/ \E t \in Thread : \/ Does(t, "replace") /\ thread[t].key = k
                              \/ Does(t, "enter") /\ thread[t].key = k /\ k \in contested
                              \/ Does(t, "close") /\ k \in thread[t].keys]_terminalVars

\* A browser that is gone, or the end of the agent's connection, ends every
\* shell of the client, also one that a data channel was opening meanwhile, and
\* the reading goroutines end with them; the ids of two openings at once are
\* left out, whose overwritten shell nobody can close.
GoneClientHasNoShell ==
    \A c \in Owner : c \in gone ~>
       \A h \in DOMAIN shells : OwnerOf[shells[h].key] = c =>
          \/ shells[h].state = "closed" /\ ~shells[h].reading
          \/ shells[h].key \in contested

\* The invariant of the terminals: every shell has somebody to close it.
TerminalInv == TerminalTypeOK /\ NoLostShell
=============================================================================
