---------------------------- MODULE MediaManager ----------------------------
(***************************************************************************)
(* The agent's media manager and its WebRTC sessions                       *)
(* (src/agent/internal/agent/media.go, webrtc.go): which capture runs, with*)
(* which options, for which viewers.                                       *)
(*                                                                         *)
(* One signalling goroutine handles the server's messages of a connection; *)
(* the state callbacks of peer connections run on their own.  The manager's*)
(* mutex serialises the handlers and StopIdle; the session maps have a     *)
(* mutex of their own and shrink under a handler's feet.  hold describes   *)
(* the owner of the manager's mutex and what it has read so far.  The      *)
(* bridges (module CaptureBridge) appear as the options they capture with. *)
(***************************************************************************)
EXTENDS Naturals, FiniteSets

CONSTANTS
    Client,        \* browser sockets
    Source,        \* "display", and "camera" when it is modelled
    Profile,       \* encoder options (video_codec_options)
    Plain,         \* the profile of default options, and of zero options
    Offers,        \* options that viewers and previews ask for
    Nothing,       \* no session, no preview, no capture
    GroupControl,  \* group_control_event and inject_data may arrive
    MaxPeers,      \* bound: peer connections ever created
    MaxConn        \* bound: signalling connections

Peer == 1..MaxPeers
Conn == 1..MaxConn
NoPeer == 0

Options == [profile: Profile, awake: BOOLEAN, audio: BOOLEAN]

\* checked is history: the manager compared the encoder options before it
\* let the session in.
Session == [peer: Peer \cup {NoPeer}, video: BOOLEAN, options: Options, checked: BOOLEAN]

ASSUME MediaAssumption ==
    /\ Source \subseteq {"display", "camera"} /\ "display" \in Source
    /\ Plain \in Profile
    /\ Offers \subseteq Options
    /\ Nothing \notin Options \cup Session
    /\ GroupControl \in BOOLEAN
    /\ MaxPeers \in Nat /\ MaxConn \in Nat

VARIABLES
    conn,      \* the signalling connection, each with a manager of its own
    online,    \* the connection is being served
    sessions,  \* source -> client -> session or Nothing
    created,   \* peers created so far
    owner,     \* peer -> source, client and connection it was made for
    pending,   \* connection -> StopIdle calls its callbacks have yet to make
    preview,   \* connection -> previewOptions (they outlive the connection)
    wsAudio,   \* options of the WebSocket listener, or Nothing
    capture,   \* source -> options of the running capture, or Nothing
    hold,      \* the owner of the manager's mutex
    videoProfile, \* source -> profile the RTP track was made for
    crashed,   \* a nil peer was used: the process panicked
    disturbed  \* history: the capture changed since the last reconcile

mediaVars == <<conn, online, sessions, created, owner, pending, preview, wsAudio,
          capture, videoProfile, hold, crashed, disturbed>>

Default == [profile |-> Plain, awake |-> FALSE, audio |-> FALSE]

\* What setAnswer writes back for a session that is gone: the zero value.
Ghost == [peer |-> NoPeer, video |-> FALSE, options |-> Default, checked |-> FALSE]

Released == [by |-> "nobody"]
MutexFree == hold = Released

MediaInit ==
    /\ conn = 0 /\ online = FALSE
    /\ sessions = [s \in Source |-> [c \in Client |-> Nothing]]
    /\ created = 0
    /\ owner = [p \in Peer |-> Nothing]
    /\ pending = [k \in Conn |-> {}]
    /\ preview = [k \in Conn |-> Nothing]
    /\ wsAudio = Nothing
    /\ capture = [s \in Source |-> Nothing]
    /\ hold = Released
    /\ videoProfile = [s \in Source |-> Plain]
    /\ crashed = FALSE
    /\ disturbed = [s \in Source |-> FALSE]

-----------------------------------------------------------------------------
(* What the viewers need.                                                  *)

VideoSessions(s) ==
    {sessions[s][c] : c \in {d \in Client : sessions[s][d] # Nothing /\ sessions[s][d].video}}

\* Mutant: the new viewer's options replace those of the others.
MutantMergeCaptureNeeds(s, o) == o

\* mergeCaptureNeeds: wake and audio of every video session of the source.
MergeCaptureNeeds(s, o) ==
    [o EXCEPT !.awake = @ \/ \E v \in VideoSessions(s) : v.options.awake,
              !.audio = @ \/ \E v \in VideoSessions(s) : v.options.audio]

\* displayOptions: and those of the preview and of the WebSocket listener.
CaptureOptions(s, o, pre, ws) ==
    LET merged == MergeCaptureNeeds(s, o) IN
    IF s = "camera" THEN merged
    ELSE [merged EXCEPT !.awake = @ \/ (pre # Nothing /\ pre.awake),
                        !.audio = @ \/ ws # Nothing]

\* LatestVideoOptions: the video session created last.
LatestOf(V) == CHOOSE v \in V : \A w \in V : w.peer <= v.peer
Latest(s) == LatestOf(VideoSessions(s))

\* What reconcileDisplay and StopIdle aim for: the last connection, else the
\* preview, else the audio listener, else no capture.
Target(s, pre, ws) ==
    CASE VideoSessions(s) # {} -> CaptureOptions(s, Latest(s).options, pre, ws)
      [] s = "display" /\ VideoSessions(s) = {} /\ pre # Nothing ->
           CaptureOptions(s, pre, pre, ws)
      [] s = "display" /\ VideoSessions(s) = {} /\ pre = Nothing /\ ws # Nothing ->
           CaptureOptions(s, [Default EXCEPT !.audio = TRUE], pre, ws)
      [] OTHER -> Nothing

\* Start succeeds, or the old capture is gone and the new one did not launch.
Start(s, o) ==
    \/ capture' = [capture EXCEPT ![s] = o]
    \/ capture[s] # o /\ o # Nothing /\ capture' = [capture EXCEPT ![s] = Nothing]

\* The signalling goroutine may take the mutex for the next message.
Handling == online /\ MutexFree /\ ~crashed

-----------------------------------------------------------------------------
(* Previews, audio and idling: reconcile to what is needed now.            *)

\* Take the mutex, set the wish, read the sessions ...
Reconcile(by, s, pre, ws) ==
    hold' = [by |-> by, step |-> "apply", source |-> s, target |-> Target(s, pre, ws)]

StartPreview(o) ==
    /\ Handling
    /\ preview' = [preview EXCEPT ![conn] = o]
    /\ Reconcile("reader", "display", o, wsAudio)
    /\ UNCHANGED <<conn, online, sessions, created, owner, pending, wsAudio,
                   capture, crashed, disturbed, videoProfile>>

StopPreview ==
    /\ Handling
    /\ preview' = [preview EXCEPT ![conn] = Nothing]
    /\ Reconcile("reader", "display", Nothing, wsAudio)
    /\ UNCHANGED <<conn, online, sessions, created, owner, pending, wsAudio,
                   capture, crashed, disturbed, videoProfile>>

StopAudio ==
    /\ Handling
    /\ wsAudio' = Nothing
    /\ Reconcile("reader", "display", preview[conn], Nothing)
    /\ UNCHANGED <<conn, online, sessions, created, owner, pending, preview,
                   capture, crashed, disturbed, videoProfile>>

\* ... and give it to the bridge.  StopIdle goes on with the camera.
Apply ==
    /\ hold # Released /\ hold.step = "apply" /\ ~crashed
    /\ Start(hold.source, hold.target)
    /\ disturbed' = [disturbed EXCEPT ![hold.source] = capture'[hold.source] # hold.target]
    /\ IF hold.by = "idle" /\ hold.source = "display" /\ "camera" \in Source
         THEN Reconcile("idle", "camera", Nothing, Nothing)
         ELSE hold' = Released
    /\ UNCHANGED <<conn, online, sessions, created, owner, pending, preview,
                   wsAudio, crashed, videoProfile>>

\* The options that StartAudio adds audio to: those of the running capture, or
\* the requested ones when it has no Source.  A capture that a group control
\* event started has none; nothing reconciled it since, and its options look
\* like the default ones here.
AudioBase(o) ==
    {IF capture["display"] = Nothing THEN o ELSE capture["display"]}
      \cup {r \in {o} : capture["display"] = Default /\ disturbed["display"]}

\* The wish is recorded only when the bridge has started.
StartAudio(o) ==
    /\ Handling
    /\ \E base \in AudioBase(o) : LET wanted == [base EXCEPT !.audio = TRUE] IN
         /\ Start("display", wanted)
         /\ wsAudio' = IF capture'["display"] = wanted THEN o ELSE wsAudio
         /\ disturbed' = [disturbed EXCEPT !["display"] =
              @ \/ capture'["display"] # wanted]
    /\ UNCHANGED <<conn, online, sessions, created, owner, pending, preview,
                   hold, crashed, videoProfile>>

\* group_control_event, inject_data: start a default capture unless one runs.
GroupControlEvent ==
    /\ GroupControl /\ Handling
    /\ capture["display"] = Nothing
    /\ capture' = [capture EXCEPT !["display"] = Default]
    /\ disturbed' = [disturbed EXCEPT !["display"] = TRUE]
    /\ UNCHANGED <<conn, online, sessions, created, owner, pending, preview,
                   wsAudio, hold, crashed, videoProfile>>

-----------------------------------------------------------------------------
(* WebRTC sessions.                                                        *)

\* "request-offer" of a client without a session: take the mutex and merge
\* the needs.
RequestOffer(c, s, o, video) ==
    /\ Handling
    /\ created < MaxPeers
    /\ sessions[s][c] = Nothing
    /\ hold' = [by |-> "reader", step |-> IF video THEN "start" ELSE "offer",
                source |-> s, client |-> c, video |-> video, options |-> o,
                previous |-> Default, active |-> FALSE,
                target |-> CaptureOptions(s, o, preview[conn], wsAudio)]
    /\ UNCHANGED <<conn, online, sessions, created, owner, pending, preview,
                   wsAudio, capture, crashed, disturbed, videoProfile>>

\* "request-offer" of a client with a session: it is handed on as it is, and
\* createOffer looks for the session again ...
RepeatOffer(c, s, o, video) ==
    /\ Handling
    /\ sessions[s][c] # Nothing
    /\ hold' = [by |-> "reader", step |-> "again", source |-> s, client |-> c,
                video |-> video, options |-> o]
    /\ UNCHANGED <<conn, online, sessions, created, owner, pending, preview,
                   wsAudio, capture, crashed, disturbed, videoProfile>>

Holds(step) == hold # Released /\ hold.step = step /\ ~crashed

\* currentOptions of a bridge at rest are the zero options.
Current(s) == IF capture[s] = Nothing THEN Default ELSE capture[s]

\* Connected viewers share the encoder: its options may not change.
EncoderFits(s, o) == VideoSessions(s) # {} => Current(s).profile = o.profile

\* Start the capture for the new viewer, or refuse.
OfferStart ==
    /\ Holds("start")
    /\ IF EncoderFits(hold.source, hold.target)
         THEN /\ Start(hold.source, hold.target)
              /\ disturbed' = [disturbed EXCEPT ![hold.source] = TRUE]
              /\ hold' = IF capture'[hold.source] = hold.target
                           THEN [hold EXCEPT !.step = "codec", !.previous = Current(hold.source),
                                             !.active = VideoSessions(hold.source) # {}]
                           ELSE Released
         ELSE hold' = Released /\ UNCHANGED <<capture, disturbed>>
    /\ UNCHANGED <<conn, online, sessions, created, owner, pending, preview,
                   wsAudio, crashed, videoProfile>>

\* SetVideoCodec: a new track only while nobody is connected to the old one.
ProfileFits(s) == VideoSessions(s) = {} \/ capture[s].profile = videoProfile[s]

\* VideoCodec has the profile of the encoder's first SPS, SetVideoCodec takes it.
CodecKnown ==
    /\ Holds("codec")
    /\ capture[hold.source] # Nothing
    /\ ProfileFits(hold.source)
    /\ videoProfile' = [videoProfile EXCEPT ![hold.source] = capture[hold.source].profile]
    /\ hold' = [hold EXCEPT !.step = "offer"]
    /\ UNCHANGED <<conn, online, sessions, created, owner, pending, preview,
                   wsAudio, capture, crashed, disturbed>>

\* SetVideoCodec refuses: go back to the previous options if viewers were
\* connected when the handler looked.
CodecRefused ==
    /\ Holds("codec")
    /\ capture[hold.source] # Nothing
    /\ ~ProfileFits(hold.source)
    /\ IF hold.active THEN Start(hold.source, hold.previous) ELSE UNCHANGED capture
    /\ hold' = Released
    /\ UNCHANGED <<conn, online, sessions, created, owner, pending, preview,
                   wsAudio, crashed, disturbed, videoProfile>>

\* VideoCodec timed out, or the capture failed: the handler returns.
CodecFails ==
    /\ Holds("codec")
    /\ hold' = Released
    /\ UNCHANGED <<conn, online, sessions, created, owner, pending, preview,
                   wsAudio, capture, crashed, disturbed, videoProfile>>

EnterSession(checked) ==
    LET p == created + 1 IN
      /\ created' = p
      /\ owner' = [owner EXCEPT ![p] = <<hold.source, hold.client, conn>>]
      /\ sessions' = [sessions EXCEPT ![hold.source][hold.client] =
           [peer |-> p, video |-> hold.video, options |-> hold.options, checked |-> checked]]

\* createOffer: the peer is built and its session entered; the capture is now
\* as the manager wants it, unless something else happened to it meanwhile.
CreateOffer ==
    /\ Holds("offer")
    /\ EnterSession(TRUE)
    /\ disturbed' = [disturbed EXCEPT ![hold.source] =
         @ /\ ~(hold.video /\ capture[hold.source] = hold.target)]
    /\ hold' = Released
    /\ UNCHANGED <<conn, online, pending, preview, wsAudio, capture, crashed, videoProfile>>

\* createOffer fails: no session.
OfferFails ==
    /\ Holds("offer")
    /\ hold' = Released
    /\ UNCHANGED <<conn, online, sessions, created, owner, pending, preview,
                   wsAudio, capture, crashed, disturbed, videoProfile>>

\* ... which a callback may have removed since: then the client gets a new one,
\* for which no capture was started and no encoder options were compared.
AgainOffer ==
    /\ Holds("again")
    /\ hold' = Released
    /\ \/ UNCHANGED <<sessions, created, owner>>
       \/ /\ sessions[hold.source][hold.client] = Nothing
          /\ created < MaxPeers
          /\ EnterSession(FALSE)
    /\ UNCHANGED <<conn, online, pending, preview, wsAudio, capture, crashed,
                   disturbed, videoProfile>>

\* setAnswer, first critical section, then SetRemoteDescription.
SetAnswer(c, s) ==
    /\ Handling
    /\ sessions[s][c] # Nothing /\ sessions[s][c] # Ghost
    /\ hold' = [by |-> "reader", step |-> "answer", source |-> s, client |-> c]
    /\ UNCHANGED <<conn, online, sessions, created, owner, pending, preview,
                   wsAudio, capture, crashed, disturbed, videoProfile>>

\* setAnswer, second critical section: the map entry is read again and written
\* back.  When the session was removed in between, a zero session comes back.
AnswerSet ==
    /\ Holds("answer")
    /\ sessions' = [sessions EXCEPT ![hold.source][hold.client] =
         IF @ = Nothing THEN Ghost ELSE @]
    /\ hold' = Released
    /\ UNCHANGED <<conn, online, created, owner, pending, preview, wsAudio,
                   capture, crashed, disturbed, videoProfile>>

\* removeSession acts only on the session of its own peer.
Concerns(p) ==
    /\ owner[p][3] = conn
    /\ sessions[owner[p][1]][owner[p][2]] # Nothing
    /\ sessions[owner[p][1]][owner[p][2]].peer = p

\* Connection state callback of a peer (closed, failed, disconnected): the
\* session goes at once, StopIdle has to wait for the mutex.
RemoveSession(p) ==
    /\ owner[p] # Nothing /\ ~crashed
    /\ Concerns(p)
    /\ sessions' = [sessions EXCEPT ![owner[p][1]][owner[p][2]] = Nothing]
    /\ pending' = [pending EXCEPT ![owner[p][3]] = @ \cup {p}]
    /\ UNCHANGED <<conn, online, created, owner, preview, wsAudio, capture, hold,
                   crashed, disturbed, videoProfile>>

\* Mutant: StopIdle serves the viewers that remain and stops nothing.
MutantServingViewers(k) == k = conn /\ online /\ VideoSessions("display") # {}

\* StopIdle returns at once when its manager is closed.
Serving(k) == k = conn /\ online

StopIdle(k) ==
    /\ pending[k] # {} /\ MutexFree /\ ~crashed
    /\ \E p \in pending[k] : pending' = [pending EXCEPT ![k] = @ \ {p}]
    /\ IF Serving(k) THEN Reconcile("idle", "display", preview[k], wsAudio)
                     ELSE UNCHANGED hold
    /\ UNCHANGED <<conn, online, sessions, created, owner, preview, wsAudio,
                   capture, crashed, disturbed, videoProfile>>

\* "client_disconnected": close the client's sessions, then StopIdle.  Closing
\* a ghost uses its nil peer.
ClientDisconnected(c) ==
    /\ Handling
    /\ crashed' = (\E s \in Source : sessions[s][c] = Ghost)
    /\ sessions' = [s \in Source |-> [sessions[s] EXCEPT ![c] = Nothing]]
    /\ hold' = [by |-> "idle", step |-> "idle"]
    /\ UNCHANGED <<conn, online, created, owner, pending, preview, wsAudio,
                   capture, disturbed, videoProfile>>

IdleAfterDisconnect ==
    /\ Holds("idle")
    /\ Reconcile("idle", "display", preview[conn], wsAudio)
    /\ UNCHANGED <<conn, online, sessions, created, owner, pending, preview,
                   wsAudio, capture, crashed, disturbed, videoProfile>>

-----------------------------------------------------------------------------
(* Captures and connections end.                                           *)

\* The bridge's process fails; captureFailed starts nothing.
CaptureFailed(s) ==
    /\ capture[s] # Nothing /\ ~crashed
    /\ capture' = [capture EXCEPT ![s] = Nothing]
    /\ disturbed' = [disturbed EXCEPT ![s] = TRUE]
    /\ UNCHANGED <<conn, online, sessions, created, owner, pending, preview,
                   wsAudio, hold, crashed, videoProfile>>

\* connect: a new manager on the same bridges.
Connect ==
    /\ ~online /\ conn < MaxConn /\ ~crashed /\ MutexFree
    /\ conn' = conn + 1
    /\ online' = TRUE
    /\ disturbed' = [s \in Source |-> FALSE]
    /\ videoProfile' = [s \in Source |-> Plain]
    /\ UNCHANGED <<sessions, created, owner, pending, preview, wsAudio, capture,
                   hold, crashed>>

\* The signalling connection ends: the manager closes, the bridges are stopped.
Disconnect ==
    /\ Handling
    /\ online' = FALSE
    /\ crashed' = (\E s \in Source, c \in Client : sessions[s][c] = Ghost)
    /\ sessions' = [s \in Source |-> [c \in Client |-> Nothing]]
    /\ wsAudio' = Nothing
    /\ capture' = [s \in Source |-> Nothing]
    /\ UNCHANGED <<conn, created, owner, pending, preview, hold, disturbed, videoProfile>>

Message ==
    \/ \E o \in Offers : StartPreview(o) \/ StartAudio(o)
    \/ StopPreview \/ StopAudio \/ GroupControlEvent
    \/ \E c \in Client : ClientDisconnected(c)
    \/ \E c \in Client, s \in Source : SetAnswer(c, s)
    \/ \E c \in Client, s \in Source, o \in Offers, v \in BOOLEAN :
         RequestOffer(c, s, o, v) \/ RepeatOffer(c, s, o, v)

Continue ==
    \/ Apply \/ OfferStart \/ CodecKnown \/ CodecRefused \/ CodecFails \/ CreateOffer
    \/ OfferFails \/ AgainOffer \/ AnswerSet \/ IdleAfterDisconnect

MediaNext ==
    \/ Message \/ Continue \/ Connect \/ Disconnect
    \/ \E p \in Peer : RemoveSession(p)
    \/ \E k \in Conn : StopIdle(k)
    \/ \E s \in Source : CaptureFailed(s)

MediaSpec == MediaInit /\ [][MediaNext]_mediaVars

\* The owner of the mutex goes on, and a waiting StopIdle gets it in the end.
MediaFairness == WF_mediaVars(Continue) /\ \A k \in Conn : SF_mediaVars(StopIdle(k))

-----------------------------------------------------------------------------
(* Properties.                                                             *)

MediaTypeOK ==
    /\ conn \in 0..MaxConn /\ online \in BOOLEAN
    /\ sessions \in [Source -> [Client -> Session \cup {Nothing}]]
    /\ created \in 0..MaxPeers
    /\ owner \in [Peer -> (Source \X Client \X Conn) \cup {Nothing}]
    /\ pending \in [Conn -> SUBSET Peer]
    /\ preview \in [Conn -> Options \cup {Nothing}]
    /\ wsAudio \in Options \cup {Nothing}
    /\ capture \in [Source -> Options \cup {Nothing}]
    /\ videoProfile \in [Source -> Profile]
    /\ crashed \in BOOLEAN
    /\ disturbed \in [Source -> BOOLEAN]

\* Nobody is busy, and nothing happened to the capture since it was last
\* reconciled (a failed process, a failed offer, a group control event).
Settled(s) ==
    /\ online /\ MutexFree /\ ~crashed /\ ~disturbed[s]
    /\ pending[conn] = {}

Viewers(s) == VideoSessions(s) # {} \/ (s = "display" /\ (preview[conn] # Nothing \/ wsAudio # Nothing))

\* A source is captured exactly while somebody watches or listens, although
\* sessions vanish while a handler decides with what it read of them.
CapturedIffWanted ==
    \A s \in Source : Settled(s) => (capture[s] # Nothing <=> Viewers(s))

\* "A new viewer must not turn off the audio or activity refresh still
\* requested by an existing video session", nor change its encoder options:
\* only a viewer that came in by a repeated offer, past the comparison, may, and
\* only while it is the latest.
NeedsAreMet ==
    \A s \in Source : Settled(s) /\ capture[s] # Nothing =>
       /\ \A v \in VideoSessions(s) :
            /\ v.options.awake => capture[s].awake
            /\ v.options.audio => capture[s].audio
            /\ v.checked /\ Latest(s).checked => v.options.profile = capture[s].profile
       /\ s = "display" /\ preview[conn] # Nothing =>
            (preview[conn].awake => capture[s].awake)
       /\ s = "display" /\ wsAudio # Nothing => capture[s].audio

\* "closed viewer's requirements were retained": the device is kept awake and
\* its sound captured only while somebody who is still there asked for it.  (A
\* WebSocket listener may have started the capture with wishes of its own,
\* which last until the listeners are gone.)
NoNeedOutlivesItsViewer ==
    \A s \in Source : Settled(s) /\ capture[s] # Nothing =>
       LET wishes == {v.options : v \in VideoSessions(s)}
                       \cup (IF s = "display" THEN {preview[conn], wsAudio} \ {Nothing} ELSE {})
           heard == s = "display" /\ wsAudio # Nothing
       IN  /\ capture[s].awake => (\E o \in wishes : o.awake) \/ heard
           /\ capture[s].audio => (\E o \in wishes : o.audio) \/ heard

\* Between two connections nothing is captured, and no late callback of the
\* old connection's sessions starts a capture again.
NoCaptureOffline == ~online => \A s \in Source : capture[s] = Nothing

\* When the last viewer goes, the capture stops, whatever order callbacks and
\* messages come in (until the next message asks for something).
LastViewerStopsCapture ==
    \A s \in Source :
       (online /\ ~Viewers(s) /\ \E p \in pending[conn] : owner[p][1] = s)
          ~> (capture[s] = Nothing \/ Viewers(s) \/ ~online \/ crashed \/ disturbed[s])

\* The invariant of the manager: what is captured is what those who are there need.
MediaInv ==
    /\ MediaTypeOK
    /\ CapturedIffWanted
    /\ NeedsAreMet
    /\ NoNeedOutlivesItsViewer
    /\ NoCaptureOffline
=============================================================================
