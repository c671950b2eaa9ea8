------------------------------ MODULE MCCapture ------------------------------
(***************************************************************************)
(* The capture side of the agent for TLC: the media manager, the encoder   *)
(* its viewers share, and the bridge to the capture process.  MediaManager *)
(* keeps of a bridge only what it asks of it, SharedEncoder is about rates *)
(* alone: they share no variable.  part picks the one that moves; the      *)
(* others stay as they started, where none of their fair actions is        *)
(* enabled.                                                                *)
(***************************************************************************)
EXTENDS MediaManager, SharedEncoder, CaptureBridge

CONSTANTS x, y, v1

Wish(p, aw, au) == [profile |-> p, awake |-> aw, audio |-> au]
\* a viewer that wakes the device and listens, a quiet one, one with its own encoder
Loud == Wish(x, TRUE, TRUE)
SomeOffers == {Loud, Wish(x, FALSE, FALSE), Wish(y, FALSE, FALSE)}

Fixed(r) == [enabled |-> FALSE, initial |-> r, minimum |-> 1, maximum |-> 100]
Adaptive(lo, r, hi) == [enabled |-> TRUE, initial |-> r, minimum |-> lo, maximum |-> hi]
\* slow and fast viewers of both kinds
SomeRequests == {Fixed(10), Fixed(40), Adaptive(20, 40, 60), Adaptive(5, 10, 40)}

VARIABLE part

Init ==
    /\ part \in {"viewers", "repeat", "reconnect", "encoder", "bridge"}
    /\ MediaInit /\ EncoderInit /\ BridgeInit

\* Of the manager three cases are explored, with previews of one kind: two
\* viewers with every offer, and a listener, on one connection; two viewers of
\* which one comes a third time, by a repeated offer with another encoder; and
\* one viewer with one offer on both sources over a reconnect.  The viewers are
\* alike: v1 comes first.  Group control events come in the first case.
Scope ==
    /\ \A k \in Conn : preview'[k] \in {Nothing} \cup (IF part = "repeat" THEN {} ELSE {Loud})
    /\ wsAudio' \in {Nothing, Loud}
    /\ part \in {"viewers", "repeat"} => conn' <= 1
    /\ part \in {"viewers", "reconnect"} => created' <= 2
    /\ part \in {"repeat", "reconnect"} => wsAudio' = Nothing
    /\ part = "reconnect" => capture'["display"] # Default /\ preview'[2] = Nothing
    /\ hold' # Released /\ hold'.step \in {"start", "offer"} =>
         /\ created = 0 => hold'.client = v1
         /\ CASE part = "viewers" -> hold'.source = "display"
              [] part = "repeat" -> hold'.source = "display" /\ hold'.options.profile = x /\ hold'.video
              [] OTHER -> hold'.client = v1 /\ hold'.options = Loud /\ hold'.video
    /\ hold' # Released /\ hold'.step = "again" =>
         part = "repeat" /\ hold'.options.profile = y /\ hold'.video

Next ==
    \/ part \in {"viewers", "repeat", "reconnect"} /\ MediaNext /\ Scope
         /\ UNCHANGED <<part, encoderVars, bridgeVars>>
    \/ part = "encoder" /\ EncoderNext /\ UNCHANGED <<part, mediaVars, bridgeVars>>
    \/ part = "bridge" /\ BridgeNext /\ UNCHANGED <<part, mediaVars, encoderVars>>

Spec ==
    /\ Init /\ [][Next]_<<part, mediaVars, encoderVars, bridgeVars>>
    /\ MediaFairness /\ BridgeFairness
=============================================================================
