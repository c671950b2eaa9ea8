--------------------------- MODULE MCControlPlane ---------------------------
(***************************************************************************)
(* The parts of the control plane that share no state, for TLC: the hub,   *)
(* the audio queues, the login limiter, the handshake slots and the asset  *)
(* library.  A step of one changes nothing in the others, and every        *)
(* property is about one of them: part picks the one that moves.           *)
(***************************************************************************)
EXTENDS PreviewHub, AudioFanout, LoginLimiter, AgentHandshake, AssetLibrary

\* previews, and audio with sessions, of an agent that stalls and reconnects
SomeSettings ==
    {[kinds |-> {"preview"}, leaving |-> Device], [kinds |-> {"audio", "client"}, leaving |-> Device]}

VARIABLE part

Init ==
    /\ part \in {"hub", "audio", "limiter", "handshake", "assets"}
    /\ HubInit /\ AudioInit /\ LimiterInit /\ HandshakeInit /\ AssetInit
    /\ part # "hub" => setting.kinds = {"preview"}

Only(p, others) == part = p /\ UNCHANGED part /\ UNCHANGED others

Next ==
    \/ Only("hub", <<audioVars, limiterVars, handshakeVars, assetVars>>) /\ HubNext
    \/ Only("audio", <<hubVars, limiterVars, handshakeVars, assetVars>>) /\ AudioNext
    \/ Only("limiter", <<hubVars, audioVars, handshakeVars, assetVars>>) /\ LimiterNext
    \/ Only("handshake", <<hubVars, audioVars, limiterVars, assetVars>>) /\ HandshakeNext
    \/ Only("assets", <<hubVars, audioVars, limiterVars, handshakeVars>>) /\ AssetNext

Spec == Init /\ [][Next]_<<part, hubVars, audioVars, limiterVars, handshakeVars, assetVars>>
=============================================================================
