---------------------------- MODULE SharedEncoder ----------------------------
(***************************************************************************)
(* The bit rate of the one encoder that all WebRTC viewers of a source     *)
(* share (src/agent/internal/agent/bandwidth.go, with the restarts of the  *)
(* capture that media.go and scrcpy.go make of a viewer's options).        *)
(*                                                                         *)
(* A viewer joins with a fixed rate or with limits for a bandwidth         *)
(* estimator.  Its offer restarts the capture when the rate among its      *)
(* arguments differs; its connection and its estimates call updateBitrate, *)
(* which is throttled to one command per second and to changes of 10%.     *)
(***************************************************************************)
EXTENDS Integers, FiniteSets, FiniteSetsExt

CONSTANTS
    Viewer,    \* clients
    Requests,  \* bitrateOptions viewers come with
    Rates,     \* estimates the bandwidth estimator may produce
    Absent     \* no session

Limits == [enabled: BOOLEAN, initial: Nat, minimum: Nat, maximum: Nat]

\* What parseBitrateOptions lets through: positive rates, and for an estimator
\* limits in order with the initial rate between them.
ParseBitrateOptions ==
    {r \in Limits : /\ r.initial > 0
                    /\ r.enabled => r.minimum <= r.initial /\ r.initial <= r.maximum}

\* A session: its limits, the rate it can take now, and its place in the order of joining.
ViewerSession == [limits: Requests, target: Nat, order: Nat]

ASSUME RateAssumption ==
    /\ Rates \subseteq Nat \ {0} /\ Requests \subseteq ParseBitrateOptions
    /\ Absent \notin ViewerSession

VARIABLES
    viewers,   \* viewer -> [limits, target, order] or Absent
    joined,    \* nextOrder
    waiting,   \* viewers whose peer has not reported "connected" yet
    current,   \* m.currentBitrate: the last rate sent to the encoder
    recent,    \* the last update is less than a second old
    launch,    \* video_bit_rate among the arguments of the running capture
    encoder    \* the rate the encoder really has; 0 without a capture

encoderVars == <<viewers, joined, waiting, current, recent, launch, encoder>>

Present == {v \in Viewer : viewers[v] # Absent}
Targets == {viewers[v].target : v \in Present}

EncoderInit ==
    /\ viewers = [v \in Viewer |-> Absent]
    /\ joined = 0
    /\ waiting = {}
    /\ current = 0 /\ recent = FALSE
    /\ launch = 0 /\ encoder = 0

Clamp(limits, rate) ==
    IF limits.enabled THEN Max({limits.minimum, Min({rate, limits.maximum})})
                      ELSE limits.initial

\* Start with a rate among the arguments: equal arguments keep the process.
RestartEncoder(rate) ==
    /\ launch' = rate
    /\ encoder' = IF rate = launch THEN encoder ELSE rate

\* Mutant: the caller's own target decides.
MutantSlowest(v, target) == target

\* The slowest target of all sessions, v's being the new one.
Slowest(v, target) == Min({target} \cup {viewers[w].target : w \in Present \ {v}})

Within10Percent(rate) ==
    (IF rate < current THEN current - rate ELSE rate - current) < current \div 10

\* updateBitrate: remember the target; tell the encoder unless throttled.  The
\* control queue may be full, which is not noticed.  The command leaves after the
\* unlock; decisions are a second apart, and a goroutine that stalls so long
\* before its send that a later command overtakes it is left out.
UpdateBitrate(v, rate) ==
    LET target == Clamp(viewers[v].limits, rate)
        slowest == Slowest(v, target)
    IN  /\ viewers' = [viewers EXCEPT ![v].target = target]
        /\ IF current > 0 /\ (Within10Percent(slowest) \/ recent)
             THEN UNCHANGED <<current, recent, encoder>>
             ELSE /\ current' = slowest
                  /\ recent' = TRUE
                  /\ encoder' \in {encoder, slowest}

\* An offer: the capture restarts with the newcomer's rate, the session enters.
Join(v, limits) ==
    /\ viewers[v] = Absent
    /\ joined < Cardinality(Viewer)
    /\ RestartEncoder(limits.initial)
    /\ joined' = joined + 1
    /\ viewers' = [viewers EXCEPT ![v] =
         [limits |-> limits, target |-> limits.initial, order |-> joined + 1]]
    /\ waiting' = waiting \cup {v}
    /\ UNCHANGED <<current, recent>>

\* The peer is connected: its initial rate is announced.
Connected(v) ==
    /\ v \in waiting
    /\ waiting' = waiting \ {v}
    /\ UpdateBitrate(v, viewers[v].limits.initial)
    /\ UNCHANGED <<joined, launch>>

\* The estimator has a new target.
Estimate(v, rate) ==
    /\ v \in Present \ waiting
    /\ viewers[v].limits.enabled
    /\ UpdateBitrate(v, rate)
    /\ UNCHANGED <<joined, waiting, launch>>

\* A session ends; StopIdle restarts the capture for the latest that remains.
\* currentBitrate is left alone.
Leave(v) ==
    /\ v \in Present
    /\ viewers' = [viewers EXCEPT ![v] = Absent]
    /\ waiting' = waiting \ {v}
    /\ IF Present = {v} THEN launch' = 0 /\ encoder' = 0
       ELSE LET last == CHOOSE w \in Present \ {v} : \A u \in Present \ {v} :
                          viewers[u].order <= viewers[w].order
            IN  RestartEncoder(viewers[last].limits.initial)
    /\ UNCHANGED <<joined, current, recent>>

Tick == recent /\ recent' = FALSE /\ UNCHANGED <<viewers, joined, waiting, current, launch, encoder>>

EncoderNext ==
    \/ \E v \in Viewer, limits \in Requests : Join(v, limits)
    \/ \E v \in Viewer : Connected(v) \/ Leave(v)
    \/ \E v \in Viewer, rate \in Rates : Estimate(v, rate)
    \/ Tick

EncoderSpec == EncoderInit /\ [][EncoderNext]_encoderVars

-----------------------------------------------------------------------------
EncoderTypeOK ==
    /\ viewers \in [Viewer -> ViewerSession \cup {Absent}]
    /\ waiting \subseteq Present
    /\ current \in Nat /\ encoder \in Nat /\ launch \in Nat /\ recent \in BOOLEAN

\* A command to the encoder never exceeds what the slowest viewer can take at
\* that moment, whoever's estimate caused it, nor the limits that any viewer who
\* is still there agreed to, however estimates and sessions mix.
CommandSuitsEveryone ==
    /\ []EncoderTypeOK
    /\ [][current' # current =>
            /\ \A t \in Targets' : current' <= t
            /\ \A v \in Present' :
                 LET l == viewers'[v].limits IN
                 current' <= IF l.enabled THEN l.maximum ELSE l.initial]_encoderVars
=============================================================================
