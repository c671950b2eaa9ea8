--------------------------- MODULE AgentHandshake ---------------------------
(***************************************************************************)
(* The budget of pending agent handshakes, the buffered channel            *)
(* pendingAgentHandshakes of Server.registerAgent                          *)
(* (src/backend/internal/controlplane/server.go).  A handler takes a slot  *)
(* without waiting, gives it back when the agent is admitted, and otherwise*)
(* in a deferred function that looks at its own flag reserved.             *)
(***************************************************************************)
EXTENDS Integers, FiniteSets

CONSTANTS
    Handler,                   \* handler goroutines
    MaxPendingAgentHandshakes

ASSUME HandshakeAssumption ==
    IsFiniteSet(Handler) /\ MaxPendingAgentHandshakes \in Nat \ {0}

VARIABLES
    slots,     \* elements in the channel
    at,        \* where a handler is
    reserved   \* handlers whose local flag is set

handshakeVars == <<slots, at, reserved>>

HandshakeInit == slots = 0 /\ at = [h \in Handler |-> "none"] /\ reserved = {}

Goto(h, step) == at' = [at EXCEPT ![h] = step]

\* select with default: a full budget refuses the connection at once.
Reserve(h) ==
    /\ at[h] = "none"
    /\ slots < MaxPendingAgentHandshakes
    /\ slots' = slots + 1
    /\ reserved' = reserved \cup {h}
    /\ Goto(h, "hello")

\* agent_hello has arrived; its tokens are looked at.
Hello(h) == at[h] = "hello" /\ Goto(h, "exchange") /\ UNCHANGED <<slots, reserved>>

\* The agent is admitted: its slot is free, its deadline is gone.  A receive
\* from an empty channel would wait.
Admit(h) ==
    /\ at[h] = "exchange"
    /\ slots > 0 /\ slots' = slots - 1
    /\ reserved' = reserved \ {h}
    /\ Goto(h, "connected")

\* Mutant: a handshake that fails keeps its slot.
MutantRelease(h) == UNCHANGED slots

\* The deferred function.
Release(h) == IF h \in reserved THEN slots > 0 /\ slots' = slots - 1 ELSE UNCHANGED slots

\* Upgrade fails, the hello is malformed, too long or late, the enrollment is
\* rejected, or the connection of an admitted agent ends.
Return(h) ==
    /\ at[h] # "none"
    /\ Release(h)
    /\ reserved' = reserved \ {h}
    /\ Goto(h, "none")

HandshakeNext == \E h \in Handler : Reserve(h) \/ Hello(h) \/ Admit(h) \/ Return(h)

HandshakeSpec == HandshakeInit /\ [][HandshakeNext]_handshakeVars

-----------------------------------------------------------------------------
HandshakeTypeOK ==
    /\ slots \in 0..MaxPendingAgentHandshakes
    /\ at \in [Handler -> {"none", "hello", "exchange", "connected"}]
    /\ reserved \subseteq Handler

\* The channel holds exactly one element for every handshake that is going on:
\* none is lost when one fails, none is given back twice, admitted agents hold
\* none, and so no handler ever waits in its receive.
SlotsAreExact == slots = Cardinality({h \in Handler : at[h] \in {"hello", "exchange"}})

\* The invariant of the handshakes: the budget is kept and accounted for.
HandshakeInv == HandshakeTypeOK /\ SlotsAreExact
=============================================================================
