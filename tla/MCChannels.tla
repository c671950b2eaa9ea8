----------------------------- MODULE MCChannels -----------------------------
(***************************************************************************)
(* What the agent keeps for a browser, for TLC: FileSession and            *)
(* TerminalSession.  They share no variable, so a step of one changes      *)
(* nothing in the other, and every property is about one of them: part     *)
(* picks the one that moves, the other stays as it started.  There none of *)
(* its fair actions is enabled, so its fairness asks nothing of it.        *)
(***************************************************************************)
EXTENDS FileSession, TerminalSession, TLC

CONSTANTS c1, id1, d1

\* A browser with one id: its socket and its data channel may open it one after
\* the other or at once.
OneOwner == id1 :> c1
OneLabel == d1 :> id1

VARIABLE part

Init == part \in {"files", "terminals"} /\ FileInit /\ TerminalInit

Next ==
    \/ part = "files" /\ FileNext /\ UNCHANGED <<part, terminalVars>>
    \/ part = "terminals" /\ TerminalNext /\ UNCHANGED <<part, fileVars>>

Spec ==
    /\ Init /\ [][Next]_<<part, fileVars, terminalVars>>
    /\ FileFairness /\ TerminalFairness
=============================================================================
