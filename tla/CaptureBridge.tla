---------------------------- MODULE CaptureBridge ----------------------------
(***************************************************************************)
(* scrcpyBridge of the agent (src/agent/internal/agent/scrcpy.go, h264.go):*)
(* one scrcpy process at a time, started, reconfigured and stopped by      *)
(* callers, watched by two goroutines per process that outlive it.         *)
(*                                                                         *)
(* The bridge's mutex is held while a process is being stopped, which      *)
(* takes up to a grace period and three seconds: stop describes the        *)
(* stopLocked in progress, and every other critical section needs stop to  *)
(* be NoStop.  Processes are numbered by launch.  What the media streams   *)
(* carry is left out; packets matter only where they change the bridge.    *)
(***************************************************************************)
EXTENDS Naturals, FiniteSets

CONSTANTS
    Caller,     \* goroutines that call Start and Stop
    Args,       \* argument lists: what makes two captures different
    MaxLaunch   \* bound: processes ever launched

ASSUME BridgeAssumption == MaxLaunch \in Nat /\ Args # {}

Process == 1..MaxLaunch
None == 0

VARIABLES
    process,     \* b.process: the current process, or None
    args,        \* b.options of the current process
    launched,    \* processes launched so far
    alive,       \* processes the operating system still runs
    killed,      \* process.Close was called
    cancelled,   \* streamCtx of the process is cancelled
    stuck,       \* processes that did not stop in time
    waiter,      \* the goroutine that waits for the process
    reader,      \* the goroutine that reads its video socket
    controlConn, \* process whose control socket is installed, or None
    codec,       \* process whose SPS set b.videoCodec, or None
    size,        \* process whose session packet set b.width and b.height
    reported,    \* history: processes whose failure was published
    stop         \* the stopLocked in progress, or NoStop

bridgeVars == <<process, args, launched, alive, killed, cancelled, stuck, waiter,
          reader, controlConn, codec, size, reported, stop>>

NoStop == [by |-> "nobody", victim |-> None, stage |-> "none", next |-> "none"]
Free == stop = NoStop
Launched == {p \in Process : p <= launched}

\* What follows a stop: return, publish the failure of the victim, or start.
Return == "return"
Report == "report"

\* done of a process is closed by its waiter, first thing after Wait returns.
Done(p) == waiter[p] \in {"check", "fail", "end"}

BridgeInit ==
    /\ process = None
    /\ args \in Args
    /\ launched = 0
    /\ alive = {} /\ killed = {} /\ cancelled = {} /\ stuck = {}
    /\ waiter = [p \in Process |-> "none"]
    /\ reader = [p \in Process |-> "none"]
    /\ controlConn = None
    /\ codec = None
    /\ size = None
    /\ reported = {}
    /\ stop = NoStop

-----------------------------------------------------------------------------
(* Critical sections of the callers.                                       *)

\* startLocked: one process, two goroutines.
StartLocked(a) ==
    /\ launched < MaxLaunch
    /\ LET p == launched + 1 IN
         /\ process' = p
         /\ launched' = p
         /\ alive' = alive \cup {p}
         /\ waiter' = [waiter EXCEPT ![p] = "wait"]
         /\ reader' = [reader EXCEPT ![p] = "dial"]
    /\ args' = a
    /\ codec' = None

\* The jar is missing or Launch fails: nothing is left behind.
LaunchFails == UNCHANGED <<process, launched, alive, waiter, reader, args,
                           codec>>

StartOrFail(a) == StartLocked(a) \/ LaunchFails

\* stopLocked up to its first wait: the bridge is emptied, the sockets closed.
StopLocked(by, next) ==
    /\ stop' = [by |-> by, victim |-> process, stage |-> "grace", next |-> next]
    /\ process' = None
    /\ controlConn' = None
    /\ cancelled' = cancelled \cup {process}

\* Start when nothing runs.
StartIdle(c, a) ==
    /\ Free
    /\ process = None
    /\ StartLocked(a)
    /\ UNCHANGED <<killed, cancelled, stuck, size, controlConn, reported, stop>>

\* Start with the arguments of the running process, or a preview without
\* Reconfigure: the process is kept.  Other arguments: stop first.
Restart(c, a) ==
    /\ Free
    /\ process # None /\ a # args
    /\ StopLocked(c, a)
    /\ UNCHANGED <<args, launched, alive, killed, stuck, size, waiter, reader,
                   codec, reported>>

Stop(c) ==
    /\ Free
    /\ process # None
    /\ StopLocked(c, Return)
    /\ UNCHANGED <<args, launched, alive, killed, stuck, size, waiter, reader,
                   codec, reported>>

-----------------------------------------------------------------------------
(* stopLocked, with the mutex held.                                        *)

\* Mutant: the bridge is cleaned up after a failure, which nobody is told of.
MutantStopEnds ==
    /\ IF stop.next \in Args THEN StartOrFail(stop.next) ELSE LaunchFails
    /\ reported' = reported
    /\ stop' = NoStop

\* The victim is gone: return, report, or launch the replacement.
StopEnds ==
    /\ IF stop.next \in Args THEN StartOrFail(stop.next) ELSE LaunchFails
    /\ reported' = reported \cup (IF stop.next = Report THEN {stop.victim} ELSE {})
    /\ stop' = NoStop

\* done is closed, within the grace period or after the kill.
AwaitDone ==
    /\ stop.stage \in {"grace", "reap"}
    /\ Done(stop.victim)
    /\ StopEnds
    /\ UNCHANGED <<killed, cancelled, stuck, size, controlConn>>

\* The grace period is over: process.Close.
Kill ==
    /\ stop.stage = "grace"
    /\ killed' = killed \cup {stop.victim}
    /\ stop' = [stop EXCEPT !.stage = "reap"]
    /\ UNCHANGED <<process, args, launched, alive, cancelled, stuck, size,
                   waiter, reader, controlConn, codec, reported>>

\* "scrcpy did not stop": Start gives up; captureFailed reports all the same.
GiveUp ==
    /\ stop.stage = "reap"
    /\ ~Done(stop.victim)
    /\ stuck' = stuck \cup {stop.victim}
    /\ reported' = reported \cup (IF stop.next = Report THEN {stop.victim} ELSE {})
    /\ stop' = NoStop
    /\ UNCHANGED <<process, args, launched, alive, killed, cancelled, size,
                   waiter, reader, controlConn, codec>>

-----------------------------------------------------------------------------
(* The goroutines of a process.                                            *)

\* The process ends, killed, closed from the other side or by itself.
Exit(p) ==
    /\ p \in alive
    /\ alive' = alive \ {p}
    /\ UNCHANGED <<process, args, launched, killed, cancelled, stuck, size,
                   waiter, reader, controlConn, codec, reported, stop>>

\* cmd.Wait returns, done is closed.
WaitReturns(p) ==
    /\ waiter[p] = "wait" /\ p \notin alive
    /\ waiter' = [waiter EXCEPT ![p] = "check"]
    /\ UNCHANGED <<process, args, launched, alive, killed, cancelled, stuck,
                   size, reader, controlConn, codec, reported, stop>>

\* Both goroutines look at streamCtx before they call captureFailed.
Verdict(p) == IF p \in cancelled THEN "end" ELSE "fail"

WaiterChecks(p) ==
    /\ waiter[p] = "check"
    /\ waiter' = [waiter EXCEPT ![p] = Verdict(p)]
    /\ UNCHANGED <<process, args, launched, alive, killed, cancelled, stuck,
                   size, reader, controlConn, codec, reported, stop>>

\* Mutant: captureFailed stops whatever runs.
MutantIsCurrent(p) == process # None

\* captureFailed: is the failed process still the current one?
IsCurrent(p) == process = p

\* captureFailed of the waiter, then of the reader: an exit of an older
\* process, or one the other goroutine has dealt with, is ignored.
WaiterFails(p) ==
    /\ waiter[p] = "fail" /\ Free
    /\ waiter' = [waiter EXCEPT ![p] = "end"]
    /\ IF IsCurrent(p) THEN StopLocked("waiter", Report)
                      ELSE UNCHANGED <<process, controlConn, cancelled, stop>>
    /\ UNCHANGED <<args, launched, alive, killed, stuck, size, reader, codec,
                   reported>>

ReaderFails(p) ==
    /\ reader[p] = "fail" /\ Free
    /\ reader' = [reader EXCEPT ![p] = "end"]
    /\ IF IsCurrent(p) THEN StopLocked("reader", Report)
                      ELSE UNCHANGED <<process, controlConn, cancelled, stop>>
    /\ UNCHANGED <<args, launched, alive, killed, stuck, size, waiter, codec,
                   reported>>

\* The sockets are connected; setControlConn installs the control socket
\* unless the stream was cancelled meanwhile.
SetControlConn(p) ==
    /\ reader[p] = "dial" /\ Free
    /\ controlConn' = IF p \in cancelled THEN controlConn ELSE p
    /\ reader' = [reader EXCEPT ![p] = IF p \in cancelled THEN "end" ELSE "read"]
    /\ UNCHANGED <<process, args, launched, alive, killed, cancelled, stuck,
                   size, waiter, codec, reported, stop>>

\* A configuration packet was read ...
ReadConfig(p) ==
    /\ reader[p] = "read"
    /\ reader' = [reader EXCEPT ![p] = "config"]
    /\ UNCHANGED <<process, args, launched, alive, killed, cancelled, stuck,
                   size, waiter, controlConn, codec, reported, stop>>

\* Mutant: the SPS of any process is taken.
MutantApplyConfig(p) ==
    /\ reader[p] = "config" /\ Free
    /\ codec' = p
    /\ reader' = [reader EXCEPT ![p] = "read"]
    /\ UNCHANGED <<process, args, launched, alive, killed, cancelled, stuck,
                   size, waiter, controlConn, reported, stop>>

\* ... and is applied if its process is still the current one.
ApplyConfig(p) ==
    /\ reader[p] = "config" /\ Free
    /\ codec' = IF process = p THEN p ELSE codec
    /\ reader' = [reader EXCEPT ![p] = "read"]
    /\ UNCHANGED <<process, args, launched, alive, killed, cancelled, stuck,
                   size, waiter, controlConn, reported, stop>>

\* A session packet sets the size that input is mapped to, whatever process it
\* is of.
ReadSession(p) ==
    /\ reader[p] = "read" /\ Free
    /\ size' = p
    /\ UNCHANGED <<process, args, launched, alive, killed, cancelled, stuck,
                   waiter, reader, controlConn, codec, reported, stop>>

\* A dial or a read fails (the peer closed, the context was cancelled, the
\* 10 s deadlines passed).  clearControlConn leaves the socket of others alone.
ReadError(p) ==
    /\ \/ reader[p] = "dial"
       \/ reader[p] = "read" /\ Free
    /\ controlConn' = IF reader[p] = "read" /\ controlConn = p THEN None ELSE controlConn
    /\ reader' = [reader EXCEPT ![p] = Verdict(p)]
    /\ UNCHANGED <<process, args, launched, alive, killed, cancelled, stuck,
                   size, waiter, codec, reported, stop>>

-----------------------------------------------------------------------------
Call(c) == \E a \in Args : StartIdle(c, a) \/ Restart(c, a)
Stopping == AwaitDone \/ Kill \/ GiveUp
WaiterStep(p) == WaitReturns(p) \/ WaiterChecks(p) \/ WaiterFails(p)
ReaderStep(p) == ReaderFails(p) \/ SetControlConn(p) \/ ReadConfig(p)
                   \/ ApplyConfig(p) \/ ReadSession(p) \/ ReadError(p)

BridgeNext ==
    \/ \E c \in Caller : Call(c) \/ Stop(c)
    \/ Stopping
    \/ \E p \in Process : Exit(p) \/ WaiterStep(p) \/ ReaderStep(p)

BridgeSpec == BridgeInit /\ [][BridgeNext]_bridgeVars

\* Goroutines are scheduled, the timers of a stop fire, and the mutex is
\* granted to a goroutine that keeps asking for it (it fails once, so to be fair
\* to all of them is to be fair to each).
BridgeFairness ==
    /\ WF_bridgeVars(Stopping)
    /\ \A p \in Process : WF_bridgeVars(WaitReturns(p) \/ WaiterChecks(p))
    /\ SF_bridgeVars(\E p \in Process : WaiterFails(p) \/ ReaderFails(p))

-----------------------------------------------------------------------------
(* Properties.                                                             *)

BridgeTypeOK ==
    /\ process \in Launched \cup {None}
    /\ args \in Args
    /\ launched \in 0..MaxLaunch
    /\ alive \subseteq Launched /\ killed \subseteq Launched
    /\ cancelled \subseteq Launched /\ stuck \subseteq Launched
    /\ reported \subseteq Launched
    /\ waiter \in [Process -> {"none", "wait", "check", "fail", "end"}]
    /\ reader \in [Process -> {"none", "dial", "read", "config", "fail", "end"}]
    /\ controlConn \in Launched \cup {None}
    /\ codec \in Launched \cup {None} /\ size \in Launched \cup {None}
    /\ stop \in {NoStop} \cup
         [by: Caller \cup {"waiter", "reader"}, victim: Launched,
          stage: {"grace", "reap"}, next: Args \cup {Return, Report}]

\* Two captures never run at once: a process that is not the current one is
\* being stopped, has been given up as stuck, or has already exited.  The next
\* one is launched in the same critical section that saw done closed.
OneCapture == alive \subseteq {process, stop.victim} \cup stuck

\* The one that was given up, beside which the next Start launches another, has
\* been killed: it is never left running as it was.
GivenUpIsKilled == stuck \subseteq killed

\* The control socket that input goes to belongs to the running process: a
\* reader that was cancelled while it dialled never installs an old socket.
ControlIsCurrent == controlConn # None => controlConn = process

\* The codec VideoCodec answers with is that of the running process, even when
\* the SPS of an older process is still in a reader's hand.
CodecIsCurrent == process # None /\ codec # None => codec = process

\* A capture ends because a caller asked for it or because it failed itself,
\* never because an older process exited late.
EndsForItsOwnReason ==
    [][\A p \in Process : process = p /\ process' # p =>
          \/ stop'.by \in Caller
          \/ waiter[p] = "fail" \/ reader[p] = "fail"]_bridgeVars

\* A capture that exits on its own is published to the viewers, unless a caller
\* stops it first ("unexpected capture exit left the browser waiting for
\* video"): that the bridge has cleaned up after it is not enough.
ExitIsReported ==
    \A p \in Process :
       process = p /\ p \notin alive ~>
          p \in reported \/ (stop.victim = p /\ stop.by \in Caller)

\* The invariant of the bridge: one capture, and nothing left of its predecessors.
BridgeInv ==
    /\ BridgeTypeOK
    /\ OneCapture
    /\ GivenUpIsKilled
    /\ ControlIsCurrent
    /\ CodecIsCurrent
=============================================================================
