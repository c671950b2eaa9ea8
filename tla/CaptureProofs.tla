---------------------------- MODULE CaptureProofs ----------------------------
(***************************************************************************)
(* Proofs about the capture side of the agent: the bridge to the scrcpy    *)
(* process (CaptureBridge), the encoder that viewers share (SharedEncoder) *)
(* and the media manager (MediaManager).                                   *)
(***************************************************************************)
EXTENDS CaptureBridge, SharedEncoder, MediaManager, WellFoundedInduction, TLAPS

(***************************************************************************)
(* The bridge.  Four facts make its invariant inductive: a process whose   *)
(* done is closed has exited, a launched process that is not the current   *)
(* one has a cancelled stream, while stopLocked is in progress the bridge  *)
(* is empty, and stopLocked kills before it gives up.                      *)
(***************************************************************************)

\* Wait returns after the exit, never before it.
DoneIsExited == \A p \in Process : Done(p) => p \notin alive

\* Goroutines belong to launched processes.
GoroutinesAreLaunched ==
    \A p \in Process : p \notin Launched => waiter[p] = "none" /\ reader[p] = "none"

\* Every process that was current has had its stream cancelled when it left.
OldAreCancelled == \A p \in Launched : p = process \/ p \in cancelled

\* stopLocked empties the bridge before it waits.
StoppingIsEmpty == ~Free => process = None /\ controlConn = None

\* Before it gives up it kills.
ReapedIsKilled == stop.stage = "reap" => stop.victim \in killed

BridgeParts ==
    /\ DoneIsExited
    /\ GoroutinesAreLaunched
    /\ OldAreCancelled
    /\ StoppingIsEmpty
    /\ ReapedIsKilled

BridgeIndInv == BridgeInv /\ BridgeParts

\* Processes and their numbers.
LEMMA ProcessFacts ==
    /\ None \notin Process
    /\ Process \subseteq Nat
    /\ \A p \in Process : p \in Launched <=> p <= launched
    /\ Launched \subseteq Process
BY BridgeAssumption DEF Process, None, Launched

\* The bridge starts empty.
LEMMA BridgeStarts == BridgeInit => BridgeIndInv
<1> SUFFICES ASSUME BridgeInit PROVE BridgeIndInv
  OBVIOUS
<1> USE BridgeAssumption DEF BridgeInit, Process, None, Launched, NoStop
<1>1. BridgeTypeOK BY DEF BridgeTypeOK
<1>2. OneCapture /\ GivenUpIsKilled /\ ControlIsCurrent /\ CodecIsCurrent
  BY DEF OneCapture, GivenUpIsKilled, ControlIsCurrent, CodecIsCurrent
<1>3. BridgeParts
  BY DEF BridgeParts, DoneIsExited, GoroutinesAreLaunched, OldAreCancelled, StoppingIsEmpty, ReapedIsKilled, Done, Free
<1>4. QED BY <1>1, <1>2, <1>3 DEF BridgeIndInv, BridgeInv

\* What startLocked does to an empty bridge: everything it changes is about the
\* new process.
LEMMA StartKeeps ==
    ASSUME BridgeIndInv, NEW a \in Args, StartLocked(a), process = None,
           \A p \in alive : p \in stuck,
           UNCHANGED <<killed, cancelled, stuck, size, controlConn>>, stop' = NoStop,
           reported' \subseteq Launched
    PROVE  BridgeIndInv'
<1> USE ProcessFacts, BridgeAssumption DEF None
<1>0. PICK p \in Process : p = launched + 1 /\ p <= MaxLaunch
  BY DEF StartLocked, BridgeIndInv, BridgeInv, BridgeTypeOK, Process
<1>1. /\ process' = p /\ launched' = p /\ alive' = alive \cup {p}
      /\ waiter' = [waiter EXCEPT ![p] = "wait"]
      /\ reader' = [reader EXCEPT ![p] = "dial"]
      /\ args' = a /\ codec' = None
  BY <1>0 DEF StartLocked
<1>2. Launched' = Launched \cup {p} /\ p \notin Launched
  BY <1>0, <1>1 DEF Launched, Process, BridgeIndInv, BridgeInv, BridgeTypeOK
<1>3. controlConn = None
  BY DEF BridgeIndInv, BridgeInv, ControlIsCurrent, BridgeParts
<1>4. BridgeTypeOK'
  BY <1>0, <1>1, <1>2 DEF BridgeIndInv, BridgeInv, BridgeTypeOK
<1>5. OneCapture'
  BY <1>1 DEF OneCapture
<1>6. ControlIsCurrent' /\ CodecIsCurrent'
  BY <1>1, <1>3 DEF ControlIsCurrent, CodecIsCurrent
<1>7. DoneIsExited'
  BY <1>1, <1>2 DEF DoneIsExited, Done, BridgeIndInv, BridgeInv, BridgeTypeOK, BridgeParts
<1>8. GoroutinesAreLaunched'
  BY <1>1, <1>2 DEF GoroutinesAreLaunched, BridgeIndInv, BridgeInv, BridgeTypeOK, BridgeParts
<1>9. OldAreCancelled'
  BY <1>1, <1>2 DEF OldAreCancelled, BridgeIndInv, BridgeInv, BridgeTypeOK, BridgeParts
<1>10. StoppingIsEmpty' /\ ReapedIsKilled' /\ GivenUpIsKilled'
  BY DEF StoppingIsEmpty, ReapedIsKilled, GivenUpIsKilled, Free, NoStop, BridgeIndInv, BridgeInv
<1>11. QED
  BY <1>4, <1>5, <1>6, <1>7, <1>8, <1>9, <1>10 DEF BridgeIndInv, BridgeInv, BridgeParts

\* What stopLocked does when a process is current: it becomes the victim.
LEMMA StopKeeps ==
    ASSUME BridgeIndInv, NEW by \in Caller \cup {"waiter", "reader"},
           NEW next \in Args \cup {Return, Report}, process # None, Free,
           StopLocked(by, next),
           UNCHANGED <<args, launched, alive, killed, stuck, size, codec, reported>>,
           waiter' \in [Process -> {"none", "wait", "check", "fail", "end"}],
           reader' \in [Process -> {"none", "dial", "read", "config", "fail", "end"}],
           \A p \in Process : Done(p)' => Done(p),
           \A p \in Process : waiter[p] = "none" => waiter'[p] = "none",
           \A p \in Process : reader[p] = "none" => reader'[p] = "none"
    PROVE  BridgeIndInv'
<1> USE ProcessFacts, BridgeAssumption DEF None
<1>0. process \in Launched /\ Launched' = Launched
  BY DEF BridgeIndInv, BridgeInv, BridgeTypeOK, Launched
<1>1. /\ stop' = [by |-> by, victim |-> process, stage |-> "grace", next |-> next]
      /\ process' = None /\ controlConn' = None /\ cancelled' = cancelled \cup {process}
  BY DEF StopLocked
<1>2. BridgeTypeOK'
  BY <1>0, <1>1 DEF BridgeIndInv, BridgeInv, BridgeTypeOK
<1>3. OneCapture'
  <2>1. alive \subseteq {process, None} \cup stuck
    BY DEF BridgeIndInv, BridgeInv, OneCapture, Free, NoStop
  <2>2. None \notin alive
    BY DEF BridgeIndInv, BridgeInv, BridgeTypeOK
  <2>3. stop'.victim = process BY <1>1
  <2>4. QED BY <2>1, <2>2, <2>3 DEF OneCapture
<1>4. ControlIsCurrent' /\ CodecIsCurrent'
  BY <1>1 DEF ControlIsCurrent, CodecIsCurrent
<1>5. DoneIsExited'
  BY DEF DoneIsExited, BridgeIndInv, BridgeParts
<1>6. GoroutinesAreLaunched'
  BY <1>0 DEF GoroutinesAreLaunched, BridgeIndInv, BridgeParts
<1>7. OldAreCancelled'
  BY <1>0, <1>1 DEF OldAreCancelled, BridgeIndInv, BridgeParts
<1>8. StoppingIsEmpty' /\ ReapedIsKilled' /\ GivenUpIsKilled'
  BY <1>1 DEF StoppingIsEmpty, ReapedIsKilled, GivenUpIsKilled, BridgeIndInv, BridgeInv
<1>9. QED
  BY <1>2, <1>3, <1>4, <1>5, <1>6, <1>7, <1>8 DEF BridgeIndInv, BridgeInv, BridgeParts

\* No action of the bridge, of the stop in progress or of a goroutine breaks the
\* inductive invariant.
LEMMA BridgeStep == BridgeIndInv /\ [BridgeNext]_bridgeVars => BridgeIndInv'
<1> SUFFICES ASSUME BridgeIndInv, [BridgeNext]_bridgeVars PROVE BridgeIndInv'
  OBVIOUS
<1> USE ProcessFacts, BridgeAssumption DEF None
<1> DEFINE Waits == {"none", "wait", "check", "fail", "end"}
           Reads == {"none", "dial", "read", "config", "fail", "end"}
<1>ty. /\ waiter \in [Process -> Waits] /\ reader \in [Process -> Reads]
       /\ alive \subseteq Launched /\ process \in Launched \cup {None}
  BY DEF BridgeIndInv, BridgeInv, BridgeTypeOK
<1>1. ASSUME NEW c \in Caller, NEW a \in Args, StartIdle(c, a) PROVE BridgeIndInv'
  <2>1. \A p \in alive : p \in stuck
    BY <1>1, <1>ty DEF StartIdle, BridgeIndInv, BridgeInv, OneCapture, Free, NoStop
  <2>2. reported' \subseteq Launched /\ stop' = NoStop
    BY <1>1 DEF StartIdle, Free, BridgeIndInv, BridgeInv, BridgeTypeOK
  <2>3. QED BY <1>1, <2>1, <2>2, StartKeeps DEF StartIdle
<1>2. ASSUME NEW c \in Caller, NEW a \in Args, Restart(c, a) PROVE BridgeIndInv'
  BY <1>2, <1>ty, StopKeeps DEF Restart, Done
<1>3. ASSUME NEW c \in Caller, Stop(c) PROVE BridgeIndInv'
  BY <1>3, <1>ty, StopKeeps DEF Stop, Done
<1>4. CASE AwaitDone
  <2>1. /\ stop # NoStop /\ process = None /\ controlConn = None
        /\ stop.victim \in Launched /\ Done(stop.victim) /\ stop.next \in Args \cup {Return, Report}
    BY <1>4 DEF AwaitDone, BridgeIndInv, BridgeInv, BridgeTypeOK, BridgeParts, StoppingIsEmpty, Free, NoStop
  <2>2. \A p \in alive : p \in stuck
    BY <2>1, <1>ty DEF BridgeIndInv, BridgeInv, OneCapture, BridgeParts, DoneIsExited
  <2>3. stop' = NoStop /\ reported' \subseteq Launched
    BY <1>4, <2>1 DEF AwaitDone, StopEnds, BridgeIndInv, BridgeInv, BridgeTypeOK
  <2>4. CASE LaunchFails
    <3>1. Launched' = Launched BY <2>4 DEF LaunchFails, Launched
    <3>2. BridgeTypeOK'
      BY <1>4, <2>3, <2>4, <3>1 DEF AwaitDone, LaunchFails, BridgeIndInv, BridgeInv, BridgeTypeOK
    <3>3. OneCapture' /\ GivenUpIsKilled'
      BY <1>4, <2>2, <2>4 DEF AwaitDone, LaunchFails, OneCapture, GivenUpIsKilled, BridgeIndInv, BridgeInv
    <3>4. ControlIsCurrent' /\ CodecIsCurrent'
      BY <1>4, <2>1, <2>4 DEF AwaitDone, LaunchFails, ControlIsCurrent, CodecIsCurrent
    <3>5. BridgeParts'
      BY <1>4, <2>3, <2>4, <3>1
      DEF AwaitDone, LaunchFails, BridgeIndInv, BridgeParts, DoneIsExited, Done,
          GoroutinesAreLaunched, OldAreCancelled, StoppingIsEmpty, ReapedIsKilled, Free, NoStop
    <3>6. QED BY <3>2, <3>3, <3>4, <3>5 DEF BridgeIndInv, BridgeInv
  <2>5. CASE stop.next \in Args /\ StartLocked(stop.next)
    BY <1>4, <2>1, <2>2, <2>3, <2>5, StartKeeps DEF AwaitDone
  <2>6. QED BY <1>4, <2>4, <2>5 DEF AwaitDone, StopEnds, StartOrFail
<1>5. CASE Kill
  <2>1. stop # NoStop /\ stop.victim \in Launched
    BY <1>5 DEF Kill, BridgeIndInv, BridgeInv, BridgeTypeOK, NoStop
  <2>2. /\ stop' \in [by: Caller \cup {"waiter", "reader"}, victim: Launched,
                      stage: {"grace", "reap"}, next: Args \cup {Return, Report}]
        /\ stop'.victim = stop.victim
    BY <1>5, <2>1 DEF Kill, BridgeIndInv, BridgeInv, BridgeTypeOK
  <2>3. Launched' = Launched BY <1>5 DEF Kill, Launched
  <2>4. BridgeTypeOK'
    BY <1>5, <2>1, <2>2, <2>3 DEF Kill, BridgeIndInv, BridgeInv, BridgeTypeOK
  <2>5. OneCapture' /\ GivenUpIsKilled' /\ ControlIsCurrent' /\ CodecIsCurrent'
    BY <1>5, <2>2 DEF Kill, BridgeIndInv, BridgeInv, OneCapture, GivenUpIsKilled, ControlIsCurrent, CodecIsCurrent
  <2>6. BridgeParts'
    BY <1>5, <2>1, <2>3
    DEF Kill, BridgeIndInv, BridgeParts, DoneIsExited, Done,
        GoroutinesAreLaunched, OldAreCancelled, StoppingIsEmpty, ReapedIsKilled, Free
  <2>7. QED BY <2>4, <2>5, <2>6 DEF BridgeIndInv, BridgeInv
<1>6. CASE GiveUp
  <2>1. stop # NoStop /\ stop.victim \in Launched
    BY <1>6 DEF GiveUp, BridgeIndInv, BridgeInv, BridgeTypeOK, NoStop
  <2>3. Launched' = Launched BY <1>6 DEF GiveUp, Launched
  <2>4. BridgeTypeOK'
    BY <1>6, <2>1, <2>3 DEF GiveUp, BridgeIndInv, BridgeInv, BridgeTypeOK
  <2>5. OneCapture' /\ GivenUpIsKilled' /\ ControlIsCurrent' /\ CodecIsCurrent'
    BY <1>6, <2>1
    DEF GiveUp, BridgeIndInv, BridgeInv, BridgeParts, ReapedIsKilled, OneCapture, GivenUpIsKilled,
        ControlIsCurrent, CodecIsCurrent
  <2>6. BridgeParts'
    BY <1>6, <2>1, <2>3
    DEF GiveUp, BridgeIndInv, BridgeParts, DoneIsExited, Done,
        GoroutinesAreLaunched, OldAreCancelled, StoppingIsEmpty, ReapedIsKilled, Free, NoStop
  <2>7. QED BY <2>4, <2>5, <2>6 DEF BridgeIndInv, BridgeInv
<1>7. ASSUME NEW p \in Process, Exit(p) PROVE BridgeIndInv'
  BY <1>7 DEF Exit, BridgeIndInv, BridgeInv, BridgeTypeOK, Launched, OneCapture, GivenUpIsKilled,
       ControlIsCurrent, CodecIsCurrent, BridgeParts, DoneIsExited, Done, GoroutinesAreLaunched, OldAreCancelled,
       StoppingIsEmpty, ReapedIsKilled, Free
<1>8. ASSUME NEW p \in Process, WaitReturns(p) \/ WaiterChecks(p) PROVE BridgeIndInv'
  <2>1. /\ waiter' \in [Process -> Waits]
        /\ waiter[p] \in {"wait", "check"} /\ (waiter[p] = "wait" => p \notin alive)
        /\ \A q \in Process \ {p} : waiter'[q] = waiter[q]
        /\ UNCHANGED <<process, args, launched, alive, killed, cancelled, stuck, size,
                       reader, controlConn, codec, reported, stop>>
    BY <1>8, <1>ty DEF WaitReturns, WaiterChecks, Verdict
  <2>2. Launched' = Launched BY <2>1 DEF Launched
  <2>3. BridgeInv'
    BY <2>1, <2>2 DEF BridgeIndInv, BridgeInv, BridgeTypeOK, OneCapture, GivenUpIsKilled, ControlIsCurrent, CodecIsCurrent
  <2>4. BridgeParts'
    BY <2>1, <2>2 DEF BridgeIndInv, BridgeParts, DoneIsExited, Done, GoroutinesAreLaunched,
        OldAreCancelled, StoppingIsEmpty, ReapedIsKilled, Free
  <2>5. QED BY <2>3, <2>4 DEF BridgeIndInv
<1>9. ASSUME NEW p \in Process, WaiterFails(p) PROVE BridgeIndInv'
  <2>1. /\ waiter' \in [Process -> Waits]
        /\ \A q \in Process : Done(q)' => Done(q)
        /\ \A q \in Process : waiter[q] = "none" => waiter'[q] = "none"
    BY <1>9, <1>ty DEF WaiterFails, Done
  <2>2. CASE IsCurrent(p)
    BY <1>9, <1>ty, <2>1, <2>2, StopKeeps DEF WaiterFails, IsCurrent
  <2>3. CASE ~IsCurrent(p)
    <3>1. UNCHANGED <<process, args, launched, alive, killed, cancelled, stuck, size, reader,
                      controlConn, codec, reported, stop>>
      BY <1>9, <2>3 DEF WaiterFails
    <3>2. Launched' = Launched BY <3>1 DEF Launched
    <3>3. BridgeInv'
      BY <2>1, <3>1, <3>2
      DEF BridgeIndInv, BridgeInv, BridgeTypeOK, OneCapture, GivenUpIsKilled, ControlIsCurrent, CodecIsCurrent
    <3>4. BridgeParts'
      BY <2>1, <3>1, <3>2
      DEF BridgeIndInv, BridgeParts, DoneIsExited, GoroutinesAreLaunched, OldAreCancelled,
          StoppingIsEmpty, ReapedIsKilled, Free
    <3>5. QED BY <3>3, <3>4 DEF BridgeIndInv
  <2>4. QED BY <2>2, <2>3
<1>10. ASSUME NEW p \in Process, ReaderFails(p) PROVE BridgeIndInv'
  <2>1. /\ reader' \in [Process -> Reads]
        /\ \A q \in Process : reader[q] = "none" => reader'[q] = "none"
        /\ \A q \in Process : Done(q)' => Done(q)
    BY <1>10, <1>ty DEF ReaderFails, Done
  <2>2. CASE IsCurrent(p)
    BY <1>10, <1>ty, <2>1, <2>2, StopKeeps DEF ReaderFails, IsCurrent
  <2>3. CASE ~IsCurrent(p)
    <3>1. UNCHANGED <<process, args, launched, alive, killed, cancelled, stuck, size, waiter,
                      controlConn, codec, reported, stop>>
      BY <1>10, <2>3 DEF ReaderFails
    <3>2. Launched' = Launched BY <3>1 DEF Launched
    <3>3. BridgeInv'
      BY <2>1, <3>1, <3>2
      DEF BridgeIndInv, BridgeInv, BridgeTypeOK, OneCapture, GivenUpIsKilled, ControlIsCurrent, CodecIsCurrent
    <3>4. BridgeParts'
      BY <2>1, <3>1, <3>2
      DEF BridgeIndInv, BridgeParts, DoneIsExited, GoroutinesAreLaunched, OldAreCancelled,
          StoppingIsEmpty, ReapedIsKilled, Free
    <3>5. QED BY <3>3, <3>4 DEF BridgeIndInv
  <2>4. QED BY <2>2, <2>3
<1>11. ASSUME NEW p \in Process, SetControlConn(p) \/ ReadConfig(p) \/ ApplyConfig(p) \/ ReadSession(p) \/ ReadError(p)
       PROVE  BridgeIndInv'
  <2>1. /\ reader' \in [Process -> Reads] /\ reader[p] # "none"
        /\ \A q \in Process : reader[q] = "none" => reader'[q] = "none"
        /\ UNCHANGED <<process, args, launched, alive, killed, cancelled, stuck,
                       waiter, reported, stop>>
        /\ size' \in {size, p}
    BY <1>11, <1>ty DEF SetControlConn, ReadConfig, ApplyConfig, ReadSession, ReadError, Verdict
  <2>2. Launched' = Launched BY <2>1 DEF Launched
  <2>3. p \in Launched
    BY <2>1 DEF BridgeIndInv, BridgeParts, GoroutinesAreLaunched
  <2>4. controlConn' = controlConn \/ controlConn' = None \/ (controlConn' = p /\ p = process)
    BY <1>11, <2>3 DEF SetControlConn, ReadConfig, ApplyConfig, ReadSession, ReadError, BridgeIndInv, BridgeParts,
       OldAreCancelled
  <2>5. codec' = codec \/ (codec' = p /\ process = p)
    BY <1>11 DEF SetControlConn, ReadConfig, ApplyConfig, ReadSession, ReadError
  <2>6. BridgeTypeOK'
    BY <2>1, <2>2, <2>3, <2>4, <2>5 DEF BridgeIndInv, BridgeInv, BridgeTypeOK
  <2>7. OneCapture' /\ GivenUpIsKilled' /\ ControlIsCurrent' /\ CodecIsCurrent'
    BY <2>1, <2>4, <2>5 DEF BridgeIndInv, BridgeInv, OneCapture, GivenUpIsKilled, ControlIsCurrent, CodecIsCurrent
  <2>8. DoneIsExited' /\ GoroutinesAreLaunched' /\ OldAreCancelled'
    BY <2>1, <2>2 DEF BridgeIndInv, BridgeParts, DoneIsExited, Done, GoroutinesAreLaunched, OldAreCancelled
  <2>9. StoppingIsEmpty' /\ ReapedIsKilled'
    BY <2>1, <2>3, <2>4 DEF BridgeIndInv, BridgeParts, StoppingIsEmpty, ReapedIsKilled, Free
  <2>10. QED
    BY <2>6, <2>7, <2>8, <2>9 DEF BridgeIndInv, BridgeInv, BridgeParts
<1>12. CASE UNCHANGED bridgeVars
  BY <1>12 DEF bridgeVars, BridgeIndInv, BridgeInv, BridgeTypeOK, Launched, OneCapture, GivenUpIsKilled,
       ControlIsCurrent, CodecIsCurrent, BridgeParts, DoneIsExited, Done, GoroutinesAreLaunched, OldAreCancelled,
       StoppingIsEmpty, ReapedIsKilled, Free
<1>13. QED
  BY <1>1, <1>2, <1>3, <1>4, <1>5, <1>6, <1>7, <1>8, <1>9, <1>10, <1>11, <1>12
  DEF BridgeNext, Call, Stopping, WaiterStep, ReaderStep

\* The inductive invariant of the bridge holds throughout, for any callers,
\* arguments and number of launches.
THEOREM BridgeInductive == BridgeSpec => []BridgeIndInv
BY BridgeStarts, BridgeStep, PTL DEF BridgeSpec

\* One capture at a time, its control socket and its codec, and nothing of its
\* predecessors, however slowly processes stop and goroutines notice.
THEOREM BridgeIsSafe == BridgeSpec => []BridgeInv
<1>1. BridgeIndInv => BridgeInv BY DEF BridgeIndInv
<1>2. QED BY <1>1, BridgeInductive, PTL

\* A capture ends because a caller asked for it or because it failed itself: an
\* older process that exits late ends nothing.
THEOREM BridgeOwnReason == BridgeSpec => EndsForItsOwnReason
<1> DEFINE A == \A p \in Process : process = p /\ process' # p =>
                  \/ stop'.by \in Caller
                  \/ waiter[p] = "fail" \/ reader[p] = "fail"
<1>1. BridgeIndInv /\ [BridgeNext]_bridgeVars => [A]_bridgeVars
  <2> SUFFICES ASSUME BridgeIndInv, BridgeNext, NEW p \in Process, process = p, process' # p
               PROVE  \/ stop'.by \in Caller
                      \/ waiter[p] = "fail" \/ reader[p] = "fail"
    BY DEF bridgeVars
  <2> USE ProcessFacts
  <2>1. ~Stopping
    <3>1. ASSUME Stopping PROVE process = None
      BY <3>1 DEF Stopping, AwaitDone, Kill, GiveUp, BridgeIndInv, BridgeParts, StoppingIsEmpty, Free, NoStop
    <3>2. QED BY <3>1
  <2>2. ASSUME NEW c \in Caller, Call(c) \/ Stop(c) PROVE stop'.by = c
    BY <2>2 DEF Call, StartIdle, Restart, Stop, StopLocked
  <2>3. ASSUME NEW q \in Process, Exit(q) \/ WaiterStep(q) \/ ReaderStep(q)
        PROVE  waiter[p] = "fail" \/ reader[p] = "fail"
    BY <2>3 DEF Exit, WaiterStep, WaitReturns, WaiterChecks, WaiterFails, ReaderStep, ReaderFails,
         SetControlConn, ReadConfig, ApplyConfig, ReadSession, ReadError, IsCurrent
  <2>4. QED BY <2>1, <2>2, <2>3 DEF BridgeNext
<1>2. QED BY <1>1, BridgeInductive, PTL DEF BridgeSpec, EndsForItsOwnReason

(***************************************************************************)
(* The shared encoder.  A command is the minimum of the targets, and every *)
(* target respects the limits of its viewer.                               *)
(***************************************************************************)

\* A set of naturals that is not empty has a smallest element.
LEMMA LeastNatural ==
    ASSUME NEW S \in SUBSET Nat, S # {}
    PROVE  \E x \in S : \A y \in S : x <= y
<1>1. \E x \in S : \A y \in S : ~(<<y, x>> \in OpToRel(<, Nat))
  BY NatLessThanWellFounded, WFMin
<1>2. PICK x \in S : \A y \in S : ~(<<y, x>> \in OpToRel(<, Nat))
  BY <1>1
<1>3. ASSUME NEW y \in S PROVE x <= y
  <2>1. <<y, x>> \in Nat \X Nat /\ <<y, x>>[1] = y /\ <<y, x>>[2] = x
    OBVIOUS
  <2>2. ~(y < x)
    BY <1>2, <2>1 DEF OpToRel
  <2>3. QED BY <2>2
<1>4. QED BY <1>3

\* Min of naturals is one of them, and none is smaller.
LEMMA MinOfNaturals ==
    ASSUME NEW S \in SUBSET Nat, S # {}
    PROVE  Min(S) \in S /\ \A y \in S : Min(S) <= y
BY LeastNatural DEF Min

\* Max of two naturals.
LEMMA MaxOfTwo ==
    ASSUME NEW a \in Nat, NEW b \in Nat
    PROVE  Max({a, b}) = IF a >= b THEN a ELSE b
<1>1. \E x \in {a, b} : \A y \in {a, b} : x >= y
  OBVIOUS
<1>2. Max({a, b}) \in {a, b} /\ \A y \in {a, b} : Max({a, b}) >= y
  BY <1>1 DEF Max
<1>3. QED BY <1>2

\* What a viewer agreed to at most.
Agreed(limits) == IF limits.enabled THEN limits.maximum ELSE limits.initial

\* Targets are rates their viewers agreed to; orders are places already given away.
SessionsAreSound ==
    /\ joined \in Nat
    /\ \A v \in Present : /\ viewers[v].target <= Agreed(viewers[v].limits)
                          /\ viewers[v].order <= joined

EncoderIndInv == EncoderTypeOK /\ SessionsAreSound

\* A viewer that is there has a session.
LEMMA PresentFacts ==
    ASSUME EncoderTypeOK, NEW v \in Present
    PROVE  /\ v \in Viewer /\ viewers[v] \in ViewerSession
           /\ viewers[v].limits \in Requests /\ viewers[v].target \in Nat /\ viewers[v].order \in Nat
BY DEF EncoderTypeOK, Present, ViewerSession

\* What parseBitrateOptions guarantees.
LEMMA LimitFacts ==
    ASSUME NEW l \in Requests
    PROVE  /\ l.enabled \in BOOLEAN /\ l.initial \in Nat /\ l.minimum \in Nat /\ l.maximum \in Nat
           /\ l.enabled => l.minimum <= l.initial /\ l.initial <= l.maximum
BY RateAssumption DEF ParseBitrateOptions, Limits

\* clamp stays within the limits.
LEMMA ClampIsAgreed ==
    ASSUME NEW l \in Requests, NEW rate \in Nat
    PROVE  Clamp(l, rate) \in Nat /\ Clamp(l, rate) <= Agreed(l)
<1>1. CASE ~l.enabled BY <1>1, LimitFacts DEF Clamp, Agreed
<1>2. CASE l.enabled
  <2>1. /\ Min({rate, l.maximum}) \in {rate, l.maximum}
        /\ \A y \in {rate, l.maximum} : Min({rate, l.maximum}) <= y
    <3>1. {rate, l.maximum} \in SUBSET Nat /\ {rate, l.maximum} # {} BY LimitFacts
    <3>2. QED BY <3>1, MinOfNaturals
  <2>2. PICK m \in Nat : m = Min({rate, l.maximum}) /\ m <= l.maximum
    BY <2>1, LimitFacts
  <2>3. Max({l.minimum, m}) = IF l.minimum >= m THEN l.minimum ELSE m
    BY <2>2, LimitFacts, MaxOfTwo
  <2>4. QED BY <1>2, <2>2, <2>3, LimitFacts DEF Clamp, Agreed
<1>3. QED BY <1>1, <1>2

\* What updateBitrate does: the target is agreed to, and a new command is not
\* above any target.
LEMMA UpdateIsSound ==
    ASSUME EncoderIndInv, NEW v \in Present, NEW rate \in Nat, UpdateBitrate(v, rate)
    PROVE  /\ viewers' \in [Viewer -> ViewerSession \cup {Absent}]
           /\ Present' = Present
           /\ \A w \in Present : /\ viewers'[w].limits = viewers[w].limits
                                 /\ viewers'[w].order = viewers[w].order
                                 /\ viewers'[w].target \in Nat
                                 /\ viewers'[w].target <= Agreed(viewers[w].limits)
           /\ current' \in Nat /\ recent' \in BOOLEAN /\ encoder' \in Nat
           /\ current' # current => \A w \in Present : current' <= viewers'[w].target
<1>1. PICK target \in Nat : target = Clamp(viewers[v].limits, rate) /\ target <= Agreed(viewers[v].limits)
  BY PresentFacts, ClampIsAgreed DEF EncoderIndInv
<1>2. viewers' = [viewers EXCEPT ![v].target = target]
  BY <1>1 DEF UpdateBitrate
<1>3. viewers'[v] \in ViewerSession /\ viewers'[v] = [viewers[v] EXCEPT !.target = target]
  BY <1>2, PresentFacts DEF EncoderIndInv, EncoderTypeOK, ViewerSession
<1>4. \A w \in Viewer \ {v} : viewers'[w] = viewers[w]
  BY <1>2 DEF EncoderIndInv, EncoderTypeOK
<1>5. viewers' \in [Viewer -> ViewerSession \cup {Absent}]
  BY <1>2, <1>3, PresentFacts DEF EncoderIndInv, EncoderTypeOK
<1>6. Present' = Present
  BY <1>3, <1>4, RateAssumption, PresentFacts DEF Present, EncoderIndInv
<1>7. ASSUME NEW w \in Present
      PROVE  /\ viewers'[w].limits = viewers[w].limits
             /\ viewers'[w].order = viewers[w].order
             /\ viewers'[w].target \in Nat
             /\ viewers'[w].target <= Agreed(viewers[w].limits)
             /\ w = v => viewers'[w].target = target
             /\ w # v => viewers'[w].target = viewers[w].target
  <2>1. CASE w = v BY <1>1, <1>3, <2>1, PresentFacts DEF EncoderIndInv, ViewerSession
  <2>2. CASE w # v BY <1>4, <2>2, PresentFacts DEF EncoderIndInv, SessionsAreSound
  <2>3. QED BY <2>1, <2>2
<1>8. PICK S \in SUBSET Nat : S = {target} \cup {viewers[w].target : w \in Present \ {v}}
  BY PresentFacts DEF EncoderIndInv
<1>9. PICK m \in Nat : m = Slowest(v, target) /\ \A y \in S : m <= y
  BY <1>8, MinOfNaturals DEF Slowest
<1>10. \A w \in Present : m <= viewers'[w].target
  BY <1>7, <1>8, <1>9
<1>11. \/ UNCHANGED <<current, recent, encoder>>
       \/ current' = m /\ recent' = TRUE /\ encoder' \in {encoder, m}
  BY <1>1, <1>9 DEF UpdateBitrate
<1>12. QED
  BY <1>5, <1>6, <1>7, <1>9, <1>10, <1>11 DEF EncoderIndInv, EncoderTypeOK

\* A step of updateBitrate keeps the invariant and obeys everyone.
LEMMA UpdateKeeps ==
    ASSUME EncoderIndInv, NEW v \in Present, NEW rate \in Nat, UpdateBitrate(v, rate),
           joined' = joined, launch' = launch, waiting' \subseteq waiting
    PROVE  /\ EncoderIndInv'
           /\ current' # current =>
                /\ \A t \in Targets' : current' <= t
                /\ \A w \in Present' : current' <= Agreed(viewers'[w].limits)
<1>1. EncoderTypeOK'
  BY UpdateIsSound DEF EncoderIndInv, EncoderTypeOK
<1>2. SessionsAreSound'
  BY UpdateIsSound DEF EncoderIndInv, SessionsAreSound
<1>3. ASSUME current' # current, NEW w \in Present'
      PROVE  current' <= viewers'[w].target /\ current' <= Agreed(viewers'[w].limits)
  <2>1. w \in Present /\ current' \in Nat /\ current' <= viewers'[w].target /\ viewers'[w].target \in Nat
        /\ viewers'[w].target <= Agreed(viewers[w].limits) /\ viewers'[w].limits = viewers[w].limits
    BY <1>3, UpdateIsSound
  <2>2. Agreed(viewers[w].limits) \in Nat
    BY <2>1, PresentFacts, LimitFacts DEF Agreed, EncoderIndInv
  <2>3. QED BY <2>1, <2>2
<1>4. QED BY <1>1, <1>2, <1>3 DEF EncoderIndInv, Targets

\* The viewer that joined last among some that are there exists: the capture that
\* StopIdle starts has a rate.
LEMMA LastExists ==
    ASSUME EncoderIndInv, NEW S \in SUBSET Present, S # {}
    PROVE  \E w \in S : \A u \in S : viewers[u].order <= viewers[w].order
<1> DEFINE Before == {n \in Nat : \E w \in S : n = joined - viewers[w].order}
<1>1. ASSUME NEW w \in S
      PROVE  viewers[w].order \in Nat /\ joined \in Nat /\ joined - viewers[w].order \in Before
  BY PresentFacts DEF EncoderIndInv, SessionsAreSound
<1>2. Before \in SUBSET Nat /\ Before # {}
  BY <1>1
<1>3. PICK m \in Before : \A n \in Before : m <= n
  BY <1>2, LeastNatural
<1>4. PICK w \in S : m = joined - viewers[w].order
  OBVIOUS
<1>5. ASSUME NEW u \in S PROVE viewers[u].order <= viewers[w].order
  <2>1. m <= joined - viewers[u].order BY <1>1, <1>3
  <2>2. QED BY <1>1, <1>4, <2>1
<1>6. QED BY <1>5

\* Nobody is there at first.
LEMMA EncoderStarts == EncoderInit => EncoderIndInv
<1> SUFFICES ASSUME EncoderInit PROVE EncoderIndInv
  OBVIOUS
<1>1. Present = {} BY DEF EncoderInit, Present
<1>2. QED BY <1>1 DEF EncoderInit, EncoderIndInv, EncoderTypeOK, SessionsAreSound

\* Every step keeps the invariant, and a command it gives suits everyone.
LEMMA EncoderStep ==
    ASSUME EncoderIndInv, [EncoderNext]_encoderVars
    PROVE  /\ EncoderIndInv'
           /\ current' # current =>
                /\ \A t \in Targets' : current' <= t
                /\ \A w \in Present' : current' <= Agreed(viewers'[w].limits)
<1>1. ASSUME NEW v \in Viewer, NEW limits \in Requests, Join(v, limits)
      PROVE  EncoderIndInv' /\ current' = current
  <2>1. PICK s \in ViewerSession : s = [limits |-> limits, target |-> limits.initial, order |-> joined + 1]
    <3>1. limits.initial \in Nat BY LimitFacts
    <3>2. joined + 1 \in Nat BY DEF EncoderIndInv, SessionsAreSound
    <3>3. QED BY <3>1, <3>2 DEF ViewerSession
  <2>2. viewers' = [viewers EXCEPT ![v] = s] /\ viewers' \in [Viewer -> ViewerSession \cup {Absent}]
    <3>1. viewers' = [viewers EXCEPT ![v] = s] BY <1>1, <2>1 DEF Join
    <3>2. QED BY <3>1 DEF EncoderIndInv, EncoderTypeOK
  <2>3. Present' = Present \cup {v} /\ v \notin Present /\ \A w \in Present : viewers'[w] = viewers[w]
    BY <1>1, <2>1, <2>2, RateAssumption DEF Present, Join, EncoderIndInv, EncoderTypeOK
  <2>4. EncoderTypeOK'
    BY <1>1, <2>2, <2>3, LimitFacts DEF Join, RestartEncoder, EncoderIndInv, EncoderTypeOK
  <2>5. viewers'[v] = s /\ s.target <= Agreed(s.limits) /\ s.order = joined + 1 /\ joined' = joined + 1
    BY <1>1, <2>1, <2>2, LimitFacts DEF Agreed, EncoderIndInv, EncoderTypeOK, Join
  <2>6. SessionsAreSound'
    <3>1. ASSUME NEW w \in Present
          PROVE  viewers'[w].target <= Agreed(viewers'[w].limits) /\ viewers'[w].order <= joined'
      BY <2>3, <2>5, PresentFacts DEF EncoderIndInv, SessionsAreSound
    <3>2. QED BY <2>3, <2>5, <3>1 DEF EncoderIndInv, SessionsAreSound
  <2>7. QED BY <1>1, <2>4, <2>6 DEF Join, EncoderIndInv
<1>2. ASSUME NEW v \in Viewer, Connected(v)
      PROVE  /\ EncoderIndInv'
             /\ current' # current =>
                  /\ \A t \in Targets' : current' <= t
                  /\ \A w \in Present' : current' <= Agreed(viewers'[w].limits)
  <2>1. v \in Present /\ waiting' \subseteq waiting /\ joined' = joined /\ launch' = launch
    BY <1>2 DEF Connected, EncoderIndInv, EncoderTypeOK
  <2>2. PICK rate \in Nat : rate = viewers[v].limits.initial /\ UpdateBitrate(v, rate)
    BY <1>2, <2>1, PresentFacts, LimitFacts DEF Connected, EncoderIndInv
  <2>3. QED BY <2>1, <2>2, UpdateKeeps
<1>3. ASSUME NEW v \in Viewer, NEW rate \in Rates, Estimate(v, rate)
      PROVE  /\ EncoderIndInv'
             /\ current' # current =>
                  /\ \A t \in Targets' : current' <= t
                  /\ \A w \in Present' : current' <= Agreed(viewers'[w].limits)
  <2>1. v \in Present /\ waiting' \subseteq waiting /\ joined' = joined /\ launch' = launch /\ rate \in Nat
        /\ UpdateBitrate(v, rate)
    BY <1>3, RateAssumption DEF Estimate
  <2>2. QED BY <2>1, UpdateKeeps
<1>4. ASSUME NEW v \in Viewer, Leave(v) PROVE EncoderIndInv' /\ current' = current
  <2>1. /\ viewers' = [viewers EXCEPT ![v] = Absent] /\ viewers' \in [Viewer -> ViewerSession \cup {Absent}]
        /\ v \in Present /\ joined' = joined /\ current' = current /\ recent' = recent
        /\ waiting' = waiting \ {v}
    BY <1>4 DEF Leave, EncoderIndInv, EncoderTypeOK
  <2>2. Present' = Present \ {v} /\ \A w \in Present' : viewers'[w] = viewers[w]
    BY <2>1 DEF Present, EncoderIndInv, EncoderTypeOK
  <2>3. launch' \in Nat /\ encoder' \in Nat
    <3>1. CASE Present = {v} BY <1>4, <3>1 DEF Leave
    <3>2. CASE Present # {v}
      <4> DEFINE last == CHOOSE w \in Present \ {v} : \A u \in Present \ {v} :
                           viewers[u].order <= viewers[w].order
      <4>1. \E w \in Present \ {v} : \A u \in Present \ {v} : viewers[u].order <= viewers[w].order
        BY <2>1, <3>2, LastExists
      <4>2. last \in Present \ {v} BY <4>1
      <4>3. viewers[last].limits.initial \in Nat
        BY <4>2, PresentFacts, LimitFacts DEF EncoderIndInv
      <4>4. RestartEncoder(viewers[last].limits.initial)
        BY <1>4, <3>2 DEF Leave
      <4>5. QED BY <4>3, <4>4 DEF RestartEncoder, EncoderIndInv, EncoderTypeOK
    <3>3. QED BY <3>1, <3>2
  <2>4. EncoderTypeOK' BY <2>1, <2>2, <2>3 DEF EncoderIndInv, EncoderTypeOK
  <2>5. SessionsAreSound' BY <2>1, <2>2 DEF EncoderIndInv, SessionsAreSound
  <2>6. QED BY <2>1, <2>4, <2>5 DEF EncoderIndInv
<1>5. CASE Tick \/ UNCHANGED encoderVars
  BY <1>5 DEF Tick, encoderVars, EncoderIndInv, EncoderTypeOK, SessionsAreSound, Present
<1>6. ASSUME EncoderIndInv' /\ current' = current
      PROVE  /\ EncoderIndInv'
             /\ current' # current =>
                  /\ \A t \in Targets' : current' <= t
                  /\ \A w \in Present' : current' <= Agreed(viewers'[w].limits)
  BY <1>6
<1>7. current' = current \/ ~(Tick \/ UNCHANGED encoderVars)
  BY DEF Tick, encoderVars
<1>8. QED BY <1>1, <1>2, <1>3, <1>4, <1>5, <1>6, <1>7 DEF EncoderNext

\* Sessions keep their types and limits, for any viewers, requests and estimates.
THEOREM EncoderInductive == EncoderSpec => []EncoderIndInv
<1>1. EncoderIndInv /\ [EncoderNext]_encoderVars => EncoderIndInv' BY EncoderStep
<1>2. QED BY <1>1, EncoderStarts, PTL DEF EncoderSpec

\* A command to the encoder exceeds neither the target of any viewer nor the
\* limits that any viewer who is still there agreed to.
THEOREM EncoderSuitsEveryone == EncoderSpec => CommandSuitsEveryone
<1> DEFINE A == current' # current =>
                  /\ \A t \in Targets' : current' <= t
                  /\ \A v \in Present' :
                       LET l == viewers'[v].limits IN
                       current' <= IF l.enabled THEN l.maximum ELSE l.initial
<1>1. EncoderIndInv /\ [EncoderNext]_encoderVars => [A]_encoderVars
  BY EncoderStep DEF Agreed
<1>2. EncoderIndInv => EncoderTypeOK BY DEF EncoderIndInv
<1>3. QED BY <1>1, <1>2, EncoderInductive, PTL DEF EncoderSpec, CommandSuitsEveryone

(***************************************************************************)
(* The media manager.  A handler decides with what it read of the sessions *)
(* when it took the mutex.  Sessions only go while the mutex is held, and  *)
(* each that goes leaves a StopIdle to do: so either what the handler read *)
(* is still true when it is done, or the capture is reconciled again.  The *)
(* profile of the viewers is the one the track was made for, whatever      *)
(* happened to the capture.                                                *)
(***************************************************************************)

Maybe == Options \cup {Nothing}

\* The owner of the mutex.
Applying == [by: {"reader", "idle"}, step: {"apply"}, source: Source, target: Maybe]
Offering ==
    [by: {"reader"}, step: {"start", "codec", "offer"}, source: Source, client: Client, video: BOOLEAN,
     options: Options, previous: Options, active: BOOLEAN, target: Options]
Answering == [by: {"reader"}, step: {"answer"}, source: Source, client: Client]
Repeating ==
    [by: {"reader"}, step: {"again"}, source: Source, client: Client, video: BOOLEAN, options: Options]
Idling == [by: {"idle"}, step: {"idle"}]

HoldIsLawful ==
    /\ hold \in Applying \cup Offering \cup Answering \cup Repeating \cup Idling \cup {Released}
    /\ hold \in Applying => hold.source = "display" \/ hold.by = "idle"

\* Connections come one after the other, and nothing is left of the last one
\* when it has ended.
ConnIsLawful ==
    /\ online => conn \in Conn
    /\ \A k \in Conn : k > conn => pending[k] = {} /\ preview[k] = Nothing
    /\ ~online =>
         /\ MutexFree /\ wsAudio = Nothing
         /\ \A s \in Source : capture[s] = Nothing /\ \A c \in Client : sessions[s][c] = Nothing

\* Viewers whose encoder options were compared have the profile that the track
\* was made for.
ProfilesAgree ==
    \A s \in Source : \A v \in VideoSessions(s) : v.checked => v.options.profile = videoProfile[s]

\* An offer is for a client without a session; a capture that was started for it
\* counts as disturbed until the session is there.
OfferIsLawful ==
    hold \in Offering =>
       /\ created < MaxPeers /\ sessions[hold.source][hold.client] = Nothing
       /\ hold.target.profile = hold.options.profile
       /\ hold.step \in {"start", "codec"} => hold.video
       /\ hold.step # "start" /\ hold.video => disturbed[hold.source]
       /\ hold.step = "codec" => capture[hold.source] \in {Nothing, hold.target}
       /\ hold.step = "offer" /\ hold.video => hold.options.profile = videoProfile[hold.source]

\* Unless a session has gone since, what the owner of the mutex aims for is what
\* it would aim for now.
TargetIsCurrent ==
    online /\ pending[conn] = {} =>
       /\ hold \in Offering =>
            hold.target = CaptureOptions(hold.source, hold.options, preview[conn], wsAudio)
       /\ hold \in Applying => hold.target = Target(hold.source, preview[conn], wsAudio)
       /\ hold \in Repeating => sessions[hold.source][hold.client] # Nothing

\* The capture cap is what viewers V, the preview and the listener need.
Suits(s, cap, V, pre, ws) ==
    /\ cap # Nothing <=> (V # {} \/ (s = "display" /\ (pre # Nothing \/ ws # Nothing)))
    /\ cap # Nothing =>
         /\ \A v \in V : /\ v.options.awake => cap.awake
                         /\ v.options.audio => cap.audio
                         /\ v.checked /\ LatestOf(V).checked => v.options.profile = cap.profile
         /\ s = "display" /\ pre # Nothing => (pre.awake => cap.awake)
         /\ s = "display" /\ ws # Nothing => cap.audio
         /\ cap.awake => \/ \E v \in V : v.options.awake
                         \/ s = "display" /\ (ws # Nothing \/ (pre # Nothing /\ pre.awake))
         /\ cap.audio => \/ \E v \in V : v.options.audio
                         \/ s = "display" /\ (ws # Nothing \/ (pre # Nothing /\ pre.audio))

\* The owner of the mutex has still to reconcile the source.
Reconciling(s) ==
    \/ hold \in Idling
    \/ hold \in Applying /\ (hold.source = s \/ (hold.by = "idle" /\ hold.source = "display"))

CaptureSuits ==
    \A s \in Source :
       online /\ ~crashed /\ ~disturbed[s] /\ pending[conn] = {} /\ ~Reconciling(s) =>
          Suits(s, capture[s], VideoSessions(s), preview[conn], wsAudio)

MediaIndInv ==
    /\ MediaTypeOK /\ HoldIsLawful /\ ConnIsLawful /\ ProfilesAgree /\ OfferIsLawful
    /\ TargetIsCurrent /\ CaptureSuits

\* Options with one wish changed.
LEMMA OptionFacts ==
    ASSUME NEW o \in Options
    PROVE  /\ o.profile \in Profile /\ o.awake \in BOOLEAN /\ o.audio \in BOOLEAN /\ o # Nothing
           /\ \A b \in BOOLEAN : /\ [o EXCEPT !.audio = b] \in Options
                                 /\ [o EXCEPT !.audio = b].profile = o.profile
                                 /\ [o EXCEPT !.audio = b].awake = o.awake /\ [o EXCEPT !.audio = b].audio = b
<1>1. o # Nothing BY MediaAssumption
<1>2. QED BY <1>1 DEF Options

LEMMA DefaultIsPlain == Default \in Options /\ Default.awake = FALSE /\ Default.audio = FALSE
BY MediaAssumption DEF Default, Options

\* Viewers are sessions with video.
LEMMA ViewerFacts ==
    ASSUME MediaTypeOK, NEW s \in Source
    PROVE  /\ VideoSessions(s) \in SUBSET Session /\ Nothing \notin VideoSessions(s)
           /\ \A v \in VideoSessions(s) : /\ v.video /\ v.options \in Options /\ v.peer \in Nat
                                          /\ v.peer <= MaxPeers /\ \E c \in Client : sessions[s][c] = v
           /\ \A c \in Client : sessions[s][c] # Nothing /\ sessions[s][c].video =>
                                  sessions[s][c] \in VideoSessions(s)
<1>1. \A c \in Client : sessions[s][c] \in Session \cup {Nothing} BY DEF MediaTypeOK
<1>2. \A v \in Session : v.options \in Options /\ v.peer \in Nat /\ v.peer <= MaxPeers
  BY MediaAssumption DEF Session, Peer, NoPeer
<1>3. /\ \A v \in VideoSessions(s) : v.video /\ v # Nothing /\ v \in Session /\ \E c \in Client : sessions[s][c] = v
      /\ \A c \in Client : sessions[s][c] # Nothing /\ sessions[s][c].video => sessions[s][c] \in VideoSessions(s)
  BY <1>1 DEF VideoSessions
<1>4. QED BY <1>2, <1>3

\* The viewer that came last is one of them.
LEMMA LatestIsViewer ==
    ASSUME MediaTypeOK, NEW s \in Source, VideoSessions(s) # {}
    PROVE  Latest(s) \in VideoSessions(s)
<1>1. PICK V : V = VideoSessions(s) OBVIOUS
<1>2. V # {} /\ \A v \in V : v.peer \in Nat /\ v.peer <= MaxPeers BY <1>1, ViewerFacts
<1>3. PICK S : S = {MaxPeers - v.peer : v \in V} OBVIOUS
<1>4. S \in SUBSET Nat /\ S # {}
  <2>1. \A v \in V : MaxPeers - v.peer \in Nat BY <1>2, MediaAssumption
  <2>2. QED BY <2>1, <1>2, <1>3
<1>5. PICK x \in S : \A y \in S : x <= y BY <1>4, LeastNatural
<1>6. PICK v \in V : x = MaxPeers - v.peer BY <1>3
<1>7. ASSUME NEW w \in V PROVE w.peer <= v.peer
  <2>1. MaxPeers - v.peer <= MaxPeers - w.peer BY <1>3, <1>5, <1>6
  <2>2. QED BY <2>1, <1>2, MediaAssumption
<1>8. QED BY <1>1, <1>7 DEF Latest, LatestOf

\* What mergeCaptureNeeds and displayOptions make of a wish.
LEMMA CaptureOptionsFacts ==
    ASSUME NEW s \in Source, NEW o \in Options, NEW pre \in Maybe, NEW ws \in Maybe,
           NEW c, c = CaptureOptions(s, o, pre, ws)
    PROVE  /\ c \in Options /\ c # Nothing /\ c.profile = o.profile
           /\ c.awake <=> \/ o.awake \/ \E v \in VideoSessions(s) : v.options.awake
                          \/ s = "display" /\ pre # Nothing /\ pre.awake
           /\ c.audio <=> \/ o.audio \/ \E v \in VideoSessions(s) : v.options.audio
                          \/ s = "display" /\ ws # Nothing
<1>1. PICK x \in BOOLEAN : x = (o.awake \/ \E v \in VideoSessions(s) : v.options.awake) OBVIOUS
<1>2. PICK y \in BOOLEAN : y = (o.audio \/ \E v \in VideoSessions(s) : v.options.audio) OBVIOUS
<1>3. PICK m : m = MergeCaptureNeeds(s, o) OBVIOUS
<1>4. m = [o EXCEPT !.awake = x, !.audio = y] BY <1>1, <1>2, <1>3 DEF MergeCaptureNeeds
<1>5. m \in Options /\ m.profile = o.profile /\ m.awake = x /\ m.audio = y
  BY ONLY <1>4, o \in Options, x \in BOOLEAN, y \in BOOLEAN DEF Options
<1>6. \A q \in Options : q # Nothing BY MediaAssumption
<1>7. CASE s = "camera"
  <2>1. c = m BY <1>3, <1>7 DEF CaptureOptions
  <2>2. s # "display" BY <1>7
  <2>3. QED BY <2>1, <2>2, <1>1, <1>2, <1>5, <1>6
<1>8. CASE s # "camera"
  <2>0. s = "display" BY <1>8, MediaAssumption
  <2>1. PICK z \in BOOLEAN : z = (x \/ (pre # Nothing /\ pre.awake)) OBVIOUS
  <2>2. PICK w \in BOOLEAN : w = (y \/ ws # Nothing) OBVIOUS
  <2>3. c = [m EXCEPT !.awake = z, !.audio = w]
    BY <1>3, <1>5, <1>8, <2>1, <2>2 DEF CaptureOptions
  <2>4. c \in Options /\ c.profile = m.profile /\ c.awake = z /\ c.audio = w
    BY ONLY <2>3, <1>5, z \in BOOLEAN, w \in BOOLEAN DEF Options
  <2>5. QED BY <2>0, <2>1, <2>2, <2>4, <1>1, <1>2, <1>5, <1>6
<1>9. QED BY <1>7, <1>8

\* What is reconciled to suits everybody.
LEMMA TargetSuits ==
    ASSUME MediaTypeOK, ProfilesAgree, NEW s \in Source, NEW pre \in Maybe, NEW ws \in Maybe,
           NEW t, t = Target(s, pre, ws)
    PROVE  t \in Maybe /\ Suits(s, t, VideoSessions(s), pre, ws)
<1>1. PICK V : V = VideoSessions(s) OBVIOUS
<1>2. \A v \in V : v.options \in Options /\ (v.checked => v.options.profile = videoProfile[s])
  BY <1>1, ViewerFacts DEF ProfilesAgree
<1>3. CASE V # {}
  <2>1. t = CaptureOptions(s, Latest(s).options, pre, ws) BY <1>1, <1>3 DEF Target
  <2>2. Latest(s) \in V /\ Latest(s) = LatestOf(V) BY <1>1, <1>3, LatestIsViewer DEF Latest
  <2>3. PICK o \in Options : o = Latest(s).options BY <1>2, <2>2
  <2>4. /\ t \in Options /\ t # Nothing /\ t.profile = o.profile
        /\ t.awake <=> \/ o.awake \/ \E v \in V : v.options.awake
                       \/ s = "display" /\ pre # Nothing /\ pre.awake
        /\ t.audio <=> \/ o.audio \/ \E v \in V : v.options.audio
                       \/ s = "display" /\ ws # Nothing
    BY <1>1, <2>1, <2>3, CaptureOptionsFacts
  <2>5. (LatestOf(V).checked => o.profile = videoProfile[s]) /\ (o.awake => \E v \in V : v.options.awake)
          /\ (o.audio => \E v \in V : v.options.audio)
    BY <1>2, <2>2, <2>3
  <2>6. Suits(s, t, V, pre, ws) BY <1>2, <1>3, <2>4, <2>5 DEF Suits
  <2>7. QED BY <1>1, <2>4, <2>6 DEF Maybe
<1>4. CASE V = {} /\ s = "display" /\ pre # Nothing
  <2>1. t = CaptureOptions(s, pre, pre, ws) BY <1>1, <1>4 DEF Target
  <2>2. pre \in Options BY <1>4 DEF Maybe
  <2>3. /\ t \in Options /\ t # Nothing /\ t.profile = pre.profile
        /\ t.awake <=> \/ pre.awake \/ \E v \in V : v.options.awake
                       \/ s = "display" /\ pre # Nothing /\ pre.awake
        /\ t.audio <=> \/ pre.audio \/ \E v \in V : v.options.audio
                       \/ s = "display" /\ ws # Nothing
    BY <1>1, <2>1, <2>2, CaptureOptionsFacts
  <2>4. Suits(s, t, V, pre, ws) BY <1>4, <2>3 DEF Suits
  <2>5. QED BY <1>1, <2>3, <2>4 DEF Maybe
<1>5. CASE V = {} /\ s = "display" /\ pre = Nothing /\ ws # Nothing
  <2>1. PICK o : o = [Default EXCEPT !.audio = TRUE] OBVIOUS
  <2>2. o \in Options /\ o.awake = FALSE /\ o.audio = TRUE BY <2>1, DefaultIsPlain, OptionFacts
  <2>3. t = CaptureOptions(s, o, pre, ws) BY <1>1, <1>5, <2>1 DEF Target
  <2>4. /\ t \in Options /\ t # Nothing
        /\ t.awake <=> \/ o.awake \/ \E v \in V : v.options.awake
                       \/ s = "display" /\ pre # Nothing /\ pre.awake
        /\ t.audio <=> \/ o.audio \/ \E v \in V : v.options.audio
                       \/ s = "display" /\ ws # Nothing
    BY <1>1, <2>2, <2>3, CaptureOptionsFacts
  <2>5. Suits(s, t, V, pre, ws) BY <1>5, <2>2, <2>4 DEF Suits
  <2>6. QED BY <1>1, <2>4, <2>5 DEF Maybe
<1>6. CASE V = {} /\ (s # "display" \/ (pre = Nothing /\ ws = Nothing))
  <2>1. t = Nothing BY <1>1, <1>6 DEF Target
  <2>2. QED BY <1>1, <1>6, <2>1 DEF Suits, Maybe
<1>7. QED BY <1>3, <1>4, <1>5, <1>6

\* The camera has neither preview nor listener.
LEMMA CameraTarget ==
    ASSUME NEW pre, NEW ws
    PROVE  Target("camera", pre, ws) = Target("camera", Nothing, Nothing)
BY DEF Target, CaptureOptions

\* So does what an offer asks for, once its session is there.
LEMMA OfferSuits ==
    ASSUME MediaTypeOK, ProfilesAgree, NEW s \in Source, NEW pre \in Maybe, NEW ws \in Maybe,
           NEW n, n.options \in Options, n.options.profile = videoProfile[s],
           NEW t, t = CaptureOptions(s, n.options, pre, ws), NEW W, W = VideoSessions(s) \cup {n}
    PROVE  Suits(s, t, W, pre, ws)
<1>1. PICK V : V = VideoSessions(s) OBVIOUS
<1>2. \A v \in V : v.options \in Options /\ (v.checked => v.options.profile = videoProfile[s])
  BY <1>1, ViewerFacts DEF ProfilesAgree
<1>3. PICK o \in Options : o = n.options OBVIOUS
<1>4. /\ t # Nothing /\ t.profile = o.profile
      /\ t.awake <=> \/ o.awake \/ \E v \in V : v.options.awake
                     \/ s = "display" /\ pre # Nothing /\ pre.awake
      /\ t.audio <=> \/ o.audio \/ \E v \in V : v.options.audio
                     \/ s = "display" /\ ws # Nothing
  BY <1>1, <1>3, CaptureOptionsFacts
<1>5. QED BY <1>1, <1>2, <1>3, <1>4 DEF Suits

(***************************************************************************)
(* The handlers.                                                           *)
(***************************************************************************)

\* The owner of the mutex is told by its step.
LEMMA KindFacts ==
    ASSUME NEW h
    PROVE  /\ h \in Applying => /\ h.step = "apply" /\ h.by \in {"reader", "idle"}
                                /\ h.source \in Source /\ h.target \in Maybe
           /\ h \in Offering => /\ h.step \in {"start", "codec", "offer"} /\ h.by = "reader"
                                /\ h.source \in Source /\ h.client \in Client /\ h.video \in BOOLEAN
                                /\ h.options \in Options /\ h.previous \in Options
                                /\ h.active \in BOOLEAN /\ h.target \in Options
           /\ h \in Answering => h.step = "answer" /\ h.source \in Source /\ h.client \in Client
           /\ h \in Repeating => /\ h.step = "again" /\ h.source \in Source /\ h.client \in Client
                                 /\ h.video \in BOOLEAN /\ h.options \in Options
           /\ h \in Idling => h.step = "idle" /\ h.by = "idle"
           /\ h = Released => h \notin Applying \cup Offering \cup Answering \cup Repeating \cup Idling
<1>1. /\ h \in Applying => /\ h.step = "apply" /\ h.by \in {"reader", "idle"}
                           /\ h.source \in Source /\ h.target \in Maybe
      /\ h \in Offering => /\ h.step \in {"start", "codec", "offer"} /\ h.by = "reader"
                           /\ h.source \in Source /\ h.client \in Client /\ h.video \in BOOLEAN
                           /\ h.options \in Options /\ h.previous \in Options
                           /\ h.active \in BOOLEAN /\ h.target \in Options
  BY DEF Applying, Offering
<1>2. /\ h \in Answering => h.step = "answer" /\ h.by = "reader" /\ h.source \in Source /\ h.client \in Client
      /\ h \in Repeating => /\ h.step = "again" /\ h.by = "reader" /\ h.source \in Source /\ h.client \in Client
                            /\ h.video \in BOOLEAN /\ h.options \in Options
      /\ h \in Idling => h.step = "idle" /\ h.by = "idle"
  BY DEF Answering, Repeating, Idling
<1>3. Released.by = "nobody" BY DEF Released
<1>4. QED BY <1>1, <1>2, <1>3

\* Nobody owns the mutex: nothing is aimed for.
LEMMA FreeFacts ==
    ASSUME hold = Released, NEW s
    PROVE  /\ hold \notin Offering /\ hold \notin Applying /\ hold \notin Repeating /\ hold \notin Idling
           /\ ~Reconciling(s)
BY KindFacts DEF Reconciling

\* What is read of the sessions of a source stays while they stay.
LEMMA SessionsSame ==
    ASSUME NEW s, sessions'[s] = sessions[s]
    PROVE  /\ VideoSessions(s)' = VideoSessions(s)
           /\ \A o, pre, ws : CaptureOptions(s, o, pre, ws)' = CaptureOptions(s, o, pre, ws)
           /\ \A pre, ws : Target(s, pre, ws)' = Target(s, pre, ws)
<1>1. VideoSessions(s)' = VideoSessions(s) BY DEF VideoSessions
<1>2. \A o, pre, ws : CaptureOptions(s, o, pre, ws)' = CaptureOptions(s, o, pre, ws)
  BY <1>1 DEF CaptureOptions, MergeCaptureNeeds
<1>3. Latest(s)' = Latest(s) BY <1>1 DEF Latest
<1>4. \A pre, ws : Target(s, pre, ws)' = Target(s, pre, ws) BY <1>1, <1>2, <1>3 DEF Target
<1>5. QED BY <1>1, <1>2, <1>4

\* Off the display, previews and listeners do not matter.
LEMMA SuitsElsewhere ==
    ASSUME NEW s, s # "display", NEW cap, NEW V, NEW pre, NEW ws, NEW pre2, NEW ws2, Suits(s, cap, V, pre, ws)
    PROVE  Suits(s, cap, V, pre2, ws2)
BY DEF Suits

\* A handler takes the mutex to reconcile the display (StopIdle, then the camera).
LEMMA ReconcileStarts ==
    ASSUME MediaIndInv, online, NEW pre \in Maybe, NEW ws \in Maybe, NEW by \in {"reader", "idle"},
           UNCHANGED <<conn, online, sessions, created, owner, capture, crashed, disturbed, videoProfile>>,
           pending' \in [Conn -> SUBSET Peer], \A k \in Conn : pending'[k] \subseteq pending[k],
           preview' \in [Conn -> Maybe], preview'[conn] = pre, \A k \in Conn \ {conn} : preview'[k] = preview[k],
           wsAudio' = ws, by = "reader" => MutexFree /\ pending' = pending,
           hold' = [by |-> by, step |-> "apply", source |-> "display", target |-> Target("display", pre, ws)]
    PROVE  MediaIndInv'
<1>ty. MediaTypeOK /\ ProfilesAgree /\ conn \in Conn BY DEF MediaIndInv, ConnIsLawful
<1>1. "display" \in Source BY MediaAssumption
<1>2. PICK t : t = Target("display", pre, ws) OBVIOUS
<1>3. t \in Maybe BY <1>ty, <1>1, <1>2, TargetSuits
<1>4. PICK h : h = hold' OBVIOUS
<1>5. h \in Applying /\ h.source = "display" /\ h.by = by /\ h.target = t /\ h.step = "apply"
  BY <1>1, <1>2, <1>3, <1>4 DEF Applying
<1>6. h \notin Offering /\ h \notin Repeating /\ h \notin Idling BY <1>5, KindFacts
<1>7. MediaTypeOK' BY <1>ty DEF MediaTypeOK, Maybe
<1>8. HoldIsLawful' BY <1>4, <1>5 DEF HoldIsLawful
<1>9. ConnIsLawful'
  <2>1. \A k \in Conn : k > conn => pending[k] = {} /\ preview[k] = Nothing BY DEF MediaIndInv, ConnIsLawful
  <2>2. \A k \in Conn : k > conn => k # conn BY <1>ty DEF Conn
  <2>3. \A k \in Conn : k > conn => pending'[k] = {} /\ preview'[k] = Nothing BY <2>1, <2>2
  <2>4. QED BY <2>3, <1>ty DEF ConnIsLawful
<1>10. ProfilesAgree'
  <2>1. \A s \in Source : VideoSessions(s)' = VideoSessions(s) BY SessionsSame
  <2>2. QED BY <2>1, <1>ty DEF ProfilesAgree
<1>11. OfferIsLawful' BY <1>4, <1>6 DEF OfferIsLawful
<1>12. TargetIsCurrent'
  <2>1. Target("display", pre, ws)' = Target("display", pre, ws) BY SessionsSame
  <2>2. Target(h.source, preview[conn], wsAudio)' = t BY <2>1, <1>2, <1>5
  <2>3. QED BY <2>2, <1>4, <1>5, <1>6 DEF TargetIsCurrent
<1>13. CaptureSuits'
  <2> SUFFICES ASSUME NEW s \in Source, ~crashed, ~disturbed[s], pending'[conn] = {}, ~Reconciling(s)'
               PROVE  Suits(s, capture[s], VideoSessions(s)', pre, ws)
    BY DEF CaptureSuits
  <2>1. s # "display" /\ by = "reader" BY <1>4, <1>5 DEF Reconciling
  <2>2. hold = Released /\ pending[conn] = {} BY <2>1 DEF MutexFree
  <2>3. ~Reconciling(s) BY <2>2, FreeFacts
  <2>4. Suits(s, capture[s], VideoSessions(s), preview[conn], wsAudio)
    BY <2>2, <2>3 DEF MediaIndInv, CaptureSuits
  <2>5. VideoSessions(s)' = VideoSessions(s) BY SessionsSame
  <2>6. QED BY <2>1, <2>4, <2>5, SuitsElsewhere
<1>14. QED BY <1>7, <1>8, <1>9, <1>10, <1>11, <1>12, <1>13 DEF MediaIndInv

LEMMA ReconcileSteps ==
    ASSUME MediaIndInv,
           \/ StopPreview \/ StopAudio \/ IdleAfterDisconnect
           \/ \E o \in Offers : StartPreview(o)
           \/ \E k \in Conn : StopIdle(k)
    PROVE  MediaIndInv'
<1>ty. MediaTypeOK BY DEF MediaIndInv
<1>on. online => conn \in Conn BY DEF MediaIndInv, ConnIsLawful
<1>m. Nothing \in Maybe /\ wsAudio \in Maybe /\ preview \in [Conn -> Maybe] /\ Offers \subseteq Maybe
  BY <1>ty, MediaAssumption DEF Maybe, MediaTypeOK
<1>p. pending \in [Conn -> SUBSET Peer] BY <1>ty DEF MediaTypeOK
<1>1. ASSUME NEW o \in Maybe,
             \/ o \in Offers /\ StartPreview(o)
             \/ o = Nothing /\ StopPreview
      PROVE  MediaIndInv'
  <2>1. /\ online /\ MutexFree /\ preview' = [preview EXCEPT ![conn] = o]
        /\ hold' = [by |-> "reader", step |-> "apply", source |-> "display", target |-> Target("display", o, wsAudio)]
        /\ UNCHANGED <<conn, online, sessions, created, owner, pending, wsAudio, capture, crashed, disturbed,
                       videoProfile>>
    BY <1>1 DEF StartPreview, StopPreview, Handling, Reconcile
  <2>2. /\ preview' \in [Conn -> Maybe] /\ preview'[conn] = o
        /\ \A k \in Conn \ {conn} : preview'[k] = preview[k]
    BY <2>1, <1>m, <1>on
  <2>3. PICK ws \in Maybe : ws = wsAudio BY <1>m
  <2>4. "reader" \in {"reader", "idle"} OBVIOUS
  <2>5. QED BY <2>1, <2>2, <2>3, <2>4, <1>p, ReconcileStarts
<1>2. CASE StopAudio
  <2>1. /\ online /\ MutexFree /\ wsAudio' = Nothing
        /\ hold' = [by |-> "reader", step |-> "apply", source |-> "display",
                    target |-> Target("display", preview[conn], Nothing)]
        /\ UNCHANGED <<conn, online, sessions, created, owner, pending, preview, capture, crashed, disturbed,
                       videoProfile>>
    BY <1>2 DEF StopAudio, Handling, Reconcile
  <2>2. PICK pre \in Maybe : pre = preview[conn] BY <2>1, <1>m, <1>on
  <2>3. PICK ws \in Maybe : ws = Nothing BY <1>m
  <2>4. "reader" \in {"reader", "idle"} OBVIOUS
  <2>5. QED BY <2>1, <2>2, <2>3, <2>4, <1>m, <1>p, ReconcileStarts
<1>3. CASE IdleAfterDisconnect
  <2>1. /\ hold # Released
        /\ hold' = [by |-> "idle", step |-> "apply", source |-> "display",
                    target |-> Target("display", preview[conn], wsAudio)]
        /\ UNCHANGED <<conn, online, sessions, created, owner, pending, preview, wsAudio, capture, crashed,
                       disturbed, videoProfile>>
    BY <1>3 DEF IdleAfterDisconnect, Holds, Reconcile
  <2>2. online BY <2>1 DEF MediaIndInv, ConnIsLawful, MutexFree
  <2>3. PICK pre \in Maybe : pre = preview[conn] BY <2>2, <1>m, <1>on
  <2>4. PICK ws \in Maybe : ws = wsAudio BY <1>m
  <2>5. "idle" \in {"reader", "idle"} /\ "idle" # "reader" OBVIOUS
  <2>6. QED BY <2>1, <2>2, <2>3, <2>4, <2>5, <1>m, <1>p, ReconcileStarts
<1>4. ASSUME NEW k \in Conn, StopIdle(k) PROVE MediaIndInv'
  <2>1. /\ MutexFree /\ \E p \in pending[k] : pending' = [pending EXCEPT ![k] = @ \ {p}]
        /\ UNCHANGED <<conn, online, sessions, created, owner, preview, wsAudio, capture, crashed, disturbed,
                       videoProfile>>
    BY <1>4 DEF StopIdle
  <2>2. /\ pending' \in [Conn -> SUBSET Peer] /\ \A j \in Conn : pending'[j] \subseteq pending[j]
        /\ \A j \in Conn \ {k} : pending'[j] = pending[j]
    BY <2>1, <1>p
  <2>3. CASE Serving(k)
    <3>1. /\ online /\ k = conn
          /\ hold' = [by |-> "idle", step |-> "apply", source |-> "display",
                      target |-> Target("display", preview[conn], wsAudio)]
      BY <2>3, <1>4 DEF StopIdle, Serving, Reconcile
    <3>2. PICK pre \in Maybe : pre = preview[conn] BY <3>1, <1>m, <1>on
    <3>3. PICK ws \in Maybe : ws = wsAudio BY <1>m
    <3>4. "idle" \in {"reader", "idle"} /\ "idle" # "reader" OBVIOUS
    <3>5. QED BY <2>1, <2>2, <3>1, <3>2, <3>3, <3>4, <1>m, ReconcileStarts
  <2>4. CASE ~Serving(k)
    <3>1. hold' = hold /\ hold = Released BY <2>1, <2>4, <1>4 DEF StopIdle, MutexFree
    <3>2. online => k # conn BY <2>4 DEF Serving
    <3>3. \A s \in Source : VideoSessions(s)' = VideoSessions(s) BY <2>1, SessionsSame
    <3>4. MediaTypeOK' BY <2>1, <2>2, <1>ty DEF MediaTypeOK
    <3>5. HoldIsLawful' BY <3>1 DEF MediaIndInv, HoldIsLawful
    <3>6. ConnIsLawful' BY <2>1, <2>2, <3>1 DEF MediaIndInv, ConnIsLawful, MutexFree
    <3>7. ProfilesAgree' BY <2>1, <3>3 DEF MediaIndInv, ProfilesAgree
    <3>8. hold' \notin Offering /\ hold' \notin Applying /\ hold' \notin Repeating BY <3>1, FreeFacts
    <3>9. OfferIsLawful' /\ TargetIsCurrent' BY <3>8 DEF OfferIsLawful, TargetIsCurrent
    <3>10. CaptureSuits'
      <4>1. \A s \in Source : ~Reconciling(s) BY <3>1, FreeFacts
      <4>2. online => pending'[conn] = pending[conn] BY <2>2, <3>2, <1>on
      <4>3. QED BY <2>1, <3>3, <4>1, <4>2 DEF MediaIndInv, CaptureSuits
    <3>11. QED BY <3>4, <3>5, <3>6, <3>7, <3>9, <3>10 DEF MediaIndInv
  <2>5. QED BY <2>3, <2>4
<1>5. QED BY <1>1, <1>2, <1>3, <1>4, <1>m

\* A step that leaves sessions, previews and callbacks alone.
LEMMA CaptureStep ==
    ASSUME MediaIndInv, online, UNCHANGED <<conn, online, sessions, created, owner, pending, preview, crashed>>,
           capture' \in [Source -> Maybe], videoProfile' \in [Source -> Profile],
           disturbed' \in [Source -> BOOLEAN], wsAudio' \in Maybe,
           HoldIsLawful', OfferIsLawful', TargetIsCurrent',
           \A s \in Source : VideoSessions(s) # {} => videoProfile'[s] = videoProfile[s],
           \A s \in Source : ~crashed /\ ~disturbed'[s] /\ ~Reconciling(s)' =>
              \/ /\ ~disturbed[s] /\ ~Reconciling(s) /\ capture'[s] = capture[s]
                 /\ s # "display" \/ wsAudio' = wsAudio
              \/ pending[conn] = {} => Suits(s, capture'[s], VideoSessions(s), preview[conn], wsAudio')
    PROVE  MediaIndInv'
<1>ty. MediaTypeOK BY DEF MediaIndInv
<1>1. \A s \in Source : VideoSessions(s)' = VideoSessions(s) BY SessionsSame
<1>2. MediaTypeOK' BY <1>ty DEF MediaTypeOK, Maybe
<1>3. ConnIsLawful' BY DEF MediaIndInv, ConnIsLawful
<1>4. ProfilesAgree' BY <1>1 DEF MediaIndInv, ProfilesAgree
<1>5. CaptureSuits'
  <2> SUFFICES ASSUME NEW s \in Source, ~crashed, ~disturbed'[s], pending[conn] = {}, ~Reconciling(s)'
               PROVE  Suits(s, capture'[s], VideoSessions(s), preview[conn], wsAudio')
    BY <1>1 DEF CaptureSuits
  <2>1. CASE /\ ~disturbed[s] /\ ~Reconciling(s) /\ capture'[s] = capture[s]
             /\ s # "display" \/ wsAudio' = wsAudio
    <3>1. Suits(s, capture[s], VideoSessions(s), preview[conn], wsAudio) BY <2>1 DEF MediaIndInv, CaptureSuits
    <3>2. QED BY <2>1, <3>1, SuitsElsewhere
  <2>2. QED BY <2>1
<1>6. QED BY <1>2, <1>3, <1>4, <1>5 DEF MediaIndInv

\* While the owner of the mutex stays, so does what it aims for.
LEMMA AimStays ==
    ASSUME MediaIndInv, UNCHANGED <<hold, conn, online, sessions, pending, preview, wsAudio>>
    PROVE  HoldIsLawful' /\ TargetIsCurrent' /\ \A s \in Source : Reconciling(s)' <=> Reconciling(s)
<1>1. HoldIsLawful' BY DEF MediaIndInv, HoldIsLawful
<1>2. \A s \in Source : Reconciling(s)' <=> Reconciling(s) BY DEF Reconciling
<1>3. \A s : /\ \A o, pre, ws : CaptureOptions(s, o, pre, ws)' = CaptureOptions(s, o, pre, ws)
             /\ \A pre, ws : Target(s, pre, ws)' = Target(s, pre, ws)
  BY SessionsSame
<1>4. TargetIsCurrent' BY <1>3 DEF MediaIndInv, TargetIsCurrent
<1>5. QED BY <1>1, <1>2, <1>4

\* The mutex is released.
LEMMA AimEnds ==
    ASSUME hold' = Released
    PROVE  HoldIsLawful' /\ OfferIsLawful' /\ TargetIsCurrent' /\ \A s \in Source : ~Reconciling(s)'
<1>1. PICK h : h = hold' OBVIOUS
<1>2. h = Released /\ h \notin Applying /\ h \notin Offering /\ h \notin Repeating /\ h \notin Idling
  BY <1>1, KindFacts
<1>3. QED BY <1>1, <1>2 DEF HoldIsLawful, OfferIsLawful, TargetIsCurrent, Reconciling

\* A capture fails, or is started by a group control event.
LEMMA DisturbSteps ==
    ASSUME MediaIndInv, GroupControlEvent \/ \E s \in Source : CaptureFailed(s)
    PROVE  MediaIndInv'
<1>ty. MediaTypeOK BY DEF MediaIndInv
<1>d. "display" \in Source /\ Default \in Maybe /\ Nothing \in Maybe BY MediaAssumption, DefaultIsPlain DEF Maybe
<1>1. PICK s \in Source, cap \in Maybe :
         /\ capture' = [capture EXCEPT ![s] = cap] /\ disturbed' = [disturbed EXCEPT ![s] = TRUE]
         /\ online /\ (cap = Nothing \/ hold = Released)
  <2>1. CASE GroupControlEvent BY <2>1, <1>d DEF GroupControlEvent, Handling, MutexFree
  <2>2. ASSUME NEW s \in Source, CaptureFailed(s)
        PROVE  /\ capture' = [capture EXCEPT ![s] = Nothing] /\ disturbed' = [disturbed EXCEPT ![s] = TRUE] /\ online
    BY <2>2 DEF CaptureFailed, MediaIndInv, ConnIsLawful
  <2>3. QED BY <2>1, <2>2, <1>d
<1>2. UNCHANGED <<conn, online, sessions, created, owner, pending, preview, wsAudio, hold, crashed, videoProfile>>
  BY DEF GroupControlEvent, CaptureFailed
<1>3. /\ capture' \in [Source -> Maybe] /\ capture'[s] = cap
      /\ disturbed' \in [Source -> BOOLEAN] /\ disturbed'[s]
      /\ \A r \in Source \ {s} : capture'[r] = capture[r] /\ disturbed'[r] = disturbed[r]
  BY <1>1, <1>ty DEF MediaTypeOK, Maybe
<1>4. HoldIsLawful' /\ TargetIsCurrent' /\ \A r \in Source : Reconciling(r)' <=> Reconciling(r)
  BY <1>2, AimStays
<1>5. OfferIsLawful'
  <2>1. hold \in Offering => hold # Released /\ hold.source \in Source BY KindFacts
  <2>2. QED BY <2>1, <1>1, <1>2, <1>3 DEF MediaIndInv, OfferIsLawful
<1>6. videoProfile' \in [Source -> Profile] /\ wsAudio' \in Maybe BY <1>2, <1>ty DEF MediaTypeOK, Maybe
<1>7. \A r \in Source : ~crashed /\ ~disturbed'[r] /\ ~Reconciling(r)' =>
              \/ /\ ~disturbed[r] /\ ~Reconciling(r) /\ capture'[r] = capture[r]
                 /\ r # "display" \/ wsAudio' = wsAudio
              \/ pending[conn] = {} => Suits(r, capture'[r], VideoSessions(r), preview[conn], wsAudio')
  BY <1>2, <1>3, <1>4
<1>8. QED BY <1>1, <1>2, <1>3, <1>4, <1>5, <1>6, <1>7, CaptureStep

\* The bridge's Start leaves the options asked for, or nothing.
LEMMA StartFacts ==
    ASSUME MediaTypeOK, NEW s \in Source, NEW o \in Maybe, Start(s, o)
    PROVE  /\ capture' \in [Source -> Maybe] /\ capture'[s] \in {o, Nothing}
           /\ \A r \in Source \ {s} : capture'[r] = capture[r]
<1>1. capture \in [Source -> Maybe] BY DEF MediaTypeOK, Maybe
<1>2. capture' = [capture EXCEPT ![s] = o] \/ capture' = [capture EXCEPT ![s] = Nothing] BY DEF Start
<1>3. Nothing \in Maybe BY DEF Maybe
<1>4. QED BY <1>1, <1>2, <1>3

\* A listener joins: the capture goes on with sound.
LEMMA StartAudioStep ==
    ASSUME MediaIndInv, NEW o \in Offers, StartAudio(o)
    PROVE  MediaIndInv'
<1>ty. MediaTypeOK BY DEF MediaIndInv
<1>d. "display" \in Source /\ o \in Options /\ o # Nothing BY MediaAssumption
<1>0. PICK base \in AudioBase(o) :
         /\ online /\ hold = Released /\ Start("display", [base EXCEPT !.audio = TRUE])
         /\ wsAudio' = IF capture'["display"] = [base EXCEPT !.audio = TRUE] THEN o ELSE wsAudio
         /\ disturbed' = [disturbed EXCEPT !["display"] = @ \/ capture'["display"] # [base EXCEPT !.audio = TRUE]]
         /\ UNCHANGED <<conn, online, sessions, created, owner, pending, preview, hold, crashed, videoProfile>>
  BY DEF StartAudio, Handling, MutexFree
<1>1. \/ base = IF capture["display"] = Nothing THEN o ELSE capture["display"]
      \/ base = o /\ disturbed["display"]
  BY DEF AudioBase
<1>2. PICK wanted : wanted = [base EXCEPT !.audio = TRUE] OBVIOUS
<1>3. base \in Options BY <1>ty, <1>d, <1>1 DEF MediaTypeOK
<1>4. wanted \in Options /\ wanted # Nothing /\ wanted.profile = base.profile /\ wanted.awake = base.awake /\ wanted.audio
  BY <1>2, <1>3, OptionFacts
<1>5. /\ online /\ hold = Released /\ Start("display", wanted)
      /\ wsAudio' = IF capture'["display"] = wanted THEN o ELSE wsAudio
      /\ disturbed' = [disturbed EXCEPT !["display"] = @ \/ capture'["display"] # wanted]
      /\ UNCHANGED <<conn, online, sessions, created, owner, pending, preview, hold, crashed, videoProfile>>
  BY <1>0, <1>2
<1>6. capture' \in [Source -> Maybe] /\ \A r \in Source \ {"display"} : capture'[r] = capture[r]
  <2>1. wanted \in Maybe BY <1>4 DEF Maybe
  <2>2. QED BY <2>1, <1>ty, <1>d, <1>5, StartFacts
<1>7. /\ disturbed' \in [Source -> BOOLEAN]
      /\ ~disturbed'["display"] => ~disturbed["display"] /\ capture'["display"] = wanted
      /\ \A r \in Source \ {"display"} : disturbed'[r] = disturbed[r]
  BY <1>5, <1>d, <1>ty DEF MediaTypeOK
<1>8. wsAudio' \in Maybe BY <1>5, <1>d, <1>ty DEF MediaTypeOK, Maybe
<1>9. HoldIsLawful' /\ OfferIsLawful' /\ TargetIsCurrent' /\ \A s \in Source : ~Reconciling(s)'
  <2>1. hold' = Released BY <1>5
  <2>2. QED BY <2>1, AimEnds
<1>10. \A s \in Source : ~Reconciling(s) BY <1>5, FreeFacts
<1>11. videoProfile' \in [Source -> Profile] BY <1>5, <1>ty DEF MediaTypeOK
<1>12. ASSUME ~crashed, ~disturbed'["display"], pending[conn] = {}
       PROVE  Suits("display", capture'["display"], VideoSessions("display"), preview[conn], wsAudio')
  <2>1. Suits("display", capture["display"], VideoSessions("display"), preview[conn], wsAudio)
    BY <1>5, <1>7, <1>10, <1>12, <1>d DEF MediaIndInv, CaptureSuits
  <2>2. capture'["display"] = wanted /\ wsAudio' = o BY <1>5, <1>7, <1>12
  <2>3. CASE capture["display"] = Nothing
    <3>1. VideoSessions("display") = {} /\ preview[conn] = Nothing BY <2>1, <2>3 DEF Suits
    <3>2. QED BY <3>1, <2>2, <1>4, <1>d DEF Suits
  <2>4. CASE capture["display"] # Nothing
    <3>1. base = capture["display"] BY <2>4, <1>1, <1>7, <1>12
    <3>2. QED BY <3>1, <2>1, <2>2, <2>4, <1>4, <1>d DEF Suits
  <2>5. QED BY <2>3, <2>4
<1>13. \A r \in Source : ~crashed /\ ~disturbed'[r] /\ ~Reconciling(r)' =>
              \/ /\ ~disturbed[r] /\ ~Reconciling(r) /\ capture'[r] = capture[r]
                 /\ r # "display" \/ wsAudio' = wsAudio
              \/ pending[conn] = {} => Suits(r, capture'[r], VideoSessions(r), preview[conn], wsAudio')
  BY <1>6, <1>7, <1>10, <1>12
<1>14. QED BY <1>5, <1>6, <1>7, <1>8, <1>9, <1>11, <1>13, CaptureStep

\* A handler takes the mutex, decides nothing yet, or returns.
LEMMA HoldSteps ==
    ASSUME MediaIndInv,
           \/ \E c \in Client, s \in Source, o \in Offers, v \in BOOLEAN :
                RequestOffer(c, s, o, v) \/ RepeatOffer(c, s, o, v)
           \/ \E c \in Client, s \in Source : SetAnswer(c, s)
           \/ CodecFails \/ OfferFails
    PROVE  MediaIndInv'
<1>ty. MediaTypeOK BY DEF MediaIndInv
<1>t. /\ capture \in [Source -> Maybe] /\ videoProfile \in [Source -> Profile]
      /\ disturbed \in [Source -> BOOLEAN] /\ wsAudio \in Maybe /\ preview \in [Conn -> Maybe]
  BY <1>ty DEF MediaTypeOK, Maybe
<1>0. UNCHANGED <<conn, online, sessions, created, owner, pending, preview, wsAudio, capture, crashed, disturbed,
                  videoProfile>>
  BY DEF RequestOffer, RepeatOffer, SetAnswer, CodecFails, OfferFails
<1>on. online
  BY DEF RequestOffer, RepeatOffer, SetAnswer, CodecFails, OfferFails, Handling, Holds, MediaIndInv, ConnIsLawful,
         MutexFree
<1>k. conn \in Conn BY <1>on DEF MediaIndInv, ConnIsLawful
<1>1. SUFFICES /\ HoldIsLawful' /\ OfferIsLawful' /\ TargetIsCurrent'
               /\ \A s \in Source : Reconciling(s) => Reconciling(s)'
  <2>1. \A r \in Source : ~crashed /\ ~disturbed'[r] /\ ~Reconciling(r)' =>
              \/ /\ ~disturbed[r] /\ ~Reconciling(r) /\ capture'[r] = capture[r]
                 /\ r # "display" \/ wsAudio' = wsAudio
              \/ pending[conn] = {} => Suits(r, capture'[r], VideoSessions(r), preview[conn], wsAudio')
    BY <1>0, <1>1
  <2>2. QED BY <2>1, <1>0, <1>1, <1>t, <1>on, CaptureStep
<1>2. ASSUME NEW c \in Client, NEW s \in Source, NEW o \in Offers, NEW v \in BOOLEAN, RequestOffer(c, s, o, v)
      PROVE  /\ HoldIsLawful' /\ OfferIsLawful' /\ TargetIsCurrent'
             /\ \A r \in Source : Reconciling(r) => Reconciling(r)'
  <2>1. hold = Released /\ created < MaxPeers /\ sessions[s][c] = Nothing
    BY <1>2 DEF RequestOffer, Handling, MutexFree
  <2>2. PICK pre \in Maybe, ws \in Maybe : pre = preview[conn] /\ ws = wsAudio BY <1>t, <1>k
  <2>3. o \in Options /\ Default \in Options BY MediaAssumption, DefaultIsPlain
  <2>4. PICK t : t = CaptureOptions(s, o, pre, ws) OBVIOUS
  <2>5. t \in Options /\ t.profile = o.profile
    <3>1. PICK op \in Options : op = o BY <2>3
    <3>2. t = CaptureOptions(s, op, pre, ws) BY <3>1, <2>4
    <3>3. t \in Options /\ t.profile = op.profile
      BY ONLY s \in Source, op \in Options, pre \in Maybe, ws \in Maybe, <3>2, CaptureOptionsFacts
    <3>4. QED BY <3>1, <3>3
  <2>6. PICK h : h = hold' OBVIOUS
  <2>7. h = [by |-> "reader", step |-> IF v THEN "start" ELSE "offer", source |-> s, client |-> c, video |-> v,
             options |-> o, previous |-> Default, active |-> FALSE, target |-> t]
    BY <1>2, <2>2, <2>4, <2>6 DEF RequestOffer
  <2>8. /\ h \in Offering /\ h.source = s /\ h.client = c /\ h.video = v /\ h.options = o /\ h.target = t
        /\ h.step = (IF v THEN "start" ELSE "offer")
    BY ONLY <2>3, <2>5, <2>7, s \in Source, c \in Client, v \in BOOLEAN DEF Offering
  <2>9. h \notin Applying /\ h \notin Repeating /\ h \notin Idling BY <2>8, KindFacts
  <2>10. HoldIsLawful' BY <2>6, <2>8, <2>9 DEF HoldIsLawful
  <2>11. OfferIsLawful' BY <1>0, <2>1, <2>5, <2>6, <2>8 DEF OfferIsLawful
  <2>12. TargetIsCurrent'
    <3>1. CaptureOptions(s, o, pre, ws)' = CaptureOptions(s, o, pre, ws) BY <1>0, SessionsSame
    <3>2. CaptureOptions(h.source, h.options, preview[conn], wsAudio)' = t
      BY <3>1, <1>0, <2>2, <2>4, <2>8
    <3>3. QED BY <3>2, <2>6, <2>8, <2>9 DEF TargetIsCurrent
  <2>13. \A r \in Source : ~Reconciling(r) BY <2>1, FreeFacts
  <2>14. QED BY <2>10, <2>11, <2>12, <2>13
<1>3. ASSUME NEW c \in Client, NEW s \in Source, SetAnswer(c, s)
      PROVE  /\ HoldIsLawful' /\ OfferIsLawful' /\ TargetIsCurrent'
             /\ \A r \in Source : Reconciling(r) => Reconciling(r)'
  <2>1. hold = Released BY <1>3 DEF SetAnswer, Handling, MutexFree
  <2>2. PICK h : h = hold' OBVIOUS
  <2>3. h = [by |-> "reader", step |-> "answer", source |-> s, client |-> c] BY <1>3, <2>2 DEF SetAnswer
  <2>4. h \in Answering BY <2>3 DEF Answering
  <2>5. h \notin Applying /\ h \notin Offering /\ h \notin Repeating BY <2>4, KindFacts
  <2>6. HoldIsLawful' /\ OfferIsLawful' /\ TargetIsCurrent'
    BY <2>2, <2>4, <2>5 DEF HoldIsLawful, OfferIsLawful, TargetIsCurrent
  <2>7. \A r \in Source : ~Reconciling(r) BY <2>1, FreeFacts
  <2>8. QED BY <2>6, <2>7
<1>4. CASE CodecFails \/ OfferFails
  <2>1. hold' = Released /\ hold.step \in {"codec", "offer"} BY <1>4 DEF CodecFails, OfferFails, Holds
  <2>2. \A r \in Source : ~Reconciling(r) BY <2>1, KindFacts DEF Reconciling
  <2>3. HoldIsLawful' /\ OfferIsLawful' /\ TargetIsCurrent' BY <2>1, AimEnds
  <2>4. QED BY <2>2, <2>3
<1>5. ASSUME NEW c \in Client, NEW s \in Source, NEW o \in Offers, NEW v \in BOOLEAN, RepeatOffer(c, s, o, v)
      PROVE  /\ HoldIsLawful' /\ OfferIsLawful' /\ TargetIsCurrent'
             /\ \A r \in Source : Reconciling(r) => Reconciling(r)'
  <2>1. hold = Released /\ sessions[s][c] # Nothing BY <1>5 DEF RepeatOffer, Handling, MutexFree
  <2>2. PICK h : h = hold' OBVIOUS
  <2>3. h = [by |-> "reader", step |-> "again", source |-> s, client |-> c, video |-> v, options |-> o]
    BY <1>5, <2>2 DEF RepeatOffer
  <2>4. o \in Options BY MediaAssumption
  <2>5. h \in Repeating /\ h.source = s /\ h.client = c BY <2>3, <2>4 DEF Repeating
  <2>6. h \notin Applying /\ h \notin Offering BY <2>5, KindFacts
  <2>7. HoldIsLawful' /\ OfferIsLawful' BY <2>2, <2>5, <2>6 DEF HoldIsLawful, OfferIsLawful
  <2>8. TargetIsCurrent' BY <1>0, <2>1, <2>2, <2>5, <2>6 DEF TargetIsCurrent
  <2>9. \A r \in Source : ~Reconciling(r) BY <2>1, FreeFacts
  <2>10. QED BY <2>7, <2>8, <2>9
<1>6. QED BY <1>2, <1>3, <1>4, <1>5

\* The owner of the mutex, by its step.
LEMMA OwnerFacts ==
    ASSUME MediaIndInv, hold # Released
    PROVE  /\ online /\ conn \in Conn
           /\ hold.step = "apply" => hold \in Applying
           /\ hold.step \in {"start", "codec", "offer"} => hold \in Offering
           /\ hold.step = "answer" => hold \in Answering
           /\ hold.step = "again" => hold \in Repeating
<1>1. hold \in Applying \cup Offering \cup Answering \cup Repeating \cup Idling BY DEF MediaIndInv, HoldIsLawful
<1>2. online /\ conn \in Conn BY DEF MediaIndInv, ConnIsLawful, MutexFree
<1>3. QED BY <1>1, <1>2, KindFacts

\* The bridge is given what was aimed for.
LEMMA ApplyStep ==
    ASSUME MediaIndInv, Apply
    PROVE  MediaIndInv'
<1>ty. MediaTypeOK /\ ProfilesAgree BY DEF MediaIndInv
<1>1. hold # Released /\ hold.step = "apply" BY DEF Apply
<1>2. hold \in Applying /\ online /\ conn \in Conn BY <1>1, OwnerFacts
<1>3. PICK h : h = hold OBVIOUS
<1>4. h \in Applying /\ h.source \in Source /\ h.target \in Maybe /\ h.by \in {"reader", "idle"} /\ h \notin Idling
  BY <1>2, <1>3, KindFacts
<1>5. /\ Start(h.source, h.target)
      /\ disturbed' = [disturbed EXCEPT ![h.source] = capture'[h.source] # h.target]
      /\ IF h.by = "idle" /\ h.source = "display" /\ "camera" \in Source
           THEN hold' = [by |-> "idle", step |-> "apply", source |-> "camera",
                         target |-> Target("camera", Nothing, Nothing)]
           ELSE hold' = Released
      /\ UNCHANGED <<conn, online, sessions, created, owner, pending, preview, wsAudio, crashed, videoProfile>>
  BY <1>3 DEF Apply, Reconcile
<1>6. /\ capture' \in [Source -> Maybe] /\ \A r \in Source \ {h.source} : capture'[r] = capture[r]
  BY <1>ty, <1>4, <1>5, StartFacts
<1>7. /\ disturbed' \in [Source -> BOOLEAN] /\ (~disturbed'[h.source] => capture'[h.source] = h.target)
      /\ \A r \in Source \ {h.source} : disturbed'[r] = disturbed[r]
  BY <1>4, <1>5, <1>ty DEF MediaTypeOK
<1>t. /\ videoProfile' \in [Source -> Profile] /\ wsAudio' \in Maybe /\ preview \in [Conn -> Maybe]
  BY <1>5, <1>ty DEF MediaTypeOK, Maybe
<1>8. PICK pre \in Maybe, ws \in Maybe : pre = preview[conn] /\ ws = wsAudio BY <1>t, <1>2, <1>5
<1>9. pending[conn] = {} => Suits(h.source, h.target, VideoSessions(h.source), pre, ws)
  <2>1. pending[conn] = {} => h.target = Target(h.source, pre, ws)
    BY <1>2, <1>3, <1>8 DEF MediaIndInv, TargetIsCurrent
  <2>2. QED BY <2>1, <1>ty, <1>4, <1>8, TargetSuits
<1>10. h.source = "display" \/ h.by = "idle" BY <1>2, <1>3 DEF MediaIndInv, HoldIsLawful
<1>11. CASE h.by = "idle" /\ h.source = "display" /\ "camera" \in Source
  <2>1. PICK g : g = hold' OBVIOUS
  <2>2. PICK t : t = Target("camera", Nothing, Nothing) OBVIOUS
  <2>3. Nothing \in Maybe BY DEF Maybe
  <2>4. t \in Maybe BY <2>2, <2>3, <1>11, <1>ty, TargetSuits
  <2>5. g \in Applying /\ g.source = "camera" /\ g.by = "idle" /\ g.target = t
    BY <2>1, <2>2, <2>4, <1>5, <1>11 DEF Applying
  <2>6. g \notin Offering /\ g \notin Repeating /\ g \notin Idling BY <2>5, KindFacts
  <2>7. HoldIsLawful' /\ OfferIsLawful' BY <2>1, <2>5, <2>6 DEF HoldIsLawful, OfferIsLawful
  <2>8. TargetIsCurrent'
    <3>1. Target("camera", pre, ws)' = Target("camera", pre, ws) BY <1>5, SessionsSame
    <3>2. Target("camera", pre, ws) = t BY <2>2, CameraTarget
    <3>3. Target(g.source, preview[conn], wsAudio)' = t BY <3>1, <3>2, <2>5, <1>5, <1>8
    <3>4. QED BY <3>3, <2>1, <2>5, <2>6 DEF TargetIsCurrent
  <2>9. \A r \in Source : ~Reconciling(r)' => r = "display"
    <3>1. \A r \in Source : r = "display" \/ r = "camera" BY MediaAssumption
    <3>2. QED BY <3>1, <2>1, <2>5 DEF Reconciling
  <2>10. \A r \in Source : ~crashed /\ ~disturbed'[r] /\ ~Reconciling(r)' =>
              \/ /\ ~disturbed[r] /\ ~Reconciling(r) /\ capture'[r] = capture[r]
                 /\ r # "display" \/ wsAudio' = wsAudio
              \/ pending[conn] = {} => Suits(r, capture'[r], VideoSessions(r), preview[conn], wsAudio')
    BY <2>9, <1>5, <1>7, <1>8, <1>9, <1>11
  <2>11. QED BY <2>7, <2>8, <2>10, <1>2, <1>5, <1>6, <1>7, <1>t, CaptureStep
<1>12. CASE ~(h.by = "idle" /\ h.source = "display" /\ "camera" \in Source)
  <2>1. hold' = Released BY <1>5, <1>12
  <2>2. HoldIsLawful' /\ OfferIsLawful' /\ TargetIsCurrent' BY <2>1, AimEnds
  <2>3. \A r \in Source \ {h.source} : ~Reconciling(r)
    <3>1. \A r \in Source : r = "display" \/ r = "camera" BY MediaAssumption
    <3>2. QED BY <3>1, <1>3, <1>4, <1>12 DEF Reconciling
  <2>4. \A r \in Source : ~crashed /\ ~disturbed'[r] /\ ~Reconciling(r)' =>
              \/ /\ ~disturbed[r] /\ ~Reconciling(r) /\ capture'[r] = capture[r]
                 /\ r # "display" \/ wsAudio' = wsAudio
              \/ pending[conn] = {} => Suits(r, capture'[r], VideoSessions(r), preview[conn], wsAudio')
    BY <2>3, <1>5, <1>6, <1>7, <1>8, <1>9
  <2>5. QED BY <2>2, <2>4, <1>2, <1>5, <1>6, <1>7, <1>t, CaptureStep
<1>13. QED BY <1>11, <1>12

\* An offer goes on with what it aims for.
LEMMA OfferGoesOn ==
    ASSUME MediaIndInv, hold \in Offering, UNCHANGED <<conn, online, sessions, pending, preview, wsAudio>>,
           NEW g \in Offering, hold' = g,
           g.source = hold.source, g.options = hold.options, g.target = hold.target
    PROVE  HoldIsLawful' /\ TargetIsCurrent' /\ \A r \in Source : ~Reconciling(r) /\ ~Reconciling(r)'
<1>1. /\ g \notin Applying /\ g \notin Repeating /\ g \notin Idling
      /\ hold \notin Applying /\ hold \notin Idling
  BY KindFacts
<1>2. HoldIsLawful' BY <1>1 DEF HoldIsLawful
<1>3. \A r \in Source : ~Reconciling(r) /\ ~Reconciling(r)' BY <1>1 DEF Reconciling
<1>4. TargetIsCurrent'
  <2>1. PICK s, o, pre, ws : s = hold.source /\ o = hold.options /\ pre = preview[conn] /\ ws = wsAudio OBVIOUS
  <2>2. CaptureOptions(s, o, pre, ws)' = CaptureOptions(s, o, pre, ws) BY SessionsSame
  <2>3. CaptureOptions(g.source, g.options, preview[conn], wsAudio)' = CaptureOptions(s, o, pre, ws)
    BY <2>1, <2>2
  <2>4. online /\ pending[conn] = {} => hold.target = CaptureOptions(s, o, pre, ws)
    BY <2>1 DEF MediaIndInv, TargetIsCurrent
  <2>5. QED BY <1>1, <2>3, <2>4 DEF TargetIsCurrent
<1>5. QED BY <1>2, <1>3, <1>4

\* The capture is started for a new viewer, or the viewer is refused.
LEMMA OfferStartStep ==
    ASSUME MediaIndInv, OfferStart
    PROVE  MediaIndInv'
<1>ty. MediaTypeOK BY DEF MediaIndInv
<1>t. /\ capture \in [Source -> Maybe] /\ videoProfile \in [Source -> Profile]
      /\ disturbed \in [Source -> BOOLEAN] /\ wsAudio \in Maybe
  BY <1>ty DEF MediaTypeOK, Maybe
<1>1. /\ hold # Released /\ hold.step = "start"
      /\ UNCHANGED <<conn, online, sessions, created, owner, pending, preview, wsAudio, crashed, videoProfile>>
  BY DEF OfferStart, Holds
<1>2. hold \in Offering /\ online BY <1>1, OwnerFacts
<1>3. PICK h : h = hold OBVIOUS
<1>4. /\ h \in Offering /\ h.step = "start" /\ h.source \in Source /\ h.client \in Client /\ h.options \in Options
      /\ h.target \in Options /\ h \notin Applying /\ h \notin Idling
  BY <1>1, <1>2, <1>3, KindFacts
<1>5. h.video /\ created < MaxPeers /\ sessions[h.source][h.client] = Nothing /\ h.target.profile = h.options.profile
  BY <1>2, <1>3, <1>4 DEF MediaIndInv, OfferIsLawful
<1>6. \A r \in Source : ~Reconciling(r) BY <1>3, <1>4 DEF Reconciling
<1>7. CASE hold' = Released /\ UNCHANGED <<capture, disturbed>>
  <2>1. HoldIsLawful' /\ OfferIsLawful' /\ TargetIsCurrent' BY <1>7, AimEnds
  <2>2. \A r \in Source : ~crashed /\ ~disturbed'[r] /\ ~Reconciling(r)' =>
              \/ /\ ~disturbed[r] /\ ~Reconciling(r) /\ capture'[r] = capture[r]
                 /\ r # "display" \/ wsAudio' = wsAudio
              \/ pending[conn] = {} => Suits(r, capture'[r], VideoSessions(r), preview[conn], wsAudio')
    BY <1>1, <1>6, <1>7
  <2>3. QED BY <2>1, <2>2, <1>1, <1>2, <1>t, <1>7, CaptureStep
<1>8. CASE /\ Start(h.source, h.target) /\ disturbed' = [disturbed EXCEPT ![h.source] = TRUE]
           /\ hold' = IF capture'[h.source] = h.target
                        THEN [h EXCEPT !.step = "codec", !.previous = Current(h.source),
                                       !.active = VideoSessions(h.source) # {}]
                        ELSE Released
  <2>1. h.target \in Maybe BY <1>4 DEF Maybe
  <2>2. /\ capture' \in [Source -> Maybe] /\ capture'[h.source] \in {h.target, Nothing}
        /\ \A r \in Source \ {h.source} : capture'[r] = capture[r]
    BY <2>1, <1>ty, <1>4, <1>8, StartFacts
  <2>3. /\ disturbed' \in [Source -> BOOLEAN] /\ disturbed'[h.source]
        /\ \A r \in Source \ {h.source} : disturbed'[r] = disturbed[r]
    BY <1>t, <1>4, <1>8
  <2>4. HoldIsLawful' /\ OfferIsLawful' /\ TargetIsCurrent'
    <3>1. CASE capture'[h.source] = h.target
      <4>1. PICK p, a : p = Current(h.source) /\ a = (VideoSessions(h.source) # {}) OBVIOUS
      <4>2. p \in Options /\ a \in BOOLEAN BY <4>1, <1>t, <1>4, DefaultIsPlain DEF Current, Maybe
      <4>3. PICK g : g = hold' OBVIOUS
      <4>4. g = [h EXCEPT !.step = "codec", !.previous = p, !.active = a] BY <4>1, <4>3, <3>1, <1>8
      <4>5. /\ g \in Offering /\ g.step = "codec" /\ g.source = h.source /\ g.client = h.client
            /\ g.options = h.options /\ g.target = h.target /\ g.video = h.video
        BY ONLY <4>2, <4>4, <1>4, "codec" \in {"start", "codec", "offer"} DEF Offering
      <4>6. HoldIsLawful' /\ TargetIsCurrent'
        <5>1. UNCHANGED <<conn, online, sessions, pending, preview, wsAudio>> BY <1>1
        <5>2. hold' = g /\ g.source = hold.source /\ g.options = hold.options /\ g.target = hold.target
          BY <4>3, <4>5, <1>3
        <5>3. QED BY <5>1, <5>2, <4>5, <1>2, OfferGoesOn
      <4>7. OfferIsLawful'
        BY <1>1, <1>4, <1>5, <2>3, <3>1, <4>3, <4>5 DEF OfferIsLawful
      <4>8. QED BY <4>6, <4>7
    <3>2. CASE capture'[h.source] # h.target
      <4>1. hold' = Released BY <3>2, <1>8
      <4>2. QED BY <4>1, AimEnds
    <3>3. QED BY <3>1, <3>2
  <2>5. \A r \in Source : ~crashed /\ ~disturbed'[r] /\ ~Reconciling(r)' =>
              \/ /\ ~disturbed[r] /\ ~Reconciling(r) /\ capture'[r] = capture[r]
                 /\ r # "display" \/ wsAudio' = wsAudio
              \/ pending[conn] = {} => Suits(r, capture'[r], VideoSessions(r), preview[conn], wsAudio')
    BY <1>1, <1>6, <2>2, <2>3
  <2>6. QED BY <2>2, <2>3, <2>4, <2>5, <1>1, <1>2, <1>t, CaptureStep
<1>9. QED BY <1>3, <1>7, <1>8 DEF OfferStart

\* The track is made for the encoder's profile, or the viewer is refused.
LEMMA CodecSteps ==
    ASSUME MediaIndInv, CodecKnown \/ CodecRefused
    PROVE  MediaIndInv'
<1>ty. MediaTypeOK /\ ProfilesAgree BY DEF MediaIndInv
<1>t. /\ capture \in [Source -> Maybe] /\ videoProfile \in [Source -> Profile]
      /\ disturbed \in [Source -> BOOLEAN] /\ wsAudio \in Maybe
  BY <1>ty DEF MediaTypeOK, Maybe
<1>1. /\ hold # Released /\ hold.step = "codec"
      /\ UNCHANGED <<conn, online, sessions, created, owner, pending, preview, wsAudio, crashed, disturbed>>
  BY DEF CodecKnown, CodecRefused, Holds
<1>2. hold \in Offering /\ online BY <1>1, OwnerFacts
<1>3. PICK h : h = hold OBVIOUS
<1>4. /\ h \in Offering /\ h.step = "codec" /\ h.source \in Source /\ h.client \in Client /\ h.options \in Options
      /\ h.target \in Options /\ h.previous \in Options /\ h \notin Applying /\ h \notin Idling
  BY <1>1, <1>2, <1>3, KindFacts
<1>5. /\ h.video /\ created < MaxPeers /\ sessions[h.source][h.client] = Nothing
      /\ h.target.profile = h.options.profile /\ disturbed[h.source] /\ capture[h.source] \in {Nothing, h.target}
  BY <1>2, <1>3, <1>4 DEF MediaIndInv, OfferIsLawful
<1>6. \A r \in Source : ~Reconciling(r) BY <1>3, <1>4 DEF Reconciling
<1>7. CASE CodecKnown
  <2>1. /\ capture[h.source] # Nothing /\ ProfileFits(h.source) /\ capture' = capture
        /\ videoProfile' = [videoProfile EXCEPT ![h.source] = capture[h.source].profile]
        /\ hold' = [h EXCEPT !.step = "offer"]
    BY <1>3, <1>7 DEF CodecKnown
  <2>2. capture[h.source] = h.target /\ h.target.profile \in Profile BY <2>1, <1>4, <1>5, OptionFacts
  <2>3. /\ videoProfile' \in [Source -> Profile] /\ videoProfile'[h.source] = h.options.profile
        /\ \A r \in Source \ {h.source} : videoProfile'[r] = videoProfile[r]
    BY <2>1, <2>2, <1>4, <1>5, <1>t
  <2>4. \A r \in Source : VideoSessions(r) # {} => videoProfile'[r] = videoProfile[r]
    BY <2>1, <2>2, <2>3, <1>5 DEF ProfileFits
  <2>5. PICK g : g = hold' OBVIOUS
  <2>6. g = [h EXCEPT !.step = "offer"] BY <2>1, <2>5
  <2>7. /\ g \in Offering /\ g.step = "offer" /\ g.source = h.source /\ g.client = h.client
        /\ g.options = h.options /\ g.target = h.target /\ g.video = h.video
    BY ONLY <2>6, <1>4, "offer" \in {"start", "codec", "offer"} DEF Offering
  <2>8. HoldIsLawful' /\ TargetIsCurrent' /\ \A r \in Source : ~Reconciling(r)'
    <3>1. UNCHANGED <<conn, online, sessions, pending, preview, wsAudio>> BY <1>1
    <3>2. hold' = g /\ g.source = hold.source /\ g.options = hold.options /\ g.target = hold.target
      BY <2>5, <2>7, <1>3
    <3>3. QED BY <3>1, <3>2, <2>7, <1>2, OfferGoesOn
  <2>9. OfferIsLawful' BY <1>1, <1>5, <2>3, <2>5, <2>7 DEF OfferIsLawful
  <2>10. \A r \in Source : ~crashed /\ ~disturbed'[r] /\ ~Reconciling(r)' =>
              \/ /\ ~disturbed[r] /\ ~Reconciling(r) /\ capture'[r] = capture[r]
                 /\ r # "display" \/ wsAudio' = wsAudio
              \/ pending[conn] = {} => Suits(r, capture'[r], VideoSessions(r), preview[conn], wsAudio')
    BY <1>1, <1>6, <2>1
  <2>11. QED BY <1>1, <1>2, <1>t, <2>1, <2>3, <2>4, <2>8, <2>9, <2>10, CaptureStep
<1>8. CASE CodecRefused
  <2>1. hold' = Released /\ videoProfile' = videoProfile /\ (Start(h.source, h.previous) \/ capture' = capture)
    BY <1>3, <1>8 DEF CodecRefused
  <2>2. h.previous \in Maybe BY <1>4 DEF Maybe
  <2>3. capture' \in [Source -> Maybe] /\ \A r \in Source \ {h.source} : capture'[r] = capture[r]
    BY <2>1, <2>2, <1>t, <1>ty, <1>4, StartFacts
  <2>4. HoldIsLawful' /\ OfferIsLawful' /\ TargetIsCurrent' BY <2>1, AimEnds
  <2>5. \A r \in Source : ~crashed /\ ~disturbed'[r] /\ ~Reconciling(r)' =>
              \/ /\ ~disturbed[r] /\ ~Reconciling(r) /\ capture'[r] = capture[r]
                 /\ r # "display" \/ wsAudio' = wsAudio
              \/ pending[conn] = {} => Suits(r, capture'[r], VideoSessions(r), preview[conn], wsAudio')
    BY <1>1, <1>5, <1>6, <2>3
  <2>6. QED BY <1>1, <1>2, <1>t, <2>1, <2>3, <2>4, <2>5, CaptureStep
<1>9. QED BY <1>7, <1>8

\* The viewers after a step that writes one session.
LEMMA ViewersAfter ==
    ASSUME MediaTypeOK, NEW s \in Source, NEW c \in Client, NEW x \in Session \cup {Nothing},
           sessions' = [sessions EXCEPT ![s][c] = x]
    PROVE  /\ sessions' \in [Source -> [Client -> Session \cup {Nothing}]]
           /\ sessions'[s][c] = x /\ \A d \in Client \ {c} : sessions'[s][d] = sessions[s][d]
           /\ \A r \in Source \ {s} : sessions'[r] = sessions[r] /\ VideoSessions(r)' = VideoSessions(r)
           /\ x = Nothing \/ ~x.video => VideoSessions(s)' \subseteq VideoSessions(s)
           /\ (sessions[s][c] = Nothing \/ ~sessions[s][c].video) /\ (x = Nothing \/ ~x.video) =>
                 VideoSessions(s)' = VideoSessions(s)
           /\ sessions[s][c] = Nothing /\ x # Nothing /\ x.video =>
                 \A v : v \in VideoSessions(s)' <=> v \in VideoSessions(s) \/ v = x
<1>1. sessions \in [Source -> [Client -> Session \cup {Nothing}]] BY DEF MediaTypeOK
<1>2. /\ sessions' \in [Source -> [Client -> Session \cup {Nothing}]]
      /\ sessions'[s][c] = x /\ \A d \in Client \ {c} : sessions'[s][d] = sessions[s][d]
      /\ \A r \in Source \ {s} : sessions'[r] = sessions[r]
  BY <1>1
<1>3. \A r \in Source \ {s} : VideoSessions(r)' = VideoSessions(r) BY <1>2, SessionsSame
<1>4. \A v : v \in VideoSessions(s) <=> \E d \in Client : sessions[s][d] = v /\ v # Nothing /\ v.video
  BY DEF VideoSessions
<1>5. \A v : v \in VideoSessions(s)' <=> \E d \in Client : sessions'[s][d] = v /\ v # Nothing /\ v.video
  BY DEF VideoSessions
<1>6. x = Nothing \/ ~x.video => VideoSessions(s)' \subseteq VideoSessions(s) BY <1>2, <1>4, <1>5
<1>7. sessions[s][c] = Nothing \/ ~sessions[s][c].video => VideoSessions(s) \subseteq VideoSessions(s)'
  BY <1>2, <1>4, <1>5
<1>8. sessions[s][c] = Nothing /\ x # Nothing /\ x.video => VideoSessions(s)' = VideoSessions(s) \cup {x}
  <2>1. SUFFICES ASSUME sessions[s][c] = Nothing, x # Nothing, x.video
                 PROVE  VideoSessions(s)' = VideoSessions(s) \cup {x}
    OBVIOUS
  <2>2. x \in VideoSessions(s)' BY <1>2, <1>5, <2>1
  <2>3. VideoSessions(s)' \subseteq VideoSessions(s) \cup {x} BY <1>2, <1>4, <1>5
  <2>4. QED BY <2>1, <2>2, <2>3, <1>7
<1>9. QED BY <1>2, <1>3, <1>6, <1>7, <1>8

\* The session of a new viewer, or of one that only controls, is entered.
LEMMA CreateOfferStep ==
    ASSUME MediaIndInv, CreateOffer
    PROVE  MediaIndInv'
<1>ty. MediaTypeOK /\ ProfilesAgree BY DEF MediaIndInv
<1>1. hold # Released /\ hold.step = "offer" BY DEF CreateOffer, Holds
<1>2. hold \in Offering /\ online /\ conn \in Conn BY <1>1, OwnerFacts
<1>3. PICK h : h = hold OBVIOUS
<1>4. /\ h.step = "offer" /\ h.source \in Source /\ h.client \in Client /\ h.options \in Options
      /\ h.video \in BOOLEAN /\ h \notin Applying /\ h \notin Idling
  BY <1>1, <1>2, <1>3, KindFacts
<1>5. /\ created < MaxPeers /\ sessions[h.source][h.client] = Nothing
      /\ h.video => disturbed[h.source] /\ h.options.profile = videoProfile[h.source]
  BY <1>2, <1>3, <1>4 DEF MediaIndInv, OfferIsLawful
<1>6. PICK s \in Source, c \in Client : s = h.source /\ c = h.client BY <1>4
<1>7. PICK n : n = [peer |-> created + 1, video |-> h.video, options |-> h.options, checked |-> TRUE] OBVIOUS
<1>8. created + 1 \in Peer BY <1>5, <1>ty, MediaAssumption DEF MediaTypeOK, Peer
<1>9. n \in Session /\ n # Nothing /\ n.video = h.video /\ n.options = h.options
  <2>1. n \in Session /\ n.video = h.video /\ n.options = h.options BY <1>4, <1>7, <1>8 DEF Session
  <2>2. QED BY <2>1, MediaAssumption
<1>10. /\ created' = created + 1 /\ owner' = [owner EXCEPT ![created + 1] = <<s, c, conn>>]
       /\ sessions' = [sessions EXCEPT ![s][c] = n]
       /\ disturbed' = [disturbed EXCEPT ![s] = @ /\ ~(h.video /\ capture[s] = h.target)]
       /\ hold' = Released
       /\ UNCHANGED <<conn, online, pending, preview, wsAudio, capture, crashed, videoProfile>>
  BY <1>3, <1>6, <1>7 DEF CreateOffer, EnterSession
<1>11. /\ sessions' \in [Source -> [Client -> Session \cup {Nothing}]]
       /\ \A r \in Source \ {s} : VideoSessions(r)' = VideoSessions(r)
       /\ ~h.video => VideoSessions(s)' = VideoSessions(s)
       /\ h.video => VideoSessions(s)' = VideoSessions(s) \cup {n}
  <2>1. n \in Session \cup {Nothing} /\ sessions[s][c] = Nothing BY <1>5, <1>6, <1>9
  <2>2. PICK x \in Session \cup {Nothing} : x = n BY <2>1
  <2>3. sessions' = [sessions EXCEPT ![s][c] = x] BY <2>2, <1>10
  <2>4. sessions' \in [Source -> [Client -> Session \cup {Nothing}]] BY <2>3, <1>ty, ViewersAfter
  <2>5. \A r \in Source \ {s} : VideoSessions(r)' = VideoSessions(r) BY <2>3, <1>ty, ViewersAfter
  <2>6. ~h.video => VideoSessions(s)' = VideoSessions(s)
    <3>1. ~h.video => sessions[s][c] = Nothing /\ ~x.video BY <2>1, <2>2, <1>9
    <3>2. QED BY <3>1, <2>3, <1>ty, ViewersAfter
  <2>7. h.video => VideoSessions(s)' = VideoSessions(s) \cup {x}
    <3>1. h.video => sessions[s][c] = Nothing /\ x # Nothing /\ x.video BY <2>1, <2>2, <1>9
    <3>2. h.video => \A v : v \in VideoSessions(s)' <=> v \in VideoSessions(s) \/ v = x
      BY <3>1, <2>3, <1>ty, ViewersAfter
    <3>3. QED BY <3>2
  <2>8. QED BY <2>2, <2>4, <2>5, <2>6, <2>7
<1>12. MediaTypeOK'
  <2>1. owner' \in [Peer -> (Source \X Client \X Conn) \cup {Nothing}] BY <1>2, <1>10, <1>ty DEF MediaTypeOK
  <2>2. created' \in 0..MaxPeers BY <1>8, <1>10 DEF Peer
  <2>3. disturbed' \in [Source -> BOOLEAN] BY <1>10, <1>ty DEF MediaTypeOK
  <2>4. QED BY <2>1, <2>2, <2>3, <1>10, <1>11, <1>ty DEF MediaTypeOK
<1>13. HoldIsLawful' /\ OfferIsLawful' /\ TargetIsCurrent' BY <1>10, AimEnds
<1>14. ConnIsLawful' BY <1>2, <1>10 DEF MediaIndInv, ConnIsLawful
<1>15. ProfilesAgree' BY <1>5, <1>6, <1>9, <1>10, <1>11, <1>ty DEF ProfilesAgree
<1>16. CaptureSuits'
  <2>1. SUFFICES ASSUME NEW r \in Source, ~crashed, ~disturbed'[r], pending[conn] = {}
                 PROVE  Suits(r, capture[r], VideoSessions(r)', preview[conn], wsAudio)
    BY <1>10 DEF CaptureSuits
  <2>2. ~Reconciling(r) BY <1>3, <1>4 DEF Reconciling
  <2>3. CASE VideoSessions(r)' = VideoSessions(r) /\ disturbed'[r] = disturbed[r]
    BY <2>1, <2>2, <2>3, <1>2 DEF MediaIndInv, CaptureSuits
  <2>4. r # s => disturbed'[r] = disturbed[r] BY <1>10, <1>ty DEF MediaTypeOK
  <2>5. ~h.video => disturbed'[s] = disturbed[s] BY <1>10, <1>ty DEF MediaTypeOK
  <2>6. CASE r = s /\ h.video
    <3>1. capture[s] = h.target BY <2>1, <2>6, <1>5, <1>6, <1>10, <1>ty DEF MediaTypeOK
    <3>2. PICK pre \in Maybe, ws \in Maybe : pre = preview[conn] /\ ws = wsAudio
      BY <1>2, <1>ty DEF MediaTypeOK, Maybe
    <3>3. h.target = CaptureOptions(s, n.options, pre, ws)
      BY <2>1, <3>2, <1>2, <1>3, <1>6, <1>9 DEF MediaIndInv, TargetIsCurrent
    <3>4. n.options \in Options /\ n.options.profile = videoProfile[s] BY <2>6, <1>4, <1>5, <1>6, <1>9
    <3>5. PICK W : W = VideoSessions(s) \cup {n} OBVIOUS
    <3>6. PICK t : t = h.target OBVIOUS
    <3>7. t = CaptureOptions(s, n.options, pre, ws) BY <3>3, <3>6
    <3>8. Suits(s, t, W, pre, ws) BY <3>4, <3>5, <3>7, <1>ty, OfferSuits
    <3>9. QED BY <2>6, <3>1, <3>2, <3>5, <3>6, <3>8, <1>11
  <2>7. QED BY <2>3, <2>4, <2>5, <2>6, <1>11
<1>17. QED BY <1>12, <1>13, <1>14, <1>15, <1>16 DEF MediaIndInv

\* An offer is repeated: when a callback has removed the session since, and so
\* has its StopIdle to do, a new one is entered.
LEMMA AgainOfferStep ==
    ASSUME MediaIndInv, AgainOffer
    PROVE  MediaIndInv'
<1>ty. MediaTypeOK /\ ProfilesAgree BY DEF MediaIndInv
<1>1. /\ hold # Released /\ hold.step = "again" /\ hold' = Released
      /\ UNCHANGED <<conn, online, pending, preview, wsAudio, capture, crashed, disturbed, videoProfile>>
  BY DEF AgainOffer, Holds
<1>2. hold \in Repeating /\ online /\ conn \in Conn BY <1>1, OwnerFacts
<1>3. PICK h : h = hold OBVIOUS
<1>4. /\ h.source \in Source /\ h.client \in Client /\ h.options \in Options /\ h.video \in BOOLEAN
      /\ h \notin Applying /\ h \notin Idling
  BY <1>2, <1>3, KindFacts
<1>5. HoldIsLawful' /\ OfferIsLawful' /\ TargetIsCurrent' BY <1>1, AimEnds
<1>6. ConnIsLawful' BY <1>1, <1>2 DEF MediaIndInv, ConnIsLawful
<1>7. CASE UNCHANGED <<sessions, created, owner>>
  <2>1. \A r \in Source : VideoSessions(r)' = VideoSessions(r) BY <1>7, SessionsSame
  <2>2. MediaTypeOK' BY <1>1, <1>7, <1>ty DEF MediaTypeOK
  <2>3. ProfilesAgree' BY <2>1, <1>1, <1>ty DEF ProfilesAgree
  <2>4. \A r \in Source : ~Reconciling(r) BY <1>3, <1>4 DEF Reconciling
  <2>5. CaptureSuits' BY <2>1, <2>4, <1>1 DEF MediaIndInv, CaptureSuits
  <2>6. QED BY <2>2, <2>3, <2>5, <1>5, <1>6 DEF MediaIndInv
<1>8. CASE sessions[hold.source][hold.client] = Nothing /\ created < MaxPeers /\ EnterSession(FALSE)
  <2>1. PICK s \in Source, c \in Client : s = h.source /\ c = h.client BY <1>4
  <2>2. PICK n : n = [peer |-> created + 1, video |-> h.video, options |-> h.options, checked |-> FALSE] OBVIOUS
  <2>3. /\ created' = created + 1 /\ owner' = [owner EXCEPT ![created + 1] = <<s, c, conn>>]
        /\ sessions' = [sessions EXCEPT ![s][c] = n]
    BY <1>3, <1>8, <2>1, <2>2 DEF EnterSession
  <2>4. created + 1 \in Peer BY <1>8, <1>ty, MediaAssumption DEF MediaTypeOK, Peer
  <2>5. n \in Session /\ n # Nothing /\ n.video \in BOOLEAN /\ n.checked = FALSE
    <3>1. n \in Session /\ n.video \in BOOLEAN /\ n.checked = FALSE BY <1>4, <2>2, <2>4 DEF Session
    <3>2. QED BY <3>1, MediaAssumption
  <2>6. PICK x \in Session \cup {Nothing} : x = n BY <2>5
  <2>7. sessions' = [sessions EXCEPT ![s][c] = x] /\ sessions[s][c] = Nothing BY <2>1, <2>3, <2>6, <1>3, <1>8
  <2>8. sessions' \in [Source -> [Client -> Session \cup {Nothing}]] BY <2>7, <1>ty, ViewersAfter
  <2>9. \A r \in Source \ {s} : VideoSessions(r)' = VideoSessions(r) BY <2>7, <1>ty, ViewersAfter
  <2>10. \A v \in VideoSessions(s)' : v \in VideoSessions(s) \/ v = x
    <3>1. CASE x.video
      <4>1. x # Nothing BY <2>5, <2>6
      <4>2. \A v : v \in VideoSessions(s)' <=> v \in VideoSessions(s) \/ v = x
        BY <3>1, <4>1, <2>7, <1>ty, ViewersAfter
      <4>3. QED BY <4>2
    <3>2. CASE ~x.video
      <4>1. VideoSessions(s)' \subseteq VideoSessions(s) BY <3>2, <2>7, <1>ty, ViewersAfter
      <4>2. QED BY <4>1
    <3>3. QED BY <3>1, <3>2
  <2>11. MediaTypeOK'
    <3>1. owner' \in [Peer -> (Source \X Client \X Conn) \cup {Nothing}] BY <1>2, <2>3, <1>ty DEF MediaTypeOK
    <3>2. created' \in 0..MaxPeers BY <2>3, <2>4 DEF Peer
    <3>3. QED BY <3>1, <3>2, <2>8, <1>1, <1>ty DEF MediaTypeOK
  <2>12. ProfilesAgree' BY <2>5, <2>6, <2>9, <2>10, <1>1, <1>ty DEF ProfilesAgree
  <2>13. pending[conn] # {} BY <1>2, <1>8 DEF MediaIndInv, TargetIsCurrent
  <2>14. CaptureSuits' BY <2>13, <1>1 DEF CaptureSuits
  <2>15. QED BY <2>11, <2>12, <2>14, <1>5, <1>6 DEF MediaIndInv
<1>9. QED BY <1>7, <1>8 DEF AgainOffer

\* The answer is written back, a session that has gone as the zero value.
LEMMA AnswerSetStep ==
    ASSUME MediaIndInv, AnswerSet
    PROVE  MediaIndInv'
<1>ty. MediaTypeOK /\ ProfilesAgree BY DEF MediaIndInv
<1>1. hold # Released /\ hold.step = "answer" BY DEF AnswerSet, Holds
<1>2. hold \in Answering /\ online /\ conn \in Conn BY <1>1, OwnerFacts
<1>3. PICK s \in Source, c \in Client : s = hold.source /\ c = hold.client BY <1>2, KindFacts
<1>4. Ghost \in Session /\ Ghost.video = FALSE /\ Ghost # Nothing
  <2>1. Ghost \in Session /\ Ghost.video = FALSE BY DefaultIsPlain DEF Ghost, Session
  <2>2. QED BY <2>1, MediaAssumption
<1>5. PICK x : x = IF sessions[s][c] = Nothing THEN Ghost ELSE sessions[s][c] OBVIOUS
<1>6. x \in Session \cup {Nothing} BY <1>4, <1>5, <1>ty DEF MediaTypeOK
<1>7. /\ sessions' = [sessions EXCEPT ![s][c] = x] /\ hold' = Released
      /\ UNCHANGED <<conn, online, created, owner, pending, preview, wsAudio, capture, crashed, disturbed, videoProfile>>
  BY <1>3, <1>5 DEF AnswerSet
<1>8. sessions' \in [Source -> [Client -> Session \cup {Nothing}]] /\ \A r \in Source : VideoSessions(r)' = VideoSessions(r)
  <2>1. CASE sessions[s][c] = Nothing
    <3>1. x = Ghost BY <2>1, <1>5
    <3>2. QED BY <2>1, <3>1, <1>4, <1>6, <1>7, <1>ty, ViewersAfter
  <2>2. CASE sessions[s][c] # Nothing
    <3>1. x = sessions[s][c] BY <2>2, <1>5
    <3>2. sessions' = sessions BY <3>1, <1>7, <1>ty DEF MediaTypeOK
    <3>3. QED BY <3>2, <1>ty, SessionsSame DEF MediaTypeOK
  <2>3. QED BY <2>1, <2>2
<1>9. MediaTypeOK' BY <1>7, <1>8, <1>ty DEF MediaTypeOK
<1>10. HoldIsLawful' /\ OfferIsLawful' /\ TargetIsCurrent' BY <1>7, AimEnds
<1>11. ConnIsLawful' BY <1>2, <1>7 DEF MediaIndInv, ConnIsLawful
<1>12. ProfilesAgree' BY <1>7, <1>8, <1>ty DEF ProfilesAgree
<1>13. \A r \in Source : ~Reconciling(r)
  <2>1. hold \notin Applying /\ hold \notin Idling BY <1>2, KindFacts
  <2>2. QED BY <2>1 DEF Reconciling
<1>14. CaptureSuits' BY <1>7, <1>8, <1>13 DEF MediaIndInv, CaptureSuits
<1>15. QED BY <1>9, <1>10, <1>11, <1>12, <1>14 DEF MediaIndInv

\* A peer's callback removes its session: a StopIdle is pending.
LEMMA RemoveSessionStep ==
    ASSUME MediaIndInv, NEW p \in Peer, RemoveSession(p)
    PROVE  MediaIndInv'
<1>ty. MediaTypeOK /\ ProfilesAgree BY DEF MediaIndInv
<1>1. owner[p] \in Source \X Client \X Conn BY <1>ty DEF RemoveSession, MediaTypeOK
<1>2. PICK s \in Source, c \in Client, k \in Conn : s = owner[p][1] /\ c = owner[p][2] /\ k = owner[p][3]
  BY <1>1
<1>3. k = conn /\ sessions[s][c] # Nothing BY <1>2 DEF RemoveSession, Concerns
<1>4. /\ sessions' = [sessions EXCEPT ![s][c] = Nothing] /\ pending' = [pending EXCEPT ![k] = @ \cup {p}]
      /\ UNCHANGED <<conn, online, created, owner, preview, wsAudio, capture, hold, crashed, disturbed, videoProfile>>
  BY <1>2 DEF RemoveSession
<1>5. online BY <1>3 DEF MediaIndInv, ConnIsLawful
<1>6. /\ sessions' \in [Source -> [Client -> Session \cup {Nothing}]]
      /\ \A r \in Source : VideoSessions(r)' \subseteq VideoSessions(r)
      /\ \A r \in Source, d \in Client : sessions[r][d] = Nothing => sessions'[r][d] = Nothing
  <2>1. PICK x \in Session \cup {Nothing} : x = Nothing OBVIOUS
  <2>2. sessions' = [sessions EXCEPT ![s][c] = x] BY <2>1, <1>4
  <2>3. sessions' \in [Source -> [Client -> Session \cup {Nothing}]] BY <2>2, <1>ty, ViewersAfter
  <2>4. sessions'[s][c] = x /\ \A d \in Client \ {c} : sessions'[s][d] = sessions[s][d] BY <2>2, <1>ty, ViewersAfter
  <2>5. \A r \in Source \ {s} : sessions'[r] = sessions[r] BY <2>2, <1>ty, ViewersAfter
  <2>6. \A r \in Source \ {s} : VideoSessions(r)' = VideoSessions(r) BY <2>2, <1>ty, ViewersAfter
  <2>7. VideoSessions(s)' \subseteq VideoSessions(s) BY <2>1, <2>2, <1>ty, ViewersAfter
  <2>8. QED BY <2>1, <2>3, <2>4, <2>5, <2>6, <2>7
<1>7. pending' \in [Conn -> SUBSET Peer] /\ pending'[conn] # {} /\ \A j \in Conn \ {conn} : pending'[j] = pending[j]
  BY <1>3, <1>4, <1>ty DEF MediaTypeOK
<1>8. MediaTypeOK' BY <1>4, <1>6, <1>7, <1>ty DEF MediaTypeOK
<1>9. HoldIsLawful' BY <1>4 DEF MediaIndInv, HoldIsLawful
<1>10. ConnIsLawful'
  <2>1. \A j \in Conn : j > conn => j # conn BY <1>3 DEF Conn
  <2>2. QED BY <2>1, <1>4, <1>5, <1>7 DEF MediaIndInv, ConnIsLawful
<1>11. ProfilesAgree' BY <1>4, <1>6, <1>ty DEF ProfilesAgree
<1>12. OfferIsLawful'
  <2>1. hold \in Offering => hold.source \in Source /\ hold.client \in Client BY KindFacts
  <2>2. QED BY <2>1, <1>4, <1>6 DEF MediaIndInv, OfferIsLawful
<1>13. TargetIsCurrent' /\ CaptureSuits' BY <1>4, <1>7 DEF TargetIsCurrent, CaptureSuits
<1>14. QED BY <1>8, <1>9, <1>10, <1>11, <1>12, <1>13 DEF MediaIndInv

\* A client's sessions are closed, and everything is reconciled.
LEMMA ClientDisconnectedStep ==
    ASSUME MediaIndInv, NEW c \in Client, ClientDisconnected(c)
    PROVE  MediaIndInv'
<1>ty. MediaTypeOK /\ ProfilesAgree BY DEF MediaIndInv
<1>1. /\ online /\ crashed' \in BOOLEAN
      /\ sessions' = [s \in Source |-> [sessions[s] EXCEPT ![c] = Nothing]] /\ hold' = [by |-> "idle", step |-> "idle"]
      /\ UNCHANGED <<conn, online, created, owner, pending, preview, wsAudio, capture, disturbed, videoProfile>>
  BY DEF ClientDisconnected, Handling
<1>2. sessions \in [Source -> [Client -> Session \cup {Nothing}]] BY <1>ty DEF MediaTypeOK
<1>3. /\ sessions' \in [Source -> [Client -> Session \cup {Nothing}]]
      /\ \A s \in Source : sessions'[s][c] = Nothing /\ \A d \in Client \ {c} : sessions'[s][d] = sessions[s][d]
  BY <1>1, <1>2
<1>4. \A s \in Source : VideoSessions(s)' \subseteq VideoSessions(s)
  <2>1. ASSUME NEW s \in Source, NEW v \in VideoSessions(s)' PROVE v \in VideoSessions(s)
    <3>1. PICK d \in Client : sessions'[s][d] = v /\ v # Nothing /\ v.video BY DEF VideoSessions
    <3>2. d # c BY <3>1, <1>3
    <3>3. sessions[s][d] = v BY <3>1, <3>2, <1>3
    <3>4. QED BY <3>1, <3>3 DEF VideoSessions
  <2>2. QED BY <2>1
<1>5. MediaTypeOK' BY <1>1, <1>3, <1>ty DEF MediaTypeOK
<1>6. PICK h : h = hold' OBVIOUS
<1>7. h \in Idling BY <1>1, <1>6 DEF Idling
<1>8. h \notin Applying /\ h \notin Offering /\ h \notin Repeating BY <1>7, KindFacts
<1>9. HoldIsLawful' /\ OfferIsLawful' /\ TargetIsCurrent'
  BY <1>6, <1>7, <1>8 DEF HoldIsLawful, OfferIsLawful, TargetIsCurrent
<1>10. ConnIsLawful' BY <1>1 DEF MediaIndInv, ConnIsLawful
<1>11. ProfilesAgree' BY <1>1, <1>4, <1>ty DEF ProfilesAgree
<1>12. CaptureSuits' BY <1>6, <1>7 DEF CaptureSuits, Reconciling
<1>13. QED BY <1>5, <1>9, <1>10, <1>11, <1>12 DEF MediaIndInv

\* A connection begins with nothing captured, and ends so.
LEMMA ConnectionSteps ==
    ASSUME MediaIndInv, Connect \/ Disconnect
    PROVE  MediaIndInv'
<1>ty. MediaTypeOK BY DEF MediaIndInv
<1>1. hold = Released /\ hold' = Released /\ UNCHANGED <<created, owner, pending, preview>>
  BY DEF Connect, Disconnect, Handling, MutexFree
<1>2. HoldIsLawful' /\ OfferIsLawful' /\ TargetIsCurrent' BY <1>1, AimEnds
<1>3. /\ wsAudio' = Nothing /\ \A s \in Source : capture'[s] = Nothing /\ \A c \in Client : sessions'[s][c] = Nothing
  <2>1. CASE Connect
    <3>1. ~online /\ UNCHANGED <<sessions, wsAudio, capture>> BY <2>1 DEF Connect
    <3>2. QED BY <3>1 DEF MediaIndInv, ConnIsLawful
  <2>2. CASE Disconnect BY <2>2 DEF Disconnect
  <2>3. QED BY <2>1, <2>2
<1>4. \A s \in Source : VideoSessions(s)' = {} BY <1>3 DEF VideoSessions
<1>5. ProfilesAgree' BY <1>4 DEF ProfilesAgree
<1>6. CASE Connect
  <2>1. /\ ~online /\ conn < MaxConn /\ conn' = conn + 1 /\ online' /\ online' \in BOOLEAN
        /\ disturbed' = [s \in Source |-> FALSE] /\ videoProfile' = [s \in Source |-> Plain]
        /\ UNCHANGED <<sessions, wsAudio, capture, crashed>>
    BY <1>6 DEF Connect
  <2>2. conn' \in Conn /\ conn' \in 0..MaxConn /\ conn' > conn /\ conn \in Nat
    BY <2>1, <1>ty, MediaAssumption DEF MediaTypeOK, Conn
  <2>3. MediaTypeOK' BY <1>1, <1>ty, <2>1, <2>2, MediaAssumption DEF MediaTypeOK
  <2>4. \A k \in Conn : k > conn => pending[k] = {} /\ preview[k] = Nothing BY DEF MediaIndInv, ConnIsLawful
  <2>5. \A k \in Conn : k > conn + 1 => k > conn BY <2>2 DEF Conn
  <2>6. ConnIsLawful' BY <1>1, <2>1, <2>2, <2>4, <2>5 DEF ConnIsLawful
  <2>7. preview'[conn'] = Nothing BY <1>1, <2>2, <2>4
  <2>8. CaptureSuits' BY <1>3, <1>4, <2>7 DEF CaptureSuits, Suits
  <2>9. QED BY <1>2, <1>5, <2>3, <2>6, <2>8 DEF MediaIndInv
<1>7. CASE Disconnect
  <2>1. /\ online' = FALSE /\ crashed' \in BOOLEAN /\ sessions' = [s \in Source |-> [c \in Client |-> Nothing]]
        /\ wsAudio' = Nothing /\ capture' = [s \in Source |-> Nothing] /\ UNCHANGED <<conn, disturbed, videoProfile>>
    BY <1>7 DEF Disconnect
  <2>2. MediaTypeOK' BY <1>1, <1>ty, <2>1 DEF MediaTypeOK
  <2>3. ConnIsLawful' BY <1>1, <1>3, <2>1 DEF MediaIndInv, ConnIsLawful, MutexFree
  <2>4. CaptureSuits' BY <2>1 DEF CaptureSuits
  <2>5. QED BY <1>2, <1>5, <2>2, <2>3, <2>4 DEF MediaIndInv
<1>8. QED BY <1>6, <1>7

LEMMA MediaStarts == MediaInit => MediaIndInv
<1> SUFFICES ASSUME MediaInit PROVE MediaIndInv OBVIOUS
<1>1. hold = Released /\ online = FALSE BY DEF MediaInit
<1>2. MediaTypeOK
  <2>1. conn \in 0..MaxConn /\ created \in 0..MaxPeers BY MediaAssumption DEF MediaInit
  <2>2. /\ sessions \in [Source -> [Client -> Session \cup {Nothing}]]
        /\ owner \in [Peer -> (Source \X Client \X Conn) \cup {Nothing}]
        /\ pending \in [Conn -> SUBSET Peer]
    BY DEF MediaInit
  <2>3. /\ preview \in [Conn -> Options \cup {Nothing}] /\ wsAudio \in Options \cup {Nothing}
        /\ capture \in [Source -> Options \cup {Nothing}] /\ videoProfile \in [Source -> Profile]
        /\ disturbed \in [Source -> BOOLEAN] /\ crashed \in BOOLEAN /\ online \in BOOLEAN
    BY MediaAssumption DEF MediaInit
  <2>4. QED BY <2>1, <2>2, <2>3 DEF MediaTypeOK
<1>3. HoldIsLawful /\ OfferIsLawful /\ TargetIsCurrent /\ CaptureSuits
  <2>1. hold \notin Applying /\ hold \notin Offering /\ hold \notin Repeating BY <1>1, FreeFacts
  <2>2. QED BY <1>1, <2>1 DEF HoldIsLawful, OfferIsLawful, TargetIsCurrent, CaptureSuits
<1>4. ConnIsLawful BY DEF MediaInit, ConnIsLawful, MutexFree
<1>5. ProfilesAgree
  <2>1. \A s \in Source : VideoSessions(s) = {} BY DEF MediaInit, VideoSessions
  <2>2. QED BY <2>1 DEF ProfilesAgree
<1>6. QED BY <1>2, <1>3, <1>4, <1>5 DEF MediaIndInv

LEMMA MediaSteps == MediaIndInv /\ [MediaNext]_mediaVars => MediaIndInv'
<1> SUFFICES ASSUME MediaIndInv, [MediaNext]_mediaVars PROVE MediaIndInv' OBVIOUS
<1>1. CASE Message
  <2>1. \/ \E o \in Offers : StartPreview(o) \/ StartAudio(o)
        \/ StopPreview \/ StopAudio \/ GroupControlEvent
        \/ \E c \in Client : ClientDisconnected(c)
        \/ \E c \in Client, s \in Source : SetAnswer(c, s)
        \/ \E c \in Client, s \in Source, o \in Offers, v \in BOOLEAN :
             RequestOffer(c, s, o, v) \/ RepeatOffer(c, s, o, v)
    BY <1>1 DEF Message
  <2>2. QED BY <2>1, ReconcileSteps, StartAudioStep, DisturbSteps, ClientDisconnectedStep, HoldSteps
<1>2. CASE Continue
  BY <1>2, ApplyStep, OfferStartStep, CodecSteps, HoldSteps, CreateOfferStep, AgainOfferStep, AnswerSetStep,
     ReconcileSteps
     DEF Continue
<1>3. CASE Connect \/ Disconnect BY <1>3, ConnectionSteps
<1>4. CASE \/ \E p \in Peer : RemoveSession(p)
           \/ \E k \in Conn : StopIdle(k)
           \/ \E s \in Source : CaptureFailed(s)
  BY <1>4, RemoveSessionStep, ReconcileSteps, DisturbSteps
<1>5. CASE UNCHANGED mediaVars
  <2>1. UNCHANGED <<conn, online, sessions, created, owner, pending, preview, wsAudio, capture, videoProfile, hold,
                    crashed, disturbed>>
    BY <1>5 DEF mediaVars
  <2>2. HoldIsLawful' /\ TargetIsCurrent' /\ \A s \in Source : Reconciling(s)' <=> Reconciling(s) BY <2>1, AimStays
  <2>3. \A s \in Source : VideoSessions(s)' = VideoSessions(s) BY <2>1, SessionsSame
  <2>4. MediaTypeOK' BY <2>1 DEF MediaIndInv, MediaTypeOK
  <2>5. ConnIsLawful' BY <2>1 DEF MediaIndInv, ConnIsLawful, MutexFree
  <2>6. ProfilesAgree' BY <2>1, <2>3 DEF MediaIndInv, ProfilesAgree
  <2>7. OfferIsLawful' BY <2>1 DEF MediaIndInv, OfferIsLawful
  <2>8. CaptureSuits' BY <2>1, <2>2, <2>3 DEF MediaIndInv, CaptureSuits
  <2>9. QED BY <2>2, <2>4, <2>5, <2>6, <2>7, <2>8 DEF MediaIndInv
<1>6. QED BY <1>1, <1>2, <1>3, <1>4, <1>5 DEF MediaNext

\* At rest, what is captured is what those who are there need.
LEMMA MediaIsServed == MediaIndInv => MediaInv
<1> SUFFICES ASSUME MediaIndInv PROVE MediaInv OBVIOUS
<1>ty. MediaTypeOK BY DEF MediaIndInv
<1>1. ASSUME NEW s \in Source, Settled(s)
      PROVE  Suits(s, capture[s], VideoSessions(s), preview[conn], wsAudio)
  <2>1. online /\ hold = Released /\ ~crashed /\ ~disturbed[s] /\ pending[conn] = {} BY <1>1 DEF Settled, MutexFree
  <2>2. ~Reconciling(s) BY <2>1, FreeFacts
  <2>3. QED BY <2>1, <2>2 DEF MediaIndInv, CaptureSuits
<1>2. CapturedIffWanted BY <1>1 DEF CapturedIffWanted, Suits, Viewers
<1>3. NeedsAreMet BY <1>1 DEF NeedsAreMet, Suits, Latest
<1>4. NoNeedOutlivesItsViewer
  <2>1. SUFFICES ASSUME NEW s \in Source, Settled(s), capture[s] # Nothing,
                        NEW wishes, wishes = {v.options : v \in VideoSessions(s)}
                          \cup (IF s = "display" THEN {preview[conn], wsAudio} \ {Nothing} ELSE {})
                 PROVE  /\ capture[s].awake => (\E o \in wishes : o.awake) \/ (s = "display" /\ wsAudio # Nothing)
                        /\ capture[s].audio => (\E o \in wishes : o.audio) \/ (s = "display" /\ wsAudio # Nothing)
    BY DEF NoNeedOutlivesItsViewer
  <2>2. Suits(s, capture[s], VideoSessions(s), preview[conn], wsAudio) BY <1>1, <2>1
  <2>3. \A v \in VideoSessions(s) : v.options \in wishes BY <2>1
  <2>4. s = "display" /\ preview[conn] # Nothing => preview[conn] \in wishes BY <2>1
  <2>5. QED BY <2>1, <2>2, <2>3, <2>4 DEF Suits
<1>5. NoCaptureOffline BY DEF MediaIndInv, ConnIsLawful, NoCaptureOffline
<1>6. QED BY <1>ty, <1>2, <1>3, <1>4, <1>5 DEF MediaInv

\* A source is captured exactly while somebody is there who wants it, with what
\* those who are there need and nothing that only departed viewers asked for,
\* however the callbacks of peer connections, the messages of the server and
\* failures of the capture interleave with the manager's handlers (media.go,
\* webrtc.go); and nothing is captured between two connections.
THEOREM CaptureServesViewers == MediaSpec => []MediaInv
<1>1. MediaInit => MediaIndInv BY MediaStarts
<1>2. MediaIndInv /\ [MediaNext]_mediaVars => MediaIndInv' BY MediaSteps
<1>3. MediaIndInv => MediaInv BY MediaIsServed
<1>4. QED BY <1>1, <1>2, <1>3, PTL DEF MediaSpec
=============================================================================
