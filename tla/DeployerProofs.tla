--------------------------- MODULE DeployerProofs ---------------------------
(***************************************************************************)
(* Proofs about the scan loop of the adb-deployer (DeployerScan).  The     *)
(* argument: a worker that has not ended is the entry of its phone, from   *)
(* the scan that starts it to the step in which it ends, because only      *)
(* phones without a worker, or whose worker has ended, are wanted.  So a   *)
(* phone has one worker, and in host mode that worker has stopped the      *)
(* agent on the phone before it runs its own.                              *)
(***************************************************************************)
EXTENDS DeployerScan, FiniteSetTheorems, TLAPS

\* The steps of the two modes: an agent is run here or is put on the phone.
ModeFitsSteps ==
    /\ mode \in Modes
    /\ \A w \in DOMAIN workers :
         /\ mode = "host" => workers[w].at \notin {"push", "launch"}
         /\ mode = "device" => workers[w].at \notin {"run", "wait"}

\* A worker that has not ended is the entry of its phone.
ActiveIsEntered ==
    \A w \in DOMAIN workers : workers[w].at # "done" => entry[workers[w].serial] = w

\* A phone whose agent runs here has none of its own.
StoppedFirst ==
    \A w \in DOMAIN workers : mode = "host" /\ workers[w].at = "run" => workers[w].serial \notin onPhone

\* The inductive invariant of the scan loop.
ScanIndInv == TypeOK /\ ModeFitsSteps /\ ActiveIsEntered /\ StoppedFirst

\* What steps use of the types.
LEMMA WorkerTypes ==
    ASSUME ScanIndInv
    PROVE  /\ workers \in Seq(Worker) /\ entry \in [Serial -> 0..Len(workers)]
           /\ Len(workers) \in Nat /\ DOMAIN workers = 1..Len(workers)
           /\ \A w \in DOMAIN workers : workers[w] \in Worker /\ workers[w].serial \in Serial
           /\ \A s \in Serial : entry[s] # 0 => entry[s] \in DOMAIN workers /\ workers[entry[s]].serial = s
<1>1. workers \in Seq(Worker) /\ entry \in [Serial -> 0..Len(workers)] BY DEF ScanIndInv, TypeOK
<1>2. Len(workers) \in Nat /\ DOMAIN workers = 1..Len(workers) BY <1>1
<1>3. \A w \in DOMAIN workers : workers[w] \in Worker BY <1>1
<1>4. \A w \in DOMAIN workers : workers[w].serial \in Serial BY <1>3 DEF Worker
<1>5. \A s \in Serial : entry[s] # 0 => entry[s] \in DOMAIN workers /\ workers[entry[s]].serial = s
  BY <1>1, <1>2 DEF ScanIndInv, TypeOK
<1>6. QED BY <1>1, <1>2, <1>3, <1>4, <1>5

\* The inductive invariant gives the one that is checked.
LEMMA ScanIndImplies == ScanIndInv => ScanInv
<1> SUFFICES ASSUME ScanIndInv PROVE OneAgentPerPhone
  BY DEF ScanIndInv, ScanInv
<1> SUFFICES ASSUME NEW s \in Serial
             PROVE  /\ Cardinality({w \in DOMAIN workers : workers[w].serial = s /\ ~At(w, "done")}) <= 1
                    /\ s \in onPhone => ~\E w \in DOMAIN workers : workers[w].serial = s /\ Process(w)
  BY DEF OneAgentPerPhone
<1> DEFINE A == {w \in DOMAIN workers : workers[w].serial = s /\ ~At(w, "done")}
<1>1. A \in SUBSET {entry[s]} BY DEF ScanIndInv, ActiveIsEntered, At
<1>2. IsFiniteSet({entry[s]}) /\ Cardinality({entry[s]}) = 1 BY FS_Singleton
<1>3. Cardinality(A) <= 1
  <2> HIDE DEF A
  <2>1. Cardinality(A) <= Cardinality({entry[s]}) BY <1>1, <1>2, FS_Subset
  <2>2. QED BY <1>2, <2>1
<1>4. s \in onPhone => ~\E w \in DOMAIN workers : workers[w].serial = s /\ Process(w)
  BY DEF ScanIndInv, StoppedFirst, Process
<1>5. QED BY <1>3, <1>4

\* No worker runs at first.
LEMMA ScanStarts == Init => ScanIndInv
<1> SUFFICES ASSUME Init PROVE ScanIndInv
  OBVIOUS
<1>1. workers \in Seq(Worker) /\ Len(workers) = 0 /\ DOMAIN workers = {} BY DEF Init
<1>2. entry \in [Serial -> 0..Len(workers)] /\ \A s \in Serial : entry[s] = 0 BY <1>1 DEF Init
<1>3. TypeOK BY <1>1, <1>2 DEF Init, TypeOK
<1>4. QED BY <1>1, <1>3 DEF Init, ScanIndInv, ModeFitsSteps, ActiveIsEntered, StoppedFirst

\* Worker w goes to a step, and gives its phone's entry back at most when it ends.
Moves(w, step) ==
    /\ workers' = [workers EXCEPT ![w].at = step]
    /\ workers[w].at # "done"
    /\ \/ entry' = entry
       \/ entry' = [entry EXCEPT ![workers[w].serial] = 0] /\ step = "done"
    /\ mode = "host" => step \in {"check", "stop", "run", "wait", "done"} /\ onPhone' \subseteq onPhone
    /\ mode = "device" => step \in {"check", "stop", "push", "launch", "done"}
    /\ step = "run" => workers[w].serial \notin onPhone'
    /\ onPhone' \subseteq onPhone \cup {workers[w].serial}
    /\ UNCHANGED <<mode, attached, scan, stopping, returned>>

\* Such a step keeps the invariant.
LEMMA MoveKeeps ==
    ASSUME ScanIndInv, NEW w \in DOMAIN workers, NEW step, Moves(w, step)
    PROVE  ScanIndInv'
<1> USE WorkerTypes
<1>1. mode' = mode /\ mode \in Modes BY DEF Moves, ScanIndInv, ModeFitsSteps
<1>2. step \in {"check", "stop", "run", "push", "launch", "wait", "done"} BY <1>1 DEF Moves, Modes
<1>3. PICK v : v = [workers[w] EXCEPT !.at = step] OBVIOUS
<1>4. v \in Worker /\ v.serial = workers[w].serial /\ v.at = step BY <1>2, <1>3 DEF Worker
<1>5. /\ workers' \in Seq(Worker) /\ Len(workers') = Len(workers) /\ DOMAIN workers' = DOMAIN workers
      /\ workers'[w] = v /\ \A o \in DOMAIN workers : o # w => workers'[o] = workers[o]
  <2>1. workers' = [workers EXCEPT ![w] = v] BY <1>3 DEF Moves
  <2>2. QED BY <1>4, <2>1
<1>6. \A o \in DOMAIN workers : workers'[o].serial = workers[o].serial BY <1>4, <1>5
<1>7. entry[workers[w].serial] = w BY DEF Moves, ScanIndInv, ActiveIsEntered
<1>8. /\ entry' \in [Serial -> 0..Len(workers)]
      /\ \A s \in Serial : entry'[s] = entry[s] \/ (entry'[s] = 0 /\ step = "done" /\ s = workers[w].serial)
  BY DEF Moves
<1>9. TypeOK'
  <2>1. \A s \in Serial : entry'[s] # 0 => workers'[entry'[s]].serial = s BY <1>6, <1>8
  <2>2. /\ attached' \subseteq Serial /\ onPhone' \subseteq Serial /\ (scan' = Idle \/ scan' \subseteq Serial)
        /\ stopping' \in BOOLEAN /\ returned' \in BOOLEAN
    BY DEF Moves, ScanIndInv, TypeOK
  <2>3. entry' \in [Serial -> 0..Len(workers')] BY <1>5, <1>8
  <2>4. QED BY <1>5, <2>1, <2>2, <2>3 DEF TypeOK
<1>10. ModeFitsSteps' BY <1>1, <1>4, <1>5 DEF Moves, ScanIndInv, ModeFitsSteps
<1>11. ActiveIsEntered'
  <2> SUFFICES ASSUME NEW o \in DOMAIN workers, workers'[o].at # "done"
               PROVE  entry'[workers'[o].serial] = o
    BY <1>5 DEF ActiveIsEntered
  <2>1. CASE o = w BY <1>4, <1>5, <1>7, <1>8, <2>1
  <2>2. CASE o # w
    <3>1. workers'[o] = workers[o] /\ entry[workers[o].serial] = o
      BY <1>5, <2>2 DEF ScanIndInv, ActiveIsEntered
    <3>2. workers[o].serial # workers[w].serial BY <1>7, <2>2, <3>1
    <3>3. QED BY <1>8, <3>1, <3>2
  <2>3. QED BY <2>1, <2>2
<1>12. StoppedFirst'
  <2> SUFFICES ASSUME NEW o \in DOMAIN workers, mode = "host", workers'[o].at = "run"
               PROVE  workers'[o].serial \notin onPhone'
    BY <1>1, <1>5 DEF StoppedFirst
  <2>1. CASE o = w BY <1>4, <1>5, <2>1 DEF Moves
  <2>2. CASE o # w BY <1>5, <2>2 DEF Moves, ScanIndInv, StoppedFirst
  <2>3. QED BY <2>1, <2>2
<1>13. QED BY <1>9, <1>10, <1>11, <1>12 DEF ScanIndInv

\* The end of a run, or of a deployment.
LEMMA OverMoves ==
    ASSUME ScanIndInv, NEW w \in DOMAIN workers, Over(w), workers[w].at # "done",
           onPhone' \subseteq onPhone \cup {workers[w].serial},
           mode = "host" => onPhone' \subseteq onPhone,
           UNCHANGED <<mode, attached, scan, stopping, returned>>
    PROVE  ScanIndInv'
<1>1. PICK step : step = IF mode = "host" /\ workers[w].live THEN "wait" ELSE "done"
  OBVIOUS
<1>2. workers' = [workers EXCEPT ![w].at = step] BY <1>1 DEF Over, Goto
<1>3. \/ entry' = entry
      \/ entry' = [entry EXCEPT ![workers[w].serial] = 0] /\ step = "done"
  BY <1>1 DEF Over
<1>4. Moves(w, step) BY <1>1, <1>2, <1>3 DEF Moves
<1>5. QED BY <1>4, MoveKeeps

\* The steps of a worker.
LEMMA WorkerKeeps ==
    ASSUME ScanIndInv, NEW w \in DOMAIN workers, Goes(w)
    PROVE  ScanIndInv'
<1>0. mode \in Modes /\ (mode = "host" => workers[w].at \notin {"push", "launch"})
      /\ (mode = "device" => workers[w].at \notin {"run", "wait"})
  BY DEF ScanIndInv, ModeFitsSteps
<1>1. CASE Healthy(w)
  BY <1>1, OverMoves DEF Healthy, At, world, settings
<1>2. CASE CheckPasses(w)
  <2>1. Moves(w, "stop") BY <1>2 DEF CheckPasses, Checked, Goto, At, Moves, world, settings
  <2>2. QED BY <2>1, MoveKeeps
<1>3. CASE StopOld(w)
  <2>1. PICK step : step = IF mode = "host" THEN "run" ELSE "push" OBVIOUS
  <2>2. Moves(w, step)
    BY <1>0, <1>3, <2>1 DEF StopOld, StopAgent, Goto, At, Moves, Modes, world, settings
  <2>3. QED BY <2>2, MoveKeeps
<1>4. CASE Push(w)
  <2>1. Moves(w, "launch") BY <1>0, <1>4 DEF Push, Goto, At, Moves, world, settings
  <2>2. QED BY <2>1, MoveKeeps
<1>5. CASE CheckFails(w)
  BY <1>5, OverMoves DEF CheckFails, At, world, settings
<1>6. CASE StopFails(w)
  <2>1. Over(w) /\ workers[w].at # "done" /\ onPhone' \subseteq onPhone
    BY <1>6 DEF StopFails, At
  <2>2. UNCHANGED <<mode, attached, scan, stopping, returned>> BY <1>6 DEF StopFails, world, settings
  <2>3. QED BY <2>1, <2>2, OverMoves
<1>7. CASE ProcessEnds(w)
  BY <1>7, OverMoves DEF ProcessEnds, At, world, settings
<1>8. CASE Retry(w)
  <2>1. PICK step : step = IF workers[w].live THEN "check" ELSE "done" OBVIOUS
  <2>2. Moves(w, step) BY <1>0, <1>8, <2>1 DEF Retry, Goto, At, Moves, world, settings
  <2>3. QED BY <2>2, MoveKeeps
<1>9. CASE PushFails(w)
  BY <1>9, OverMoves DEF PushFails, At, world, settings
<1>10. CASE Launch(w)
  <2>1. Over(w) /\ workers[w].at = "launch" /\ onPhone' \subseteq onPhone \cup {workers[w].serial}
    BY <1>10 DEF Launch, At
  <2>2. UNCHANGED <<mode, attached, scan, stopping, returned>> BY <1>10 DEF Launch, world, settings
  <2>3. mode # "host" BY <1>0, <2>1
  <2>4. QED BY <2>1, <2>2, <2>3, OverMoves
<1>11. QED
  BY <1>1, <1>2, <1>3, <1>4, <1>5, <1>6, <1>7, <1>8, <1>9, <1>10 DEF Goes, Works, LaunchWorks

\* A scan gives every wanted phone one worker: as many are started as phones are
\* wanted, and every wanted phone is among them, so none is started twice.
LEMMA OrderIsInjective ==
    ASSUME NEW W, IsFiniteSet(W), NEW order \in [1..Cardinality(W) -> W],
           {order[i] : i \in DOMAIN order} = W
    PROVE  /\ Cardinality(W) \in Nat
           /\ \A i, j \in 1..Cardinality(W) : order[i] = order[j] => i = j
<1> DEFINE n == Cardinality(W)
<1>1. n \in Nat BY FS_CardinalityType
<1>2. IsFiniteSet(1..n) /\ Cardinality(1..n) = n BY <1>1, FS_Interval
<1>3. order \in Surjection(1..n, W) BY DEF Surjection
<1> HIDE DEF n
<1>4. order \in Injection(1..n, W) BY <1>2, <1>3, FS_SurjSameCardinalityImpliesInj DEF n
<1>5. QED BY <1>1, <1>4 DEF Injection, IsInjective, n

\* A worker whose context is cancelled.
LEMMA CancelledWorker ==
    ASSUME NEW v \in Worker
    PROVE  /\ [v EXCEPT !.live = FALSE] \in Worker
           /\ [v EXCEPT !.live = FALSE].serial = v.serial /\ [v EXCEPT !.live = FALSE].at = v.at
BY DEF Worker

\* The scan itself: workers are cancelled and started.
LEMMA ReconcileKeeps ==
    ASSUME ScanIndInv, Reconcile
    PROVE  ScanIndInv'
<1> USE WorkerTypes
<1> DEFINE n == Len(workers)
           m == Cardinality(Wanted)
<1>1. IsFiniteSet(Wanted) /\ Wanted \subseteq Serial
  <2>1. Wanted \in SUBSET Serial BY DEF Wanted, Reconcile, ScanIndInv, TypeOK
  <2>2. QED BY <2>1, DeployerAssumption, FS_Subset
<1>2. PICK order \in [1..m -> Wanted] :
        /\ {order[i] : i \in DOMAIN order} = Wanted
        /\ workers' =
             [w \in DOMAIN workers |->
                IF mode = "host" /\ entry[workers[w].serial] = w /\ workers[w].serial \notin scan
                  THEN [workers[w] EXCEPT !.live = FALSE] ELSE workers[w]]
             \o [i \in DOMAIN order |-> [serial |-> order[i], live |-> ~stopping, at |-> "check"]]
        /\ entry' =
             [s \in Serial |->
                IF s \in Wanted THEN Started(order, s)
                ELSE IF mode = "host" /\ Released(s) THEN 0 ELSE entry[s]]
  BY DEF Reconcile
<1>3. m \in Nat /\ \A i, j \in 1..m : order[i] = order[j] => i = j
  BY <1>1, <1>2, OrderIsInjective
<1> DEFINE a == [w \in DOMAIN workers |->
                   IF mode = "host" /\ entry[workers[w].serial] = w /\ workers[w].serial \notin scan
                     THEN [workers[w] EXCEPT !.live = FALSE] ELSE workers[w]]
           b == [i \in DOMAIN order |-> [serial |-> order[i], live |-> ~stopping, at |-> "check"]]
<1>4. a \in [1..n -> Worker] /\ \A w \in 1..n : a[w].serial = workers[w].serial /\ a[w].at = workers[w].at
  <2>1. ASSUME NEW w \in 1..n
        PROVE  /\ [workers[w] EXCEPT !.live = FALSE] \in Worker
               /\ [workers[w] EXCEPT !.live = FALSE].serial = workers[w].serial
               /\ [workers[w] EXCEPT !.live = FALSE].at = workers[w].at
    <3>1. workers[w] \in Worker OBVIOUS
    <3>2. QED BY ONLY <3>1, CancelledWorker
  <2>2. QED BY <2>1
<1>5. b \in [1..m -> Worker] /\ \A i \in 1..m : b[i].serial = order[i] /\ b[i].at = "check"
  <2>1. ASSUME NEW i \in 1..m
        PROVE  [serial |-> order[i], live |-> ~stopping, at |-> "check"] \in Worker
    BY <1>1 DEF Worker
  <2>2. DOMAIN order = 1..m BY <1>2
  <2>3. b \in [1..m -> Worker] BY <2>1, <2>2
  <2>4. \A i \in 1..m : b[i] = [serial |-> order[i], live |-> ~stopping, at |-> "check"] BY <2>2
  <2> HIDE DEF b
  <2>5. QED BY <2>3, <2>4
<1>6. /\ workers' \in Seq(Worker) /\ Len(workers') = n + m /\ DOMAIN workers' = 1..(n + m)
      /\ \A w \in 1..n : workers'[w] = a[w]
      /\ \A i \in 1..m : workers'[n + i] = b[i]
  <2>1. workers' = a \o b /\ n \in Nat BY <1>2
  <2> HIDE DEF a, b, n, m
  <2>a. a \in [1..n -> Worker] BY <1>4
  <2>b. b \in [1..m -> Worker] BY <1>5
  <2>2. a \in Seq(Worker) /\ Len(a) = n BY ONLY <2>1, <2>a
  <2>3. b \in Seq(Worker) /\ Len(b) = m BY ONLY <1>3, <2>b
  <2>4. a \o b \in Seq(Worker) /\ Len(a \o b) = n + m
    <3>1. PICK x \in Seq(Worker), y \in Seq(Worker) : x = a /\ y = b BY <2>2, <2>3
    <3>2. x \o y \in Seq(Worker) /\ Len(x \o y) = Len(x) + Len(y) BY ONLY <3>1
    <3>3. QED BY <2>2, <2>3, <3>1, <3>2
  <2>5. DOMAIN (a \o b) = 1..(n + m) BY <2>4
  <2>6. \A i \in 1..n : (a \o b)[i] = a[i] BY <1>3, <2>1, <2>2, <2>3
  <2>7. ASSUME NEW i \in 1..m PROVE (a \o b)[n + i] = b[i]
    <3>1. n + i \in 1..(n + m) /\ n + i > n /\ n + i - n = i BY <1>3, <2>1
    <3>2. QED BY <2>2, <2>3, <3>1
  <2>8. QED BY <2>1, <2>4, <2>5, <2>6, <2>7
<1> HIDE DEF a, b
<1>7. ASSUME NEW s \in Wanted
      PROVE  \E i \in 1..m : order[i] = s /\ entry'[s] = n + i
  <2>1. \E i \in DOMAIN order : order[i] = s BY <1>2
  <2>2. PICK i : i = CHOOSE j \in DOMAIN order : order[j] = s OBVIOUS
  <2>3. i \in DOMAIN order /\ order[i] = s BY <2>1, <2>2
  <2>4. entry'[s] = n + i BY <1>1, <1>2, <2>2 DEF Started
  <2>5. QED BY <1>2, <2>3, <2>4
<1>8. \A s \in Serial \ Wanted : entry'[s] = IF mode = "host" /\ Released(s) THEN 0 ELSE entry[s]
  BY <1>2
<1>9. UNCHANGED <<mode, attached, onPhone, stopping, returned>> /\ scan' = Idle
  BY DEF Reconcile, world, settings
<1>10. TypeOK'
  <2>1. ASSUME NEW s \in Serial
        PROVE  entry'[s] \in 0..(n + m) /\ (entry'[s] # 0 => workers'[entry'[s]].serial = s)
    <3>1. CASE s \in Wanted
      <4>1. PICK i \in 1..m : order[i] = s /\ entry'[s] = n + i BY <1>7, <3>1
      <4>2. workers'[n + i].serial = s BY <1>5, <1>6, <4>1
      <4>3. QED BY <1>3, <4>1, <4>2
    <3>2. CASE s \notin Wanted
      <4>1. entry'[s] = 0 \/ entry'[s] = entry[s] BY <1>8, <3>2
      <4>2. entry[s] # 0 => workers'[entry[s]].serial = s BY <1>4, <1>6
      <4>3. QED BY <1>3, <4>1, <4>2
    <3>3. QED BY <3>1, <3>2
  <2>2. entry' \in [Serial -> 0..Len(workers')] BY <1>2, <1>6, <2>1
  <2>3. attached' \subseteq Serial /\ onPhone' \subseteq Serial /\ stopping' \in BOOLEAN
        /\ returned' \in BOOLEAN
    BY <1>9 DEF ScanIndInv, TypeOK
  <2>4. QED BY <1>6, <1>9, <2>1, <2>2, <2>3 DEF TypeOK
<1>11. ASSUME NEW w \in DOMAIN workers'
       PROVE  \/ w \in 1..n /\ workers'[w].serial = workers[w].serial /\ workers'[w].at = workers[w].at
              \/ \E i \in 1..m : w = n + i /\ workers'[w].serial = order[i] /\ workers'[w].at = "check"
  <2>1. CASE w \in 1..n BY <1>4, <1>6, <2>1
  <2>2. CASE w \notin 1..n
    <3>1. w - n \in 1..m /\ w = n + (w - n) BY <1>3, <1>6, <2>2
    <3>2. QED BY <1>5, <1>6, <3>1
  <2>3. QED BY <2>1, <2>2
<1>12. ModeFitsSteps' BY <1>9, <1>11 DEF ScanIndInv, ModeFitsSteps
<1>13. ActiveIsEntered'
  <2> SUFFICES ASSUME NEW w \in DOMAIN workers', workers'[w].at # "done"
               PROVE  entry'[workers'[w].serial] = w
    BY DEF ActiveIsEntered
  <2>1. CASE w \in 1..n /\ workers'[w].serial = workers[w].serial /\ workers'[w].at = workers[w].at
    <3>1. entry[workers[w].serial] = w /\ w # 0 /\ workers[w].serial \in Serial
      BY <2>1 DEF ScanIndInv, ActiveIsEntered
    <3>2. ~Released(workers[w].serial) BY <2>1, <3>1 DEF Released, At
    <3>3. workers[w].serial \notin Wanted BY <3>1, <3>2 DEF Wanted
    <3>4. QED BY <1>8, <2>1, <3>1, <3>2, <3>3
  <2>2. CASE \E i \in 1..m : w = n + i /\ workers'[w].serial = order[i] /\ workers'[w].at = "check"
    <3>1. PICK i \in 1..m : w = n + i /\ workers'[w].serial = order[i] BY <2>2
    <3>2. order[i] \in Wanted BY <1>2
    <3>3. PICK j \in 1..m : order[j] = order[i] /\ entry'[order[i]] = n + j BY <1>7, <3>2
    <3>4. i = j BY <1>3, <3>3
    <3>5. QED BY <3>1, <3>3, <3>4
  <2>3. QED BY <1>11, <2>1, <2>2
<1>14. StoppedFirst' BY <1>9, <1>11 DEF ScanIndInv, StoppedFirst
<1>15. QED BY <1>10, <1>12, <1>13, <1>14 DEF ScanIndInv

\* Run's context ends, and with it the workers' contexts.
LEMMA StopKeeps ==
    ASSUME ScanIndInv, Stop
    PROVE  ScanIndInv'
<1> USE WorkerTypes
<1>1. \A w \in DOMAIN workers :
        /\ [workers[w] EXCEPT !.live = FALSE] \in Worker
        /\ [workers[w] EXCEPT !.live = FALSE].serial = workers[w].serial
        /\ [workers[w] EXCEPT !.live = FALSE].at = workers[w].at
  <2>1. ASSUME NEW w \in DOMAIN workers
        PROVE  /\ [workers[w] EXCEPT !.live = FALSE] \in Worker
               /\ [workers[w] EXCEPT !.live = FALSE].serial = workers[w].serial
               /\ [workers[w] EXCEPT !.live = FALSE].at = workers[w].at
    <3>1. workers[w] \in Worker OBVIOUS
    <3>2. QED BY ONLY <3>1, CancelledWorker
  <2>2. QED BY <2>1
<1>2. workers' = [w \in DOMAIN workers |-> [workers[w] EXCEPT !.live = FALSE]] BY DEF Stop
<1>3. /\ workers' \in [1..Len(workers) -> Worker] /\ DOMAIN workers' = DOMAIN workers
      /\ \A w \in DOMAIN workers : workers'[w].serial = workers[w].serial /\ workers'[w].at = workers[w].at
  BY <1>1, <1>2
<1>4. workers' \in Seq(Worker) /\ Len(workers') = Len(workers) BY <1>3
<1>5. UNCHANGED <<mode, attached, onPhone, scan, entry, returned>> /\ stopping' = TRUE
  BY DEF Stop, world, settings
<1>6. TypeOK'
  <2>1. \A s \in Serial : entry'[s] # 0 => workers'[entry'[s]].serial = s BY <1>3, <1>5
  <2>2. entry' \in [Serial -> 0..Len(workers')] BY <1>4, <1>5
  <2>3. QED BY <1>4, <1>5, <2>1, <2>2 DEF ScanIndInv, TypeOK
<1>7. QED BY <1>3, <1>5, <1>6 DEF ScanIndInv, ModeFitsSteps, ActiveIsEntered, StoppedFirst

\* What leaves workers and entries alone, and adds no agent to a phone.
LEMMA OutsideKeeps ==
    ASSUME ScanIndInv, UNCHANGED <<mode, entry, workers>>, onPhone' \subseteq onPhone,
           attached' \subseteq Serial, scan' = Idle \/ scan' \subseteq Serial,
           stopping' \in BOOLEAN, returned' \in BOOLEAN
    PROVE  ScanIndInv'
<1>1. TypeOK' BY DEF ScanIndInv, TypeOK
<1>2. QED BY <1>1 DEF ScanIndInv, ModeFitsSteps, ActiveIsEntered, StoppedFirst

\* Every step keeps the invariant.
LEMMA ScanStep == ScanIndInv /\ [Next]_vars => ScanIndInv'
<1> SUFFICES ASSUME ScanIndInv, [Next]_vars PROVE ScanIndInv'
  OBVIOUS
<1>0. /\ attached \subseteq Serial /\ (scan = Idle \/ scan \subseteq Serial)
      /\ stopping \in BOOLEAN /\ returned \in BOOLEAN
  BY DEF ScanIndInv, TypeOK
<1>1. CASE Snapshot BY <1>0, <1>1, OutsideKeeps DEF Snapshot, world, settings
<1>2. CASE Reconcile BY <1>2, ReconcileKeeps
<1>3. CASE Stop BY <1>3, StopKeeps
<1>4. CASE Return BY <1>0, <1>4, OutsideKeeps DEF Return, world, settings
<1>5. ASSUME NEW s \in Serial, Plug(s) PROVE ScanIndInv'
  BY <1>0, <1>5, OutsideKeeps DEF Plug, settings
<1>6. ASSUME NEW s \in Serial, Unplug(s) PROVE ScanIndInv'
  BY <1>0, <1>6, OutsideKeeps DEF Unplug, settings
<1>7. ASSUME NEW w \in DOMAIN workers, Goes(w) PROVE ScanIndInv' BY <1>7, WorkerKeeps
<1>8. CASE UNCHANGED vars BY <1>0, <1>8, OutsideKeeps DEF vars
<1>9. QED BY <1>1, <1>2, <1>3, <1>4, <1>5, <1>6, <1>7, <1>8 DEF Next

(***************************************************************************)
(* A phone has one worker at a time and one agent: for any number of       *)
(* phones, cables and scans, a phone that comes back while its cancelled   *)
(* worker still winds down gets no second one, and no agent process runs   *)
(* for a phone that has an agent of its own.                               *)
(***************************************************************************)
THEOREM OneWorkerPerPhone == Spec => []ScanInv
BY ScanStarts, ScanStep, ScanIndImplies, PTL DEF Spec

(***************************************************************************)
(* An agent on a phone is stopped by a worker that has passed its checks,  *)
(* or goes with its phone.                                                 *)
(***************************************************************************)
THEOREM StopsAreChecked == Spec => CheckedBeforeStopping
<1> DEFINE A == \A s \in Serial : s \in onPhone /\ s \notin onPhone' =>
                   \/ s \notin attached'
                   \/ \E w \in DOMAIN workers : workers[w].serial = s /\ At(w, "stop")
<1>1. ASSUME [Next]_vars PROVE [A]_vars
  <2> SUFFICES ASSUME Next, NEW s \in Serial, s \in onPhone, s \notin onPhone'
               PROVE  \/ s \notin attached'
                      \/ \E w \in DOMAIN workers : workers[w].serial = s /\ At(w, "stop")
    BY <1>1
  <2>1. \/ \E p \in Serial : Unplug(p)
        \/ \E w \in DOMAIN workers : StopOld(w) \/ StopFails(w)
    BY DEF Next, Snapshot, Reconcile, Stop, Return, Plug, Goes, Works, Healthy, CheckPasses, Checked,
       Push, LaunchWorks, CheckFails, ProcessEnds, Retry, PushFails, Launch
  <2>2. ASSUME NEW p \in Serial, Unplug(p) PROVE s \notin attached' BY <2>2 DEF Unplug
  <2>3. ASSUME NEW w \in DOMAIN workers, StopOld(w) \/ StopFails(w)
        PROVE  workers[w].serial = s /\ At(w, "stop")
    BY <2>3 DEF StopOld, StopAgent, StopFails
  <2>4. QED BY <2>1, <2>2, <2>3
<1>2. [Next]_vars => [A]_vars BY <1>1
<1>3. QED BY <1>2, PTL DEF Spec, CheckedBeforeStopping
=============================================================================
