---------------------------- MODULE DeployerScan ----------------------------
(***************************************************************************)
(* The scan loop of the adb-deployer (src/adb-deployer/internal/deployer). *)
(* In host mode every USB phone has a worker that keeps a Linux Agent      *)
(* process running for it; in device mode a deployment puts the agent on   *)
(* the phone and starts it there.  A scan looks at the list of phones,     *)
(* which is old by the time it is acted on, while workers run, fail, back  *)
(* off and end on their own.  What the agents then do with the control     *)
(* plane is in Enrollment.                                                 *)
(***************************************************************************)
EXTENDS Integers, Sequences, FiniteSets

CONSTANTS
    Serial,      \* phones
    MaxWorkers,  \* bound: goroutines started in a mode
    MaxUnplugs,  \* bound: unplugged cables
    Idle         \* no scan in progress

Modes == {"host", "device"}

ASSUME DeployerAssumption ==
    IsFiniteSet(Serial) /\ MaxWorkers \in [Modes -> Nat] /\ MaxUnplugs \in Nat

VARIABLES
    mode,       \* configuration: agents run on the host or on the phones
    force,      \* configuration: redeploy healthy agents (device mode)
    attached,   \* phones the ADB server lists
    unplugs,    \* cables unplugged so far
    onPhone,    \* phones on which an agent runs
    scan,       \* Idle or the serials of the scan in progress
    entry,      \* r.hosts (host) or r.busy (device): serial -> worker, 0 for none
    workers,    \* goroutines: serial, live (context), at
    stopping,   \* the context of Run is cancelled
    returned    \* Run has returned

vars == <<mode, force, attached, unplugs, onPhone, scan, entry, workers, stopping, returned>>
settings == <<mode, force>>
world == <<settings, attached, unplugs>>

Worker == [serial: Serial, live: BOOLEAN, at: {"check", "stop", "run", "push", "launch", "wait", "done"}]

\* A Linux Agent process runs for worker w.
Process(w) == mode = "host" /\ workers[w].at = "run"

Init ==
    /\ mode \in Modes /\ force \in BOOLEAN /\ (mode = "host" => ~force)
    /\ attached \in SUBSET Serial
    /\ unplugs = 0
    /\ onPhone \in SUBSET Serial
    /\ scan = Idle
    /\ entry = [s \in Serial |-> 0]
    /\ workers = <<>>
    /\ stopping = FALSE /\ returned = FALSE

At(w, step) == workers[w].at = step
Goto(w, step) == workers' = [workers EXCEPT ![w].at = step]
\* What the loop of a host worker does with a run that is over; a deployment
\* is made once and releases its serial.
Over(w) ==
    /\ Goto(w, IF mode = "host" /\ workers[w].live THEN "wait" ELSE "done")
    /\ entry' = IF mode = "host" THEN entry ELSE [entry EXCEPT ![workers[w].serial] = 0]

-----------------------------------------------------------------------------
\* connectedSerials; an error ends the scan.
Snapshot ==
    /\ scan = Idle /\ ~stopping /\ ~returned
    /\ scan' = attached
    /\ UNCHANGED <<world, onPhone, entry, workers, stopping, returned>>

\* Mutant: a worker that was cancelled is forgotten at once.
MutantReleased(s) == entry[s] # 0 /\ (At(entry[s], "done") \/ ~workers[entry[s]].live)

\* Mutant: the entry of a worker that has ended is kept.
MutantForgotten(s) == FALSE

\* A host worker is forgotten when it has ended, not when it was cancelled.
Released(s) == entry[s] # 0 /\ At(entry[s], "done")

Wanted == {s \in scan : entry[s] = 0 \/ (mode = "host" /\ Released(s))}

\* The worker that is started for serial s.
Started(order, s) == Len(workers) + CHOOSE i \in DOMAIN order : order[i] = s

\* reconcileHosts, or acquire and go for every serial: workers of missing phones
\* are cancelled, phones without a worker get one.
Reconcile ==
    /\ scan # Idle
    /\ Len(workers) + Cardinality(Wanted) <= MaxWorkers[mode]
    /\ \E order \in [1..Cardinality(Wanted) -> Wanted] :
         /\ {order[i] : i \in DOMAIN order} = Wanted
         /\ workers' =
              [w \in DOMAIN workers |->
                 IF mode = "host" /\ entry[workers[w].serial] = w /\ workers[w].serial \notin scan
                   THEN [workers[w] EXCEPT !.live = FALSE] ELSE workers[w]]
              \o [i \in DOMAIN order |-> [serial |-> order[i], live |-> ~stopping, at |-> "check"]]
         /\ entry' =
              [s \in Serial |->
                 IF s \in Wanted THEN Started(order, s)
                 ELSE IF mode = "host" /\ Released(s) THEN 0 ELSE entry[s]]
    /\ scan' = Idle
    /\ UNCHANGED <<world, onPhone, stopping, returned>>

-----------------------------------------------------------------------------
\* ensureAgent: a healthy agent is left alone.  An agent that runs may fail the
\* check all the same: it has no identity yet, or the shell is slow.
Healthy(w) ==
    /\ At(w, "check") /\ mode = "device"
    /\ ~force /\ workers[w].serial \in onPhone \cap attached /\ workers[w].live
    /\ Over(w)
    /\ UNCHANGED <<world, onPhone, scan, stopping, returned>>

\* Mutant: the old agent is stopped first.
MutantChecked(w) ==
    /\ onPhone' = onPhone \ {workers[w].serial}
    /\ Goto(w, "stop")
    /\ UNCHANGED entry

Checked(w) == Goto(w, "stop") /\ UNCHANGED <<onPhone, entry>>

\* Artifacts, shell or ABI, and the enrollment token are looked at; any may fail.
CheckPasses(w) ==
    /\ At(w, "check") /\ workers[w].live /\ workers[w].serial \in attached
    /\ Checked(w)
    /\ UNCHANGED <<world, scan, stopping, returned>>

CheckFails(w) ==
    /\ At(w, "check")
    /\ Over(w)
    /\ UNCHANGED <<world, onPhone, scan, stopping, returned>>

\* stopAgent: the pid file's process, or any of that name, is killed.  The script
\* answers 0 also when its signals reached nobody; the model takes it that the
\* agent belongs to the shell's user, as one the deployer launched does, and that
\* the kill -9 which ends the script's three seconds works.
StopAgent(s) == onPhone' = onPhone \ {s}

StopOld(w) ==
    /\ At(w, "stop") /\ workers[w].live /\ workers[w].serial \in attached
    /\ StopAgent(workers[w].serial)
    /\ Goto(w, IF mode = "host" THEN "run" ELSE "push")
    /\ UNCHANGED <<world, entry, scan, stopping, returned>>

\* The shell fails, perhaps after its kill; or the log cannot be opened afterwards.
StopFails(w) ==
    /\ At(w, "stop")
    /\ onPhone' \in {onPhone, onPhone \ {workers[w].serial}}
    /\ Over(w)
    /\ UNCHANGED <<world, scan, stopping, returned>>

\* command.Run returns: the agent exits, loses its phone, or was told to.
ProcessEnds(w) ==
    /\ At(w, "run")
    /\ Over(w)
    /\ UNCHANGED <<world, onPhone, scan, stopping, returned>>

\* The delay of hostLoop is over, or its context is.
Retry(w) ==
    /\ At(w, "wait")
    /\ Goto(w, IF workers[w].live THEN "check" ELSE "done")
    /\ UNCHANGED <<world, onPhone, scan, entry, stopping, returned>>

Push(w) ==
    /\ At(w, "push") /\ workers[w].live /\ workers[w].serial \in attached
    /\ Goto(w, "launch")
    /\ UNCHANGED <<world, onPhone, scan, entry, stopping, returned>>

PushFails(w) ==
    /\ At(w, "push")
    /\ Over(w)
    /\ UNCHANGED <<world, onPhone, scan, stopping, returned>>

\* The launching shell returns, fails or runs into its deadline; whether the
\* agent runs is another question, which the next scan asks.
Launch(w) ==
    /\ At(w, "launch")
    /\ \E runs \in BOOLEAN :
         onPhone' = IF runs /\ workers[w].serial \in attached THEN onPhone \cup {workers[w].serial}
                                                              ELSE onPhone
    /\ Over(w)
    /\ UNCHANGED <<world, scan, stopping, returned>>

LaunchWorks(w) == Launch(w) /\ workers[w].serial \in onPhone'

-----------------------------------------------------------------------------
Plug(s) ==
    /\ s \notin attached
    /\ attached' = attached \cup {s}
    /\ UNCHANGED <<settings, unplugs, onPhone, scan, entry, workers, stopping, returned>>

\* An unplugged phone may have been rebooted.
Unplug(s) ==
    /\ s \in attached /\ unplugs < MaxUnplugs
    /\ attached' = attached \ {s}
    /\ unplugs' = unplugs + 1
    /\ onPhone' \in {onPhone, onPhone \ {s}}
    /\ UNCHANGED <<settings, scan, entry, workers, stopping, returned>>

\* The context of Run ends, and with it those of its workers; Run waits for them.
Stop ==
    /\ ~stopping
    /\ stopping' = TRUE
    /\ workers' = [w \in DOMAIN workers |-> [workers[w] EXCEPT !.live = FALSE]]
    /\ UNCHANGED <<world, onPhone, scan, entry, returned>>

\* Mutant: Run does not wait for its workers.
MutantReturn ==
    /\ stopping /\ scan = Idle /\ ~returned
    /\ returned' = TRUE
    /\ UNCHANGED <<world, onPhone, scan, entry, workers, stopping>>

Return ==
    /\ stopping /\ scan = Idle /\ ~returned
    /\ \A w \in DOMAIN workers : At(w, "done")
    /\ returned' = TRUE
    /\ UNCHANGED <<world, onPhone, scan, entry, workers, stopping>>

Works(w) == Healthy(w) \/ CheckPasses(w) \/ StopOld(w) \/ Push(w) \/ LaunchWorks(w)
Goes(w) ==
    \/ Works(w) \/ CheckFails(w) \/ StopFails(w) \/ ProcessEnds(w) \/ Retry(w) \/ PushFails(w)
    \/ Launch(w)

Next ==
    \/ Snapshot \/ Reconcile \/ Stop \/ Return
    \/ \E s \in Serial : Plug(s) \/ Unplug(s)
    \/ \E w \in DOMAIN workers : Goes(w)

Spec == Init /\ [][Next]_vars

\* The ticker goes on, goroutines go on, an agent that is told to end ends
\* (SIGTERM, and the kill after WaitDelay).
Fairness ==
    /\ WF_vars(Snapshot) /\ WF_vars(Reconcile) /\ WF_vars(Return)
    /\ \A w \in 1..MaxWorkers["host"] :
         WF_vars(w \in DOMAIN workers /\ (workers[w].at # "run" \/ ~workers[w].live) /\ Goes(w))
FairSpec == Spec /\ Fairness

\* What is tried again and again works in the end.
LuckySpec ==
    FairSpec /\ \A s \in Serial : /\ SF_vars(entry[s] # 0 /\ CheckPasses(entry[s]))
                                 /\ SF_vars(entry[s] # 0 /\ StopOld(entry[s]))

-----------------------------------------------------------------------------
TypeOK ==
    /\ attached \subseteq Serial /\ onPhone \subseteq Serial
    /\ scan = Idle \/ scan \subseteq Serial
    /\ entry \in [Serial -> 0..Len(workers)]
    /\ workers \in Seq(Worker)
    /\ \A s \in Serial : entry[s] # 0 => workers[entry[s]].serial = s
    /\ stopping \in BOOLEAN /\ returned \in BOOLEAN

\* A phone has one worker at a time, also when it is unplugged and plugged in
\* again before its cancelled worker has ended ("reconnect started a second
\* worker before the previous one exited"), and one agent: never two processes,
\* never one here and one on the phone.
OneAgentPerPhone ==
    \A s \in Serial :
       /\ Cardinality({w \in DOMAIN workers : workers[w].serial = s /\ ~At(w, "done")}) <= 1
       /\ s \in onPhone => ~\E w \in DOMAIN workers : workers[w].serial = s /\ Process(w)

\* The invariant of the scan loop: entries belong to their phones, which have one
\* worker and one agent each.
ScanInv == TypeOK /\ OneAgentPerPhone

\* An agent on a phone is stopped by a worker that has passed its checks, or with
\* its phone ("Artifacts and credentials are checked before stopping the old
\* mode"; "credential rejection stopped or modified the device").
CheckedBeforeStopping ==
    [][\A s \in Serial : s \in onPhone /\ s \notin onPhone' =>
         \/ s \notin attached'
         \/ \E w \in DOMAIN workers : workers[w].serial = s /\ At(w, "stop")]_vars

\* Run waits for its workers, and they end: no agent process outlives the
\* deployer.  (Deployments are bounded here, so this is about the host mode.)
StopCompletes ==
    mode = "host" => /\ stopping ~> returned
                     /\ [](returned => \A w \in DOMAIN workers : ~Process(w))

\* A phone that stays plugged in is served for good, whatever worker it had when
\* it was last unplugged: again and again, an agent process of a worker whose
\* context is alive runs for it.  A process of before the cable was pulled does
\* not count, and one that exits is followed by another.
PluggedPhoneIsServed ==
    mode = "host" =>
      \A s \in Serial :
         <>[](s \in attached /\ ~stopping) =>
           []<>(\E w \in DOMAIN workers : workers[w].serial = s /\ workers[w].live /\ Process(w))
=============================================================================
