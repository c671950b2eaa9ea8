--------------------------- MODULE TaskLifecycle ---------------------------
(***************************************************************************)
(* What the batch-task path promises its user, without sockets, handlers,  *)
(* claims or agents: a task is handed to a device at most once and then    *)
(* runs at most once; the status the API shows moves along a few edges and *)
(* reports only outcomes that happened; a restart of the control plane     *)
(* goes back to the stored status.  TaskRefinement shows that TaskDispatch *)
(* implements this specification.                                          *)
(***************************************************************************)
EXTENDS Integers

CONSTANTS Task, Device

Outcome == {"success", "failed"}
Given == {"leased", "running", "unknown"}   \* leased, and not known to be finished
Open == {"queued", "expired"}               \* never leased

VARIABLES
    phase,   \* the status shown for a task on a device
    stored,  \* the status a restart would show
    handed,  \* tasks that were handed to a device
    ran      \* outcomes the devices produced

vars == <<phase, stored, handed, ran>>

Init ==
    /\ phase = [t \in Task |-> [d \in Device |-> "none"]]
    /\ stored = phase
    /\ handed = {}
    /\ ran = {}

\* The edges a status may move along.  A lost device makes a task unknown, and
\* its late report makes it known again.
Edge(t, d, old, new) ==
    \/ old = "none" /\ new = "queued" /\ stored[t][d] = "none"
    \/ old = "queued" /\ new \in {"leased", "expired"}
    \/ old \in {"leased", "running"} /\ new = "unknown"
    \/ old \in Given /\ new = "running" /\ <<t, d>> \in handed
    \/ old \in Given /\ new \in Outcome /\ <<t, d, new>> \in ran

\* Submission, lease, report, loss of the device, expiry.
Move ==
    /\ phase' # phase
    /\ \A t \in Task, d \in Device :
         \/ phase'[t][d] = phase[t][d]
         \/ Edge(t, d, phase[t][d], phase'[t][d])
    /\ UNCHANGED <<stored, handed, ran>>

\* A task is handed over once, when no store offers it to anybody any more.
HandOver(t, d) ==
    /\ <<t, d>> \notin handed
    /\ phase[t][d] \in Given
    /\ stored[t][d] \notin Open
    /\ handed' = handed \cup {<<t, d>>}
    /\ UNCHANGED <<phase, stored, ran>>

\* What was handed over runs, and ends once.
Run(t, d, outcome) ==
    /\ <<t, d>> \in handed
    /\ \A o \in Outcome : <<t, d, o>> \notin ran
    /\ ran' = ran \cup {<<t, d, outcome>>}
    /\ UNCHANGED <<phase, stored, handed>>

Save ==
    /\ stored' = phase
    /\ UNCHANGED <<phase, handed, ran>>

Restart ==
    /\ phase' = stored
    /\ UNCHANGED <<stored, handed, ran>>

Next ==
    \/ Move \/ Save \/ Restart
    \/ \E t \in Task, d \in Device : HandOver(t, d)
    \/ \E t \in Task, d \in Device, outcome \in Outcome : Run(t, d, outcome)

Spec == Init /\ [][Next]_vars
=============================================================================
