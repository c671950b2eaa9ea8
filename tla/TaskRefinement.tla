--------------------------- MODULE TaskRefinement ---------------------------
(***************************************************************************)
(* TaskDispatch implements TaskLifecycle: the phase of a task is its       *)
(* status in memory, what is stored is the state document, and a task is   *)
(* handed over when task_dispatch is sent.                                 *)
(***************************************************************************)
EXTENDS TaskDispatch

Lifecycle == INSTANCE TaskLifecycle WITH
    phase  <- status,
    stored <- disk.status,
    handed <- {p \in Task \X Device : dispatches[p[1]][p[2]] > 0},
    ran    <- ran

\* Claims, reconnects, restarts, expiry and the writes of the document, in any
\* order, amount to what TaskLifecycle allows: no task is handed over twice or
\* while a restart could offer it again, none runs twice, none is reported as
\* running before it was handed over, nor with an outcome it did not have.
ImplementsLifecycle == Lifecycle!Spec
=============================================================================
