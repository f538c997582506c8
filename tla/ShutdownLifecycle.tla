------------------------- MODULE ShutdownLifecycle --------------------------
(***************************************************************************)
(* What the shutdown controller promises to those who await the end of a   *)
(* shutdown: one reason, a completion that is never taken back, and that   *)
(* reason, after the completion, for everyone who asks.                    *)
(***************************************************************************)
CONSTANT None, Reason, Waiter

VARIABLE
    phase,    \* "running", "triggered" or "completed"
    why,      \* the reason
    answers   \* what each waiter was told

lifecycleVars == <<phase, why, answers>>

LifecycleInit ==
    /\ phase = "running"
    /\ why = None
    /\ answers = [w \in Waiter |-> None]

Trigger(r) ==
    /\ phase = "running"
    /\ phase' \in {"triggered", "completed"}
    /\ why' = r
    /\ UNCHANGED answers

Complete ==
    /\ phase = "triggered"
    /\ phase' = "completed"
    /\ UNCHANGED <<why, answers>>

Answer(w) ==
    /\ phase = "completed"
    /\ answers[w] = None
    /\ answers' = [answers EXCEPT ![w] = why]
    /\ UNCHANGED <<phase, why>>

LifecycleNext ==
    \/ \E r \in Reason : Trigger(r)
    \/ Complete
    \/ \E w \in Waiter : Answer(w)

LifecycleSpec == LifecycleInit /\ [][LifecycleNext]_lifecycleVars
=============================================================================
