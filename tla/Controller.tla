----------------------------- MODULE Controller -----------------------------
(***************************************************************************)
(* The shutdown controller of src/shutdown.rs: the state behind its mutex  *)
(* and what is done to it under one lock.  A waker is the task it wakes;   *)
(* scheduled is the run queue of the tokio runtime, to which wake adds.    *)
(* The modules that extend this one are its users.                         *)
(***************************************************************************)
EXTENDS Naturals, FiniteSets

CONSTANT
    None,     \* Option::None
    Reason    \* shutdown reasons

ASSUME ReasonAssumption == None \notin Reason

VARIABLE
    reason,                \* why shutdown is happening, or None
    delay_tokens,          \* count of the delay tokens in existence
    on_shutdown_trigger,   \* wakers of the tasks in Signal
    on_shutdown_complete,  \* wakers of the tasks in Completed
    scheduled              \* tasks the runtime is to poll

controllerVars ==
    <<reason, delay_tokens, on_shutdown_trigger, on_shutdown_complete, scheduled>>

ControllerInit ==
    /\ reason = None
    /\ delay_tokens = 0
    /\ on_shutdown_trigger = {}
    /\ on_shutdown_complete = {}

is_shutdown_completed == reason # None /\ delay_tokens = 0

\* Wakers taken from on_shutdown_complete by an operation that leaves n tokens.
MutNotifiesOnce(n) == IF n = 0 /\ reason = None THEN on_shutdown_complete ELSE {}
CompletionWakers(n) == IF n = 0 THEN on_shutdown_complete ELSE {}

\* A second reason is refused and changes nothing.
MutCompletionNotNotified(r) ==
    \/ /\ reason = None
       /\ reason' = r
       /\ on_shutdown_trigger' = {}
       /\ scheduled' = scheduled \cup on_shutdown_trigger
       /\ UNCHANGED <<delay_tokens, on_shutdown_complete>>
    \/ reason # None /\ UNCHANGED controllerVars

shutdown(r) ==
    \/ /\ reason = None
       /\ reason' = r
       /\ on_shutdown_trigger' = {}
       /\ on_shutdown_complete' = on_shutdown_complete \ CompletionWakers(delay_tokens)
       /\ scheduled' = scheduled \cup on_shutdown_trigger
                                 \cup CompletionWakers(delay_tokens)
       /\ UNCHANGED delay_tokens
    \/ reason # None /\ UNCHANGED controllerVars

increment_delay_tokens ==
    /\ delay_tokens' = delay_tokens + 1
    /\ UNCHANGED <<reason, on_shutdown_trigger, on_shutdown_complete, scheduled>>

\* The subtraction saturates.
decrement_delay_tokens ==
    LET left == IF delay_tokens = 0 THEN 0 ELSE delay_tokens - 1
    IN  /\ delay_tokens' = left
        /\ scheduled' = scheduled \cup CompletionWakers(left)
        /\ on_shutdown_complete' = on_shutdown_complete \ CompletionWakers(left)
        /\ UNCHANGED <<reason, on_shutdown_trigger>>

MutDelayAfterCompletion == increment_delay_tokens

\* Controller::delay_token when it returns a token; the error changes nothing.
delay_token ==
    /\ ~ is_shutdown_completed
    /\ increment_delay_tokens

MutSignalNotRegistered(t) == reason = None /\ UNCHANGED controllerVars

\* Signal::poll in task t while no shutdown is triggered.
SignalPending(t) ==
    /\ reason = None
    /\ on_shutdown_trigger' = on_shutdown_trigger \cup {t}
    /\ UNCHANGED <<reason, delay_tokens, on_shutdown_complete, scheduled>>

\* Completed::poll in task t while the shutdown is not completed.
CompletedPending(t) ==
    /\ ~ is_shutdown_completed
    /\ on_shutdown_complete' = on_shutdown_complete \cup {t}
    /\ UNCHANGED <<reason, delay_tokens, on_shutdown_trigger, scheduled>>

\* The runtime starts to poll task t.  A wake-up that comes while the task runs
\* schedules it again.
StartPoll(t) ==
    /\ t \in scheduled
    /\ scheduled' = scheduled \ {t}
    /\ UNCHANGED <<reason, delay_tokens, on_shutdown_trigger, on_shutdown_complete>>

\* What a task awaits besides the controller makes progress and wakes it.
Wake(t) ==
    /\ t \notin scheduled
    /\ scheduled' = scheduled \cup {t}
    /\ UNCHANGED <<reason, delay_tokens, on_shutdown_trigger, on_shutdown_complete>>
=============================================================================
