------------------------------ MODULE Shutdown ------------------------------
(***************************************************************************)
(* Every use the shutdown controller allows: delay tokens taken, cloned    *)
(* and dropped, trigger tokens taken, cloned, dropped and forgotten,       *)
(* futures wrapped with_cancel, and tasks that await completed_shutdown.   *)
(* A future wrapped with_delay or with_trigger is a token that is dropped  *)
(* when the future completes or is dropped.                                *)
(***************************************************************************)
EXTENDS Controller

CONSTANT
    Token,      \* delay tokens
    Task,       \* tasks that run a future with_cancel
    Waiter,     \* tasks that await completed_shutdown
    MaxClones   \* bound: trigger tokens alive with one reason

ASSUME UsersAssumption ==
    /\ Task \cap Waiter = {}
    /\ IsFiniteSet(Token)
    /\ MaxClones \in Nat

VARIABLE
    tokens,     \* delay tokens alive
    triggers,   \* how many trigger tokens are alive, by reason
    shared,     \* the Option behind the trigger tokens of a reason
    dropped,    \* reasons of which a trigger token was dropped (history)
    cancel,     \* state of the WithCancel future of each task
    polling,    \* waiters in the middle of a poll
    completed   \* value of the Completed future of each waiter

vars == <<controllerVars, tokens, triggers, shared, dropped, cancel, polling, completed>>
tokenVars == <<triggers, shared, dropped>>

Init ==
    /\ ControllerInit
    /\ scheduled = Task \cup Waiter
    /\ tokens = {}
    /\ triggers = [r \in Reason |-> 0]
    /\ shared = [r \in Reason |-> "none"]
    /\ dropped = {}
    /\ cancel = [t \in Task |-> "pending"]
    /\ polling = {}
    /\ completed = [w \in Waiter |-> None]
-----------------------------------------------------------------------------
trigger_shutdown(r) ==
    /\ shutdown(r)
    /\ UNCHANGED <<tokens, tokenVars, cancel, polling, completed>>

TakeDelay(d) ==
    /\ d \notin tokens
    /\ delay_token
    /\ tokens' = tokens \cup {d}
    /\ UNCHANGED <<tokenVars, cancel, polling, completed>>

MutCloneNotCounted(d, e) ==
    /\ d \in tokens /\ e \notin tokens
    /\ tokens' = tokens \cup {e}
    /\ UNCHANGED <<controllerVars, tokenVars, cancel, polling, completed>>

\* The token d is cloned; the clone is e.
CloneDelay(d, e) ==
    /\ d \in tokens /\ e \notin tokens
    /\ increment_delay_tokens
    /\ tokens' = tokens \cup {e}
    /\ UNCHANGED <<tokenVars, cancel, polling, completed>>

DropDelay(d) ==
    /\ d \in tokens
    /\ decrement_delay_tokens
    /\ tokens' = tokens \ {d}
    /\ UNCHANGED <<tokenVars, cancel, polling, completed>>

trigger_token(r) ==
    /\ shared[r] = "none"
    /\ shared' = [shared EXCEPT ![r] = "some"]
    /\ triggers' = [triggers EXCEPT ![r] = 1]
    /\ UNCHANGED <<controllerVars, tokens, dropped, cancel, polling, completed>>

CloneTrigger(r) ==
    /\ triggers[r] \in 1..(MaxClones - 1)
    /\ triggers' = [triggers EXCEPT ![r] = @ + 1]
    /\ UNCHANGED <<controllerVars, tokens, shared, dropped, cancel, polling, completed>>

MutLastCloneTriggers(r) ==
    /\ triggers[r] > 0
    /\ triggers' = [triggers EXCEPT ![r] = @ - 1]
    /\ dropped' = dropped \cup {r}
    /\ \/ triggers[r] = 1 /\ shutdown(r)
       \/ triggers[r] # 1 /\ UNCHANGED controllerVars
    /\ UNCHANGED <<tokens, shared, cancel, polling, completed>>

\* The first drop among the clones takes the reason and triggers.
DropTrigger(r) ==
    /\ triggers[r] > 0
    /\ triggers' = [triggers EXCEPT ![r] = @ - 1]
    /\ shared' = [shared EXCEPT ![r] = "taken"]
    /\ dropped' = dropped \cup {r}
    /\ \/ shared[r] = "some" /\ shutdown(r)
       \/ shared[r] = "taken" /\ UNCHANGED controllerVars
    /\ UNCHANGED <<tokens, cancel, polling, completed>>

forget(r) ==
    /\ triggers[r] > 0
    /\ triggers' = [triggers EXCEPT ![r] = @ - 1]
    /\ UNCHANGED <<controllerVars, tokens, shared, dropped, cancel, polling, completed>>
-----------------------------------------------------------------------------
\* WithCancel::poll first polls the wrapped future ...
PollFuture(t) ==
    /\ cancel[t] = "pending"
    /\ StartPoll(t)
    /\ \E s \in {"ok", "polled"} : cancel' = [cancel EXCEPT ![t] = s]
    /\ UNCHANGED <<tokens, tokenVars, polling, completed>>

\* ... and, when it is pending, the signal.  The lock is taken only here.
PollSignal(t) ==
    /\ cancel[t] = "polled"
    /\ \/ /\ SignalPending(t)
          /\ cancel' = [cancel EXCEPT ![t] = "pending"]
       \/ /\ reason # None
          /\ cancel' = [cancel EXCEPT ![t] = "err"]
          /\ UNCHANGED controllerVars
    /\ UNCHANGED <<tokens, tokenVars, polling, completed>>

FutureWakes(t) ==
    /\ cancel[t] \in {"pending", "polled"}
    /\ Wake(t)
    /\ UNCHANGED <<tokens, tokenVars, cancel, polling, completed>>

\* A waiter is resumed, and polls Completed under the lock.
ResumeWaiter(w) ==
    /\ completed[w] = None
    /\ w \notin polling
    /\ StartPoll(w)
    /\ polling' = polling \cup {w}
    /\ UNCHANGED <<tokens, tokenVars, cancel, completed>>

PollCompleted(w) ==
    /\ w \in polling
    /\ polling' = polling \ {w}
    /\ \/ CompletedPending(w) /\ UNCHANGED completed
       \/ /\ is_shutdown_completed
          /\ completed' = [completed EXCEPT ![w] = reason]
          /\ UNCHANGED controllerVars
    /\ UNCHANGED <<tokens, tokenVars, cancel>>

Next ==
    \/ \E r \in Reason : trigger_shutdown(r)
    \/ \E d \in Token : TakeDelay(d)
    \/ \E d, e \in Token : CloneDelay(d, e)
    \/ \E d \in Token : DropDelay(d)
    \/ \E r \in Reason : trigger_token(r)
    \/ \E r \in Reason : CloneTrigger(r)
    \/ \E r \in Reason : DropTrigger(r)
    \/ \E r \in Reason : forget(r)
    \/ \E t \in Task : PollFuture(t)
    \/ \E t \in Task : PollSignal(t)
    \/ \E t \in Task : FutureWakes(t)
    \/ \E w \in Waiter : ResumeWaiter(w)
    \/ \E w \in Waiter : PollCompleted(w)

Spec == Init /\ [][Next]_vars

\* The runtime polls what is scheduled, and a poll once begun ends.
FairSpec ==
    /\ Spec
    /\ \A t \in Task : WF_vars(PollFuture(t)) /\ WF_vars(PollSignal(t))
    /\ \A w \in Waiter : WF_vars(ResumeWaiter(w)) /\ WF_vars(PollCompleted(w))
-----------------------------------------------------------------------------
\* The fields of the controller and its users hold what their types allow; in
\* particular delay_tokens never exceeds the tokens there can be.
TypeOK ==
    /\ reason \in Reason \cup {None}
    /\ delay_tokens \in Nat /\ delay_tokens <= Cardinality(Token)
    /\ on_shutdown_trigger \subseteq Task
    /\ on_shutdown_complete \subseteq Waiter
    /\ scheduled \subseteq Task \cup Waiter
    /\ tokens \subseteq Token
    /\ triggers \in [Reason -> Nat]
    /\ shared \in [Reason -> {"none", "some", "taken"}]
    /\ dropped \subseteq Reason
    /\ cancel \in [Task -> {"pending", "polled", "ok", "err"}]
    /\ polling \subseteq Waiter
    /\ completed \in [Waiter -> Reason \cup {None}]

\* delay_tokens is "Count of all delay tokens in existence" (shutdown.rs:175):
\* takes, clones and drops in any order keep it exact, so that the saturating
\* subtraction of decrement_delay_tokens never hides a lost count.
TokensCounted == delay_tokens = Cardinality(tokens)

\* No wake-up is lost between a poll and a trigger or a last drop: a task that
\* sleeps in WithCancel is registered and there is no shutdown, and a task that
\* sleeps in Completed is registered and the shutdown is not completed.
NoLostWakeup ==
    /\ \A t \in Task : (cancel[t] = "pending" /\ t \notin scheduled)
                         => (reason = None /\ t \in on_shutdown_trigger)
    /\ \A w \in Waiter : (completed[w] = None /\ w \notin scheduled \cup polling)
                         => (~ is_shutdown_completed /\ w \in on_shutdown_complete)

\* "Dropping any cloned tokens triggers the shutdown process, regardless of the
\* existence of other clones" (shutdown.rs:275), forgotten ones included.
DropTriggers == dropped # {} => reason # None

Phase ==
    IF reason = None THEN "running"
    ELSE IF delay_tokens = 0 THEN "completed"
    ELSE "triggered"

Lifecycle ==
    INSTANCE ShutdownLifecycle WITH phase <- Phase, why <- reason, answers <- completed

\* The controller implements its life cycle: the first reason stays, a completed
\* shutdown is never delayed again (delay_token refuses, and there is no token
\* left to clone), and completed_shutdown resolves only then, with that reason.
LifecycleRefinement == Lifecycle!LifecycleSpec

\* "This will make all Signal and WithCancel futures to be resolved": every task
\* of a with_cancel ends once the shutdown is triggered.
CancelReaches ==
    \A t \in Task : (reason # None) ~> (cancel[t] \in {"ok", "err"})

\* Every task in completed_shutdown is resumed once the last delay is gone.
CompletionIsSeen ==
    \A w \in Waiter : is_shutdown_completed ~> (completed[w] # None)
-----------------------------------------------------------------------------
\* Inductive strengthening of the life cycle: the count is exact, whoever was
\* told of the completion was told after it, and a trigger token that gave its
\* reason away has triggered.
IInv ==
    /\ TypeOK
    /\ TokensCounted
    /\ \A w \in Waiter : completed[w] # None => is_shutdown_completed
    /\ \A w \in polling : completed[w] = None
    /\ \A r \in Reason : shared[r] = "taken" => reason # None
    /\ DropTriggers
=============================================================================
