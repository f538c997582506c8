---------------------------- MODULE NodeShutdown ----------------------------
(***************************************************************************)
(* How the avail-light process starts and stops: main of                   *)
(* src/bin/avail-light.rs with the awaits of its run, the P2P event loop   *)
(* that delays the shutdown while it holds a token, the subscription loop  *)
(* and the other tasks, all under one shutdown controller.                 *)
(*                                                                         *)
(* A task is idle, running (a poll of it is under way) or, when it is      *)
(* wrapped with_cancel and the wrapped future is pending, at its signal.   *)
(***************************************************************************)
EXTENDS Controller

CONSTANT
    Main, P2p, Sub,   \* main, the P2P event loop, the subscription loop
    Worker            \* the tasks run spawns at its end

Background == {Sub} \cup Worker
Process == {Main, P2p} \cup Background

ASSUME ProcessAssumption ==
    /\ Main # P2p /\ {Main, P2p} \cap Background = {} /\ Sub \notin Worker

VARIABLE
    stage,       \* where main is
    event_loop,  \* where the P2P event loop is
    listening,   \* the reply to start_listening is there
    at,          \* of each task: "unborn", "idle", "running", "signal" or "ended"
    signalled    \* the user asked for the shutdown

nodeVars == <<controllerVars, stage, event_loop, listening, at, signalled>>
localVars == <<stage, event_loop, listening, at, signalled>>

Ended == {"failed", "exited"}

NodeInit ==
    /\ ControllerInit
    /\ scheduled = {}
    /\ stage = "setup"
    /\ event_loop = "new"
    /\ listening = FALSE
    /\ at = [p \in Process |-> IF p = Main THEN "running" ELSE "unborn"]
    /\ signalled = FALSE

\* tokio::spawn of the tasks ps by main, which goes on to stage s.
Spawn(ps, s) ==
    /\ stage' = s
    /\ at' = [p \in Process |-> IF p \in ps THEN "idle" ELSE at[p]]
    /\ scheduled' = scheduled \cup ps
    /\ UNCHANGED <<reason, delay_tokens, on_shutdown_trigger, on_shutdown_complete,
                   event_loop, listening, signalled>>

Goto(p, where) ==
    /\ at' = [at EXCEPT ![p] = where]
    /\ UNCHANGED <<stage, event_loop, listening, signalled>>

\* main returns, and the runtime drops every task where it is.
End(s) ==
    /\ stage' = s
    /\ at' = [p \in Process |-> "ended"]
    /\ UNCHANGED <<controllerVars, event_loop, listening, signalled>>

\* run returns an error.
Fail == End("failed")

Resume(p) ==
    /\ at[p] = "idle"
    /\ StartPoll(p)
    /\ Goto(p, "running")

\* What p awaits besides the shutdown makes progress.
Progress(p) ==
    /\ at[p] \in {"idle", "running", "signal"}
    /\ Wake(p)
    /\ UNCHANGED localVars
-----------------------------------------------------------------------------
\* Databases, keys and telemetry are set up, and the event loop is spawned.
Setup ==
    /\ stage = "setup"
    /\ Spawn({P2p}, "listen") \/ Fail

\* start_listening returns, with an error of the swarm or not, or fails as the
\* loop that had the command is gone.
Listen ==
    /\ stage = "listen"
    /\ \/ listening /\ (Spawn({}, "connect") \/ Fail)
       \/ at[P2p] = "ended" /\ ~ listening /\ Fail

\* The two awaits of run with_cancel: the connection to a node (after which the
\* subscription loop is spawned) and the first finalized header (after which all
\* other tasks are).
AwaitInRun ==
    /\ stage \in {"connect", "header"}
    /\ at[Main] = "running"
    /\ \/ stage = "connect" /\ Spawn({Sub}, "header")
       \/ stage = "header" /\ Spawn(Worker, "wait")
       \/ Fail
       \/ Goto(Main, "signal") /\ UNCHANGED controllerVars

MainSignal ==
    /\ at[Main] = "signal"
    /\ \/ SignalPending(Main) /\ Goto(Main, "idle")
       \/ reason # None /\ Fail

MutDoesNotWait ==
    /\ stage = "wait"
    /\ at[Main] = "running"
    /\ \/ CompletedPending(Main) /\ Goto(Main, "idle")
       \/ reason # None /\ End("exited")

\* run has returned and main awaits completed_shutdown.
AwaitCompleted ==
    /\ stage = "wait"
    /\ at[Main] = "running"
    /\ \/ CompletedPending(Main) /\ Goto(Main, "idle")
       \/ is_shutdown_completed /\ End("exited")
-----------------------------------------------------------------------------
\* The task of user_signal completes, which drops its trigger token.
UserSignal ==
    /\ ~ signalled /\ stage \notin Ended
    /\ signalled' = TRUE
    /\ \E r \in Reason : shutdown(r)
    /\ UNCHANGED <<stage, event_loop, listening, at>>

\* A task of the background ends: the subscription loop, whose trigger token is
\* then dropped, or a worker, which triggers a shutdown (an error or a panic,
\* through the hook) or just returns; or it is pending.
RunTask(p) ==
    /\ at[p] = "running"
    /\ \/ /\ \E r \in Reason : shutdown(r)
          /\ Goto(p, "ended")
       \/ /\ p # Sub
          /\ UNCHANGED controllerVars
          /\ Goto(p, "ended")
       \/ /\ UNCHANGED controllerVars
          /\ Goto(p, "signal")

TaskSignal(p) ==
    /\ at[p] = "signal"
    /\ \/ SignalPending(p) /\ Goto(p, "idle")
       \/ reason # None /\ UNCHANGED controllerVars /\ Goto(p, "ended")
-----------------------------------------------------------------------------
\* The event loop moves to state s and its task to where.
LoopGoto(s, where) ==
    /\ event_loop' = s
    /\ at' = [at EXCEPT ![P2p] = where]
    /\ UNCHANGED <<stage, listening, signalled>>

\* The first poll takes the delay token, and panics when there is none to take.
\* The panic hook asks for a shutdown, which is refused as there is one.
StartLoop ==
    /\ event_loop = "new" /\ at[P2p] = "running"
    /\ \/ delay_token /\ LoopGoto("select", "running")
       \/ /\ is_shutdown_completed
          /\ UNCHANGED controllerVars
          /\ LoopGoto("panicked", "ended")

\* A swarm event, a command or the bootstrap timer is ready and select! takes it;
\* its handler runs to its end.  Only the command of start_listening, which is
\* answered, changes anything here.
HandleNow ==
    /\ event_loop = "select" /\ at[P2p] = "running"
    /\ listening' = TRUE
    /\ UNCHANGED <<controllerVars, stage, event_loop, at, signalled>>

\* The handler of an event awaits a lock of the metrics.
HandlerSuspends ==
    /\ event_loop = "select" /\ at[P2p] = "running"
    /\ UNCHANGED controllerVars
    /\ LoopGoto("handle", "signal")

\* A suspended handler is polled again.
HandlerResumes ==
    /\ event_loop = "handle" /\ at[P2p] = "running"
    /\ UNCHANGED controllerVars
    /\ LoopGoto("select", "running") \/ LoopGoto("handle", "signal")

\* No branch of select! is ready; triggered_shutdown has registered the task.
SelectPending ==
    /\ event_loop = "select" /\ at[P2p] = "running"
    /\ SignalPending(P2p)
    /\ LoopGoto("select", "signal")

\* select! takes the branch of triggered_shutdown: the loop is left, the peers are
\* disconnected, the token is dropped.
LeaveLoop ==
    /\ event_loop = "select" /\ at[P2p] = "running"
    /\ reason # None
    /\ decrement_delay_tokens
    /\ LoopGoto("left", "ended")

\* The signal of with_cancel around the loop; cancelling drops the loop, and the
\* token with it.
LoopSignal ==
    /\ at[P2p] = "signal"
    /\ \/ SignalPending(P2p) /\ LoopGoto(event_loop, "idle")
       \/ reason # None /\ decrement_delay_tokens /\ LoopGoto("cancelled", "ended")

PollStep(p) ==
    \/ Resume(p)
    \/ p = Main /\ (AwaitInRun \/ MainSignal \/ AwaitCompleted)
    \/ p \in Background /\ (RunTask(p) \/ TaskSignal(p))
    \/ p = P2p /\ (StartLoop \/ SelectPending \/ HandlerResumes \/ LoopSignal)

NodeNext ==
    \/ Setup \/ Listen
    \/ UserSignal
    \/ HandleNow \/ HandlerSuspends \/ LeaveLoop
    \/ \E p \in Process : Progress(p)
    \/ \E p \in Process : PollStep(p)

NodeSpec == NodeInit /\ [][NodeNext]_nodeVars

(***************************************************************************)
(* The runtime polls what is scheduled, polls end, and setting up takes    *)
(* finite time.  Fairness of LeaveLoop stands for the random choice that   *)
(* select! makes among the branches that are ready.                        *)
(***************************************************************************)
NodeFairSpec ==
    /\ NodeSpec
    /\ WF_nodeVars(Setup)
    /\ WF_nodeVars(Listen)
    /\ WF_nodeVars(LeaveLoop)
    /\ \A p \in Process : WF_nodeVars(PollStep(p))
-----------------------------------------------------------------------------
\* The variables hold what the code can put into them; the only delay token of
\* the program is the event loop's.
NodeTypeOK ==
    /\ reason \in Reason \cup {None}
    /\ delay_tokens = (IF event_loop \in {"select", "handle"} THEN 1 ELSE 0)
    /\ on_shutdown_trigger \subseteq Process
    /\ on_shutdown_complete \subseteq {Main}
    /\ scheduled \subseteq Process
    /\ stage \in {"setup", "listen", "connect", "header", "wait"} \cup Ended
    /\ event_loop \in {"new", "select", "handle", "left", "cancelled", "panicked"}
    /\ listening \in BOOLEAN
    /\ at \in [Process -> {"unborn", "idle", "running", "signal", "ended"}]
    /\ signalled \in BOOLEAN

\* "shutdown will wait as long as this token is not dropped" (event_loop.rs:184):
\* when main returns from completed_shutdown, and with it the runtime goes away,
\* the event loop has ended, whatever the task that triggered and however far
\* startup was.
ExitAfterLoop ==
    stage = "exited" => (reason # None /\ event_loop \in {"left", "cancelled"})

\* Whatever triggers the shutdown, and at whatever point of startup, main ends.
ShutdownEnds == (reason # None) ~> (stage \in Ended)

ProcessLifecycle ==
    INSTANCE ShutdownLifecycle WITH
        Waiter <- {Main},
        phase <- IF reason = None THEN "running"
                 ELSE IF is_shutdown_completed THEN "completed" ELSE "triggered",
        why <- reason,
        answers <- [w \in {Main} |-> IF stage = "exited" THEN reason ELSE None]

\* The process has the life cycle its controller promises: one reason, a completion
\* that no late token (the event loop takes its own on its first poll, at any
\* time after its spawn) takes back, and an exit with that reason after it.
ProcessRefinement == ProcessLifecycle!LifecycleSpec

-----------------------------------------------------------------------------
\* Inductive strengthening of ExitAfterLoop: main gets past start_listening only
\* when the loop, which then had its token, has answered.
ExitInv ==
    /\ NodeTypeOK
    /\ at[P2p] = "signal" => event_loop \in {"select", "handle"}
    /\ listening => event_loop \notin {"new", "panicked"}
    /\ stage \in {"connect", "header", "wait", "exited"} => listening
    /\ ExitAfterLoop

\* A task that is idle and not scheduled will be woken: by the trigger, or main
\* at its end by the completion, neither of which has happened yet.
Remembered(p) ==
    (at[p] = "idle" /\ p \notin scheduled) =>
        IF p = Main /\ stage = "wait"
        THEN ~ is_shutdown_completed /\ p \in on_shutdown_complete
        ELSE reason = None /\ p \in on_shutdown_trigger

\* The runtime polls p, or p is in a poll.
CanMove(p) == at[p] \in {"running", "signal"} \/ (at[p] = "idle" /\ p \in scheduled)

\* A shutdown that is triggered is never stuck, main and the event loop waiting
\* on each other: main can go on (what it awaits is there, or it is polled), or
\* the event loop, which main waits for, is polled.
NeverStuck ==
    (reason # None /\ stage \notin Ended) =>
        \/ stage = "setup"
        \/ stage = "listen" /\ (listening \/ at[P2p] = "ended")
        \/ stage \in {"connect", "header", "wait"} /\ CanMove(Main)
        \/ CanMove(P2p)

\* Inductive strengthening of NeverStuck: main lives until its end, the event
\* loop from its spawn on and for as long as it holds the token.
StuckInv ==
    /\ \A p \in Process : Remembered(p)
    /\ stage \notin Ended => at[Main] \in {"idle", "running", "signal"}
    /\ stage \in {"setup", "listen"} => at[Main] = "running"
    /\ stage \notin Ended \cup {"setup"} => at[P2p] # "unborn"
    /\ (stage \notin Ended /\ event_loop \in {"select", "handle"}) => at[P2p] # "ended"
    /\ at[Main] = "signal" => stage \in {"connect", "header"}
=============================================================================
