--------------------------- MODULE ShutdownProofs ---------------------------
(***************************************************************************)
(* The safety properties of the shutdown controller for any number of      *)
(* tasks, waiters, tokens and reasons, and of the process that stops under *)
(* it, NodeShutdown, for any set of background tasks.                      *)
(***************************************************************************)
EXTENDS Shutdown, NodeShutdown, FiniteSetTheorems, TLAPS

\* How each change of the set of live tokens changes its size.
LEMMA LiveTokens ==
    ASSUME NEW S \in SUBSET Token, NEW d \in Token
    PROVE  /\ IsFiniteSet(S)
           /\ Cardinality(S) \in Nat
           /\ Cardinality(S) <= Cardinality(Token)
           /\ Cardinality(Token) \in Nat
           /\ d \notin S => Cardinality(S \cup {d}) = Cardinality(S) + 1
           /\ d \in S => /\ Cardinality(S \ {d}) = Cardinality(S) - 1
                         /\ Cardinality(S) > 0
<1>1. IsFiniteSet(S) /\ Cardinality(S) <= Cardinality(Token)
  BY UsersAssumption, FS_Subset
<1>2. Cardinality(S) \in Nat /\ Cardinality(Token) \in Nat
  BY <1>1, UsersAssumption, FS_CardinalityType
<1>3. d \notin S => Cardinality(S \cup {d}) = Cardinality(S) + 1
  BY <1>1, FS_AddElement
<1>4. d \in S => Cardinality(S \ {d}) = Cardinality(S) - 1
  BY <1>1, FS_RemoveElement
<1>5. d \in S => Cardinality(S) # 0
  BY <1>1, FS_EmptySet
<1>. QED
  BY <1>1, <1>2, <1>3, <1>4, <1>5

LEMMA InitIInv == Init => IInv
<1>. SUFFICES ASSUME Init PROVE IInv
  OBVIOUS
<1>. USE DEF Init, ControllerInit
<1>1. Cardinality({}) = 0
  BY FS_EmptySet
<1>2. Cardinality(Token) \in Nat
  BY UsersAssumption, FS_CardinalityType
<1>3. TypeOK
  BY <1>2 DEF TypeOK
<1>. QED
  BY <1>1, <1>3 DEF IInv, TokensCounted, DropTriggers

\* The count, its bound and the live tokens move together.
LEMMA CountStep ==
    ASSUME IInv, [Next]_vars
    PROVE  /\ tokens' \subseteq Token
           /\ TokensCounted'
           /\ delay_tokens' \in Nat /\ delay_tokens' <= Cardinality(Token)
<1>. USE DEF IInv, TypeOK, TokensCounted, vars, controllerVars, tokenVars
<1>0. ASSUME tokens' = tokens, delay_tokens' = delay_tokens
      PROVE  /\ tokens' \subseteq Token
             /\ TokensCounted'
             /\ delay_tokens' \in Nat /\ delay_tokens' <= Cardinality(Token)
  BY <1>0
<1>1. ASSUME NEW r \in Reason, trigger_shutdown(r) \/ DropTrigger(r)
      PROVE  tokens' = tokens /\ delay_tokens' = delay_tokens
  BY <1>1 DEF trigger_shutdown, DropTrigger, shutdown
<1>2. ASSUME NEW r \in Reason, trigger_token(r) \/ CloneTrigger(r) \/ forget(r)
      PROVE  tokens' = tokens /\ delay_tokens' = delay_tokens
  BY <1>2 DEF trigger_token, CloneTrigger, forget
<1>3. ASSUME NEW d \in Token, NEW e \in Token, TakeDelay(e) \/ CloneDelay(d, e)
      PROVE  /\ tokens' \subseteq Token
             /\ TokensCounted'
             /\ delay_tokens' \in Nat /\ delay_tokens' <= Cardinality(Token)
  <2>1. e \notin tokens /\ tokens' = tokens \cup {e} /\ delay_tokens' = delay_tokens + 1
    BY <1>3 DEF TakeDelay, CloneDelay, delay_token, increment_delay_tokens
  <2>2. tokens' \in SUBSET Token
    BY <2>1
  <2>3. Cardinality(tokens') = delay_tokens' /\ delay_tokens' \in Nat
    BY <2>1, LiveTokens
  <2>. QED
    BY <2>2, <2>3, LiveTokens, Zenon
<1>4. ASSUME NEW d \in Token, DropDelay(d)
      PROVE  /\ tokens' \subseteq Token
             /\ TokensCounted'
             /\ delay_tokens' \in Nat /\ delay_tokens' <= Cardinality(Token)
  <2>1. d \in tokens /\ tokens' = tokens \ {d}
    BY <1>4 DEF DropDelay
  <2>2. Cardinality(tokens') = Cardinality(tokens) - 1 /\ Cardinality(tokens) > 0
    BY <2>1, LiveTokens
  <2>3. delay_tokens' = delay_tokens - 1
    BY <1>4, <2>2 DEF DropDelay, decrement_delay_tokens
  <2>4. tokens' \in SUBSET Token
    BY <2>1
  <2>. QED
    BY <2>2, <2>3, <2>4, LiveTokens, Zenon
<1>5. ASSUME NEW t \in Task, PollFuture(t) \/ PollSignal(t) \/ FutureWakes(t)
      PROVE  tokens' = tokens /\ delay_tokens' = delay_tokens
  BY <1>5 DEF PollFuture, PollSignal, FutureWakes, StartPoll, SignalPending, Wake
<1>6. ASSUME NEW w \in Waiter, ResumeWaiter(w) \/ PollCompleted(w)
      PROVE  tokens' = tokens /\ delay_tokens' = delay_tokens
  BY <1>6 DEF ResumeWaiter, StartPoll, PollCompleted, CompletedPending, controllerVars
<1>7. CASE UNCHANGED vars
  BY <1>0, <1>7
<1>. QED
  BY <1>0, <1>1, <1>2, <1>3, <1>4, <1>5, <1>6, <1>7 DEF Next

\* The other fields keep their types.
LEMMA TypeStep ==
    ASSUME IInv, [Next]_vars
    PROVE  TypeOK'
<1>. USE DEF IInv, TypeOK, vars, controllerVars, tokenVars
<1>0. /\ tokens' \subseteq Token
      /\ delay_tokens' \in Nat /\ delay_tokens' <= Cardinality(Token)
  BY CountStep
<1>1. ASSUME NEW r \in Reason, trigger_shutdown(r) PROVE TypeOK'
  BY <1>0, <1>1 DEF trigger_shutdown, shutdown, CompletionWakers
<1>2. ASSUME NEW r \in Reason, DropTrigger(r) PROVE TypeOK'
  BY <1>0, <1>2 DEF DropTrigger, shutdown, CompletionWakers
<1>3. ASSUME NEW r \in Reason, trigger_token(r) PROVE TypeOK'
  BY <1>0, <1>3 DEF trigger_token
<1>4. ASSUME NEW r \in Reason, CloneTrigger(r) PROVE TypeOK'
  BY <1>0, <1>4 DEF CloneTrigger
<1>5. ASSUME NEW r \in Reason, forget(r) PROVE TypeOK'
  BY <1>0, <1>5 DEF forget
<1>6. ASSUME NEW d \in Token, NEW e \in Token,
             TakeDelay(e) \/ CloneDelay(d, e) \/ DropDelay(d)
      PROVE  TypeOK'
  BY <1>0, <1>6 DEF TakeDelay, CloneDelay, DropDelay, delay_token,
                    increment_delay_tokens, decrement_delay_tokens, CompletionWakers
<1>7. ASSUME NEW t \in Task, PollFuture(t) PROVE TypeOK'
  BY <1>0, <1>7 DEF PollFuture, StartPoll
<1>8. ASSUME NEW t \in Task, PollSignal(t) PROVE TypeOK'
  BY <1>0, <1>8 DEF PollSignal, SignalPending
<1>9. ASSUME NEW t \in Task, FutureWakes(t) PROVE TypeOK'
  BY <1>0, <1>9 DEF FutureWakes, Wake
<1>10. ASSUME NEW w \in Waiter, ResumeWaiter(w) \/ PollCompleted(w) PROVE TypeOK'
  BY <1>0, <1>10 DEF ResumeWaiter, StartPoll, PollCompleted, CompletedPending, controllerVars
<1>11. CASE UNCHANGED vars
  BY <1>11
<1>. QED
  BY <1>1, <1>2, <1>3, <1>4, <1>5, <1>6, <1>7, <1>8, <1>9, <1>10, <1>11 DEF Next

\* Three ways a step treats the reason and the count.
LEMMA ReasonStep ==
    ASSUME IInv, [Next]_vars
    PROVE  /\ reason # None => reason' = reason
           /\ is_shutdown_completed => is_shutdown_completed'
           /\ reason = None => \/ reason' = None
                               \/ \E r \in Reason : reason' = r /\ completed' = completed
<1>. USE DEF IInv, TypeOK, TokensCounted, is_shutdown_completed, vars, controllerVars, tokenVars
<1>1. ASSUME NEW r \in Reason, trigger_shutdown(r) \/ DropTrigger(r)
      PROVE  /\ reason # None => reason' = reason
             /\ delay_tokens' = delay_tokens
             /\ reason = None => \/ reason' = None
                                 \/ reason' = r /\ completed' = completed
  BY <1>1 DEF trigger_shutdown, DropTrigger, shutdown
<1>2. ASSUME NEW r \in Reason, trigger_token(r) \/ CloneTrigger(r) \/ forget(r)
      PROVE  reason' = reason /\ delay_tokens' = delay_tokens
  BY <1>2 DEF trigger_token, CloneTrigger, forget
<1>3. ASSUME NEW d \in Token, TakeDelay(d)
      PROVE  reason' = reason /\ ~ is_shutdown_completed
  BY <1>3 DEF TakeDelay, delay_token, increment_delay_tokens
<1>4. ASSUME NEW d \in Token, NEW e \in Token, CloneDelay(d, e)
      PROVE  reason' = reason /\ ~ is_shutdown_completed
  <2>1. d \in tokens /\ reason' = reason
    BY <1>4 DEF CloneDelay, increment_delay_tokens
  <2>2. Cardinality(tokens) > 0 /\ Cardinality(tokens) \in Nat
    BY <2>1, LiveTokens, Zenon
  <2>3. delay_tokens # 0
    BY <2>2
  <2>. QED
    BY <2>1, <2>3
<1>5. ASSUME NEW d \in Token, DropDelay(d)
      PROVE  reason' = reason /\ (delay_tokens = 0 => delay_tokens' = 0)
  BY <1>5 DEF DropDelay, decrement_delay_tokens
<1>6. ASSUME NEW t \in Task, PollFuture(t) \/ PollSignal(t) \/ FutureWakes(t)
      PROVE  reason' = reason /\ delay_tokens' = delay_tokens
  BY <1>6 DEF PollFuture, PollSignal, FutureWakes, StartPoll, SignalPending, Wake
<1>7. ASSUME NEW w \in Waiter, ResumeWaiter(w) \/ PollCompleted(w)
      PROVE  reason' = reason /\ delay_tokens' = delay_tokens
  BY <1>7 DEF ResumeWaiter, StartPoll, PollCompleted, CompletedPending, controllerVars
<1>8. CASE UNCHANGED vars
  BY <1>8
<1>. QED
  BY <1>1, <1>2, <1>3, <1>4, <1>5, <1>6, <1>7, <1>8 DEF Next

\* Only a poll of a completed shutdown gives a waiter its value, which is the reason.
LEMMA AnswerStep ==
    ASSUME IInv, [Next]_vars
    PROVE  \/ completed' = completed
           \/ /\ is_shutdown_completed /\ delay_tokens' = delay_tokens /\ reason' = reason
              /\ \E w \in Waiter : /\ completed[w] = None
                                   /\ completed' = [completed EXCEPT ![w] = reason]
<1>1. ASSUME NEW r \in Reason,
             trigger_shutdown(r) \/ DropTrigger(r) \/ trigger_token(r)
               \/ CloneTrigger(r) \/ forget(r)
      PROVE  completed' = completed
  BY <1>1 DEF trigger_shutdown, DropTrigger, trigger_token, CloneTrigger, forget
<1>2. ASSUME NEW d \in Token, NEW e \in Token,
             TakeDelay(d) \/ CloneDelay(d, e) \/ DropDelay(d)
      PROVE  completed' = completed
  BY <1>2 DEF TakeDelay, CloneDelay, DropDelay
<1>3. ASSUME NEW t \in Task, PollFuture(t) \/ PollSignal(t) \/ FutureWakes(t)
      PROVE  completed' = completed
  BY <1>3 DEF PollFuture, PollSignal, FutureWakes
<1>4. ASSUME NEW w \in Waiter, ResumeWaiter(w) \/ PollCompleted(w), completed' # completed
      PROVE  /\ is_shutdown_completed /\ delay_tokens' = delay_tokens /\ reason' = reason
             /\ completed[w] = None
             /\ completed' = [completed EXCEPT ![w] = reason]
  BY <1>4 DEF IInv, ResumeWaiter, PollCompleted, controllerVars
<1>5. CASE UNCHANGED vars
  BY <1>5 DEF vars
<1>. QED
  BY <1>1, <1>2, <1>3, <1>4, <1>5 DEF Next

\* Whoever has the value of Completed has it after the completion.
LEMMA AnsweredStep ==
    ASSUME IInv, [Next]_vars
    PROVE  (\A w \in Waiter : completed[w] # None => is_shutdown_completed)'
<1>. SUFFICES ASSUME NEW w \in Waiter, completed'[w] # None
              PROVE  is_shutdown_completed'
  OBVIOUS
<1>1. is_shutdown_completed
  BY AnswerStep DEF IInv
<1>. QED
  BY <1>1, ReasonStep

\* A waiter polls only while it has no value.
LEMMA PollingStep ==
    ASSUME IInv, [Next]_vars
    PROVE  (\A w \in polling : completed[w] = None)'
<1>. USE DEF IInv, TypeOK
<1>1. ASSUME NEW r \in Reason,
             trigger_shutdown(r) \/ DropTrigger(r) \/ trigger_token(r)
               \/ CloneTrigger(r) \/ forget(r)
      PROVE  UNCHANGED <<polling, completed>>
  BY <1>1 DEF trigger_shutdown, DropTrigger, trigger_token, CloneTrigger, forget
<1>2. ASSUME NEW d \in Token, NEW e \in Token,
             TakeDelay(d) \/ CloneDelay(d, e) \/ DropDelay(d)
      PROVE  UNCHANGED <<polling, completed>>
  BY <1>2 DEF TakeDelay, CloneDelay, DropDelay
<1>3. ASSUME NEW t \in Task, PollFuture(t) \/ PollSignal(t) \/ FutureWakes(t)
      PROVE  UNCHANGED <<polling, completed>>
  BY <1>3 DEF PollFuture, PollSignal, FutureWakes
<1>4. ASSUME NEW w \in Waiter, ResumeWaiter(w)
      PROVE  (\A v \in polling : completed[v] = None)'
  BY <1>4 DEF ResumeWaiter
<1>5. ASSUME NEW w \in Waiter, PollCompleted(w)
      PROVE  (\A v \in polling : completed[v] = None)'
  BY <1>5 DEF PollCompleted
<1>6. CASE UNCHANGED vars
  BY <1>6 DEF vars
<1>. QED
  BY <1>1, <1>2, <1>3, <1>4, <1>5, <1>6 DEF Next

\* A dropped trigger token leaves a reason behind, its own or an earlier one.
LEMMA DropStep ==
    ASSUME IInv, [Next]_vars
    PROVE  /\ DropTriggers'
           /\ (\A r \in Reason : shared[r] = "taken" => reason # None)'
<1>. USE DEF IInv, TypeOK, DropTriggers
<1>0. reason # None => reason' # None
  BY ReasonStep
<1>1. ASSUME NEW r \in Reason, DropTrigger(r)
      PROVE  reason' # None
  BY <1>0, <1>1, ReasonAssumption DEF DropTrigger, shutdown
<1>2. ASSUME NEW r \in Reason, trigger_token(r)
      PROVE  /\ DropTriggers'
             /\ (\A q \in Reason : shared[q] = "taken" => reason # None)'
  BY <1>2 DEF trigger_token, controllerVars
<1>3. ASSUME dropped' = dropped, shared' = shared
      PROVE  /\ DropTriggers'
             /\ (\A q \in Reason : shared[q] = "taken" => reason # None)'
  BY <1>0, <1>3
<1>4. ASSUME NEW r \in Reason, trigger_shutdown(r) \/ CloneTrigger(r) \/ forget(r)
      PROVE  dropped' = dropped /\ shared' = shared
  BY <1>4 DEF trigger_shutdown, CloneTrigger, forget, tokenVars
<1>5. ASSUME NEW d \in Token, NEW e \in Token,
             TakeDelay(d) \/ CloneDelay(d, e) \/ DropDelay(d)
      PROVE  dropped' = dropped /\ shared' = shared
  BY <1>5 DEF TakeDelay, CloneDelay, DropDelay, tokenVars
<1>6. ASSUME NEW t \in Task, PollFuture(t) \/ PollSignal(t) \/ FutureWakes(t)
      PROVE  dropped' = dropped /\ shared' = shared
  BY <1>6 DEF PollFuture, PollSignal, FutureWakes, tokenVars
<1>7. ASSUME NEW w \in Waiter, ResumeWaiter(w) \/ PollCompleted(w)
      PROVE  dropped' = dropped /\ shared' = shared
  BY <1>7 DEF ResumeWaiter, PollCompleted, tokenVars
<1>8. CASE UNCHANGED vars
  BY <1>3, <1>8 DEF vars
<1>. QED
  BY <1>1, <1>2, <1>3, <1>4, <1>5, <1>6, <1>7, <1>8 DEF Next

\* The strengthening IInv is an invariant of every use of the controller.
THEOREM InductiveInvariant == Spec => []IInv
<1>1. IInv /\ [Next]_vars => IInv'
  <2>. SUFFICES ASSUME IInv, [Next]_vars PROVE IInv'
    OBVIOUS
  <2>. QED
    BY TypeStep, CountStep, AnsweredStep, PollingStep, DropStep DEF IInv
<1>. QED
  BY InitIInv, <1>1, PTL DEF Spec

\* Type correctness of the controller and its users.
THEOREM TypeCorrect == Spec => []TypeOK
<1>1. IInv => TypeOK
  BY DEF IInv
<1>. QED
  BY InductiveInvariant, <1>1, PTL

\* delay_tokens is the number of tokens alive after any takes, clones and drops.
THEOREM TokensAreCounted == Spec => []TokensCounted
<1>1. IInv => TokensCounted
  BY DEF IInv
<1>. QED
  BY InductiveInvariant, <1>1, PTL

\* The drop of any trigger token leaves the shutdown triggered.
THEOREM EveryDropTriggers == Spec => []DropTriggers
<1>1. IInv => DropTriggers
  BY DEF IInv
<1>. QED
  BY InductiveInvariant, <1>1, PTL

\* A sleeping task stays registered, and is woken by what it sleeps for.
LEMMA WakeupStep ==
    ASSUME IInv, NoLostWakeup, [Next]_vars
    PROVE  NoLostWakeup'
<1>. USE DEF IInv, TypeOK, NoLostWakeup, is_shutdown_completed, controllerVars, tokenVars
<1>1. ASSUME NEW r \in Reason, shutdown(r), UNCHANGED <<cancel, polling, completed>>
      PROVE  NoLostWakeup'
  BY <1>1 DEF shutdown, CompletionWakers
<1>2. ASSUME UNCHANGED <<controllerVars, cancel, polling, completed>>
      PROVE  NoLostWakeup'
  BY <1>2
<1>3. ASSUME NEW r \in Reason, trigger_shutdown(r) \/ DropTrigger(r)
      PROVE  NoLostWakeup'
  BY <1>1, <1>2, <1>3 DEF trigger_shutdown, DropTrigger
<1>4. ASSUME NEW r \in Reason, trigger_token(r) \/ CloneTrigger(r) \/ forget(r)
      PROVE  NoLostWakeup'
  BY <1>2, <1>4 DEF trigger_token, CloneTrigger, forget
<1>5. ASSUME NEW d \in Token, NEW e \in Token, TakeDelay(d) \/ CloneDelay(d, e)
      PROVE  NoLostWakeup'
  BY <1>5 DEF TakeDelay, CloneDelay, delay_token, increment_delay_tokens
<1>6. ASSUME NEW d \in Token, DropDelay(d)
      PROVE  NoLostWakeup'
  BY <1>6 DEF DropDelay, decrement_delay_tokens, CompletionWakers
<1>7. ASSUME NEW t \in Task, PollFuture(t)
      PROVE  NoLostWakeup'
  BY <1>7, UsersAssumption DEF PollFuture, StartPoll
<1>8. ASSUME NEW t \in Task, PollSignal(t)
      PROVE  NoLostWakeup'
  BY <1>8 DEF PollSignal, SignalPending
<1>9. ASSUME NEW t \in Task, FutureWakes(t)
      PROVE  NoLostWakeup'
  BY <1>9 DEF FutureWakes, Wake
<1>10. ASSUME NEW w \in Waiter, ResumeWaiter(w) \/ PollCompleted(w)
       PROVE  NoLostWakeup'
  <2>1. CASE ResumeWaiter(w)
    BY <2>1, UsersAssumption DEF ResumeWaiter, StartPoll
  <2>2. CASE PollCompleted(w) /\ CompletedPending(w) /\ UNCHANGED completed
    BY <2>2 DEF PollCompleted, CompletedPending
  <2>3. CASE /\ PollCompleted(w)
             /\ is_shutdown_completed /\ UNCHANGED controllerVars
             /\ completed' = [completed EXCEPT ![w] = reason]
    BY <2>3 DEF PollCompleted
  <2>. QED
    BY <1>10, <2>1, <2>2, <2>3 DEF PollCompleted
<1>11. CASE UNCHANGED vars
  BY <1>2, <1>11 DEF vars
<1>. QED
  BY <1>3, <1>4, <1>5, <1>6, <1>7, <1>8, <1>9, <1>10, <1>11, Zenon DEF Next

\* No wake-up is lost, whatever the interleaving of polls, triggers and drops.
THEOREM WakeupsAreKept == Spec => []NoLostWakeup
<1>1. Init => NoLostWakeup
  BY DEF Init, ControllerInit, NoLostWakeup
<1>2. IInv /\ NoLostWakeup /\ [Next]_vars => NoLostWakeup'
  BY WakeupStep
<1>. QED
  BY InductiveInvariant, <1>1, <1>2, PTL DEF Spec

\* The controller implements the life cycle it promises.
THEOREM ImplementsLifecycle == Spec => LifecycleRefinement
<1>. USE DEF Lifecycle!LifecycleInit, Lifecycle!LifecycleNext, Lifecycle!lifecycleVars,
             Lifecycle!Trigger, Lifecycle!Complete, Lifecycle!Answer, Phase
<1>1. Init => Lifecycle!LifecycleInit
  BY DEF Init, ControllerInit
<1>2. IInv /\ [Next]_vars => [Lifecycle!LifecycleNext]_(Lifecycle!lifecycleVars)
  <2>. SUFFICES ASSUME IInv, [Next]_vars
                PROVE  [Lifecycle!LifecycleNext]_(Lifecycle!lifecycleVars)
    OBVIOUS
  <2>. USE ReasonAssumption DEF is_shutdown_completed
  <2>1. CASE completed' # completed
    BY <2>1, AnswerStep
  <2>2. CASE completed' = completed /\ reason # None
    BY <2>2, ReasonStep
  <2>3. CASE completed' = completed /\ reason = None
    BY <2>3, ReasonStep
  <2>. QED
    BY <2>1, <2>2, <2>3
<1>. QED
  BY InductiveInvariant, <1>1, <1>2, PTL
     DEF Spec, LifecycleRefinement, Lifecycle!LifecycleSpec
-----------------------------------------------------------------------------
(* The process under the controller, for any set of background tasks *)

USE DEF Process, Background, Ended

LEMMA InitExit == NodeInit => ExitInv
BY ProcessAssumption, ReasonAssumption, Zenon
   DEF NodeInit, ControllerInit, ExitInv, NodeTypeOK, ExitAfterLoop

\* A step of main.
LEMMA MainStep ==
    ASSUME ExitInv, Setup \/ Listen \/ AwaitInRun \/ MainSignal \/ AwaitCompleted
    PROVE  ExitInv'
<1>. USE ProcessAssumption DEF ExitInv, NodeTypeOK, ExitAfterLoop, controllerVars
<1>1. ASSUME End("failed") PROVE ExitInv'
  BY <1>1 DEF End
<1>2. ASSUME NEW ps \in SUBSET Process, NEW s \in {"listen", "connect", "header", "wait"},
             Spawn(ps, s), s # "listen" => listening
      PROVE  ExitInv'
  BY <1>2 DEF Spawn
<1>3. ASSUME Goto(Main, "idle") \/ Goto(Main, "signal"),
             SignalPending(Main) \/ CompletedPending(Main) \/ UNCHANGED controllerVars
      PROVE  ExitInv'
  BY <1>3, SMTT(30) DEF Goto, SignalPending, CompletedPending
<1>4. CASE Setup
  BY <1>1, <1>2, <1>4 DEF Setup, Fail
<1>5. CASE Listen
  BY <1>1, <1>2, <1>5 DEF Listen, Fail
<1>6. CASE AwaitInRun
  BY <1>1, <1>2, <1>3, <1>6 DEF AwaitInRun, Fail
<1>7. CASE MainSignal
  BY <1>1, <1>3, <1>7 DEF MainSignal, Fail
<1>8. CASE AwaitCompleted
  <2>1. CASE is_shutdown_completed /\ stage = "wait" /\ End("exited")
    BY <2>1 DEF End, is_shutdown_completed
  <2>. QED
    BY <1>3, <1>8, <2>1 DEF AwaitCompleted
<1>. QED
  BY <1>4, <1>5, <1>6, <1>7, <1>8

\* A step of the event loop.
LEMMA LoopStep ==
    ASSUME ExitInv,
           \/ StartLoop \/ HandleNow \/ HandlerSuspends \/ HandlerResumes
           \/ SelectPending \/ LeaveLoop \/ LoopSignal
    PROVE  ExitInv'
<1>. USE ProcessAssumption DEF ExitInv, NodeTypeOK, ExitAfterLoop, controllerVars, LoopGoto
<1>1. CASE StartLoop
  BY <1>1, SMTT(30) DEF StartLoop, delay_token, increment_delay_tokens
<1>2. CASE HandleNow
  BY <1>2 DEF HandleNow
<1>3. CASE HandlerSuspends \/ HandlerResumes
  BY <1>3 DEF HandlerSuspends, HandlerResumes
<1>4. CASE SelectPending
  BY <1>4 DEF SelectPending, SignalPending
<1>5. CASE LeaveLoop
  BY <1>5 DEF LeaveLoop, decrement_delay_tokens, CompletionWakers
<1>6. CASE LoopSignal
  BY <1>6, SMTT(30) DEF LoopSignal, SignalPending, decrement_delay_tokens, CompletionWakers
<1>. QED
  BY <1>1, <1>2, <1>3, <1>4, <1>5, <1>6

\* A step of another task, of the runtime or of the user.
LEMMA TaskStep ==
    ASSUME ExitInv,
           \/ UserSignal
           \/ \E p \in Process : Progress(p) \/ Resume(p)
           \/ \E p \in Background : RunTask(p) \/ TaskSignal(p)
    PROVE  ExitInv'
<1>. USE ProcessAssumption, ReasonAssumption
     DEF ExitInv, NodeTypeOK, ExitAfterLoop, controllerVars
<1>1. CASE UserSignal
  BY <1>1 DEF UserSignal, shutdown, CompletionWakers
<1>2. ASSUME NEW p \in Process, Progress(p)
      PROVE  ExitInv'
  BY <1>2 DEF Progress, Wake, localVars
<1>3. ASSUME NEW p \in Process, Resume(p)
      PROVE  ExitInv'
  BY <1>3 DEF Resume, StartPoll, Goto
<1>4. ASSUME NEW p \in Background, RunTask(p)
      PROVE  ExitInv'
  BY <1>4, SMTT(30) DEF RunTask, shutdown, CompletionWakers, Goto
<1>5. ASSUME NEW p \in Background, TaskSignal(p)
      PROVE  ExitInv'
  BY <1>5, SMTT(30) DEF TaskSignal, SignalPending, Goto
<1>. QED
  BY <1>1, <1>2, <1>3, <1>4, <1>5

\* The strengthening ExitInv of ExitAfterLoop holds throughout.
THEOREM ExitInvariant == NodeSpec => []ExitInv
<1>1. ExitInv /\ [NodeNext]_nodeVars => ExitInv'
  <2>. SUFFICES ASSUME ExitInv, [NodeNext]_nodeVars PROVE ExitInv'
    OBVIOUS
  <2>1. CASE UNCHANGED nodeVars
    BY <2>1 DEF nodeVars, controllerVars, ExitInv, NodeTypeOK, ExitAfterLoop
  <2>2. ASSUME NEW p \in Process, PollStep(p)
        PROVE  ExitInv'
    BY <2>2, MainStep, LoopStep, TaskStep DEF PollStep
  <2>. QED
    BY <2>1, <2>2, MainStep, LoopStep, TaskStep DEF NodeNext
<1>. QED
  BY InitExit, <1>1, PTL DEF NodeSpec

\* The process does not return from completed_shutdown before its event loop.
THEOREM LoopEndsFirst == NodeSpec => []ExitAfterLoop
<1>1. ExitInv => ExitAfterLoop
  BY DEF ExitInv
<1>. QED
  BY ExitInvariant, <1>1, PTL
-----------------------------------------------------------------------------
(* A triggered shutdown is never stuck *)

\* An operation on the controller that does not start a poll of p.
Operates(p) ==
    \/ UNCHANGED controllerVars
    \/ \E r \in Reason : shutdown(r)
    \/ delay_token \/ decrement_delay_tokens
    \/ \E q \in Process : SignalPending(q) \/ CompletedPending(q) \/ Wake(q)
    \/ \E q \in Process \ {p} : StartPoll(q)

\* It takes a waker away only to schedule its task.
LEMMA StaysRemembered ==
    ASSUME NodeTypeOK, NEW p \in Process, Remembered(p), Operates(p),
           at'[p] = at[p], at[p] = "idle" => UNCHANGED stage
    PROVE  Remembered(p)'
<1>. USE ReasonAssumption DEF Remembered, is_shutdown_completed, CompletionWakers
<1>1. CASE UNCHANGED controllerVars
  BY <1>1 DEF controllerVars
<1>2. ASSUME NEW r \in Reason, shutdown(r)
      PROVE  Remembered(p)'
  BY <1>2 DEF shutdown, controllerVars
<1>3. CASE delay_token
  <2>1. delay_tokens \in Nat /\ delay_tokens' # 0
    BY <1>3 DEF delay_token, increment_delay_tokens, NodeTypeOK
  <2>. QED
    BY <1>3, <2>1 DEF delay_token, increment_delay_tokens
<1>4. CASE decrement_delay_tokens
  BY <1>4 DEF decrement_delay_tokens
<1>5. ASSUME NEW q \in Process, SignalPending(q) \/ CompletedPending(q) \/ Wake(q)
      PROVE  Remembered(p)'
  BY <1>5 DEF SignalPending, CompletedPending, Wake
<1>6. ASSUME NEW q \in Process \ {p}, StartPoll(q)
      PROVE  Remembered(p)'
  BY <1>6 DEF StartPoll
<1>. QED
  BY <1>1, <1>2, <1>3, <1>4, <1>5, <1>6 DEF Operates

\* One task moves, to where it is not idle, where it is scheduled, or where it
\* has left its waker in time.
LEMMA OneMoves ==
    ASSUME NodeTypeOK, \A p \in Process : Remembered(p),
           NEW q \in Process, NEW where, at' = [at EXCEPT ![q] = where],
           \A p \in Process \ {q} : Operates(p), UNCHANGED stage,
           \/ where # "idle"
           \/ SignalPending(q) /\ ~ (q = Main /\ stage = "wait")
           \/ CompletedPending(q) /\ q = Main /\ stage = "wait"
    PROVE  \A p \in Process : Remembered(p)'
<1>1. Remembered(q)'
  <2>1. at'[q] = where
    BY DEF NodeTypeOK
  <2>. QED
    BY <2>1 DEF Remembered, SignalPending, CompletedPending, is_shutdown_completed
<1>2. ASSUME NEW p \in Process \ {q}
      PROVE  Remembered(p)'
  <2>1. at'[p] = at[p]
    BY DEF NodeTypeOK
  <2>. QED
    BY <2>1, StaysRemembered
<1>. QED
  BY <1>1, <1>2

LEMMA NobodyMoves ==
    ASSUME NodeTypeOK, \A p \in Process : Remembered(p), UNCHANGED at, UNCHANGED stage,
           \A p \in Process : Operates(p)
    PROVE  \A p \in Process : Remembered(p)'
BY StaysRemembered

LEMMA SpawnRemembers ==
    ASSUME NodeTypeOK, \A p \in Process : Remembered(p), at[Main] = "running",
           NEW ps \in SUBSET (Process \ {Main}), NEW s, Spawn(ps, s)
    PROVE  \A p \in Process : Remembered(p)'
<1>. SUFFICES ASSUME NEW p \in Process
              PROVE  Remembered(p)'
  OBVIOUS
<1>1. at'[p] = (IF p \in ps THEN "idle" ELSE at[p]) /\ scheduled' = scheduled \cup ps
  BY DEF Spawn
<1>2. UNCHANGED <<reason, delay_tokens, on_shutdown_trigger, on_shutdown_complete>>
  BY DEF Spawn
<1>3. CASE p = Main
  BY <1>1, <1>3 DEF Remembered
<1>4. CASE p # Main
  BY <1>1, <1>2, <1>4 DEF Remembered
<1>. QED
  BY <1>3, <1>4

\* Every step of the process keeps every task remembered.
LEMMA RememberedStep ==
    ASSUME NodeTypeOK, StuckInv, NodeNext
    PROVE  \A p \in Process : Remembered(p)'
<1>. USE ProcessAssumption DEF StuckInv
<1>e. ASSUME NEW s, End(s)
      PROVE  \A p \in Process : Remembered(p)'
  BY <1>e DEF End, Remembered
<1>1. CASE Setup
  <2>1. at[Main] = "running" /\ {P2p} \in SUBSET (Process \ {Main})
    BY <1>1 DEF Setup
  <2>. QED
    BY <1>1, <1>e, <2>1, SpawnRemembers DEF Setup, Fail
<1>2. CASE Listen
  <2>1. at[Main] = "running" /\ {} \in SUBSET (Process \ {Main})
    BY <1>2 DEF Listen
  <2>. QED
    BY <1>2, <1>e, <2>1, SpawnRemembers DEF Listen, Fail
<1>3. CASE UserSignal
  <2>1. UNCHANGED at /\ UNCHANGED stage /\ \A p \in Process : Operates(p)
    BY <1>3 DEF UserSignal, Operates
  <2>. QED
    BY <2>1, NobodyMoves
<1>4. CASE HandleNow
  <2>1. UNCHANGED at /\ UNCHANGED stage /\ \A p \in Process : Operates(p)
    BY <1>4 DEF HandleNow, Operates
  <2>. QED
    BY <2>1, NobodyMoves
<1>5. ASSUME NEW p \in Process, Progress(p)
      PROVE  \A q \in Process : Remembered(q)'
  <2>1. UNCHANGED at /\ UNCHANGED stage /\ \A q \in Process : Operates(q)
    BY <1>5 DEF Progress, localVars, Operates
  <2>. QED
    BY <2>1, NobodyMoves
<1>6. ASSUME NEW q \in Process, NEW where, where # "idle", Goto(q, where),
             UNCHANGED controllerVars \/ \E r \in Reason : shutdown(r)
      PROVE  \A p \in Process : Remembered(p)'
  <2>1. at' = [at EXCEPT ![q] = where] /\ UNCHANGED stage /\ \A p \in Process \ {q} : Operates(p)
    BY <1>6 DEF Goto, Operates
  <2>. QED
    BY <1>6, <2>1, OneMoves, Zenon
<1>7. ASSUME NEW q \in Process, ~ (q = Main /\ stage = "wait"), Goto(q, "idle"), SignalPending(q)
      PROVE  \A p \in Process : Remembered(p)'
  <2>1. at' = [at EXCEPT ![q] = "idle"] /\ UNCHANGED stage /\ \A p \in Process \ {q} : Operates(p)
    BY <1>7 DEF Goto, Operates
  <2>. QED
    BY <1>7, <2>1, OneMoves, Zenon
<1>8. ASSUME NEW s, NEW where, LoopGoto(s, where), where # "idle",
             \/ UNCHANGED controllerVars
             \/ delay_token \/ decrement_delay_tokens \/ SignalPending(P2p)
      PROVE  \A p \in Process : Remembered(p)'
  <2>1. at' = [at EXCEPT ![P2p] = where] /\ UNCHANGED stage /\ \A p \in Process \ {P2p} : Operates(p)
    BY <1>8 DEF LoopGoto, Operates
  <2>. QED
    BY <1>8, <2>1, OneMoves, Zenon
<1>9. CASE HandlerSuspends \/ LeaveLoop
  BY <1>8, <1>9 DEF HandlerSuspends, LeaveLoop
<1>10. ASSUME NEW q \in Process, Resume(q)
       PROVE  \A p \in Process : Remembered(p)'
  <2>1. at' = [at EXCEPT ![q] = "running"] /\ UNCHANGED stage /\ \A p \in Process \ {q} : Operates(p)
    BY <1>10 DEF Resume, Goto, Operates
  <2>. QED
    BY <2>1, OneMoves, Zenon
<1>11. CASE AwaitInRun
  <2>1. at[Main] = "running" /\ {Sub} \in SUBSET (Process \ {Main}) /\ Worker \in SUBSET (Process \ {Main})
    BY <1>11 DEF AwaitInRun
  <2>. QED
    BY <1>11, <1>e, <1>6, <2>1, SpawnRemembers DEF AwaitInRun, Fail
<1>12. CASE MainSignal
  BY <1>12, <1>e, <1>7 DEF MainSignal, Fail
<1>13. CASE AwaitCompleted
  <2>1. CASE CompletedPending(Main) /\ Goto(Main, "idle") /\ stage = "wait"
    <3>1. at' = [at EXCEPT ![Main] = "idle"] /\ UNCHANGED stage /\ \A p \in Process \ {Main} : Operates(p)
      BY <2>1, Zenon DEF Goto, Operates
    <3>. QED
      BY <2>1, <3>1, OneMoves, Zenon
  <2>. QED
    BY <1>13, <1>e, <2>1 DEF AwaitCompleted
<1>14. ASSUME NEW q \in Background, RunTask(q) \/ TaskSignal(q)
       PROVE  \A p \in Process : Remembered(p)'
  <2>1. q \in Process /\ q # Main
    OBVIOUS
  <2>. QED
    BY <1>6, <1>7, <1>14, <2>1 DEF RunTask, TaskSignal
<1>15. CASE StartLoop \/ SelectPending \/ HandlerResumes
  BY <1>8, <1>15 DEF StartLoop, SelectPending, HandlerResumes
<1>16. CASE LoopSignal
  <2>1. CASE SignalPending(P2p) /\ LoopGoto(event_loop, "idle")
    <3>1. at' = [at EXCEPT ![P2p] = "idle"] /\ UNCHANGED stage /\ \A p \in Process \ {P2p} : Operates(p)
      BY <2>1 DEF LoopGoto, Operates
    <3>. QED
      BY <2>1, <3>1, OneMoves, Zenon
  <2>. QED
    BY <1>8, <1>16, <2>1 DEF LoopSignal
<1>17. ASSUME NEW q \in Process, PollStep(q)
       PROVE  \A p \in Process : Remembered(p)'
  BY <1>10, <1>11, <1>12, <1>13, <1>14, <1>15, <1>16, <1>17 DEF PollStep
<1>. QED
  BY <1>1, <1>2, <1>3, <1>4, <1>5, <1>9, <1>17 DEF NodeNext

\* Where main and the event loop are, but for the wakers.
Places ==
    /\ stage \notin Ended => at[Main] \in {"idle", "running", "signal"}
    /\ stage \in {"setup", "listen"} => at[Main] = "running"
    /\ stage \notin Ended \cup {"setup"} => at[P2p] # "unborn"
    /\ (stage \notin Ended /\ event_loop \in {"select", "handle"}) => at[P2p] # "ended"
    /\ at[Main] = "signal" => stage \in {"connect", "header"}

LEMMA PlacesStep ==
    ASSUME NodeTypeOK, Places, NodeNext
    PROVE  Places'
<1>. USE ProcessAssumption DEF Places, NodeTypeOK
<1>e. ASSUME NEW s \in Ended, End(s)
      PROVE  Places'
  BY <1>e DEF End
<1>1. CASE Setup
  BY <1>1, <1>e DEF Setup, Fail, Spawn
<1>2. CASE Listen
  BY <1>2, <1>e DEF Listen, Fail, Spawn
<1>3. CASE UserSignal
  BY <1>3 DEF UserSignal
<1>4. ASSUME NEW p \in Process, Progress(p)
      PROVE  Places'
  BY <1>4 DEF Progress, localVars
<1>5. ASSUME NEW p \in Process, Resume(p)
      PROVE  Places'
  BY <1>5 DEF Resume, Goto
<1>6. CASE AwaitInRun
  BY <1>6, <1>e DEF AwaitInRun, Fail, Spawn, Goto
<1>7. CASE MainSignal
  BY <1>7, <1>e DEF MainSignal, Fail, Goto
<1>8. CASE AwaitCompleted
  BY <1>8, <1>e DEF AwaitCompleted, Goto
<1>9. ASSUME NEW p \in Background, RunTask(p) \/ TaskSignal(p)
      PROVE  Places'
  BY <1>9 DEF RunTask, TaskSignal, Goto
<1>10. CASE HandleNow
  BY <1>10 DEF HandleNow
<1>11. CASE HandlerSuspends \/ LeaveLoop
  BY <1>11 DEF HandlerSuspends, LeaveLoop, LoopGoto
<1>12. CASE StartLoop \/ SelectPending \/ HandlerResumes \/ LoopSignal
  BY <1>12 DEF StartLoop, SelectPending, HandlerResumes, LoopSignal, LoopGoto
<1>13. ASSUME NEW p \in Process, PollStep(p)
       PROVE  Places'
  BY <1>5, <1>6, <1>7, <1>8, <1>9, <1>12, <1>13, Zenon DEF PollStep
<1>. QED
  BY <1>1, <1>2, <1>3, <1>4, <1>10, <1>11, <1>13, Zenon DEF NodeNext

\* No wake-up is lost in the process, and main and the event loop are where the
\* other expects them.
THEOREM StuckInvariant == NodeSpec => []StuckInv
<1>1. NodeInit => StuckInv
  BY ProcessAssumption DEF NodeInit, StuckInv, Remembered
<1>2. ExitInv /\ StuckInv /\ [NodeNext]_nodeVars => StuckInv'
  <2>. SUFFICES ASSUME ExitInv, StuckInv, [NodeNext]_nodeVars
                PROVE  StuckInv'
    OBVIOUS
  <2>1. NodeTypeOK
    BY DEF ExitInv
  <2>2. StuckInv <=> (\A p \in Process : Remembered(p)) /\ Places
    BY Zenon DEF StuckInv, Places
  <2>3. StuckInv' <=> (\A p \in Process : Remembered(p)') /\ Places'
    BY Zenon DEF StuckInv, Places
  <2>4. CASE NodeNext
    BY <2>1, <2>2, <2>3, <2>4, RememberedStep, PlacesStep
  <2>5. CASE UNCHANGED nodeVars
    BY <2>5, Zenon DEF nodeVars, controllerVars, StuckInv, Remembered, is_shutdown_completed
  <2>. QED
    BY <2>4, <2>5
<1>. QED
  BY <1>1, <1>2, ExitInvariant, PTL DEF NodeSpec

\* main, the P2P event loop that delays the shutdown and the controller never
\* wait on each other: from the trigger on, and however far startup was, main
\* can go on or the loop it waits for is polled.
THEOREM ShutdownNeverStuck == NodeSpec => []NeverStuck
<1>1. ExitInv /\ StuckInv => NeverStuck
  <2>. SUFFICES ASSUME ExitInv, StuckInv, reason # None, stage \notin Ended, stage # "setup",
                       ~ CanMove(P2p)
                PROVE  \/ stage = "listen" /\ (listening \/ at[P2p] = "ended")
                       \/ stage \in {"connect", "header", "wait"} /\ CanMove(Main)
    BY DEF NeverStuck
  <2>1. NodeTypeOK /\ Remembered(Main) /\ Remembered(P2p)
    BY DEF ExitInv, StuckInv
  <2>2. at[P2p] = "ended"
    <3>1. at[P2p] # "unborn"
      BY DEF StuckInv
    <3>2. at[P2p] \in {"unborn", "idle", "running", "signal", "ended"}
      BY <2>1 DEF NodeTypeOK
    <3>. QED
      BY <2>1, <3>1, <3>2, ProcessAssumption DEF CanMove, Remembered
  <2>3. delay_tokens = 0
    BY <2>1, <2>2 DEF StuckInv, NodeTypeOK
  <2>4. at[Main] \in {"idle", "running", "signal"}
    BY DEF StuckInv
  <2>5. CanMove(Main)
    BY <2>1, <2>3, <2>4 DEF CanMove, Remembered, is_shutdown_completed
  <2>. QED
    BY <2>1, <2>2, <2>5 DEF NodeTypeOK
<1>. QED
  BY <1>1, ExitInvariant, StuckInvariant, PTL
-----------------------------------------------------------------------------
(* The process implements the life cycle *)

\* What a step does to the controller: the reason is given once, and no token
\* is taken after the completion.
LEMMA ControllerMoves ==
    ASSUME ExitInv, NodeNext
    PROVE  /\ \/ reason' = reason
              \/ reason = None /\ reason' \in Reason /\ delay_tokens' = delay_tokens
           /\ is_shutdown_completed => delay_tokens' = 0
<1>. USE DEF is_shutdown_completed
<1>1. \/ UNCHANGED controllerVars \/ UNCHANGED <<reason, delay_tokens>>
      \/ \E r \in Reason : shutdown(r)
      \/ delay_token \/ decrement_delay_tokens
  <2>1. ASSUME NEW p \in Process, PollStep(p)
        PROVE  \/ UNCHANGED controllerVars \/ UNCHANGED <<reason, delay_tokens>>
               \/ \E r \in Reason : shutdown(r)
               \/ delay_token \/ decrement_delay_tokens
    BY <2>1, Zenon
       DEF PollStep, Resume, StartPoll, AwaitInRun, MainSignal, AwaitCompleted, Spawn, Fail, End,
           RunTask, TaskSignal, StartLoop, SelectPending, HandlerResumes, LoopSignal,
           SignalPending, CompletedPending
  <2>. QED
    BY <2>1, Zenon
       DEF NodeNext, Setup, Listen, UserSignal, HandleNow, HandlerSuspends, LeaveLoop, Progress,
           Wake, Spawn, Fail, End
<1>2. CASE UNCHANGED controllerVars \/ UNCHANGED <<reason, delay_tokens>>
  BY <1>2 DEF controllerVars
<1>3. ASSUME NEW r \in Reason, shutdown(r)
      PROVE  /\ \/ reason' = reason
                \/ reason = None /\ reason' \in Reason /\ delay_tokens' = delay_tokens
             /\ is_shutdown_completed => delay_tokens' = 0
  BY <1>3 DEF shutdown, controllerVars
<1>4. CASE delay_token
  BY <1>4 DEF delay_token, increment_delay_tokens
<1>5. CASE decrement_delay_tokens
  BY <1>5 DEF decrement_delay_tokens
<1>. QED
  BY <1>1, <1>2, <1>3, <1>4, <1>5

\* main exits after the completion only, and for good.
LEMMA ExitMoves ==
    ASSUME StuckInv, NodeNext
    PROVE  /\ stage = "exited" => stage' = "exited"
           /\ (stage # "exited" /\ stage' = "exited") => is_shutdown_completed /\ UNCHANGED controllerVars
<1>1. \/ UNCHANGED stage
      \/ stage \in {"setup", "listen"} /\ (\E ps : Spawn(ps, "listen") \/ Spawn(ps, "connect"))
      \/ stage \in {"connect", "header"} /\ (\E ps : Spawn(ps, "header") \/ Spawn(ps, "wait"))
      \/ stage # "exited" /\ End("failed")
      \/ stage = "wait" /\ is_shutdown_completed /\ End("exited")
  <2>1. CASE Setup \/ Listen
    BY <2>1 DEF Setup, Listen, Fail
  <2>2. CASE UserSignal \/ HandleNow \/ HandlerSuspends \/ LeaveLoop
    BY <2>2, Zenon DEF UserSignal, HandleNow, HandlerSuspends, LeaveLoop, LoopGoto
  <2>3. ASSUME NEW p \in Process, Progress(p) \/ Resume(p)
        PROVE  UNCHANGED stage
    BY <2>3, Zenon DEF Progress, localVars, Resume, Goto
  <2>4. CASE AwaitInRun
    BY <2>4 DEF AwaitInRun, Fail, Goto
  <2>5. CASE MainSignal
    <3>1. stage # "exited"
      BY <2>5 DEF MainSignal, StuckInv
    <3>. QED
      BY <2>5, <3>1, Zenon DEF MainSignal, Fail, Goto
  <2>6. CASE AwaitCompleted
    BY <2>6, Zenon DEF AwaitCompleted, Goto
  <2>7. ASSUME NEW p \in Background, RunTask(p) \/ TaskSignal(p)
        PROVE  UNCHANGED stage
    BY <2>7, Zenon DEF RunTask, TaskSignal, Goto
  <2>8. CASE StartLoop \/ SelectPending \/ HandlerResumes \/ LoopSignal
    BY <2>8, Zenon DEF StartLoop, SelectPending, HandlerResumes, LoopSignal, LoopGoto
  <2>9. ASSUME NEW p \in Process, PollStep(p)
        PROVE  Resume(p) \/ AwaitInRun \/ MainSignal \/ AwaitCompleted
               \/ (\E q \in Background : RunTask(q) \/ TaskSignal(q))
               \/ StartLoop \/ SelectPending \/ HandlerResumes \/ LoopSignal
    BY <2>9, Zenon DEF PollStep
  <2>. QED
    BY <2>1, <2>2, <2>3, <2>4, <2>5, <2>6, <2>7, <2>8, <2>9, Zenon DEF NodeNext
<1>. QED
  BY <1>1 DEF Spawn, End

\* The process, from startup to exit, refines the life cycle of its controller
\* with main as the one that awaits the completion.
THEOREM ProcessImplementsLifecycle == NodeSpec => ProcessRefinement
<1>. USE DEF ProcessLifecycle!LifecycleInit, ProcessLifecycle!LifecycleNext,
             ProcessLifecycle!lifecycleVars, ProcessLifecycle!Trigger,
             ProcessLifecycle!Complete, ProcessLifecycle!Answer
<1>1. NodeInit => ProcessLifecycle!LifecycleInit
  BY DEF NodeInit, ControllerInit
<1>2. ExitInv /\ StuckInv /\ [NodeNext]_nodeVars
         => [ProcessLifecycle!LifecycleNext]_(ProcessLifecycle!lifecycleVars)
  <2>. SUFFICES ASSUME ExitInv, StuckInv, [NodeNext]_nodeVars
                PROVE  [ProcessLifecycle!LifecycleNext]_(ProcessLifecycle!lifecycleVars)
    OBVIOUS
  <2>. USE ReasonAssumption DEF is_shutdown_completed
  <2>1. stage = "exited" => reason # None
    BY DEF ExitInv, ExitAfterLoop
  <2>2. CASE UNCHANGED nodeVars
    <3>1. UNCHANGED <<reason, delay_tokens, stage>>
      BY <2>2, Zenon DEF nodeVars, controllerVars
    <3>. QED
      BY <3>1
  <2>3. CASE NodeNext /\ reason' # reason
    <3>1. reason = None /\ reason' \in Reason
      BY <2>3, ControllerMoves
    <3>2. stage # "exited" /\ stage' # "exited"
      BY <2>1, <2>3, <3>1, ExitMoves DEF controllerVars
    <3>. QED
      BY <3>1, <3>2
  <2>4. CASE NodeNext /\ reason' = reason /\ (stage = "exited" <=> stage' = "exited")
    BY <2>4, ControllerMoves
  <2>5. CASE NodeNext /\ reason' = reason /\ stage # "exited" /\ stage' = "exited"
    <3>1. is_shutdown_completed /\ UNCHANGED <<reason, delay_tokens>>
      BY <2>5, ExitMoves DEF controllerVars
    <3>. QED
      BY <2>5, <3>1
  <2>. QED
    BY <2>2, <2>3, <2>4, <2>5, ExitMoves, Zenon
<1>. QED
  BY ExitInvariant, StuckInvariant, <1>1, <1>2, PTL
     DEF NodeSpec, ProcessRefinement, ProcessLifecycle!LifecycleSpec
=============================================================================
