------------------------------ MODULE Executor ------------------------------
(***************************************************************************)
(* WorkflowExecutor under SequentialStrategy: several runs of a workflow   *)
(* share one circuit breaker and one budget enforcer, as the runs of one   *)
(* WorkflowExecutor share the services of its DefaultDependencies.         *)
(*                                                                         *)
(* execute_step_with_context is a coroutine that calls itself for nested   *)
(* steps.  Step ids are unique in a workflow, so the frame a run has open  *)
(* for a step is frame[r][s]; its pc names the await at which it stands:   *)
(*                                                                         *)
(*   starting    the on_step_start hook           ending    on_step_end    *)
(*   calling     the primitive                    threshold budget hook    *)
(*   then, else  a step of that branch            closing   CIRCUIT_CLOSE  *)
(*   opening     the CIRCUIT_OPEN notification    handling  on_error       *)
(*   backoff     the sleep and on_retry           retrying  the primitive  *)
(*   delegating  the LLM asked for an action      fallback  fallback step  *)
(*   recovered   the on_step_end after recovery                            *)
(*                                                                         *)
(* idle frames are not open; returned, raised and cancelled ones are over. *)
(* A caller consumes the end of its callee in a step of its own, so the    *)
(* model has more interleavings than one event loop; none is missing.      *)
(***************************************************************************)
EXTENDS Sequences, BreakerState

CONSTANTS
    Runs,          \* concurrent executions of the workflow
    Steps,         \* step ids, nested and fallback steps included
    NoStep,
    Workflow,      \* workflow.steps
    Conditional,   \* steps with an if_condition
    Then, Else,    \* then_steps and else_steps of a step
    Strategy,      \* execution_strategy.type of a step
    Fallback,      \* execution_strategy.fallback_step, or NoStep
    MaxAttempts,   \* RetryConfig.max_attempts of a step
    Timed,         \* steps with a timeout
    Suspending,    \* steps whose primitive may set context.suspended
    Providers,     \* LLM providers the breaker knows apart
    NoProvider,
    Provider,      \* provider of an llm or chat step, NoProvider otherwise
    Metered,       \* steps whose primitive reports usage
    Garbling,      \* those whose usage may have a cost that is no number
    StepCost,      \* bound on the total_cost one usage reports
    DegradeAt,     \* degradation_threshold * max_cost_usd
    MaxCostUsd,    \* max_cost_usd
    HasDelegate    \* deps.llm_provider is configured

StrategyTypes == {"fail", "skip", "retry", "fallback", "delegate"}

ASSUME ExecutorAssumption ==
    /\ NoStep \notin Steps
    /\ NoProvider \notin Providers
    /\ Workflow \in Seq(Steps)
    /\ Conditional \subseteq Steps
    /\ Then \in [Steps -> Seq(Steps)]
    /\ Else \in [Steps -> Seq(Steps)]
    /\ Strategy \in [Steps -> StrategyTypes]
    /\ Fallback \in [Steps -> Steps \cup {NoStep}]
    /\ MaxAttempts \in [Steps -> Nat]
    /\ Timed \subseteq Steps
    /\ Suspending \subseteq Steps
    /\ Provider \in [Steps -> Providers \cup {NoProvider}]
    /\ Metered \subseteq Steps
    /\ StepCost \in Nat
    /\ DegradeAt \in Nat
    /\ MaxCostUsd \in Nat \ {0}
    /\ HasDelegate \in BOOLEAN

VARIABLES
    outcome,    \* of a run: running, completed, failed or cancelled
    next,       \* index in Workflow of the run's current top-level step
    frame,      \* the frame of each step of a run
    results,    \* context.step_results
    suspended,  \* context.suspended
    degraded,   \* context.metadata["_budget_degraded"]
    breaker,    \* InMemoryCircuitBreaker._states
    spent,      \* InMemoryBudgetEnforcer._cumulative_cost
    tally,      \* history: what happened in the frame of each step
    refusals    \* history: BudgetErrors raised so far

vars == <<outcome, next, frame, results, suspended, degraded,
          breaker, spent, tally, refusals>>

PCs == {"idle", "starting", "calling", "then", "else", "ending", "threshold",
        "closing", "opening", "handling", "backoff", "retrying",
        "delegating", "fallback", "recovered",
        "returned", "raised", "cancelled"}

Errors == {"none", "circuit", "condition", "primitive", "timeout",
           "nested", "usage", "budget"}

\* verdict: the truth of if_condition; child: the position in the branch;
\* attempt and attempts: the retry loop; error: the exception being handled.
Frames ==
    [pc : PCs, verdict : {"unknown", "true", "false"}, child : Nat,
     attempt : Nat, attempts : Nat, error : Errors]

Closed == [pc |-> "idle", verdict |-> "unknown", child |-> 0,
           attempt |-> 0, attempts |-> 0, error |-> "none"]

\* requests: calls of the primitive; answers: those that returned a value;
\* billed: those whose usage was tracked; reports: outcomes the frame
\* recorded with the circuit breaker.
Tallies == [requests : Nat, answers : Nat, billed : Nat, reports : Nat]

Nothing == [requests |-> 0, answers |-> 0, billed |-> 0, reports |-> 0]

\* absent: no entry.  value: what a primitive returned.  skipped: SKIPPED.
\* none: the None of a skipped failure.
Results == {"absent", "value", "skipped", "none"}

Init ==
    /\ outcome = [r \in Runs |-> "running"]
    /\ next = [r \in Runs |-> 1]
    /\ frame = [r \in Runs |-> [s \in Steps |-> Closed]]
    /\ results = [r \in Runs |-> [s \in Steps |-> "absent"]]
    /\ suspended = [r \in Runs |-> FALSE]
    /\ degraded = [r \in Runs |-> FALSE]
    /\ breaker = [p \in Providers |-> Fresh]
    /\ spent = 0
    /\ tally = [r \in Runs |-> [s \in Steps |-> Nothing]]
    /\ refusals = 0

-----------------------------------------------------------------------------
(***************************************************************************)
(* Frames                                                                  *)
(***************************************************************************)

At(r, s, pc) == outcome[r] = "running" /\ frame[r][s].pc = pc

Goto(r, s, pc) == frame' = [frame EXCEPT ![r][s] = [@ EXCEPT !.pc = pc]]

\* s calls c: the frame of c opens, and s waits in pc.
Call(r, s, pc, c) ==
    frame' = [frame EXCEPT ![r][s] = [@ EXCEPT !.pc = pc],
                           ![r][c] = [@ EXCEPT !.pc = "starting"]]

Branch(r, s) == IF frame[r][s].pc = "then" THEN Then[s] ELSE Else[s]

InBranch(r, s) == At(r, s, "then") \/ At(r, s, "else")

\* The branch step s has reached, if it has not gone through all of them.
HasCallee(r, s) == frame[r][s].child \in DOMAIN Branch(r, s)

Callee(r, s) == Branch(r, s)[frame[r][s].child]

Guarded(s) == Provider[s] # NoProvider

Admits(s) == Guarded(s) => ~ Blocks(breaker[Provider[s]])

\* The breaker after cb.is_open answered for step s.
Consulted(s) ==
    IF Guarded(s) THEN [breaker EXCEPT ![Provider[s]] = Asked(@)] ELSE breaker

\* The outcomes an end of the try block records: one, if a breaker is used.
Outcome(s) == IF Guarded(s) THEN 1 ELSE 0

\* The history of a frame.
Requested(r, s) ==
    tally' = [tally EXCEPT ![r][s] = [tally[r][s] EXCEPT !.requests = @ + 1]]
Answered(r, s) ==
    tally' = [tally EXCEPT ![r][s] = [tally[r][s] EXCEPT !.answers = @ + 1]]
Charged(r, s) ==
    tally' = [tally EXCEPT ![r][s] = [tally[r][s] EXCEPT !.billed = @ + 1]]

\* The end of the try block is one outcome for the breaker, if there is one.
Reported(r, s) ==
    tally' = [tally EXCEPT ![r][s] =
                 [tally[r][s] EXCEPT !.reports = @ + Outcome(s)]]

ChargedAndReported(r, s) ==
    tally' = [tally EXCEPT ![r][s] =
                 [tally[r][s] EXCEPT !.billed = @ + 1, !.reports = @ + Outcome(s)]]

\* The except clause up to its first await: the failure is recorded with
\* the breaker, and its opening is announced, before the on_error hook.
Throw(r, s, e, b) ==
    LET p == Provider[s]
        after == IF Guarded(s) THEN [b EXCEPT ![p] = AfterFailure(@)] ELSE b
        opens == Guarded(s) /\ b[p].state # "open" /\ after[p].state = "open"
    IN  /\ breaker' = after
        /\ frame' = [frame EXCEPT ![r][s] =
               [@ EXCEPT !.pc = IF opens THEN "opening" ELSE "handling",
                         !.error = e]]

\* The end of the try block: the success is recorded with the breaker.
Credit(r, s) ==
    LET p == Provider[s]
        after == IF Guarded(s) THEN [breaker EXCEPT ![p] = AfterSuccess(@)]
                 ELSE breaker
        closes == Guarded(s) /\ breaker[p].state = "half-open"
                             /\ after[p].state = "closed"
    IN  /\ breaker' = after
        /\ Goto(r, s, IF closes THEN "closing" ELSE "returned")

\* The recovery yields v, stored before the second on_step_end.
Recover(r, s, v) ==
    /\ results' = [results EXCEPT ![r][s] = v]
    /\ Goto(r, s, "recovered")

Raise(r, s) == Goto(r, s, "raised")

-----------------------------------------------------------------------------
(***************************************************************************)
(* The try block of execute_step_with_context                              *)
(***************************************************************************)

\* Mutant: the breaker check stands inside the try.
RefuseInsideTry(r, s) ==
    /\ At(r, s, "starting")
    /\ ~ Admits(s)
    /\ Throw(r, s, "circuit", breaker)
    /\ Reported(r, s)
    /\ UNCHANGED <<outcome, next, results, suspended, degraded, spent, refusals>>

\* The breaker check stands before the try: its error reaches no handler.
Refuse(r, s) ==
    /\ At(r, s, "starting")
    /\ ~ Admits(s)
    /\ frame' = [frame EXCEPT ![r][s] =
           [@ EXCEPT !.pc = "raised", !.error = "circuit"]]
    /\ UNCHANGED <<outcome, next, results, suspended, degraded, breaker, spent,
                   tally, refusals>>

\* No condition, or a true one: the primitive is invoked.
Invoke(r, s) ==
    /\ At(r, s, "starting")
    /\ Admits(s)
    /\ breaker' = Consulted(s)
    /\ frame' = [frame EXCEPT ![r][s] =
           [@ EXCEPT !.pc = "calling",
                     !.verdict = IF s \in Conditional THEN "true" ELSE "unknown"]]
    /\ Requested(r, s)
    /\ UNCHANGED <<outcome, next, results, suspended, degraded, spent, refusals>>

\* A false condition: the step is SKIPPED and its else branch entered.
TakeElse(r, s) ==
    /\ At(r, s, "starting")
    /\ Admits(s)
    /\ s \in Conditional
    /\ breaker' = Consulted(s)
    /\ frame' = [frame EXCEPT ![r][s] =
           [@ EXCEPT !.pc = "else", !.verdict = "false", !.child = 1]]
    /\ results' = [results EXCEPT ![r][s] = "skipped"]
    /\ UNCHANGED <<outcome, next, suspended, degraded, spent, tally, refusals>>

\* The condition compares values of different types.
FailCondition(r, s) ==
    /\ At(r, s, "starting")
    /\ Admits(s)
    /\ s \in Conditional
    /\ Throw(r, s, "condition", Consulted(s))
    /\ Reported(r, s)
    /\ UNCHANGED <<outcome, next, results, suspended, degraded, spent, refusals>>

\* A primitive may suspend the context it is given.
MaySuspend(r, s) ==
    \/ suspended' = suspended
    \/ s \in Suspending /\ suspended' = [suspended EXCEPT ![r] = TRUE]

Answer(r, s) ==
    /\ At(r, s, "calling")
    /\ results' = [results EXCEPT ![r][s] = "value"]
    /\ IF s \in Conditional
       THEN frame' = [frame EXCEPT ![r][s] =
                         [@ EXCEPT !.pc = "then", !.child = 1]]
       ELSE Goto(r, s, "ending")
    /\ Answered(r, s)
    /\ MaySuspend(r, s)
    /\ UNCHANGED <<outcome, next, degraded, breaker, spent, refusals>>

\* What may go wrong in _run_with_timeout.  A timeout cancels the primitive,
\* whose late answer is never stored.
CallErrors(s) == IF s \in Timed THEN {"primitive", "timeout"} ELSE {"primitive"}

FailCall(r, s) ==
    /\ At(r, s, "calling")
    /\ \E e \in CallErrors(s) : Throw(r, s, e, breaker)
    /\ Reported(r, s)
    /\ UNCHANGED <<outcome, next, results, suspended, degraded, spent, refusals>>

\* _execute_steps: the steps of a branch one after the other.
CallNested(r, s) ==
    /\ InBranch(r, s)
    /\ HasCallee(r, s)
    /\ frame[r][Callee(r, s)].pc = "idle"
    /\ Call(r, s, frame[r][s].pc, Callee(r, s))
    /\ UNCHANGED <<outcome, next, results, suspended, degraded, breaker, spent,
                   tally, refusals>>

\* Mutant: the branch does not advance.
NestedReturnedStays(r, s) ==
    /\ InBranch(r, s)
    /\ HasCallee(r, s)
    /\ frame[r][Callee(r, s)].pc = "returned"
    /\ UNCHANGED vars

NestedReturned(r, s) ==
    /\ InBranch(r, s)
    /\ HasCallee(r, s)
    /\ frame[r][Callee(r, s)].pc = "returned"
    /\ frame' = [frame EXCEPT ![r][s] = [frame[r][s] EXCEPT !.child = @ + 1]]
    /\ UNCHANGED <<outcome, next, results, suspended, degraded, breaker, spent,
                   tally, refusals>>

NestedRaised(r, s) ==
    /\ InBranch(r, s)
    /\ HasCallee(r, s)
    /\ frame[r][Callee(r, s)].pc = "raised"
    /\ Throw(r, s, "nested", breaker)
    /\ Reported(r, s)
    /\ UNCHANGED <<outcome, next, results, suspended, degraded, spent, refusals>>

BranchDone(r, s) ==
    /\ InBranch(r, s)
    /\ ~ HasCallee(r, s)
    /\ Goto(r, s, "ending")
    /\ UNCHANGED <<outcome, next, results, suspended, degraded, breaker, spent,
                   tally, refusals>>

\* Mutant: the limit itself is within the budget.
ExceededAbove(cost) == cost > MaxCostUsd

\* check_budget: EXCEEDED from the limit on, DEGRADED from the threshold on.
Exceeded(cost) == cost >= MaxCostUsd
NearLimit(cost) == cost >= DegradeAt

\* Only a dict with usage is billed; SKIPPED is not one.
Billed(r, s) == s \in Metered /\ frame[r][s].verdict # "false"

EndUnbilled(r, s) ==
    /\ At(r, s, "ending")
    /\ ~ Billed(r, s)
    /\ Credit(r, s)
    /\ Reported(r, s)
    /\ UNCHANGED <<outcome, next, results, suspended, degraded, spent, refusals>>

\* A cost that is no number: track_usage raises before it counts it, inside
\* the try like everything here.
UsageUnreadable(r, s) ==
    /\ At(r, s, "ending")
    /\ Billed(r, s) /\ s \in Garbling
    /\ Throw(r, s, "usage", breaker)
    /\ Reported(r, s)
    /\ UNCHANGED <<outcome, next, results, suspended, degraded, spent, refusals>>

\* track_usage, then check_budget: EXCEEDED raises a BudgetError inside the
\* try, the first DEGRADED of a run is announced, anything else goes on.
EndBilled(r, s) ==
    /\ At(r, s, "ending")
    /\ Billed(r, s)
    /\ \E cost \in 0 .. StepCost : spent' = spent + cost
    /\ \/ /\ Exceeded(spent')
          /\ Throw(r, s, "budget", breaker)
          /\ ChargedAndReported(r, s)
          /\ refusals' = refusals + 1
          /\ UNCHANGED degraded
       \/ /\ ~ Exceeded(spent') /\ NearLimit(spent') /\ ~ degraded[r]
          /\ degraded' = [degraded EXCEPT ![r] = TRUE]
          /\ Goto(r, s, "threshold")
          /\ Charged(r, s)
          /\ UNCHANGED <<breaker, refusals>>
       \/ /\ ~ Exceeded(spent') /\ (~ NearLimit(spent') \/ degraded[r])
          /\ Credit(r, s)
          /\ ChargedAndReported(r, s)
          /\ UNCHANGED <<degraded, refusals>>
    /\ UNCHANGED <<outcome, next, results, suspended>>

ThresholdAnnounced(r, s) ==
    /\ At(r, s, "threshold")
    /\ Credit(r, s)
    /\ Reported(r, s)
    /\ UNCHANGED <<outcome, next, results, suspended, degraded, spent, refusals>>

ClosingAnnounced(r, s) ==
    /\ At(r, s, "closing")
    /\ Goto(r, s, "returned")
    /\ UNCHANGED <<outcome, next, results, suspended, degraded, breaker, spent,
                   tally, refusals>>

OpeningAnnounced(r, s) ==
    /\ At(r, s, "opening")
    /\ Goto(r, s, "handling")
    /\ UNCHANGED <<outcome, next, results, suspended, degraded, breaker, spent,
                   tally, refusals>>

-----------------------------------------------------------------------------
(***************************************************************************)
(* _apply_strategy and the recoveries                                      *)
(***************************************************************************)

\* Entering _retry_step with n attempts: with none left it raises at once.
StartRetries(r, s, n) ==
    frame' = [frame EXCEPT ![r][s] =
        [@ EXCEPT !.pc = IF n = 0 THEN "raised" ELSE "backoff",
                  !.attempt = 1, !.attempts = n]]

StartFallback(r, s) ==
    \/ Fallback[s] = NoStep /\ Raise(r, s)
    \/ /\ Fallback[s] # NoStep
       /\ frame[r][Fallback[s]].pc = "idle"
       /\ Call(r, s, "fallback", Fallback[s])

ApplyFail(r, s) ==
    /\ At(r, s, "handling")
    /\ \/ Strategy[s] = "fail"
       \/ Strategy[s] = "delegate" /\ ~ HasDelegate
    /\ Raise(r, s)
    /\ UNCHANGED <<outcome, next, results, suspended, degraded, breaker, spent,
                   tally, refusals>>

ApplySkip(r, s) ==
    /\ At(r, s, "handling")
    /\ Strategy[s] = "skip"
    /\ Recover(r, s, "none")
    /\ UNCHANGED <<outcome, next, suspended, degraded, breaker, spent, tally,
                   refusals>>

ApplyRetry(r, s) ==
    /\ At(r, s, "handling")
    /\ Strategy[s] = "retry"
    /\ StartRetries(r, s, MaxAttempts[s])
    /\ UNCHANGED <<outcome, next, results, suspended, degraded, breaker, spent,
                   tally, refusals>>

ApplyFallback(r, s) ==
    /\ At(r, s, "handling")
    /\ Strategy[s] = "fallback"
    /\ StartFallback(r, s)
    /\ UNCHANGED <<outcome, next, results, suspended, degraded, breaker, spent,
                   tally, refusals>>

ApplyDelegate(r, s) ==
    /\ At(r, s, "handling")
    /\ Strategy[s] = "delegate" /\ HasDelegate
    /\ Goto(r, s, "delegating")
    /\ UNCHANGED <<outcome, next, results, suspended, degraded, breaker, spent,
                   tally, refusals>>

\* The backoff has elapsed and on_retry returned.  _run_with_timeout is
\* called without asking the breaker again.
Retry(r, s) ==
    /\ At(r, s, "backoff")
    /\ Goto(r, s, "retrying")
    /\ Requested(r, s)
    /\ UNCHANGED <<outcome, next, results, suspended, degraded, breaker, spent,
                   refusals>>

\* A retry that succeeds tells neither the breaker nor the enforcer.
RetryAnswer(r, s) ==
    /\ At(r, s, "retrying")
    /\ Recover(r, s, "value")
    /\ Answered(r, s)
    /\ MaySuspend(r, s)
    /\ UNCHANGED <<outcome, next, degraded, breaker, spent, refusals>>

RetryFail(r, s) ==
    /\ At(r, s, "retrying")
    /\ IF frame[r][s].attempt < frame[r][s].attempts
       THEN frame' = [frame EXCEPT ![r][s] =
                         [frame[r][s] EXCEPT !.pc = "backoff", !.attempt = @ + 1]]
       ELSE Raise(r, s)
    /\ UNCHANGED <<outcome, next, results, suspended, degraded, breaker, spent,
                   tally, refusals>>

FallbackReturned(r, s) ==
    /\ At(r, s, "fallback")
    /\ Fallback[s] # NoStep
    /\ frame[r][Fallback[s]].pc = "returned"
    /\ Recover(r, s, results[r][Fallback[s]])
    /\ UNCHANGED <<outcome, next, suspended, degraded, breaker, spent, tally,
                   refusals>>

\* Mutant: a failing fallback counts as a recovery without a result.
FallbackSwallowed(r, s) ==
    /\ At(r, s, "fallback")
    /\ Fallback[s] # NoStep
    /\ frame[r][Fallback[s]].pc = "raised"
    /\ Recover(r, s, "none")
    /\ UNCHANGED <<outcome, next, suspended, degraded, breaker, spent, tally,
                   refusals>>

FallbackRaised(r, s) ==
    /\ At(r, s, "fallback")
    /\ Fallback[s] # NoStep
    /\ frame[r][Fallback[s]].pc = "raised"
    /\ Raise(r, s)
    /\ UNCHANGED <<outcome, next, results, suspended, degraded, breaker, spent,
                   tally, refusals>>

DelegateRetries == 2    \* RetryConfig(max_attempts=2)

\* The LLM answers retry, skip or fallback, answers something else, or fails.
DelegateChooses(r, s) ==
    /\ At(r, s, "delegating")
    /\ \/ StartRetries(r, s, DelegateRetries) /\ UNCHANGED results
       \/ Recover(r, s, "none")
       \/ Fallback[s] # NoStep /\ StartFallback(r, s) /\ UNCHANGED results
       \/ Raise(r, s) /\ UNCHANGED results
    /\ UNCHANGED <<outcome, next, suspended, degraded, breaker, spent, tally,
                   refusals>>

RecoveryAnnounced(r, s) ==
    /\ At(r, s, "recovered")
    /\ Goto(r, s, "returned")
    /\ UNCHANGED <<outcome, next, results, suspended, degraded, breaker, spent,
                   tally, refusals>>

-----------------------------------------------------------------------------
(***************************************************************************)
(* SequentialStrategy.execute and the life of a run                        *)
(***************************************************************************)

Current(r) == Workflow[next[r]]

\* The loop stops at the first step it reaches suspended.
BeginStep(r) ==
    /\ outcome[r] = "running"
    /\ ~ suspended[r]
    /\ next[r] \in DOMAIN Workflow
    /\ frame[r][Current(r)].pc = "idle"
    /\ Goto(r, Current(r), "starting")
    /\ UNCHANGED <<outcome, next, results, suspended, degraded, breaker, spent,
                   tally, refusals>>

StepReturned(r) ==
    /\ outcome[r] = "running"
    /\ next[r] \in DOMAIN Workflow
    /\ frame[r][Current(r)].pc = "returned"
    /\ next' = [next EXCEPT ![r] = @ + 1]
    /\ UNCHANGED <<outcome, frame, results, suspended, degraded, breaker, spent,
                   tally, refusals>>

StepRaised(r) ==
    /\ outcome[r] = "running"
    /\ next[r] \in DOMAIN Workflow
    /\ frame[r][Current(r)].pc = "raised"
    /\ outcome' = [outcome EXCEPT ![r] = "failed"]
    /\ UNCHANGED <<next, frame, results, suspended, degraded, breaker, spent,
                   tally, refusals>>

Complete(r) ==
    /\ outcome[r] = "running"
    /\ \/ next[r] \notin DOMAIN Workflow
       \/ /\ next[r] \in DOMAIN Workflow
          /\ suspended[r]
          /\ frame[r][Current(r)].pc = "idle"
    /\ outcome' = [outcome EXCEPT ![r] = "completed"]
    /\ UNCHANGED <<next, frame, results, suspended, degraded, breaker, spent,
                   tally, refusals>>

\* The task of the run is cancelled, as execute_stream does when its consumer
\* leaves.  CancelledError is no Exception: no handler runs.
Over == {"idle", "returned", "raised"}

Cancel(r) ==
    /\ outcome[r] = "running"
    /\ outcome' = [outcome EXCEPT ![r] = "cancelled"]
    /\ frame' = [frame EXCEPT ![r] = [s \in Steps |->
                    IF frame[r][s].pc \in Over THEN frame[r][s]
                    ELSE [frame[r][s] EXCEPT !.pc = "cancelled"]]]
    /\ UNCHANGED <<next, results, suspended, degraded, breaker, spent, tally,
                   refusals>>

TryStep(r, s) ==
    \/ Refuse(r, s) \/ Invoke(r, s) \/ TakeElse(r, s) \/ FailCondition(r, s)
    \/ Answer(r, s) \/ FailCall(r, s)
    \/ CallNested(r, s) \/ NestedReturned(r, s) \/ NestedRaised(r, s)
    \/ BranchDone(r, s)
    \/ EndUnbilled(r, s) \/ UsageUnreadable(r, s) \/ EndBilled(r, s)
    \/ ThresholdAnnounced(r, s) \/ ClosingAnnounced(r, s)

RecoverStep(r, s) ==
    \/ OpeningAnnounced(r, s)
    \/ ApplyFail(r, s) \/ ApplySkip(r, s) \/ ApplyRetry(r, s)
    \/ ApplyFallback(r, s) \/ ApplyDelegate(r, s)
    \/ Retry(r, s) \/ RetryAnswer(r, s) \/ RetryFail(r, s)
    \/ FallbackReturned(r, s) \/ FallbackRaised(r, s)
    \/ DelegateChooses(r, s) \/ RecoveryAnnounced(r, s)

Progress(r) ==
    \/ BeginStep(r) \/ StepReturned(r) \/ StepRaised(r) \/ Complete(r)
    \/ \E s \in Steps : TryStep(r, s) \/ RecoverStep(r, s)

Tick ==
    /\ breaker' = [p \in Providers |-> Aged(breaker[p])]
    /\ breaker' # breaker
    /\ UNCHANGED <<outcome, next, frame, results, suspended, degraded, spent,
                   tally, refusals>>

Terminated ==
    /\ \A r \in Runs : outcome[r] # "running"
    /\ UNCHANGED vars

Next ==
    \/ \E r \in Runs : Progress(r) \/ Cancel(r)
    \/ Tick
    \/ Terminated

Spec == Init /\ [][Next]_vars

\* The event loop runs every task that can go on, and every primitive, hook
\* and LLM call that is awaited returns, raises or times out in the end.
FairSpec == Spec /\ \A r \in Runs : WF_vars(Progress(r))

-----------------------------------------------------------------------------
(***************************************************************************)
(* Properties                                                              *)
(***************************************************************************)

\* Every variable keeps its type.
TypeOK ==
    /\ outcome \in [Runs -> {"running", "completed", "failed", "cancelled"}]
    /\ next \in [Runs -> Nat]
    /\ frame \in [Runs -> [Steps -> Frames]]
    /\ results \in [Runs -> [Steps -> Results]]
    /\ suspended \in [Runs -> BOOLEAN]
    /\ degraded \in [Runs -> BOOLEAN]
    /\ breaker \in [Providers -> ProviderStates]
    /\ spent \in Nat
    /\ tally \in [Runs -> [Steps -> Tallies]]
    /\ refusals \in Nat

\* Before the try block of a frame has ended, on either side.
Trying == {"idle", "starting", "calling", "then", "else", "ending", "threshold"}

\* A step the breaker admitted reports exactly one outcome to it, whatever
\* nested step, budget check, hook or recovery it goes through; a step the
\* breaker refused, or that has no provider, reports none
\* (execute_step_with_context, the two record_ calls around the handlers).
OneOutcomePerAdmission ==
    \A r \in Runs, s \in Steps :
        LET f == frame[r][s]
            reports == tally[r][s].reports
        IN  /\ f.pc \in Trying => reports = 0
            /\ f.pc = "cancelled" => reports <= Outcome(s)
            /\ f.pc \notin Trying \cup {"cancelled"} =>
                   reports = IF f.error = "circuit" THEN 0 ELSE Outcome(s)

\* Each time the tracked spending passes the limit some step is refused: what
\* was spent beyond the limit is at most one step's cost per BudgetError, even
\* when several runs are billed between two checks of one of them.
OvershootBounded == spent < MaxCostUsd + StepCost * refusals

Nested(c, s) ==
    \/ \E i \in DOMAIN Then[c] : Then[c][i] = s
    \/ \E i \in DOMAIN Else[c] : Else[c][i] = s

\* Step c took the error of s on itself: as the error of a nested step that it
\* handles, or by raising as its fallback did.
TakesError(r, c, s) ==
    \/ Nested(c, s) /\ frame[r][c].error # "none"
    \/ Fallback[c] = s /\ frame[r][c].pc = "raised"

\* No error is lost: when a run completes, a step that raised was called by a
\* step that handled the error, or took its primary step down with it.
ErrorsSurface ==
    \A r \in Runs, s \in Steps :
        outcome[r] = "completed" /\ frame[r][s].pc = "raised" =>
            \E c \in Steps : TakesError(r, c, s)

\* A step is invoked once by itself and then at most as often as its retry
\* configuration, or the delegate's, says.
RetriesOf(s) ==
    CASE Strategy[s] = "retry" -> MaxAttempts[s]
      [] Strategy[s] = "delegate" -> DelegateRetries
      [] OTHER -> 0

\* Every run ends: no chain of failures, retries, fallbacks and nested steps
\* keeps a run going for ever.
EveryRunEnds == \A r \in Runs : <>(outcome[r] # "running")

-----------------------------------------------------------------------------
(***************************************************************************)
(* What the documentation says of the program, and the code does not do    *)
(***************************************************************************)

\* BudgetStatus: EXCEEDED means "the workflow should be stopped".
ExceededStopsWorkflow ==
    \A r \in Runs, s \in Steps :
        frame[r][s].error = "budget" => outcome[r] # "completed"

\* IBudgetEnforcer.track_usage: "Record token/cost usage for a completed step".
CompletedStepsAreBilled ==
    \A r \in Runs, s \in Steps :
        /\ s \in Metered
        /\ frame[r][s].pc = "returned"
        /\ tally[r][s].answers > 0
        => tally[r][s].billed > 0

\* ICircuitBreaker.record_success: "a successful request for the given
\* provider" is what closes a half-open circuit.
ClosingNeedsRequest ==
    \A r \in Runs, s \in Steps :
        frame[r][s].pc = "closing" => tally[r][s].answers > 0

\* ICircuitBreaker.record_failure: "a failed request for the given provider"
\* is what opens the circuit.
OpeningNeedsFailedRequest ==
    \A r \in Runs, s \in Steps :
        frame[r][s].pc = "opening" => frame[r][s].error \in {"primitive", "timeout"}

\* execute_step_with_context: "When falsy the primitive is skipped".
FalsySkipsPrimitive ==
    \A r \in Runs, s \in Steps :
        frame[r][s].verdict = "false" => tally[r][s].requests = 0

\* execute_step_with_context: "When truthy the step's primitive runs and any
\* then_steps are executed afterwards".
TruthyRunsThenSteps ==
    \A r \in Runs, s \in Steps :
        /\ frame[r][s].verdict = "true"
        /\ frame[r][s].pc = "returned"
        /\ results[r][s] = "value"
        => \A i \in DOMAIN Then[s] : frame[r][Then[s][i]].pc # "idle"

\* RetryConfig.max_attempts: "Maximum number of retry attempts (including the
\* first)".
AttemptsIncludeTheFirst ==
    \A r \in Runs, s \in Steps :
        Strategy[s] = "retry" /\ MaxAttempts[s] > 0 =>
            tally[r][s].requests <= MaxAttempts[s]

\* ExecutionContext.suspended: "When True the executor skips remaining steps".
SuspendedSkipsRemainingSteps ==
    [][\A r \in Runs, s \in Steps :
          frame[r][s].pc = "idle" /\ frame'[r][s].pc = "starting" =>
              ~ suspended[r]]_vars
=============================================================================
