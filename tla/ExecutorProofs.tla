--------------------------- MODULE ExecutorProofs ---------------------------
(***************************************************************************)
(* The executor's invariants, for any workflow, any number of runs and     *)
(* any thresholds and costs.                                               *)
(***************************************************************************)
EXTENDS Executor, BreakerStateProofs

-----------------------------------------------------------------------------
(***************************************************************************)
(* Updates of one frame and of one tally                                   *)
(***************************************************************************)

LEMMA PcUpdate ==
    ASSUME NEW f \in Frames, NEW pc \in PCs
    PROVE  [f EXCEPT !.pc = pc] \in Frames
BY DEF Frames

LEMMA ErrorUpdate ==
    ASSUME NEW f \in Frames, NEW pc \in PCs, NEW e \in Errors
    PROVE  [f EXCEPT !.pc = pc, !.error = e] \in Frames
BY DEF Frames

LEMMA VerdictUpdate ==
    ASSUME NEW f \in Frames, NEW pc \in PCs, NEW v \in {"unknown", "true", "false"}
    PROVE  [f EXCEPT !.pc = pc, !.verdict = v] \in Frames
BY DEF Frames

LEMMA ElseUpdate ==
    ASSUME NEW f \in Frames, NEW pc \in PCs,
           NEW v \in {"unknown", "true", "false"}
    PROVE  [f EXCEPT !.pc = pc, !.verdict = v, !.child = 1] \in Frames
BY DEF Frames

LEMMA ChildUpdate ==
    ASSUME NEW f \in Frames, NEW pc \in PCs
    PROVE  [f EXCEPT !.pc = pc, !.child = 1] \in Frames
BY DEF Frames

LEMMA ChildAdvance ==
    ASSUME NEW f \in Frames
    PROVE  [f EXCEPT !.child = f.child + 1] \in Frames
BY DEF Frames

LEMMA AttemptUpdate ==
    ASSUME NEW f \in Frames, NEW pc \in PCs, NEW n \in Nat
    PROVE  [f EXCEPT !.pc = pc, !.attempt = 1, !.attempts = n] \in Frames
BY DEF Frames

LEMMA AttemptAdvance ==
    ASSUME NEW f \in Frames, NEW pc \in PCs
    PROVE  [f EXCEPT !.pc = pc, !.attempt = f.attempt + 1] \in Frames
<1>1. f.attempt + 1 \in Nat
    BY DEF Frames
<1>2. QED
    BY <1>1 DEF Frames

LEMMA RequestsUpdate ==
    ASSUME NEW t \in Tallies
    PROVE  [t EXCEPT !.requests = t.requests + 1] \in Tallies
BY DEF Tallies

LEMMA AnswersUpdate ==
    ASSUME NEW t \in Tallies
    PROVE  [t EXCEPT !.answers = t.answers + 1] \in Tallies
BY DEF Tallies

LEMMA BilledUpdate ==
    ASSUME NEW t \in Tallies
    PROVE  [t EXCEPT !.billed = t.billed + 1] \in Tallies
BY DEF Tallies

LEMMA ReportsUpdate ==
    ASSUME NEW t \in Tallies, NEW n \in Nat
    PROVE  [t EXCEPT !.reports = t.reports + n] \in Tallies
BY DEF Tallies

LEMMA BilledReportsUpdate ==
    ASSUME NEW t \in Tallies, NEW n \in Nat
    PROVE  [t EXCEPT !.billed = t.billed + 1, !.reports = t.reports + n] \in Tallies
<1>1. t.billed + 1 \in Nat /\ t.reports + n \in Nat
    BY DEF Tallies
<1>2. QED
    BY <1>1 DEF Tallies

\* Counting keeps the type of the history.
LEMMA TallyType ==
    ASSUME TypeOK, NEW r \in Runs, NEW s \in Steps,
           \/ Requested(r, s) \/ Answered(r, s) \/ Charged(r, s)
           \/ Reported(r, s) \/ ChargedAndReported(r, s)
    PROVE  tally' \in [Runs -> [Steps -> Tallies]]
<1>0. Outcome(s) \in Nat
    BY DEF Outcome
<1>1. tally[r][s] \in Tallies /\ tally \in [Runs -> [Steps -> Tallies]]
    BY DEF TypeOK
<1>2. CASE Requested(r, s)
    BY <1>1, <1>2, RequestsUpdate DEF Requested
<1>3. CASE Answered(r, s)
    BY <1>1, <1>3, AnswersUpdate DEF Answered
<1>4. CASE Charged(r, s)
    BY <1>1, <1>4, BilledUpdate DEF Charged
<1>5. CASE Reported(r, s)
    BY <1>0, <1>1, <1>5, ReportsUpdate DEF Reported
<1>6. CASE ChargedAndReported(r, s)
    BY <1>0, <1>1, <1>6, BilledReportsUpdate DEF ChargedAndReported
<1>7. QED
    BY <1>2, <1>3, <1>4, <1>5, <1>6

-----------------------------------------------------------------------------
(***************************************************************************)
(* Type correctness                                                        *)
(***************************************************************************)

LEMMA InitType == Init => TypeOK
BY FreshType, ExecutorAssumption
   DEF Init, TypeOK, Frames, PCs, Errors, Closed, Tallies, Nothing, Results

\* A frame replaced by another frame.
LEMMA FrameSet ==
    ASSUME TypeOK, NEW r \in Runs, NEW s \in Steps, NEW f \in Frames,
           frame' = [frame EXCEPT ![r][s] = f]
    PROVE  frame' \in [Runs -> [Steps -> Frames]]
BY DEF TypeOK

LEMMA GotoType ==
    ASSUME TypeOK, NEW r \in Runs, NEW s \in Steps, NEW pc \in PCs,
           Goto(r, s, pc)
    PROVE  frame' \in [Runs -> [Steps -> Frames]]
BY PcUpdate DEF TypeOK, Goto

LEMMA CallType ==
    ASSUME TypeOK, NEW r \in Runs, NEW s \in Steps, NEW c \in Steps,
           NEW pc \in PCs, Call(r, s, pc, c)
    PROVE  frame' \in [Runs -> [Steps -> Frames]]
<1>1. "starting" \in PCs
    BY DEF PCs
<1>2. QED
    BY <1>1, PcUpdate DEF TypeOK, Call

LEMMA ConsultedType ==
    ASSUME TypeOK, NEW s \in Steps
    PROVE  Consulted(s) \in [Providers -> ProviderStates]
BY AskedType, ExecutorAssumption DEF TypeOK, Consulted, Guarded

LEMMA ThrowType ==
    ASSUME TypeOK, NEW r \in Runs, NEW s \in Steps, NEW e \in Errors,
           NEW b \in [Providers -> ProviderStates], Throw(r, s, e, b)
    PROVE  /\ frame' \in [Runs -> [Steps -> Frames]]
           /\ breaker' \in [Providers -> ProviderStates]
<1>1. breaker' \in [Providers -> ProviderStates]
    BY AfterFailureType, ExecutorAssumption DEF Throw, Guarded
<1>2. PICK pc \in PCs :
          frame' = [frame EXCEPT ![r][s] = [@ EXCEPT !.pc = pc, !.error = e]]
    BY DEF Throw, PCs
<1>3. QED
    BY <1>1, <1>2, ErrorUpdate DEF TypeOK

LEMMA CreditType ==
    ASSUME TypeOK, NEW r \in Runs, NEW s \in Steps, Credit(r, s)
    PROVE  /\ frame' \in [Runs -> [Steps -> Frames]]
           /\ breaker' \in [Providers -> ProviderStates]
<1>1. breaker' \in [Providers -> ProviderStates]
    BY AfterSuccessType, ExecutorAssumption DEF Credit, Guarded, TypeOK
<1>2. PICK pc \in PCs : Goto(r, s, pc)
    BY DEF Credit, PCs
<1>3. QED
    BY <1>1, <1>2, GotoType

LEMMA RecoverType ==
    ASSUME TypeOK, NEW r \in Runs, NEW s \in Steps, NEW v \in Results,
           Recover(r, s, v)
    PROVE  /\ frame' \in [Runs -> [Steps -> Frames]]
           /\ results' \in [Runs -> [Steps -> Results]]
<1>1. "recovered" \in PCs
    BY DEF PCs
<1>2. QED
    BY <1>1, GotoType DEF Recover, TypeOK

LEMMA StartRetriesType ==
    ASSUME TypeOK, NEW r \in Runs, NEW s \in Steps, NEW n \in Nat,
           StartRetries(r, s, n)
    PROVE  frame' \in [Runs -> [Steps -> Frames]]
<1>1. PICK pc \in PCs :
          frame' = [frame EXCEPT ![r][s] =
                       [@ EXCEPT !.pc = pc, !.attempt = 1, !.attempts = n]]
    BY DEF StartRetries, PCs
<1>2. QED
    BY <1>1, AttemptUpdate DEF TypeOK

LEMMA StartFallbackType ==
    ASSUME TypeOK, NEW r \in Runs, NEW s \in Steps, StartFallback(r, s)
    PROVE  frame' \in [Runs -> [Steps -> Frames]]
<1>1. "raised" \in PCs /\ "fallback" \in PCs
    BY DEF PCs
<1>2. CASE Fallback[s] = NoStep /\ Raise(r, s)
    BY <1>1, <1>2, GotoType DEF Raise
<1>3. CASE Fallback[s] # NoStep /\ Call(r, s, "fallback", Fallback[s])
    BY <1>1, <1>3, CallType, ExecutorAssumption
<1>4. QED
    BY <1>2, <1>3 DEF StartFallback

LEMMA CalleeType ==
    ASSUME TypeOK, NEW r \in Runs, NEW s \in Steps, HasCallee(r, s)
    PROVE  Callee(r, s) \in Steps
<1>1. Then[s] \in Seq(Steps) /\ Else[s] \in Seq(Steps)
    BY ExecutorAssumption
<1>2. Branch(r, s) \in Seq(Steps)
    BY <1>1 DEF Branch
<1>3. QED
    BY <1>2 DEF HasCallee, Callee

LEMMA TryType ==
    ASSUME TypeOK, NEW r \in Runs, NEW s \in Steps, TryStep(r, s)
    PROVE  TypeOK'
<1> USE DEF TypeOK
<1>pc. \A pc \in {"starting", "calling", "then", "else", "ending", "threshold",
                  "closing", "opening", "handling", "backoff", "retrying",
                  "delegating", "fallback", "recovered", "returned", "raised"} :
          pc \in PCs
    BY DEF PCs
<1>er. \A e \in {"circuit", "condition", "primitive", "timeout", "nested", "usage", "budget"} :
          e \in Errors
    BY DEF Errors
<1>re. \A v \in {"value", "skipped", "none"} : v \in Results
    BY DEF Results
<1>1. CASE Refuse(r, s)
    BY <1>1, <1>pc, <1>er, <1>re, ErrorUpdate
       DEF Refuse
<1>2. CASE Invoke(r, s)
    <2> DEFINE v == IF s \in Conditional THEN "true" ELSE "unknown"
               f == [frame[r][s] EXCEPT !.pc = "calling", !.verdict = v]
    <2>1. frame' = [frame EXCEPT ![r][s] = f]
        BY <1>2 DEF Invoke
    <2>2. f \in Frames
        <3>1. frame[r][s] \in Frames /\ "calling" \in PCs
            BY <1>pc
        <3>2. QED
            BY <3>1, VerdictUpdate
    <2> HIDE DEF f
    <2>3. frame' \in [Runs -> [Steps -> Frames]]
        BY <2>1, <2>2
    <2>4. breaker' \in [Providers -> ProviderStates]
        BY <1>2, ConsultedType DEF Invoke
    <2>5. tally' \in [Runs -> [Steps -> Tallies]]
        BY <1>2, TallyType DEF Invoke
    <2>6. QED
        BY <1>2, <2>3, <2>4, <2>5 DEF Invoke
<1>3. CASE TakeElse(r, s)
    BY <1>3, <1>pc, <1>er, <1>re, ConsultedType, ElseUpdate
       DEF TakeElse
<1>4. CASE FailCondition(r, s)
    BY <1>4, <1>pc, <1>er, <1>re, ConsultedType, ThrowType, TallyType
       DEF FailCondition
<1>5. CASE Answer(r, s)
    <2>1. frame' \in [Runs -> [Steps -> Frames]]
        <3>1. CASE s \in Conditional
            <4> DEFINE f == [frame[r][s] EXCEPT !.pc = "then", !.child = 1]
            <4>1. frame' = [frame EXCEPT ![r][s] = f]
                BY <1>5, <3>1 DEF Answer
            <4>2. f \in Frames
                <5>1. frame[r][s] \in Frames
                    OBVIOUS
                <5>2. "then" \in PCs
                    BY <1>pc
                <5>3. QED
                    BY <5>1, <5>2, ChildUpdate
            <4> HIDE DEF f
            <4>3. QED
                BY <4>1, <4>2, FrameSet
        <3>2. CASE s \notin Conditional
            BY <1>5, <3>2, <1>pc, GotoType DEF Answer
        <3>3. QED
            BY <3>1, <3>2
    <2>2. tally' \in [Runs -> [Steps -> Tallies]]
        BY <1>5, TallyType DEF Answer
    <2>3. suspended' \in [Runs -> BOOLEAN]
        BY <1>5 DEF Answer, MaySuspend
    <2>4. QED
        BY <1>5, <1>re, <2>1, <2>2, <2>3 DEF Answer
<1>6. CASE FailCall(r, s)
    BY <1>6, <1>pc, <1>er, <1>re, ThrowType, TallyType
       DEF FailCall, CallErrors
<1>7. CASE CallNested(r, s)
    BY <1>7, <1>pc, <1>er, <1>re, CallType, CalleeType
       DEF CallNested, InBranch, At
<1>8. CASE NestedReturned(r, s)
    BY <1>8, <1>pc, <1>er, <1>re, ChildAdvance
       DEF NestedReturned
<1>9. CASE NestedRaised(r, s)
    BY <1>9, <1>pc, <1>er, <1>re, ThrowType, TallyType
       DEF NestedRaised
<1>10. CASE BranchDone(r, s)
    BY <1>10, <1>pc, <1>er, <1>re, GotoType
       DEF BranchDone
<1>11. CASE EndUnbilled(r, s)
    BY <1>11, <1>pc, <1>er, <1>re, CreditType, TallyType
       DEF EndUnbilled
<1>u. CASE UsageUnreadable(r, s)
    BY <1>u, <1>pc, <1>er, <1>re, ThrowType, TallyType
       DEF UsageUnreadable
<1>12. CASE EndBilled(r, s)
    <2>1. spent' \in Nat
        BY <1>12, ExecutorAssumption DEF EndBilled
    <2>2. tally' \in [Runs -> [Steps -> Tallies]]
        BY <1>12, TallyType DEF EndBilled
    <2>3. CASE Throw(r, s, "budget", breaker) /\ refusals' = refusals + 1
                  /\ UNCHANGED degraded
        <3>1. /\ frame' \in [Runs -> [Steps -> Frames]]
              /\ breaker' \in [Providers -> ProviderStates]
            BY <2>3, <1>er, ThrowType
        <3>2. QED
            BY <1>12, <2>1, <2>2, <2>3, <3>1 DEF EndBilled
    <2>4. CASE Goto(r, s, "threshold") /\ UNCHANGED <<breaker, refusals>>
                  /\ degraded' = [degraded EXCEPT ![r] = TRUE]
        <3>1. frame' \in [Runs -> [Steps -> Frames]]
            BY <2>4, <1>pc, GotoType
        <3>2. QED
            BY <1>12, <2>1, <2>2, <2>4, <3>1 DEF EndBilled
    <2>5. CASE Credit(r, s) /\ UNCHANGED <<degraded, refusals>>
        <3>1. /\ frame' \in [Runs -> [Steps -> Frames]]
              /\ breaker' \in [Providers -> ProviderStates]
            BY <2>5, CreditType
        <3>2. QED
            BY <1>12, <2>1, <2>2, <2>5, <3>1 DEF EndBilled
    <2>6. QED
        BY <1>12, <2>3, <2>4, <2>5 DEF EndBilled
<1>13. CASE ThresholdAnnounced(r, s)
    BY <1>13, <1>pc, <1>er, <1>re, CreditType, TallyType
       DEF ThresholdAnnounced
<1>14. CASE ClosingAnnounced(r, s)
    BY <1>14, <1>pc, <1>er, <1>re, GotoType
       DEF ClosingAnnounced
<1>q. QED
    BY <1>1, <1>2, <1>3, <1>4, <1>5, <1>6, <1>7, <1>8, <1>9, <1>10, <1>11, <1>12, <1>13, <1>14, <1>u DEF TryStep

LEMMA RecoveryType ==
    ASSUME TypeOK, NEW r \in Runs, NEW s \in Steps, RecoverStep(r, s)
    PROVE  TypeOK'
<1> USE DEF TypeOK
<1>pc. \A pc \in {"starting", "calling", "then", "else", "ending", "threshold",
                  "closing", "opening", "handling", "backoff", "retrying",
                  "delegating", "fallback", "recovered", "returned", "raised"} :
          pc \in PCs
    BY DEF PCs
<1>er. \A e \in {"circuit", "condition", "primitive", "timeout", "nested", "usage", "budget"} :
          e \in Errors
    BY DEF Errors
<1>re. \A v \in {"value", "skipped", "none"} : v \in Results
    BY DEF Results
<1>1. CASE OpeningAnnounced(r, s)
    BY <1>1, <1>pc, <1>er, <1>re, GotoType
       DEF OpeningAnnounced
<1>2. CASE ApplyFail(r, s)
    BY <1>2, <1>pc, <1>er, <1>re, GotoType
       DEF ApplyFail, Raise
<1>3. CASE ApplySkip(r, s)
    BY <1>3, <1>pc, <1>er, <1>re, RecoverType
       DEF ApplySkip
<1>4. CASE ApplyRetry(r, s)
    BY <1>4, <1>pc, <1>er, <1>re, StartRetriesType, ExecutorAssumption
       DEF ApplyRetry
<1>5. CASE ApplyFallback(r, s)
    BY <1>5, <1>pc, <1>er, <1>re, StartFallbackType
       DEF ApplyFallback
<1>6. CASE ApplyDelegate(r, s)
    BY <1>6, <1>pc, <1>er, <1>re, GotoType
       DEF ApplyDelegate
<1>7. CASE Retry(r, s)
    BY <1>7, <1>pc, <1>er, <1>re, GotoType, TallyType
       DEF Retry
<1>8. CASE RetryAnswer(r, s)
    <2>1. /\ frame' \in [Runs -> [Steps -> Frames]]
          /\ results' \in [Runs -> [Steps -> Results]]
        BY <1>8, <1>re, RecoverType DEF RetryAnswer
    <2>2. tally' \in [Runs -> [Steps -> Tallies]]
        BY <1>8, TallyType DEF RetryAnswer
    <2>3. suspended' \in [Runs -> BOOLEAN]
        BY <1>8 DEF RetryAnswer, MaySuspend
    <2>4. QED
        BY <1>8, <2>1, <2>2, <2>3 DEF RetryAnswer
<1>9. CASE RetryFail(r, s)
    <2>1. CASE ~ (frame[r][s].attempt < frame[r][s].attempts)
        <3>1. frame' \in [Runs -> [Steps -> Frames]]
            BY <1>9, <2>1, <1>pc, GotoType DEF RetryFail, Raise
        <3>2. QED
            BY <1>9, <3>1 DEF RetryFail
    <2>2. CASE frame[r][s].attempt < frame[r][s].attempts
        <3>1. frame' \in [Runs -> [Steps -> Frames]]
            <4> DEFINE f == [frame[r][s] EXCEPT !.pc = "backoff",
                                !.attempt = frame[r][s].attempt + 1]
            <4>1. frame' = [frame EXCEPT ![r][s] = f]
                BY <1>9, <2>2 DEF RetryFail
            <4>2. f \in Frames
                <5>1. frame[r][s] \in Frames
                    OBVIOUS
                <5>2. "backoff" \in PCs
                    BY <1>pc
                <5>3. QED
                    BY <5>1, <5>2, AttemptAdvance
            <4> HIDE DEF f
            <4>3. QED
                BY <4>1, <4>2, FrameSet
        <3>2. QED
            BY <1>9, <3>1 DEF RetryFail
    <2>3. QED
        BY <2>1, <2>2
<1>10. CASE FallbackReturned(r, s)
    <2>1. results[r][Fallback[s]] \in Results
        BY <1>10, ExecutorAssumption DEF FallbackReturned
    <2>2. QED
        BY <1>10, <2>1, RecoverType DEF FallbackReturned
<1>11. CASE FallbackRaised(r, s)
    BY <1>11, <1>pc, <1>er, <1>re, GotoType
       DEF FallbackRaised, Raise
<1>12. CASE DelegateChooses(r, s)
    BY <1>12, <1>pc, <1>er, <1>re, GotoType, RecoverType, StartRetriesType, StartFallbackType
       DEF DelegateChooses, DelegateRetries, Raise
<1>13. CASE RecoveryAnnounced(r, s)
    BY <1>13, <1>pc, <1>er, <1>re, GotoType
       DEF RecoveryAnnounced
<1>q. QED
    BY <1>1, <1>2, <1>3, <1>4, <1>5, <1>6, <1>7, <1>8, <1>9, <1>10, <1>11, <1>12, <1>13 DEF RecoverStep

LEMMA RunType ==
    ASSUME TypeOK, NEW r \in Runs,
           BeginStep(r) \/ StepReturned(r) \/ StepRaised(r) \/ Complete(r)
    PROVE  TypeOK'
<1> USE DEF TypeOK
<1>1. CASE BeginStep(r)
    <2>1. Current(r) \in Steps
        BY <1>1, ExecutorAssumption DEF BeginStep, Current
    <2>2. "starting" \in PCs
        BY DEF PCs
    <2>3. QED
        BY <1>1, <2>1, <2>2, GotoType DEF BeginStep
<1>2. CASE StepReturned(r)
    BY <1>2 DEF StepReturned
<1>3. CASE StepRaised(r)
    BY <1>3 DEF StepRaised
<1>4. CASE Complete(r)
    BY <1>4 DEF Complete
<1>5. QED
    BY <1>1, <1>2, <1>3, <1>4

LEMMA CancelType ==
    ASSUME TypeOK, NEW r \in Runs, Cancel(r)
    PROVE  TypeOK'
<1>1. ASSUME NEW s \in Steps
      PROVE  [frame[r][s] EXCEPT !.pc = "cancelled"] \in Frames
    <2>1. frame[r][s] \in Frames
        BY DEF TypeOK
    <2>2. "cancelled" \in PCs
        BY DEF PCs
    <2>3. QED
        BY <2>1, <2>2, PcUpdate
<1>2. frame' \in [Runs -> [Steps -> Frames]]
    <2> DEFINE new == [s \in Steps |->
                          IF frame[r][s].pc \in Over THEN frame[r][s]
                          ELSE [frame[r][s] EXCEPT !.pc = "cancelled"]]
    <2>1. frame' = [frame EXCEPT ![r] = new]
        BY DEF Cancel
    <2>2. frame \in [Runs -> [Steps -> Frames]]
        BY DEF TypeOK
    <2>3. new \in [Steps -> Frames]
        BY <1>1, <2>2
    <2> HIDE DEF new
    <2>4. QED
        BY <2>1, <2>2, <2>3
<1>3. QED
    BY <1>2 DEF Cancel, TypeOK

LEMMA NextType == TypeOK /\ [Next]_vars => TypeOK'
<1> SUFFICES ASSUME TypeOK, [Next]_vars PROVE TypeOK'
    OBVIOUS
<1>1. ASSUME NEW r \in Runs, Progress(r)
      PROVE  TypeOK'
    BY <1>1, RunType, TryType, RecoveryType DEF Progress
<1>2. ASSUME NEW r \in Runs, Cancel(r)
      PROVE  TypeOK'
    BY <1>2, CancelType
<1>3. CASE Tick
    BY <1>3, AgedType DEF Tick, TypeOK
<1>4. CASE UNCHANGED vars
    BY <1>4 DEF vars, TypeOK
<1>5. QED
    BY <1>1, <1>2, <1>3, <1>4 DEF Next, Terminated

\* Type correctness of the executor.
THEOREM TypeCorrect == Spec => []TypeOK
BY InitType, NextType, PTL DEF Spec

-----------------------------------------------------------------------------
(***************************************************************************)
(* What is spent beyond the limit                                          *)
(***************************************************************************)

\* Only a billed step spends, and it passes the limit only with a BudgetError.
LEMMA SpendingStep ==
    ASSUME TypeOK, [Next]_vars
    PROVE  \/ spent' = spent /\ refusals' = refusals
           \/ /\ spent' \in Nat /\ spent' <= spent + StepCost
              /\ \/ spent' >= MaxCostUsd /\ refusals' = refusals + 1
                 \/ spent' < MaxCostUsd /\ refusals' = refusals
<1>1. ASSUME NEW r \in Runs, NEW s \in Steps, TryStep(r, s), ~ EndBilled(r, s)
      PROVE  spent' = spent /\ refusals' = refusals
    BY <1>1 DEF TryStep, Refuse, Invoke, TakeElse, FailCondition, Answer,
                FailCall, CallNested, NestedReturned, NestedRaised, BranchDone,
                EndUnbilled, UsageUnreadable, ThresholdAnnounced, ClosingAnnounced
<1>2. ASSUME NEW r \in Runs, NEW s \in Steps, EndBilled(r, s)
      PROVE  /\ spent' \in Nat /\ spent' <= spent + StepCost
             /\ \/ spent' >= MaxCostUsd /\ refusals' = refusals + 1
                \/ spent' < MaxCostUsd /\ refusals' = refusals
    <2>1. PICK cost \in 0 .. StepCost : spent' = spent + cost
        BY <1>2 DEF EndBilled
    <2>2. spent' \in Nat /\ spent' <= spent + StepCost
        BY <2>1, ExecutorAssumption DEF TypeOK
    <2>3. \/ Exceeded(spent') /\ refusals' = refusals + 1
          \/ ~ Exceeded(spent') /\ refusals' = refusals
        BY <1>2 DEF EndBilled
    <2>4. QED
        BY <2>2, <2>3, ExecutorAssumption DEF Exceeded
<1>3. ASSUME NEW r \in Runs, NEW s \in Steps, RecoverStep(r, s)
      PROVE  spent' = spent /\ refusals' = refusals
    BY <1>3 DEF RecoverStep, OpeningAnnounced, ApplyFail, ApplySkip, ApplyRetry,
                ApplyFallback, ApplyDelegate, Retry, RetryAnswer, RetryFail,
                FallbackReturned, FallbackRaised, DelegateChooses,
                RecoveryAnnounced
<1>4. ASSUME NEW r \in Runs, BeginStep(r) \/ StepReturned(r) \/ StepRaised(r)
                                \/ Complete(r) \/ Cancel(r)
      PROVE  spent' = spent /\ refusals' = refusals
    BY <1>4 DEF BeginStep, StepReturned, StepRaised, Complete, Cancel
<1>5. CASE Tick
    BY <1>5 DEF Tick
<1>6. CASE UNCHANGED vars
    BY <1>6 DEF vars
<1>7. QED
    BY <1>1, <1>2, <1>3, <1>4, <1>5, <1>6 DEF Next, Progress, Terminated

LEMMA OneMore ==
    ASSUME NEW m \in Nat, NEW n \in Nat
    PROVE  m * n \in Nat /\ m * (n + 1) = m * n + m
OBVIOUS

LEMMA NextOvershoot == TypeOK /\ OvershootBounded /\ [Next]_vars => OvershootBounded'
<1> SUFFICES ASSUME TypeOK, OvershootBounded, [Next]_vars
             PROVE  OvershootBounded'
    OBVIOUS
<1>t. /\ spent \in Nat /\ refusals \in Nat
      /\ StepCost \in Nat /\ MaxCostUsd \in Nat
      /\ spent < MaxCostUsd + StepCost * refusals
      /\ StepCost * refusals \in Nat
      /\ StepCost * (refusals + 1) = StepCost * refusals + StepCost
    BY ExecutorAssumption, OneMore DEF TypeOK, OvershootBounded
<1> DEFINE product == StepCost * refusals
<1>1. CASE spent' = spent /\ refusals' = refusals
    BY <1>1, <1>t DEF OvershootBounded
<1>2. CASE spent' \in Nat /\ spent' <= spent + StepCost /\ refusals' = refusals + 1
    <2>1. spent' < MaxCostUsd + (product + StepCost)
        <3>1. product \in Nat /\ spent < MaxCostUsd + product
            BY <1>t
        <3> HIDE DEF product
        <3>2. QED
            BY <1>2, <1>t, <3>1
    <2>2. QED
        BY <1>2, <2>1, <1>t DEF OvershootBounded
<1>3. CASE spent' \in Nat /\ spent' < MaxCostUsd /\ refusals' = refusals
    <2>1. product \in Nat
        BY <1>t
    <2>2. spent' < MaxCostUsd + product
        <3> HIDE DEF product
        <3>1. QED
            BY <1>3, <1>t, <2>1
    <2>3. QED
        BY <1>3, <2>2 DEF OvershootBounded
<1>4. QED
    BY <1>1, <1>2, <1>3, SpendingStep

\* Whatever the workflow, its strategies and the interleaving of its runs,
\* each BudgetError answers for at most one step's cost beyond the limit.
THEOREM Overshoot == Spec => []OvershootBounded
<1>1. Init => OvershootBounded
    <2>1. StepCost * 0 = 0 /\ MaxCostUsd \in Nat \ {0}
        BY ExecutorAssumption
    <2>2. QED
        BY <2>1 DEF Init, OvershootBounded
<1>2. QED
    BY <1>1, InitType, NextType, NextOvershoot, PTL DEF Spec

-----------------------------------------------------------------------------
(***************************************************************************)
(* One outcome per admission.  A frame is trying, settled or cancelled; it *)
(* reports when it passes from trying to settled, and only then, unless    *)
(* the breaker refused it.                                                 *)
(***************************************************************************)

Settled == PCs \ (Trying \cup {"cancelled"})

\* The frame f, n reports, o outcomes due: the invariant of one frame.
Honest(f, n, o) ==
    /\ f.pc \in Trying => n = 0 /\ f.error = "none"
    /\ f.pc = "cancelled" => n <= o
    /\ f.pc \in Settled => n = IF f.error = "circuit" THEN 0 ELSE o

AllHonest ==
    \A r \in Runs, s \in Steps :
        Honest(frame[r][s], tally[r][s].reports, Outcome(s))

\* How one step of the executor may change a frame f with n reports.
Moves(f, n, g, m, o) ==
    \/ g.pc = f.pc /\ g.error = f.error /\ m = n
    \/ f.pc \in Trying /\ g.pc \in Trying /\ g.error = f.error /\ m = n
    \/ f.pc \in Trying /\ g.pc \in Settled /\ g.error = "circuit" /\ m = n
    \/ f.pc \in Trying /\ g.pc \in Settled /\ g.error # "circuit" /\ m = n + o
    \/ f.pc \in Settled /\ g.pc \in Settled /\ g.error = f.error /\ m = n
    \/ g.pc = "cancelled" /\ m = n

LEMMA MovesKeepHonest ==
    ASSUME NEW f \in Frames, NEW g \in Frames, NEW n \in Nat, NEW m \in Nat,
           NEW o \in {0, 1}, Honest(f, n, o), Moves(f, n, g, m, o)
    PROVE  Honest(g, m, o)
<1>1. f.pc \in Trying \/ f.pc = "cancelled" \/ f.pc \in Settled
    BY DEF Frames, Settled
<1>2. \A pc \in Settled : pc \notin Trying /\ pc # "cancelled"
    BY DEF Settled
<1>3. "cancelled" \notin Trying
    BY DEF Trying
<1>4. QED
    BY <1>1, <1>2, <1>3 DEF Honest, Moves

\* The pc and the error of frame s of run r, and of no other, have changed.
Effect(r, s, pc, e) ==
    \A q \in Runs, u \in Steps :
        /\ frame'[q][u].pc = IF q = r /\ u = s THEN pc ELSE frame[q][u].pc
        /\ frame'[q][u].error = IF q = r /\ u = s THEN e ELSE frame[q][u].error

\* Frame s of run r, and no other, has reported n more outcomes.
Reports(r, s, n) ==
    \A q \in Runs, u \in Steps :
        tally'[q][u].reports =
            IF q = r /\ u = s THEN tally[q][u].reports + n ELSE tally[q][u].reports

LEMMA SetEffect ==
    ASSUME TypeOK, NEW r \in Runs, NEW s \in Steps, NEW f,
           frame' = [frame EXCEPT ![r][s] = f]
    PROVE  Effect(r, s, f.pc, f.error)
BY DEF TypeOK, Effect

LEMMA PcFields ==
    ASSUME NEW f \in Frames, NEW pc
    PROVE  /\ [f EXCEPT !.pc = pc].pc = pc
           /\ [f EXCEPT !.pc = pc].error = f.error
BY DEF Frames

LEMMA GotoEffect ==
    ASSUME TypeOK, NEW r \in Runs, NEW s \in Steps, NEW pc, Goto(r, s, pc)
    PROVE  Effect(r, s, pc, frame[r][s].error)
<1> DEFINE f == [frame[r][s] EXCEPT !.pc = pc]
<1>1. f.pc = pc /\ f.error = frame[r][s].error
    BY PcFields DEF TypeOK
<1>2. frame' = [frame EXCEPT ![r][s] = f]
    BY DEF Goto
<1> HIDE DEF f
<1>3. QED
    BY <1>1, <1>2, SetEffect

LEMMA ThrowEffect ==
    ASSUME TypeOK, NEW r \in Runs, NEW s \in Steps, NEW e, NEW b,
           Throw(r, s, e, b)
    PROVE  \E pc \in {"opening", "handling"} : Effect(r, s, pc, e)
<1>1. PICK pc \in {"opening", "handling"} :
          frame' = [frame EXCEPT ![r][s] =
                       [frame[r][s] EXCEPT !.pc = pc, !.error = e]]
    BY DEF Throw
<1> DEFINE f == [frame[r][s] EXCEPT !.pc = pc, !.error = e]
<1>2. f.pc = pc /\ f.error = e
    BY DEF TypeOK, Frames
<1>3. frame' = [frame EXCEPT ![r][s] = f]
    BY <1>1
<1> HIDE DEF f
<1>4. QED
    BY <1>2, <1>3, SetEffect

LEMMA CreditEffect ==
    ASSUME TypeOK, NEW r \in Runs, NEW s \in Steps, Credit(r, s)
    PROVE  \E pc \in {"closing", "returned"} : Effect(r, s, pc, frame[r][s].error)
BY GotoEffect DEF Credit

\* A call: the caller waits in pc and its callee, idle so far, starts.
Entered(r, s, pc, c) ==
    \A q \in Runs, u \in Steps :
        /\ frame'[q][u].pc = IF q = r /\ u = s THEN pc
                             ELSE IF q = r /\ u = c THEN "starting"
                             ELSE frame[q][u].pc
        /\ frame'[q][u].error = frame[q][u].error

LEMMA CallEffect ==
    ASSUME TypeOK, NEW r \in Runs, NEW s \in Steps, NEW c \in Steps, c # s,
           NEW pc, Call(r, s, pc, c)
    PROVE  Entered(r, s, pc, c)
<1> DEFINE f == [frame[r][s] EXCEPT !.pc = pc]
           g == [frame[r][c] EXCEPT !.pc = "starting"]
<1>1. f.pc = pc /\ f.error = frame[r][s].error
    BY PcFields DEF TypeOK
<1>2. g.pc = "starting" /\ g.error = frame[r][c].error
    BY PcFields DEF TypeOK
<1>3. frame' = [frame EXCEPT ![r][s] = f, ![r][c] = g]
    BY DEF Call
<1> HIDE DEF f, g
<1>4. frame \in [Runs -> [Steps -> Frames]]
    BY DEF TypeOK
<1>5. QED
    BY <1>1, <1>2, <1>3, <1>4 DEF Entered

LEMMA CountEffect ==
    ASSUME TypeOK, NEW r \in Runs, NEW s \in Steps,
           \/ Requested(r, s) \/ Answered(r, s) \/ Charged(r, s)
           \/ UNCHANGED tally
    PROVE  Reports(r, s, 0)
<1>1. /\ tally \in [Runs -> [Steps -> Tallies]]
      /\ \A q \in Runs, u \in Steps : tally[q][u].reports \in Nat
    BY DEF TypeOK, Tallies
<1>2. CASE Requested(r, s)
    BY <1>1, <1>2 DEF Requested, Reports, Tallies
<1>3. CASE Answered(r, s)
    BY <1>1, <1>3 DEF Answered, Reports, Tallies
<1>4. CASE Charged(r, s)
    BY <1>1, <1>4 DEF Charged, Reports, Tallies
<1>5. CASE UNCHANGED tally
    BY <1>1, <1>5 DEF Reports
<1>6. QED
    BY <1>2, <1>3, <1>4, <1>5

LEMMA ReportEffect ==
    ASSUME TypeOK, NEW r \in Runs, NEW s \in Steps,
           Reported(r, s) \/ ChargedAndReported(r, s)
    PROVE  Reports(r, s, Outcome(s))
<1>1. tally \in [Runs -> [Steps -> Tallies]]
    BY DEF TypeOK
<1>2. CASE Reported(r, s)
    BY <1>1, <1>2 DEF Reported, Reports, Tallies
<1>3. CASE ChargedAndReported(r, s)
    BY <1>1, <1>3 DEF ChargedAndReported, Reports, Tallies
<1>4. QED
    BY <1>2, <1>3

\* Every frame moves as it may.
AllMove ==
    \A r \in Runs, s \in Steps :
        Moves(frame[r][s], tally[r][s].reports,
              frame'[r][s], tally'[r][s].reports, Outcome(s))

\* A step that keeps a frame on its side of the try block.
LEMMA SameSide ==
    ASSUME TypeOK, NEW r \in Runs, NEW s \in Steps, NEW pc,
           Effect(r, s, pc, frame[r][s].error), Reports(r, s, 0),
           \/ frame[r][s].pc \in Trying /\ pc \in Trying
           \/ frame[r][s].pc \in Settled /\ pc \in Settled
    PROVE  AllMove
<1>1. \A q \in Runs, u \in Steps : tally[q][u].reports + 0 = tally[q][u].reports
    BY DEF TypeOK, Tallies
<1>2. QED
    BY <1>1 DEF AllMove, Moves, Effect, Reports

\* A step that ends the try block of a frame and reports its outcome.
LEMMA Settles ==
    ASSUME TypeOK, NEW r \in Runs, NEW s \in Steps, NEW pc \in Settled, NEW e,
           e # "circuit", frame[r][s].pc \in Trying,
           Effect(r, s, pc, e), Reports(r, s, Outcome(s))
    PROVE  AllMove
BY DEF AllMove, Moves, Effect, Reports

LEMMA CalleeStarts ==
    ASSUME TypeOK, NEW r \in Runs, NEW s \in Steps, NEW c \in Steps, NEW pc,
           Entered(r, s, pc, c), UNCHANGED tally, frame[r][c].pc = "idle",
           \/ frame[r][s].pc \in Trying /\ pc \in Trying
           \/ frame[r][s].pc \in Settled /\ pc \in Settled
    PROVE  AllMove
BY DEF AllMove, Moves, Entered, Trying

LEMMA TryingOrSettled ==
    /\ \A pc \in {"idle", "starting", "calling", "then", "else", "ending",
                   "threshold"} : pc \in Trying
    /\ \A pc \in {"closing", "opening", "handling", "backoff", "retrying",
                   "delegating", "fallback", "recovered", "returned",
                   "raised"} : pc \in Settled
BY DEF Trying, Settled, PCs

\* A frame whose try block has not ended has met no error.
LEMMA NoErrorYet ==
    ASSUME AllHonest, NEW r \in Runs, NEW s \in Steps, frame[r][s].pc \in Trying
    PROVE  frame[r][s].error # "circuit"
BY DEF AllHonest, Honest

LEMMA ThrowMoves ==
    ASSUME TypeOK, NEW r \in Runs, NEW s \in Steps, NEW e, NEW b,
           frame[r][s].pc \in Trying, e # "circuit",
           Throw(r, s, e, b), Reported(r, s) \/ ChargedAndReported(r, s)
    PROVE  AllMove
<1>1. PICK pc \in {"opening", "handling"} : Effect(r, s, pc, e)
    BY ThrowEffect
<1>2. pc \in Settled
    BY TryingOrSettled
<1>3. Reports(r, s, Outcome(s))
    BY ReportEffect
<1>4. QED
    BY <1>1, <1>2, <1>3, Settles

LEMMA CreditMoves ==
    ASSUME TypeOK, AllHonest, NEW r \in Runs, NEW s \in Steps,
           frame[r][s].pc \in Trying,
           Credit(r, s), Reported(r, s) \/ ChargedAndReported(r, s)
    PROVE  AllMove
<1>1. PICK pc \in {"closing", "returned"} : Effect(r, s, pc, frame[r][s].error)
    BY CreditEffect
<1>2. pc \in Settled
    BY TryingOrSettled
<1>3. Reports(r, s, Outcome(s))
    BY ReportEffect
<1>4. frame[r][s].error # "circuit"
    BY NoErrorYet
<1>5. QED
    BY <1>1, <1>2, <1>3, <1>4, Settles

LEMMA GotoMoves ==
    ASSUME TypeOK, NEW r \in Runs, NEW s \in Steps, NEW pc, Goto(r, s, pc),
           \/ Requested(r, s) \/ Answered(r, s) \/ Charged(r, s)
           \/ UNCHANGED tally,
           \/ frame[r][s].pc \in Trying /\ pc \in Trying
           \/ frame[r][s].pc \in Settled /\ pc \in Settled
    PROVE  AllMove
<1>1. Effect(r, s, pc, frame[r][s].error)
    BY GotoEffect
<1>2. Reports(r, s, 0)
    BY CountEffect
<1>3. QED
    BY <1>1, <1>2, SameSide

\* As GotoMoves, for an update of more fields than the pc.
LEMMA UpdateMoves ==
    ASSUME TypeOK, NEW r \in Runs, NEW s \in Steps, NEW f,
           frame' = [frame EXCEPT ![r][s] = f], f.error = frame[r][s].error,
           \/ Requested(r, s) \/ Answered(r, s) \/ Charged(r, s)
           \/ UNCHANGED tally,
           \/ frame[r][s].pc \in Trying /\ f.pc \in Trying
           \/ frame[r][s].pc \in Settled /\ f.pc \in Settled
    PROVE  AllMove
<1>1. Effect(r, s, f.pc, frame[r][s].error)
    BY SetEffect
<1>2. Reports(r, s, 0)
    BY CountEffect
<1>3. QED
    BY <1>1, <1>2, SameSide

LEMMA CallMoves ==
    ASSUME TypeOK, NEW r \in Runs, NEW s \in Steps, NEW c \in Steps, NEW pc,
           Call(r, s, pc, c), frame[r][c].pc = "idle", frame[r][s].pc # "idle",
           UNCHANGED tally,
           \/ frame[r][s].pc \in Trying /\ pc \in Trying
           \/ frame[r][s].pc \in Settled /\ pc \in Settled
    PROVE  AllMove
<1>1. c # s
    OBVIOUS
<1>2. Entered(r, s, pc, c)
    BY <1>1, CallEffect
<1>3. QED
    BY <1>2, CalleeStarts

LEMMA RefuseMoves ==
    ASSUME TypeOK, NEW r \in Runs, NEW s \in Steps, Refuse(r, s)
    PROVE  AllMove
<1> DEFINE f == [frame[r][s] EXCEPT !.pc = "raised", !.error = "circuit"]
<1>1. f.pc = "raised" /\ f.error = "circuit"
    BY DEF TypeOK, Frames
<1>2. frame' = [frame EXCEPT ![r][s] = f]
    BY DEF Refuse
<1>3. frame[r][s].pc = "starting" /\ UNCHANGED tally
    BY DEF Refuse, At
<1> HIDE DEF f
<1>4. Effect(r, s, "raised", "circuit")
    BY <1>1, <1>2, SetEffect
<1>5. "raised" \in Settled /\ "starting" \in Trying
    BY TryingOrSettled
<1>6. QED
    BY <1>3, <1>4, <1>5 DEF AllMove, Moves, Effect

LEMMA TryMoves ==
    ASSUME TypeOK, AllHonest, NEW r \in Runs, NEW s \in Steps, TryStep(r, s)
    PROVE  AllMove
<1>ts. /\ \A pc \in {"idle", "starting", "calling", "then", "else", "ending",
                       "threshold"} : pc \in Trying
       /\ \A pc \in {"closing", "returned", "raised"} : pc \in Settled
    BY TryingOrSettled
<1>fr. frame[r][s] \in Frames
    BY DEF TypeOK
<1>1. CASE Refuse(r, s)
    BY <1>1, RefuseMoves
<1>2. CASE Invoke(r, s)
    <2> DEFINE v == IF s \in Conditional THEN "true" ELSE "unknown"
               f == [frame[r][s] EXCEPT !.pc = "calling", !.verdict = v]
    <2>1. f.pc = "calling" /\ f.error = frame[r][s].error
        BY <1>fr DEF Frames
    <2>2. frame' = [frame EXCEPT ![r][s] = f]
        BY <1>2 DEF Invoke
    <2> HIDE DEF f
    <2>3. frame[r][s].pc \in Trying /\ f.pc \in Trying /\ Requested(r, s)
        BY <1>2, <1>ts, <2>1 DEF Invoke, At
    <2>4. QED
        BY <2>1, <2>2, <2>3, UpdateMoves
<1>3. CASE TakeElse(r, s)
    <2> DEFINE f == [frame[r][s] EXCEPT !.pc = "else", !.verdict = "false",
                                        !.child = 1]
    <2>1. f.pc = "else" /\ f.error = frame[r][s].error
        BY <1>fr DEF Frames
    <2>2. frame' = [frame EXCEPT ![r][s] = f]
        BY <1>3 DEF TakeElse
    <2> HIDE DEF f
    <2>3. frame[r][s].pc \in Trying /\ f.pc \in Trying /\ UNCHANGED tally
        BY <1>3, <1>ts, <2>1 DEF TakeElse, At
    <2>4. QED
        BY <2>1, <2>2, <2>3, UpdateMoves
<1>4. CASE FailCondition(r, s)
    BY <1>4, <1>ts, ThrowMoves DEF FailCondition, At
<1>5. CASE Answer(r, s)
    <2>1. CASE s \in Conditional
        <3> DEFINE f == [frame[r][s] EXCEPT !.pc = "then", !.child = 1]
        <3>1. f.pc = "then" /\ f.error = frame[r][s].error
            BY <1>fr DEF Frames
        <3>2. frame' = [frame EXCEPT ![r][s] = f]
            BY <1>5, <2>1 DEF Answer
        <3> HIDE DEF f
        <3>3. QED
            BY <1>5, <1>ts, <3>1, <3>2, UpdateMoves DEF Answer, At
    <2>2. CASE s \notin Conditional
        BY <1>5, <1>ts, <2>2, GotoMoves DEF Answer, At
    <2>3. QED
        BY <2>1, <2>2
<1>6. CASE FailCall(r, s)
    BY <1>6, <1>ts, ThrowMoves DEF FailCall, At, CallErrors
<1>7. CASE CallNested(r, s)
    <2>1. Callee(r, s) \in Steps
        BY <1>7, CalleeType DEF CallNested
    <2>2. frame[r][s].pc \in {"then", "else"} /\ frame[r][s].pc \in Trying
        BY <1>7, <1>ts DEF CallNested, InBranch, At
    <2>3. frame[r][s].pc # "idle"
        BY <2>2
    <2>4. QED
        BY <1>7, <2>1, <2>2, <2>3, CallMoves DEF CallNested
<1>8. CASE NestedReturned(r, s)
    <2> DEFINE f == [frame[r][s] EXCEPT !.child = frame[r][s].child + 1]
    <2>1. f.pc = frame[r][s].pc /\ f.error = frame[r][s].error
        BY <1>fr DEF Frames
    <2>2. frame' = [frame EXCEPT ![r][s] = f]
        BY <1>8 DEF NestedReturned
    <2>3. frame[r][s].pc \in Trying
        BY <1>8, <1>ts DEF NestedReturned, InBranch, At
    <2> HIDE DEF f
    <2>4. f.pc \in Trying /\ UNCHANGED tally
        BY <1>8, <2>1, <2>3 DEF NestedReturned
    <2>5. QED
        BY <2>1, <2>2, <2>3, <2>4, UpdateMoves
<1>9. CASE NestedRaised(r, s)
    <2>1. frame[r][s].pc \in Trying
        BY <1>9, <1>ts DEF NestedRaised, InBranch, At
    <2>2. QED
        BY <1>9, <2>1, ThrowMoves DEF NestedRaised
<1>10. CASE BranchDone(r, s)
    <2>1. frame[r][s].pc \in Trying
        BY <1>10, <1>ts DEF BranchDone, InBranch, At
    <2>2. QED
        BY <1>10, <1>ts, <2>1, GotoMoves DEF BranchDone
<1>11. CASE EndUnbilled(r, s)
    BY <1>11, <1>ts, CreditMoves DEF EndUnbilled, At
<1>u. CASE UsageUnreadable(r, s)
    BY <1>u, <1>ts, ThrowMoves DEF UsageUnreadable, At
<1>12. CASE EndBilled(r, s)
    <2>1. frame[r][s].pc \in Trying
        BY <1>12, <1>ts DEF EndBilled, At
    <2>2. CASE Throw(r, s, "budget", breaker) /\ ChargedAndReported(r, s)
        BY <2>1, <2>2, ThrowMoves
    <2>3. CASE Goto(r, s, "threshold") /\ Charged(r, s)
        BY <1>ts, <2>1, <2>3, GotoMoves
    <2>4. CASE Credit(r, s) /\ ChargedAndReported(r, s)
        BY <2>1, <2>4, CreditMoves
    <2>5. QED
        BY <1>12, <2>2, <2>3, <2>4 DEF EndBilled
<1>13. CASE ThresholdAnnounced(r, s)
    BY <1>13, <1>ts, CreditMoves DEF ThresholdAnnounced, At
<1>14. CASE ClosingAnnounced(r, s)
    BY <1>14, <1>ts, GotoMoves DEF ClosingAnnounced, At
<1>15. QED
    BY <1>1, <1>2, <1>3, <1>4, <1>5, <1>6, <1>7, <1>8, <1>9, <1>10, <1>11,
       <1>12, <1>13, <1>14, <1>u DEF TryStep

LEMMA StartRetriesMoves ==
    ASSUME TypeOK, NEW r \in Runs, NEW s \in Steps, NEW n,
           StartRetries(r, s, n), frame[r][s].pc \in Settled, UNCHANGED tally
    PROVE  AllMove
<1> DEFINE pc == IF n = 0 THEN "raised" ELSE "backoff"
           f == [frame[r][s] EXCEPT !.pc = pc, !.attempt = 1, !.attempts = n]
<1>1. f.pc \in Settled /\ f.error = frame[r][s].error
    BY TryingOrSettled DEF TypeOK, Frames
<1>2. frame' = [frame EXCEPT ![r][s] = f]
    BY DEF StartRetries
<1> HIDE DEF f
<1>3. QED
    BY <1>1, <1>2, UpdateMoves

LEMMA StartFallbackMoves ==
    ASSUME TypeOK, NEW r \in Runs, NEW s \in Steps,
           StartFallback(r, s), frame[r][s].pc \in Settled, UNCHANGED tally
    PROVE  AllMove
<1>1. "raised" \in Settled /\ "fallback" \in Settled /\ "idle" \in Trying
    BY TryingOrSettled
<1>2. frame[r][s].pc # "idle"
    BY <1>1 DEF Settled
<1>3. CASE Raise(r, s)
    BY <1>1, <1>3, GotoMoves DEF Raise
<1>4. CASE /\ Fallback[s] # NoStep
           /\ frame[r][Fallback[s]].pc = "idle"
           /\ Call(r, s, "fallback", Fallback[s])
    <2>1. Fallback[s] \in Steps
        BY <1>4, ExecutorAssumption
    <2>2. QED
        BY <1>1, <1>2, <1>4, <2>1, CallMoves
<1>5. QED
    BY <1>3, <1>4 DEF StartFallback

LEMMA RecoveryMoves ==
    ASSUME TypeOK, NEW r \in Runs, NEW s \in Steps, RecoverStep(r, s)
    PROVE  AllMove
<1>ts. \A pc \in {"closing", "opening", "handling", "backoff", "retrying",
                   "delegating", "fallback", "recovered", "returned",
                   "raised"} : pc \in Settled
    BY TryingOrSettled
<1>1. CASE OpeningAnnounced(r, s)
    BY <1>1, <1>ts, GotoMoves DEF OpeningAnnounced, At
<1>2. CASE ApplyFail(r, s)
    BY <1>2, <1>ts, GotoMoves DEF ApplyFail, Raise, At
<1>3. CASE ApplySkip(r, s)
    BY <1>3, <1>ts, GotoMoves DEF ApplySkip, Recover, At
<1>4. CASE ApplyRetry(r, s)
    BY <1>4, <1>ts, StartRetriesMoves DEF ApplyRetry, At
<1>5. CASE ApplyFallback(r, s)
    BY <1>5, <1>ts, StartFallbackMoves DEF ApplyFallback, At
<1>6. CASE ApplyDelegate(r, s)
    BY <1>6, <1>ts, GotoMoves DEF ApplyDelegate, At
<1>7. CASE Retry(r, s)
    BY <1>7, <1>ts, GotoMoves DEF Retry, At
<1>8. CASE RetryAnswer(r, s)
    BY <1>8, <1>ts, GotoMoves DEF RetryAnswer, Recover, At
<1>9. CASE RetryFail(r, s)
    <2>1. frame[r][s].pc \in Settled /\ UNCHANGED tally
        BY <1>9, <1>ts DEF RetryFail, At
    <2>2. CASE frame[r][s].attempt < frame[r][s].attempts
        <3> DEFINE f == [frame[r][s] EXCEPT !.pc = "backoff",
                                            !.attempt = frame[r][s].attempt + 1]
        <3>1. f.pc = "backoff" /\ f.error = frame[r][s].error
            BY DEF TypeOK, Frames
        <3>2. frame' = [frame EXCEPT ![r][s] = f]
            BY <1>9, <2>2 DEF RetryFail
        <3> HIDE DEF f
        <3>3. QED
            BY <1>ts, <2>1, <3>1, <3>2, UpdateMoves
    <2>3. CASE ~ (frame[r][s].attempt < frame[r][s].attempts)
        BY <1>9, <1>ts, <2>1, <2>3, GotoMoves DEF RetryFail, Raise
    <2>4. QED
        BY <2>2, <2>3
<1>10. CASE FallbackReturned(r, s)
    BY <1>10, <1>ts, GotoMoves DEF FallbackReturned, Recover, At
<1>11. CASE FallbackRaised(r, s)
    BY <1>11, <1>ts, GotoMoves DEF FallbackRaised, Raise, At
<1>12. CASE DelegateChooses(r, s)
    <2>1. frame[r][s].pc \in Settled /\ UNCHANGED tally
        BY <1>12, <1>ts DEF DelegateChooses, At
    <2>2. CASE StartRetries(r, s, DelegateRetries)
        BY <2>1, <2>2, StartRetriesMoves
    <2>3. CASE Recover(r, s, "none")
        BY <1>ts, <2>1, <2>3, GotoMoves DEF Recover
    <2>4. CASE StartFallback(r, s)
        BY <2>1, <2>4, StartFallbackMoves
    <2>5. CASE Raise(r, s)
        BY <1>ts, <2>1, <2>5, GotoMoves DEF Raise
    <2>6. QED
        BY <1>12, <2>2, <2>3, <2>4, <2>5 DEF DelegateChooses
<1>13. CASE RecoveryAnnounced(r, s)
    BY <1>13, <1>ts, GotoMoves DEF RecoveryAnnounced, At
<1>14. QED
    BY <1>1, <1>2, <1>3, <1>4, <1>5, <1>6, <1>7, <1>8, <1>9, <1>10, <1>11,
       <1>12, <1>13 DEF RecoverStep

\* The steps that touch no frame.
LEMMA StillMoves ==
    ASSUME UNCHANGED <<frame, tally>>
    PROVE  AllMove
BY DEF AllMove, Moves

LEMMA CancelMoves ==
    ASSUME TypeOK, NEW r \in Runs, Cancel(r)
    PROVE  AllMove
<1> DEFINE g(u) == IF frame[r][u].pc \in Over THEN frame[r][u]
                   ELSE [frame[r][u] EXCEPT !.pc = "cancelled"]
<1>1. frame' = [frame EXCEPT ![r] = [u \in Steps |-> g(u)]] /\ UNCHANGED tally
    BY DEF Cancel
<1>2. \A u \in Steps : g(u) = frame[r][u] \/ g(u).pc = "cancelled"
    BY PcFields DEF TypeOK
<1> HIDE DEF g
<1>3. \A q \in Runs, u \in Steps :
          frame'[q][u] = frame[q][u] \/ frame'[q][u].pc = "cancelled"
    BY <1>1, <1>2 DEF TypeOK
<1>4. QED
    BY <1>1, <1>3 DEF AllMove, Moves

LEMMA NextMoves ==
    ASSUME TypeOK, AllHonest, [Next]_vars
    PROVE  AllMove
<1>1. CASE \E r \in Runs, s \in Steps : TryStep(r, s)
    BY <1>1, TryMoves
<1>2. CASE \E r \in Runs, s \in Steps : RecoverStep(r, s)
    BY <1>2, RecoveryMoves
<1>3. ASSUME NEW r \in Runs, BeginStep(r)
      PROVE  AllMove
    <2>1. Current(r) \in Steps
        BY <1>3, ExecutorAssumption DEF BeginStep, Current
    <2>2. "idle" \in Trying /\ "starting" \in Trying
        BY TryingOrSettled
    <2>3. QED
        BY <1>3, <2>1, <2>2, GotoMoves DEF BeginStep
<1>4. CASE \E r \in Runs : StepReturned(r) \/ StepRaised(r) \/ Complete(r)
    BY <1>4, StillMoves DEF StepReturned, StepRaised, Complete
<1>5. CASE \E r \in Runs : Cancel(r)
    BY <1>5, CancelMoves
<1>6. CASE Tick \/ Terminated \/ UNCHANGED vars
    BY <1>6, StillMoves DEF Tick, Terminated, vars
<1>7. QED
    BY <1>1, <1>2, <1>3, <1>4, <1>5, <1>6 DEF Next, Progress

LEMMA InitHonest == Init => AllHonest
<1>1. "idle" \in Trying /\ "idle" \notin Settled /\ "idle" # "cancelled"
    BY DEF Trying, Settled
<1>2. Init => \A r \in Runs, s \in Steps :
          /\ frame[r][s].pc = "idle" /\ frame[r][s].error = "none"
          /\ tally[r][s].reports = 0
    BY DEF Init, Closed, Nothing
<1>3. QED
    BY <1>1, <1>2 DEF AllHonest, Honest

LEMMA NextHonest ==
    TypeOK /\ TypeOK' /\ AllHonest /\ [Next]_vars => AllHonest'
<1> SUFFICES ASSUME TypeOK, TypeOK', AllHonest, [Next]_vars,
                    NEW r \in Runs, NEW s \in Steps
             PROVE  Honest(frame'[r][s], tally'[r][s].reports, Outcome(s))
    BY DEF AllHonest, Outcome, Guarded
<1>1. Moves(frame[r][s], tally[r][s].reports,
            frame'[r][s], tally'[r][s].reports, Outcome(s))
    BY NextMoves DEF AllMove
<1>2. frame[r][s] \in Frames /\ frame'[r][s] \in Frames
    BY DEF TypeOK
<1>3. tally[r][s].reports \in Nat /\ tally'[r][s].reports \in Nat
    BY DEF TypeOK, Tallies
<1>4. Outcome(s) \in {0, 1}
    BY DEF Outcome
<1>5. Honest(frame[r][s], tally[r][s].reports, Outcome(s))
    BY DEF AllHonest
<1>6. QED
    BY <1>1, <1>2, <1>3, <1>4, <1>5, MovesKeepHonest

\* The breaker hears once of every step it admitted and never of one it
\* refused, in every interleaving of any number of runs of any workflow.
THEOREM OneOutcome == Spec => []OneOutcomePerAdmission
<1>1. TypeOK /\ AllHonest => OneOutcomePerAdmission
    BY DEF TypeOK, AllHonest, Honest, OneOutcomePerAdmission, Frames, Settled
<1>2. QED
    BY <1>1, InitType, NextType, InitHonest, NextHonest, PTL DEF Spec

-----------------------------------------------------------------------------
(***************************************************************************)
(* Errors surface.  The open frames of a run hang together: any set of     *)
(* them without the current top-level step has a frame that another open   *)
(* frame waits for.  So nothing is open beside a top-level step that is    *)
(* not, and a step that raised is heeded by the one that waits for it.     *)
(***************************************************************************)
Active == PCs \ {"idle", "returned", "raised", "cancelled"}

Branching == {"then", "else"}

Awake(r) == {s \in Steps : frame[r][s].pc \in Active}

IsCurrent(r, s) == next[r] \in DOMAIN Workflow /\ Current(r) = s

WaitsFor(r, c, s) ==
    \/ frame[r][c].pc \in Branching /\ HasCallee(r, c) /\ Callee(r, c) = s
    \/ frame[r][c].pc = "fallback" /\ Fallback[c] = s

Rooted(r) ==
    \A S \in SUBSET Awake(r) :
        S # {} /\ (\A s \in S : ~ IsCurrent(r, s)) =>
            \E c \in Awake(r) \ S, s \in S : WaitsFor(r, c, s)

Heeded(r) ==
    \A s \in Steps : frame[r][s].pc = "raised" =>
        IsCurrent(r, s) \/ \E c \in Steps : WaitsFor(r, c, s) \/ TakesError(r, c, s)

Surfaced(r) ==
    \A s \in Steps : frame[r][s].pc = "raised" => \E c \in Steps : TakesError(r, c, s)

RunSound(r) ==
    /\ outcome[r] = "running" => Rooted(r) /\ Heeded(r)
    /\ outcome[r] = "completed" => Surfaced(r)

AllRunsSound == \A r \in Runs : RunSound(r)

\* A callee is a nested step, and one that is waited for is waited for by an
\* open frame.
LEMMA CalleeNested ==
    ASSUME NEW r \in Runs, NEW c \in Steps, NEW s, WaitsFor(r, c, s)
    PROVE  /\ c \in Awake(r)
           /\ frame[r][c].pc \in Branching => Nested(c, s)
<1>1. "then" \in Active /\ "else" \in Active /\ "fallback" \in Active
    BY DEF Active, PCs
<1>2. QED
    BY <1>1 DEF WaitsFor, Awake, HasCallee, Callee, Branch, Nested, Branching

\* With no open frame at its top-level step a run has none.
LEMMA NoneOpen ==
    ASSUME NEW r \in Runs, Rooted(r), \A s \in Awake(r) : ~ IsCurrent(r, s)
    PROVE  Awake(r) = {}
BY DEF Rooted

\* A step that changes the frame of one run, and of no other, and ends none.
Elsewhere(r) ==
    \A q \in Runs : q # r =>
        frame'[q] = frame[q] /\ outcome'[q] = outcome[q] /\ next'[q] = next[q]

LEMMA OthersSound ==
    ASSUME AllRunsSound, NEW r \in Runs, Elsewhere(r), RunSound(r)'
    PROVE  AllRunsSound'
<1>1. ASSUME NEW q \in Runs, q # r
      PROVE  RunSound(q)'
    <2>1. frame'[q] = frame[q] /\ outcome'[q] = outcome[q] /\ next'[q] = next[q]
        BY <1>1 DEF Elsewhere
    <2>2. \A c, s : WaitsFor(q, c, s)' = WaitsFor(q, c, s)
        BY <2>1 DEF WaitsFor, HasCallee, Callee, Branch
    <2>3. \A c, s : TakesError(q, c, s)' = TakesError(q, c, s)
        BY <2>1 DEF TakesError
    <2>4. Awake(q)' = Awake(q) /\ \A s : IsCurrent(q, s)' = IsCurrent(q, s)
        BY <2>1 DEF Awake, IsCurrent, Current
    <2>5. QED
        BY <1>1, <2>1, <2>2, <2>3, <2>4 DEF AllRunsSound, RunSound, Rooted, Heeded, Surfaced
<1>2. QED
    BY <1>1 DEF AllRunsSound

\* The frame f takes the place of that of step u of run r.
Turns(r, u, f) ==
    /\ frame' = [frame EXCEPT ![r][u] = f]
    /\ f.pc \in PCs \ {"idle", "cancelled"}
    /\ f.error = frame[r][u].error \/ f.error # "none"

LEMMA TurnsEffect ==
    ASSUME TypeOK, NEW r \in Runs, NEW u \in Steps, NEW f, Turns(r, u, f),
           UNCHANGED <<outcome, next>>
    PROVE  /\ Elsewhere(r)
           /\ frame'[r][u] = f
           /\ \A v \in Steps : v # u => frame'[r][v] = frame[r][v]
BY DEF TypeOK, Turns, Elsewhere

\* An open frame turns: whoever it waited for is over, and if it raised, its
\* error is taken on.
LEMMA TurnSound ==
    ASSUME TypeOK, AllRunsSound, NEW r \in Runs, NEW u \in Steps, NEW f,
           outcome[r] = "running", frame[r][u].pc \in Active,
           Turns(r, u, f), UNCHANGED <<outcome, next>>,
           \A v \in Steps : WaitsFor(r, u, v) =>
               /\ v \notin Awake(r)
               /\ frame[r][v].pc = "raised" => WaitsFor(r, u, v)' \/ TakesError(r, u, v)'
    PROVE  AllRunsSound'
<1>1. /\ Elsewhere(r) /\ frame'[r][u] = f
      /\ \A v \in Steps : v # u => frame'[r][v] = frame[r][v]
    BY TurnsEffect
<1>2. \A s : \A c \in Steps :
          c # u => /\ WaitsFor(r, c, s)' = WaitsFor(r, c, s)
                   /\ TakesError(r, c, s)' = TakesError(r, c, s)
    BY <1>1 DEF WaitsFor, HasCallee, Callee, Branch, TakesError
<1>3. \A s : TakesError(r, u, s) => TakesError(r, u, s)'
    <2>1. frame[r][u].pc # "raised" /\ (f.error = frame[r][u].error \/ f.error # "none")
        BY DEF Active, Turns
    <2>2. QED
        BY <1>1, <2>1 DEF TakesError
<1>4. \A s : IsCurrent(r, s)' = IsCurrent(r, s)
    BY DEF IsCurrent, Current
<1>5. u \in Awake(r) /\ Awake(r)' \subseteq Awake(r) /\ \A v \in Awake(r) : v # u => v \in Awake(r)'
    BY <1>1 DEF Awake
<1>6. Rooted(r) /\ Heeded(r)
    BY DEF AllRunsSound, RunSound
<1>7. Rooted(r)'
    <2> SUFFICES ASSUME NEW S \in SUBSET Awake(r)', S # {}, \A s \in S : ~ IsCurrent(r, s)
                 PROVE  \E c \in Awake(r)' \ S, s \in S : WaitsFor(r, c, s)'
        BY <1>4 DEF Rooted
    <2>1. PICK c \in Awake(r) \ S, s \in S : WaitsFor(r, c, s)
        BY <1>5, <1>6 DEF Rooted
    <2>2. c \in Steps /\ s \in Steps /\ s \in Awake(r)
        BY <1>5, <2>1 DEF Awake
    <2>3. c # u
        BY <2>1, <2>2
    <2>4. QED
        BY <1>2, <1>5, <2>1, <2>2, <2>3
<1>8. Heeded(r)'
    <2> SUFFICES ASSUME NEW s \in Steps, frame'[r][s].pc = "raised", ~ IsCurrent(r, s)
                 PROVE  \E c \in Steps : WaitsFor(r, c, s)' \/ TakesError(r, c, s)'
        BY <1>4 DEF Heeded
    <2>1. CASE s = u
        <3> DEFINE S == {u}
        <3>1. S \in SUBSET Awake(r) /\ S # {} /\ \A v \in S : ~ IsCurrent(r, v)
            BY <1>5, <2>1
        <3>2. PICK c \in Awake(r) \ S, v \in S : WaitsFor(r, c, v)
            BY <1>6, <3>1 DEF Rooted
        <3>3. c \in Steps /\ c # u /\ v = u
            BY <3>2 DEF Awake
        <3>4. QED
            BY <1>2, <2>1, <3>2, <3>3
    <2>2. CASE s # u
        <3>1. PICK c \in Steps : WaitsFor(r, c, s) \/ TakesError(r, c, s)
            BY <1>1, <1>6, <2>2 DEF Heeded
        <3>2. CASE c # u
            BY <1>2, <3>1, <3>2
        <3>3. CASE c = u
            BY <1>1, <1>3, <2>2, <3>1, <3>3
        <3>4. QED
            BY <3>2, <3>3
    <2>3. QED
        BY <2>1, <2>2
<1>9. QED
    BY <1>1, <1>7, <1>8, OthersSound DEF RunSound

\* A frame that waits for no other turns.
LEMMA LeafTurnSound ==
    ASSUME TypeOK, AllRunsSound, NEW r \in Runs, NEW u \in Steps, NEW f,
           outcome[r] = "running", frame[r][u].pc \in Active \ {"then", "else", "fallback"},
           Turns(r, u, f), UNCHANGED <<outcome, next>>
    PROVE  AllRunsSound'
<1>1. \A v : ~ WaitsFor(r, u, v)
    BY DEF WaitsFor, Branching
<1>2. QED
    BY <1>1, TurnSound

\* A frame calls an idle one.
LEMMA CallSound ==
    ASSUME TypeOK, AllRunsSound, NEW r \in Runs, NEW u \in Steps, NEW n \in Steps,
           NEW pc \in {"then", "else", "fallback"},
           outcome[r] = "running", frame[r][u].pc \in Active, frame[r][n].pc = "idle",
           \/ pc = frame[r][u].pc /\ pc \in Branching /\ HasCallee(r, u) /\ Callee(r, u) = n
           \/ frame[r][u].pc \notin {"then", "else", "fallback"}
              /\ pc = "fallback" /\ Fallback[u] = n,
           Call(r, u, pc, n), UNCHANGED <<outcome, next>>
    PROVE  AllRunsSound'
<1>0. u # n
    BY DEF Active
<1> DEFINE f == [frame[r][u] EXCEPT !.pc = pc]
           g == [frame[r][n] EXCEPT !.pc = "starting"]
<1>1. /\ f.pc = pc /\ f.error = frame[r][u].error /\ f.child = frame[r][u].child
      /\ g.pc = "starting" /\ g.error = frame[r][n].error
    BY DEF TypeOK, Frames
<1>2. frame' = [frame EXCEPT ![r][u] = f, ![r][n] = g]
    BY DEF Call
<1> HIDE DEF f, g
<1>3. /\ frame'[r][u] = f /\ frame'[r][n] = g
      /\ \A v \in Steps : v # u /\ v # n => frame'[r][v] = frame[r][v]
    BY <1>0, <1>2 DEF TypeOK
<1>4. Elsewhere(r)
    BY <1>2 DEF TypeOK, Elsewhere
<1>5. \A s : IsCurrent(r, s)' = IsCurrent(r, s)
    BY DEF IsCurrent, Current
<1>6. \A s : \A c \in Steps :
          c # u /\ c # n => /\ WaitsFor(r, c, s)' = WaitsFor(r, c, s)
                            /\ TakesError(r, c, s)' = TakesError(r, c, s)
    BY <1>3 DEF WaitsFor, HasCallee, Callee, Branch, TakesError
<1>7. WaitsFor(r, u, n)'
    <2>1. CASE pc = "fallback" /\ Fallback[u] = n
        BY <1>1, <1>3, <2>1 DEF WaitsFor
    <2>2. CASE pc = frame[r][u].pc /\ pc \in Branching /\ HasCallee(r, u) /\ Callee(r, u) = n
        <3>1. Branch(r, u)' = Branch(r, u)
            BY <1>1, <1>3, <2>2 DEF Branch
        <3>2. HasCallee(r, u)' /\ Callee(r, u)' = n
            BY <1>1, <1>3, <2>2, <3>1 DEF HasCallee, Callee
        <3>3. QED
            BY <1>1, <1>3, <2>2, <3>2 DEF WaitsFor
    <2>3. QED
        BY <2>1, <2>2
<1>8. \A s : WaitsFor(r, u, s) => s = n
    <2>1. CASE pc = frame[r][u].pc /\ pc \in Branching /\ Callee(r, u) = n
        BY <2>1 DEF WaitsFor, Branching
    <2>2. CASE frame[r][u].pc \notin {"then", "else", "fallback"}
        BY <2>2 DEF WaitsFor, Branching
    <2>3. QED
        BY <2>1, <2>2
<1>9. \A s : ~ WaitsFor(r, n, s)
    BY DEF WaitsFor, Branching
<1>10. pc \in Active /\ "starting" \in Active /\ "idle" \notin Active
    BY DEF Active, PCs
<1>11. /\ n \notin Awake(r) /\ u \in Awake(r)
       /\ \A v \in Steps : v \in Awake(r)' <=> v \in Awake(r) \/ v = n
    BY <1>1, <1>3, <1>10 DEF Awake
<1>12. Rooted(r) /\ Heeded(r)
    BY DEF AllRunsSound, RunSound
<1>13. Rooted(r)'
    <2> SUFFICES ASSUME NEW S \in SUBSET Awake(r)', S # {}, \A s \in S : ~ IsCurrent(r, s)
                 PROVE  \E c \in Awake(r)' \ S, s \in S : WaitsFor(r, c, s)'
        BY <1>5 DEF Rooted
    <2>1. CASE n \in S /\ u \notin S
        <3>1. u \in Awake(r)' \ S
            BY <1>11, <2>1
        <3>2. QED
            BY <1>7, <2>1, <3>1
    <2>2. CASE n \notin S \/ u \in S
        <3> DEFINE T == S \ {n}
        <3>1. T \in SUBSET Awake(r) /\ T # {} /\ \A s \in T : ~ IsCurrent(r, s)
            BY <1>0, <1>11, <2>2 DEF Awake
        <3>2. PICK c \in Awake(r) \ T, s \in T : WaitsFor(r, c, s)
            BY <1>12, <3>1 DEF Rooted
        <3>3. c \in Steps /\ c # n /\ s # n
            BY <1>11, <3>2 DEF Awake
        <3>4. c # u
            BY <1>8, <3>2, <3>3
        <3>5. c \in Awake(r)' \ S /\ WaitsFor(r, c, s)'
            BY <1>6, <1>11, <3>2, <3>3, <3>4
        <3>6. QED
            BY <3>2, <3>5
    <2>3. QED
        BY <2>1, <2>2
<1>14. Heeded(r)'
    <2> SUFFICES ASSUME NEW s \in Steps, frame'[r][s].pc = "raised", ~ IsCurrent(r, s)
                 PROVE  \E c \in Steps : WaitsFor(r, c, s)' \/ TakesError(r, c, s)'
        BY <1>5 DEF Heeded
    <2>1. s # u /\ s # n /\ frame[r][s].pc = "raised"
        BY <1>1, <1>3
    <2>2. PICK c \in Steps : WaitsFor(r, c, s) \/ TakesError(r, c, s)
        BY <1>12, <2>1 DEF Heeded
    <2>3. TakesError(r, c, s) => TakesError(r, c, s)'
        <3>1. frame[r][u].pc # "raised"
            BY DEF Active
        <3>2. QED
            BY <1>1, <1>3, <1>6, <3>1 DEF TakesError
    <2>4. WaitsFor(r, c, s) => c # u /\ c # n
        BY <1>8, <1>9, <2>1
    <2>5. QED
        BY <1>6, <2>2, <2>3, <2>4
<1>15. QED
    BY <1>4, <1>13, <1>14, OthersSound DEF RunSound

LEMMA ActiveAreOpen ==
    \A pc \in {"starting", "calling", "then", "else", "ending", "threshold",
                "closing", "opening", "handling", "backoff", "retrying",
                "delegating", "fallback", "recovered"} :
        pc \in Active /\ pc \in PCs \ {"idle", "cancelled"}
BY DEF Active, PCs

\* What a frame turns to.
LEMMA GotoTurns ==
    ASSUME TypeOK, NEW r \in Runs, NEW s \in Steps, NEW pc \in PCs \ {"idle", "cancelled"},
           Goto(r, s, pc)
    PROVE  \E f : Turns(r, s, f) /\ f.pc = pc
<1> DEFINE f == [frame[r][s] EXCEPT !.pc = pc]
<1>1. f.pc = pc /\ f.error = frame[r][s].error
    BY PcFields DEF TypeOK
<1>2. frame' = [frame EXCEPT ![r][s] = f]
    BY DEF Goto
<1> HIDE DEF f
<1>3. QED
    BY <1>1, <1>2 DEF Turns

LEMMA ThrowTurns ==
    ASSUME TypeOK, NEW r \in Runs, NEW s \in Steps, NEW e, e # "none", NEW b,
           Throw(r, s, e, b)
    PROVE  \E f : Turns(r, s, f) /\ f.error = e
<1>1. PICK pc \in {"opening", "handling"} :
          frame' = [frame EXCEPT ![r][s] =
                       [frame[r][s] EXCEPT !.pc = pc, !.error = e]]
    BY DEF Throw
<1> DEFINE f == [frame[r][s] EXCEPT !.pc = pc, !.error = e]
<1>2. f.pc = pc /\ f.error = e
    BY DEF TypeOK, Frames
<1>3. frame' = [frame EXCEPT ![r][s] = f]
    BY <1>1
<1> HIDE DEF f
<1>4. QED
    BY <1>2, <1>3, ActiveAreOpen DEF Turns

LEMMA CreditTurns ==
    ASSUME TypeOK, NEW r \in Runs, NEW s \in Steps, Credit(r, s)
    PROVE  \E f : Turns(r, s, f)
<1>1. PICK pc \in {"closing", "returned"} : Goto(r, s, pc)
    BY DEF Credit
<1>2. pc \in PCs \ {"idle", "cancelled"}
    BY DEF PCs
<1>3. QED
    BY <1>1, <1>2, GotoTurns

LEMMA RetriesTurn ==
    ASSUME TypeOK, NEW r \in Runs, NEW s \in Steps, NEW n, StartRetries(r, s, n)
    PROVE  \E f : Turns(r, s, f)
<1> DEFINE pc == IF n = 0 THEN "raised" ELSE "backoff"
           f == [frame[r][s] EXCEPT !.pc = pc, !.attempt = 1, !.attempts = n]
<1>1. f.pc \in {"raised", "backoff"} /\ f.error = frame[r][s].error
    BY DEF TypeOK, Frames
<1>2. frame' = [frame EXCEPT ![r][s] = f]
    BY DEF StartRetries
<1> HIDE DEF f
<1>3. QED
    BY <1>1, <1>2 DEF Turns, PCs

LEMMA TrySound ==
    ASSUME TypeOK, AllRunsSound, NEW r \in Runs, NEW s \in Steps, TryStep(r, s)
    PROVE  AllRunsSound'
<1>ac. \A pc \in {"starting", "calling", "then", "else", "ending", "threshold",
                  "closing"} : pc \in Active /\ pc \in PCs \ {"idle", "cancelled"}
    BY ActiveAreOpen
<1>fr. frame[r][s] \in Frames
    BY DEF TypeOK
<1>un. UNCHANGED <<outcome, next>> /\ outcome[r] = "running"
    BY DEF TryStep, Refuse, Invoke, TakeElse, FailCondition, Answer, FailCall, CallNested,
           NestedReturned, NestedRaised, BranchDone, EndUnbilled, UsageUnreadable, EndBilled,
           ThresholdAnnounced, ClosingAnnounced, InBranch, At
<1>re. "returned" \in PCs \ {"idle", "cancelled"} /\ "raised" \in PCs \ {"idle", "cancelled"}
    BY DEF PCs
<1>1. CASE Refuse(r, s)
    <2> DEFINE f == [frame[r][s] EXCEPT !.pc = "raised", !.error = "circuit"]
    <2>1. f.pc = "raised" /\ f.error = "circuit"
        BY <1>fr DEF Frames
    <2>2. frame' = [frame EXCEPT ![r][s] = f] /\ frame[r][s].pc = "starting"
        BY <1>1 DEF Refuse, At
    <2> HIDE DEF f
    <2>3. Turns(r, s, f)
        BY <1>re, <2>1, <2>2 DEF Turns
    <2>4. QED
        BY <1>ac, <1>un, <2>2, <2>3, LeafTurnSound
<1>2. CASE Invoke(r, s)
    <2> DEFINE v == IF s \in Conditional THEN "true" ELSE "unknown"
               f == [frame[r][s] EXCEPT !.pc = "calling", !.verdict = v]
    <2>1. f.pc = "calling" /\ f.error = frame[r][s].error
        BY <1>fr DEF Frames
    <2>2. frame' = [frame EXCEPT ![r][s] = f] /\ frame[r][s].pc = "starting"
        BY <1>2 DEF Invoke, At
    <2> HIDE DEF f
    <2>3. Turns(r, s, f)
        BY <1>ac, <2>1, <2>2 DEF Turns
    <2>4. QED
        BY <1>ac, <1>un, <2>2, <2>3, LeafTurnSound
<1>3. CASE TakeElse(r, s)
    <2> DEFINE f == [frame[r][s] EXCEPT !.pc = "else", !.verdict = "false", !.child = 1]
    <2>1. f.pc = "else" /\ f.error = frame[r][s].error
        BY <1>fr DEF Frames
    <2>2. frame' = [frame EXCEPT ![r][s] = f] /\ frame[r][s].pc = "starting"
        BY <1>3 DEF TakeElse, At
    <2> HIDE DEF f
    <2>3. Turns(r, s, f)
        BY <1>ac, <2>1, <2>2 DEF Turns
    <2>4. QED
        BY <1>ac, <1>un, <2>2, <2>3, LeafTurnSound
<1>4. CASE FailCondition(r, s)
    <2>1. frame[r][s].pc = "starting" /\ \E f : Turns(r, s, f)
        BY <1>4, ThrowTurns DEF FailCondition, At
    <2>2. QED
        BY <1>ac, <1>un, <2>1, LeafTurnSound
<1>5. CASE Answer(r, s)
    <2>1. frame[r][s].pc = "calling"
        BY <1>5 DEF Answer, At
    <2>2. \E f : Turns(r, s, f)
        <3>1. CASE s \in Conditional
            <4> DEFINE f == [frame[r][s] EXCEPT !.pc = "then", !.child = 1]
            <4>1. f.pc = "then" /\ f.error = frame[r][s].error
                BY <1>fr DEF Frames
            <4>2. frame' = [frame EXCEPT ![r][s] = f]
                BY <1>5, <3>1 DEF Answer
            <4> HIDE DEF f
            <4>3. QED
                BY <1>ac, <4>1, <4>2 DEF Turns
        <3>2. CASE s \notin Conditional
            BY <1>5, <1>ac, <3>2, GotoTurns DEF Answer
        <3>3. QED
            BY <3>1, <3>2
    <2>3. QED
        BY <1>ac, <1>un, <2>1, <2>2, LeafTurnSound
<1>6. CASE FailCall(r, s)
    <2>1. frame[r][s].pc = "calling" /\ \E f : Turns(r, s, f)
        BY <1>6, ThrowTurns DEF FailCall, At, CallErrors
    <2>2. QED
        BY <1>ac, <1>un, <2>1, LeafTurnSound
<1>7. CASE CallNested(r, s)
    <2>1. Callee(r, s) \in Steps
        BY <1>7, CalleeType DEF CallNested
    <2>2. /\ frame[r][s].pc \in {"then", "else"} /\ HasCallee(r, s)
          /\ frame[r][Callee(r, s)].pc = "idle" /\ Call(r, s, frame[r][s].pc, Callee(r, s))
        BY <1>7 DEF CallNested, InBranch, At
    <2>3. QED
        BY <1>ac, <1>un, <2>1, <2>2, CallSound DEF Branching
<1>8. CASE NestedReturned(r, s)
    <2> DEFINE f == [frame[r][s] EXCEPT !.child = frame[r][s].child + 1]
    <2>1. f.pc = frame[r][s].pc /\ f.error = frame[r][s].error
        BY <1>fr DEF Frames
    <2>2. frame' = [frame EXCEPT ![r][s] = f] /\ frame[r][s].pc \in {"then", "else"}
        BY <1>8 DEF NestedReturned, InBranch, At
    <2> HIDE DEF f
    <2>3. Turns(r, s, f)
        BY <1>ac, <2>1, <2>2 DEF Turns
    <2>4. \A v : WaitsFor(r, s, v) => frame[r][v].pc = "returned"
        BY <1>8, <2>2 DEF NestedReturned, WaitsFor
    <2>5. "returned" \notin Active
        BY DEF Active
    <2>6. QED
        BY <1>ac, <1>un, <2>2, <2>3, <2>4, <2>5, TurnSound DEF Awake
<1>9. CASE NestedRaised(r, s)
    <2>1. frame[r][s].pc \in {"then", "else"} /\ frame[r][Callee(r, s)].pc = "raised"
        BY <1>9 DEF NestedRaised, InBranch, At
    <2>2. PICK f : Turns(r, s, f) /\ f.error = "nested"
        BY <1>9, ThrowTurns DEF NestedRaised
    <2>3. frame'[r][s].error # "none"
        BY <1>un, <2>2, TurnsEffect
    <2>4. \A v : WaitsFor(r, s, v) => frame[r][v].pc = "raised" /\ Nested(s, v)
        BY <2>1, CalleeNested DEF WaitsFor, Branching
    <2>5. "raised" \notin Active
        BY DEF Active
    <2>6. \A v : WaitsFor(r, s, v) => v \notin Awake(r) /\ TakesError(r, s, v)'
        BY <2>3, <2>4, <2>5 DEF Awake, TakesError
    <2>7. QED
        BY <1>ac, <1>un, <2>1, <2>2, <2>6, TurnSound
<1>10. CASE BranchDone(r, s)
    <2>1. frame[r][s].pc \in {"then", "else"} /\ ~ HasCallee(r, s) /\ Goto(r, s, "ending")
        BY <1>10 DEF BranchDone, InBranch, At
    <2>2. PICK f : Turns(r, s, f)
        BY <1>ac, <2>1, GotoTurns
    <2>3. \A v : ~ WaitsFor(r, s, v)
        BY <2>1 DEF WaitsFor
    <2>4. QED
        BY <1>ac, <1>un, <2>1, <2>2, <2>3, TurnSound
<1>11. CASE EndUnbilled(r, s)
    <2>1. frame[r][s].pc = "ending" /\ \E f : Turns(r, s, f)
        BY <1>11, CreditTurns DEF EndUnbilled, At
    <2>2. QED
        BY <1>ac, <1>un, <2>1, LeafTurnSound
<1>u. CASE UsageUnreadable(r, s)
    <2>1. frame[r][s].pc = "ending" /\ \E f : Turns(r, s, f)
        BY <1>u, ThrowTurns DEF UsageUnreadable, At
    <2>2. QED
        BY <1>ac, <1>un, <2>1, LeafTurnSound
<1>12. CASE EndBilled(r, s)
    <2>1. frame[r][s].pc = "ending"
        BY <1>12 DEF EndBilled, At
    <2>2. Throw(r, s, "budget", breaker) \/ Goto(r, s, "threshold") \/ Credit(r, s)
        BY <1>12 DEF EndBilled
    <2>3. \E f : Turns(r, s, f)
        BY <1>ac, <2>2, ThrowTurns, GotoTurns, CreditTurns
    <2>4. QED
        BY <1>ac, <1>un, <2>1, <2>3, LeafTurnSound
<1>13. CASE ThresholdAnnounced(r, s)
    <2>1. frame[r][s].pc = "threshold" /\ \E f : Turns(r, s, f)
        BY <1>13, CreditTurns DEF ThresholdAnnounced, At
    <2>2. QED
        BY <1>ac, <1>un, <2>1, LeafTurnSound
<1>14. CASE ClosingAnnounced(r, s)
    <2>1. frame[r][s].pc = "closing" /\ \E f : Turns(r, s, f)
        BY <1>14, <1>re, GotoTurns DEF ClosingAnnounced, At
    <2>2. QED
        BY <1>ac, <1>un, <2>1, LeafTurnSound
<1>15. QED
    BY <1>1, <1>2, <1>3, <1>4, <1>5, <1>6, <1>7, <1>8, <1>9, <1>10, <1>11,
       <1>12, <1>13, <1>14, <1>u DEF TryStep

\* The recoveries that call nothing and wait for nothing.
LEMMA FallbackSound ==
    ASSUME TypeOK, AllRunsSound, NEW r \in Runs, NEW s \in Steps, StartFallback(r, s),
           outcome[r] = "running", UNCHANGED <<outcome, next>>,
           frame[r][s].pc \in Active \ {"then", "else", "fallback"}
    PROVE  AllRunsSound'
<1>1. CASE Raise(r, s)
    <2>1. "raised" \in PCs \ {"idle", "cancelled"}
        BY DEF PCs
    <2>2. PICK f : Turns(r, s, f)
        BY <1>1, <2>1, GotoTurns DEF Raise
    <2>3. QED
        BY <2>2, LeafTurnSound
<1>2. CASE /\ Fallback[s] # NoStep /\ frame[r][Fallback[s]].pc = "idle"
           /\ Call(r, s, "fallback", Fallback[s])
    <2>1. Fallback[s] \in Steps
        BY <1>2, ExecutorAssumption
    <2>2. QED
        BY <1>2, <2>1, CallSound
<1>3. QED
    BY <1>1, <1>2 DEF StartFallback

LEMMA RecoverySound ==
    ASSUME TypeOK, AllRunsSound, NEW r \in Runs, NEW s \in Steps, RecoverStep(r, s)
    PROVE  AllRunsSound'
<1>un. UNCHANGED <<outcome, next>> /\ outcome[r] = "running"
    BY DEF RecoverStep, OpeningAnnounced, ApplyFail, ApplySkip, ApplyRetry, ApplyFallback,
           ApplyDelegate, Retry, RetryAnswer, RetryFail, FallbackReturned, FallbackRaised,
           DelegateChooses, RecoveryAnnounced, At
<1> DEFINE Quiet == {"opening", "handling", "delegating", "backoff", "retrying", "recovered"}
<1>qu. \A pc \in Quiet : pc \in Active \ {"then", "else", "fallback"}
    BY ActiveAreOpen
<1>pc. \A pc \in Quiet \cup {"returned", "raised"} : pc \in PCs \ {"idle", "cancelled"}
    BY DEF PCs
<1>1. ASSUME frame[r][s].pc \in Quiet, NEW pc \in Quiet \cup {"returned", "raised"},
             Goto(r, s, pc)
      PROVE  AllRunsSound'
    <2>1. pc \in PCs \ {"idle", "cancelled"}
        BY <1>pc
    <2>2. PICK f : Turns(r, s, f)
        BY <1>1, <2>1, GotoTurns
    <2>3. QED
        BY <1>1, <1>qu, <1>un, <2>2, LeafTurnSound
<1>2. ASSUME frame[r][s].pc \in Quiet, NEW n, StartRetries(r, s, n)
      PROVE  AllRunsSound'
    <2>1. PICK f : Turns(r, s, f)
        BY <1>2, RetriesTurn
    <2>2. QED
        BY <1>2, <1>qu, <1>un, <2>1, LeafTurnSound
<1>3. CASE OpeningAnnounced(r, s) \/ ApplyFail(r, s) \/ ApplySkip(r, s) \/ ApplyDelegate(r, s)
           \/ Retry(r, s) \/ RetryAnswer(r, s) \/ RecoveryAnnounced(r, s)
    <2>1. frame[r][s].pc \in Quiet
        BY <1>3 DEF OpeningAnnounced, ApplyFail, ApplySkip, ApplyDelegate, Retry, RetryAnswer,
                    RecoveryAnnounced, At
    <2>2. PICK pc \in Quiet \cup {"returned", "raised"} : Goto(r, s, pc)
        BY <1>3 DEF OpeningAnnounced, ApplyFail, ApplySkip, ApplyDelegate, Retry, RetryAnswer,
                    RecoveryAnnounced, Raise, Recover
    <2>3. QED
        BY <1>1, <2>1, <2>2
<1>4. CASE ApplyRetry(r, s)
    BY <1>2, <1>4 DEF ApplyRetry, At
<1>5. CASE ApplyFallback(r, s)
    <2>1. StartFallback(r, s) /\ frame[r][s].pc = "handling"
        BY <1>5 DEF ApplyFallback, At
    <2>2. QED
        BY <1>qu, <1>un, <2>1, FallbackSound
<1>6. CASE RetryFail(r, s)
    <2>1. frame[r][s].pc = "retrying"
        BY <1>6 DEF RetryFail, At
    <2>2. CASE frame[r][s].attempt < frame[r][s].attempts
        <3> DEFINE f == [frame[r][s] EXCEPT !.pc = "backoff",
                                            !.attempt = frame[r][s].attempt + 1]
        <3>1. f.pc = "backoff" /\ f.error = frame[r][s].error
            BY DEF TypeOK, Frames
        <3>2. frame' = [frame EXCEPT ![r][s] = f]
            BY <1>6, <2>2 DEF RetryFail
        <3> HIDE DEF f
        <3>3. Turns(r, s, f)
            BY <1>pc, <3>1, <3>2 DEF Turns
        <3>4. QED
            BY <1>qu, <1>un, <2>1, <3>3, LeafTurnSound
    <2>3. CASE ~ (frame[r][s].attempt < frame[r][s].attempts)
        BY <1>1, <1>6, <2>1, <2>3 DEF RetryFail, Raise
    <2>4. QED
        BY <2>2, <2>3
<1>7. CASE FallbackReturned(r, s)
    <2>1. /\ frame[r][s].pc = "fallback" /\ frame[r][Fallback[s]].pc = "returned"
          /\ Goto(r, s, "recovered")
        BY <1>7 DEF FallbackReturned, At, Recover
    <2>2. PICK f : Turns(r, s, f)
        BY <1>pc, <2>1, GotoTurns
    <2>3. \A v : WaitsFor(r, s, v) => frame[r][v].pc = "returned"
        BY <2>1 DEF WaitsFor, Branching
    <2>4. "returned" \notin Active /\ "fallback" \in Active
        BY ActiveAreOpen DEF Active
    <2>5. QED
        BY <1>un, <2>1, <2>2, <2>3, <2>4, TurnSound DEF Awake
<1>8. CASE FallbackRaised(r, s)
    <2>1. /\ frame[r][s].pc = "fallback" /\ frame[r][Fallback[s]].pc = "raised"
          /\ Goto(r, s, "raised")
        BY <1>8 DEF FallbackRaised, At, Raise
    <2>2. PICK f : Turns(r, s, f) /\ f.pc = "raised"
        BY <1>pc, <2>1, GotoTurns
    <2>3. \A v : WaitsFor(r, s, v) => frame[r][v].pc = "raised" /\ Fallback[s] = v
        BY <2>1 DEF WaitsFor, Branching
    <2>4. "raised" \notin Active /\ "fallback" \in Active
        BY ActiveAreOpen DEF Active
    <2>5. frame'[r][s].pc = "raised"
        BY <1>un, <2>2, TurnsEffect
    <2>6. \A v : WaitsFor(r, s, v) => v \notin Awake(r) /\ TakesError(r, s, v)'
        BY <2>3, <2>4, <2>5 DEF Awake, TakesError
    <2>7. QED
        BY <1>un, <2>1, <2>2, <2>4, <2>6, TurnSound
<1>9. CASE DelegateChooses(r, s)
    <2>1. frame[r][s].pc = "delegating"
        BY <1>9 DEF DelegateChooses, At
    <2>2. CASE StartRetries(r, s, DelegateRetries)
        BY <1>2, <2>1, <2>2
    <2>3. CASE Recover(r, s, "none")
        BY <1>1, <2>1, <2>3 DEF Recover
    <2>4. CASE StartFallback(r, s)
        BY <1>qu, <1>un, <2>1, <2>4, FallbackSound
    <2>5. CASE Raise(r, s)
        BY <1>1, <2>1, <2>5 DEF Raise
    <2>6. QED
        BY <1>9, <2>2, <2>3, <2>4, <2>5 DEF DelegateChooses
<1>10. QED
    BY <1>3, <1>4, <1>5, <1>6, <1>7, <1>8, <1>9 DEF RecoverStep

\* A top-level step begins: no frame of the run is open.
LEMMA BeginSound ==
    ASSUME TypeOK, AllRunsSound, NEW r \in Runs, BeginStep(r)
    PROVE  AllRunsSound'
<1> DEFINE n == Current(r)
           g == [frame[r][n] EXCEPT !.pc = "starting"]
<1>1. /\ n \in Steps /\ frame[r][n].pc = "idle" /\ outcome[r] = "running"
      /\ next[r] \in DOMAIN Workflow /\ UNCHANGED <<outcome, next>>
      /\ frame' = [frame EXCEPT ![r][n] = g]
    BY ExecutorAssumption DEF BeginStep, Current, Goto
<1>2. g.pc = "starting" /\ g.error = frame[r][n].error
    BY <1>1, PcFields DEF TypeOK
<1>3. \A s : IsCurrent(r, s)' = IsCurrent(r, s) /\ (IsCurrent(r, s) <=> s = n)
    BY <1>1 DEF IsCurrent, Current
<1> HIDE DEF n, g
<1>4. /\ Elsewhere(r) /\ frame'[r][n] = g
      /\ \A v \in Steps : v # n => frame'[r][v] = frame[r][v]
    BY <1>1 DEF TypeOK, Elsewhere
<1>5. Rooted(r) /\ Heeded(r)
    BY <1>1 DEF AllRunsSound, RunSound
<1>6. Awake(r) = {}
    <2>1. n \notin Awake(r)
        BY <1>1 DEF Awake, Active
    <2>2. QED
        BY <1>3, <1>5, <2>1, NoneOpen
<1>7. Awake(r)' \subseteq {n}
    BY <1>4, <1>6 DEF Awake
<1>8. Rooted(r)'
    BY <1>3, <1>7 DEF Rooted
<1>9. Heeded(r)'
    <2> SUFFICES ASSUME NEW s \in Steps, frame'[r][s].pc = "raised", ~ IsCurrent(r, s)
                 PROVE  \E c \in Steps : TakesError(r, c, s)'
        BY <1>3 DEF Heeded
    <2>1. s # n /\ frame[r][s].pc = "raised"
        BY <1>2, <1>4
    <2>2. PICK c \in Steps : WaitsFor(r, c, s) \/ TakesError(r, c, s)
        BY <1>5, <2>1 DEF Heeded
    <2>3. TakesError(r, c, s)
        BY <1>6, <2>2, CalleeNested
    <2>4. QED
        BY <1>1, <1>2, <1>4, <2>3 DEF TakesError
<1>10. QED
    BY <1>1, <1>4, <1>8, <1>9, OthersSound DEF RunSound

\* The run goes on, or ends, with no frame open.
LEMMA TopSound ==
    ASSUME TypeOK, AllRunsSound, NEW r \in Runs,
           StepReturned(r) \/ StepRaised(r) \/ Complete(r)
    PROVE  AllRunsSound'
<1>1. UNCHANGED frame /\ outcome[r] = "running" /\ Elsewhere(r)
    BY DEF StepReturned, StepRaised, Complete, TypeOK, Elsewhere
<1>2. Rooted(r) /\ Heeded(r)
    BY <1>1 DEF AllRunsSound, RunSound
<1>3. CASE StepRaised(r)
    <2>1. outcome'[r] = "failed"
        BY <1>3 DEF StepRaised, TypeOK
    <2>2. QED
        BY <1>1, <2>1, OthersSound DEF RunSound
<1>4. CASE StepReturned(r) \/ Complete(r)
    <2>1. \A s : IsCurrent(r, s) => frame[r][s].pc \in {"idle", "returned"}
        BY <1>4 DEF StepReturned, Complete, IsCurrent
    <2>2. Awake(r) = {}
        <3>1. \A s \in Awake(r) : ~ IsCurrent(r, s)
            BY <2>1 DEF Awake, Active
        <3>2. QED
            BY <1>2, <3>1, NoneOpen
    <2>3. ASSUME NEW s \in Steps, frame[r][s].pc = "raised"
          PROVE  \E c \in Steps : TakesError(r, c, s)'
        <3>1. ~ IsCurrent(r, s)
            BY <2>1, <2>3
        <3>2. PICK c \in Steps : WaitsFor(r, c, s) \/ TakesError(r, c, s)
            BY <1>2, <2>3, <3>1 DEF Heeded
        <3>3. TakesError(r, c, s)
            BY <2>2, <3>2, CalleeNested
        <3>4. QED
            BY <1>1, <3>3 DEF TakesError
    <2>4. Awake(r)' = {}
        BY <1>1, <2>2 DEF Awake
    <2>5. Rooted(r)' /\ Heeded(r)' /\ Surfaced(r)'
        BY <1>1, <2>3, <2>4 DEF Rooted, Heeded, Surfaced
    <2>6. QED
        BY <1>1, <2>5, OthersSound DEF RunSound
<1>5. QED
    BY <1>3, <1>4

LEMMA NextSurfaces == TypeOK /\ AllRunsSound /\ [Next]_vars => AllRunsSound'
<1> SUFFICES ASSUME TypeOK, AllRunsSound, [Next]_vars PROVE AllRunsSound'
    OBVIOUS
<1>1. ASSUME NEW r \in Runs, Progress(r)
      PROVE  AllRunsSound'
    BY <1>1, BeginSound, TopSound, TrySound, RecoverySound DEF Progress
<1>2. ASSUME NEW r \in Runs, Cancel(r)
      PROVE  AllRunsSound'
    <2>1. outcome'[r] = "cancelled" /\ Elsewhere(r)
        BY <1>2 DEF Cancel, TypeOK, Elsewhere
    <2>2. QED
        BY <2>1, OthersSound DEF RunSound
<1>3. CASE Tick \/ Terminated \/ UNCHANGED vars
    <2>1. UNCHANGED <<frame, outcome, next>>
        BY <1>3 DEF Tick, Terminated, vars
    <2>2. QED
        BY <2>1 DEF AllRunsSound, RunSound, Rooted, Heeded, Surfaced, WaitsFor, TakesError,
                    HasCallee, Callee, Branch, Awake, IsCurrent, Current
<1>4. QED
    BY <1>1, <1>2, <1>3 DEF Next

LEMMA InitSurfaces == Init => AllRunsSound
<1> SUFFICES ASSUME Init, NEW r \in Runs PROVE RunSound(r)
    BY DEF AllRunsSound
<1>1. \A s \in Steps : frame[r][s].pc = "idle"
    BY DEF Init, Closed
<1>2. Awake(r) = {} /\ outcome[r] = "running"
    BY <1>1 DEF Awake, Active, Init
<1>3. QED
    BY <1>1, <1>2 DEF RunSound, Rooted, Heeded

\* When a run of any workflow completes, every step that raised was nested in
\* one that handled the error, or was the fallback of one that raised too.
THEOREM NoErrorIsLost == Spec => []ErrorsSurface
<1>1. AllRunsSound => ErrorsSurface
    BY DEF AllRunsSound, RunSound, Surfaced, ErrorsSurface
<1>2. QED
    BY <1>1, InitType, NextType, InitSurfaces, NextSurfaces, PTL DEF Spec
=============================================================================
