---------------------------- MODULE ApprovalGate ----------------------------
(***************************************************************************)
(* The approval gates (adapters/approval.py): requests that the policy     *)
(* approves at once, a human resolves, or a timer escalates. The requests  *)
(* live in memory; who asked polls their status.                           *)
(***************************************************************************)
EXTENDS Integers

CONSTANTS
    Approvals,     \* the ids of the requests
    Levels,        \* risk levels
    Approvers      \* humans who resolve

VARIABLES
    policy,        \* [auto, escalation]: auto_approve_levels, escalation_policy
    requests,      \* id -> its ApprovalResult
    timers         \* ids whose _timeout_escalation sleeps

gateVars == <<policy, requests, timers>>

Unasked == [status |-> "UNASKED", approver |-> "nobody"]
Result(status, approver) == [status |-> status, approver |-> approver]

Policies ==
    [auto : SUBSET Levels, escalation : {"auto-approve", "auto-deny", "delegate"}]

GateStart(p) ==
    /\ policy = p
    /\ requests = [r \in Approvals |-> Unasked]
    /\ timers = {}

(* InMemoryApprovalGate approves whatever is asked. *)
InMemoryPolicy == [auto |-> Levels, escalation |-> "delegate"]

GateIdle == GateStart(InMemoryPolicy)

(* Approved by the policy, or pending with a timer. *)
RequestApproval(r, level) ==
    /\ requests[r] = Unasked
    /\ UNCHANGED policy
    /\ IF level \in policy.auto
       THEN /\ requests' = [requests EXCEPT ![r] = Result("APPROVED", "policy")]
            /\ UNCHANGED timers
       ELSE /\ requests' = [requests EXCEPT ![r] = Result("PENDING", "nobody")]
            /\ timers' = timers \union {r}

(* check_status: an unknown id reads as pending. *)
Status(r) == IF requests[r] = Unasked THEN "PENDING" ELSE requests[r].status

(* A human's word counts while the request is pending; it may leave it so. *)
Resolve(r, status, approver) ==
    /\ requests[r] # Unasked
    /\ requests' = IF requests[r].status = "PENDING"
                   THEN [requests EXCEPT ![r] = Result(status, approver)]
                   ELSE requests
    /\ UNCHANGED <<policy, timers>>

Escalated ==
    CASE policy.escalation = "auto-approve" -> "APPROVED"
      [] policy.escalation = "auto-deny"    -> "DENIED"
      [] OTHER                              -> "ESCALATED"

\* Mutant: the timer does not look at the status again.
TimerFiresBlindly(r) ==
    /\ r \in timers
    /\ timers' = timers \ {r}
    /\ requests' = [requests EXCEPT ![r] = Result(Escalated, "escalation")]
    /\ UNCHANGED policy

TimerFires(r) ==
    /\ r \in timers
    /\ timers' = timers \ {r}
    /\ requests' = IF requests[r].status = "PENDING"
                   THEN [requests EXCEPT ![r] = Result(Escalated, "escalation")]
                   ELSE requests
    /\ UNCHANGED policy

Asked == \E r \in Approvals, level \in Levels : RequestApproval(r, level)

Answered ==
    \E r \in Approvals, approver \in Approvers,
       status \in {"APPROVED", "DENIED", "PENDING", "ESCALATED"} :
          Resolve(r, status, approver)

GateNext == Asked \/ Answered \/ \E r \in Approvals : TimerFires(r)

-----------------------------------------------------------------------------
(***************************************************************************)
(* Whoever decides a request first, the policy, a human or the timer, has  *)
(* decided it: no later word or timer changes the status or the approver.  *)
(***************************************************************************)
Decided(r) == Status(r) # "PENDING"

FirstDecisionStands ==
    [][\A r \in Approvals : Decided(r) => requests'[r] = requests[r]]_gateVars

(* What is asked is decided, by the timer if by nobody else. *)
EveryRequestIsDecided ==
    \A r \in Approvals : requests[r].status = "PENDING" ~> Decided(r)
=============================================================================
