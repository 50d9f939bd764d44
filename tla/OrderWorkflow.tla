---------------------------- MODULE OrderWorkflow ---------------------------
(***************************************************************************)
(* The order workflow (examples/dapr-workflow): the generator              *)
(* orderProcessingWorkflow, its activities, the HTTP server that starts    *)
(* orders and forwards approvals, and the smoke test that drives it.       *)
(*                                                                         *)
(* Dapr keeps the history of an order and replays it through the           *)
(* generator.  The generator reads nothing but that history, so `step` is  *)
(* where the replay of the recorded history arrives, and it survives a     *)
(* restart.  An activity runs in the server process; the server may stop   *)
(* after the activity did its work and before that is recorded, and then   *)
(* the activity runs again.  Publishing a message is the work of an        *)
(* activity.                                                               *)
(***************************************************************************)
EXTENDS Integers

CONSTANTS
    Orders,     \* order ids
    Bodies,     \* bodies of POST /orders: customer, items, total
    Absent      \* a field that is missing, or of another type

ASSUME OrderAssumption ==
    \A body \in Bodies : body.total = Absent \/ body.total \in Int

Activities == {"notify", "reserve", "notifyWaiting", "notifyTimeout",
               "notifyRejected", "notifyApproved", "pay", "ship"}
Steps == {"none", "wait", "completed", "cancelled", "failed"} \union Activities
Final == {"completed", "cancelled", "failed"}

VARIABLES
    server,     \* the server process, and its promise runtimeStarted
    shipping,   \* whether its environment allows shipping
    step,       \* what each order's generator waits for
    total,      \* the total of each order
    approval,   \* the first approval event of each order
    decision,   \* what decided it
    running,    \* whether its activity is queued, executing or performed
    payments,   \* how often payment was published: 0, 1, 2 for more
    shipments,  \* the same for shipping
    tester      \* where the smoke test is with each order

serverVars == <<server, shipping>>
workflowVars == <<step, total, approval, decision, running, payments, shipments>>
vars == <<serverVars, workflowVars, tester>>

Init ==
    /\ server = "starting"
    /\ shipping \in BOOLEAN
    /\ step = [o \in Orders |-> "none"]
    /\ total = [o \in Orders |-> 0]
    /\ approval = [o \in Orders |-> "none"]
    /\ decision = [o \in Orders |-> "none"]
    /\ running = [o \in Orders |-> "queued"]
    /\ payments = [o \in Orders |-> 0]
    /\ shipments = [o \in Orders |-> 0]
    /\ tester = [o \in Orders |-> "idle"]

-----------------------------------------------------------------------------
\* The workflow.

\* Variant: orders of exactly the limit need no approval.
OverLimit(o) == total[o] > 1000

NeedsApproval(o) == total[o] >= 1000

\* Variant: a rejected order goes on like an approved one.
GoOnRejected(o) ==
    CASE step[o] = "notify" -> "reserve"
      [] step[o] = "reserve" -> IF NeedsApproval(o) THEN "notifyWaiting" ELSE "pay"
      [] step[o] = "notifyTimeout" -> "cancelled"
      [] step[o] \in {"notifyApproved", "notifyRejected"} -> "pay"
      [] step[o] = "pay" -> "ship"
      [] step[o] = "ship" -> "completed"

\* What the generator does when the activity it waited for has completed.
AfterActivity(o) ==
    CASE step[o] = "notify" -> "reserve"
      [] step[o] = "reserve" -> IF NeedsApproval(o) THEN "notifyWaiting" ELSE "pay"
      [] step[o] \in {"notifyTimeout", "notifyRejected"} -> "cancelled"
      [] step[o] = "notifyApproved" -> "pay"
      [] step[o] = "pay" -> "ship"
      [] step[o] = "ship" -> "completed"

\* The notification that a decision leads to.
AfterDecision(d) ==
    IF d = "timeout" THEN "notifyTimeout"
    ELSE IF d = "approved" THEN "notifyApproved" ELSE "notifyRejected"

\* whenAny returns the task that completed first.
Decided(o, d) ==
    /\ decision' = [decision EXCEPT ![o] = d]
    /\ step' = [step EXCEPT ![o] = AfterDecision(d)]

\* Variant: an event that came before the wait is not seen by it.
ForgetEarlyEvents(o) ==
    /\ step' = [step EXCEPT ![o] = "wait"]
    /\ UNCHANGED decision

\* The wait begins: an event that came before is there already.
BeginWait(o) ==
    IF approval[o] = "none"
    THEN /\ step' = [step EXCEPT ![o] = "wait"]
         /\ UNCHANGED decision
    ELSE Decided(o, approval[o])

\* An activity completes, and the generator runs on.
CompleteActivity(o) ==
    /\ server = "up"
    /\ running[o] = "performed"
    /\ running' = [running EXCEPT ![o] = "queued"]
    /\ IF step[o] = "notifyWaiting" THEN BeginWait(o)
       ELSE /\ step' = [step EXCEPT ![o] = AfterActivity(o)]
            /\ UNCHANGED decision
    /\ UNCHANGED <<serverVars, total, approval, payments, shipments, tester>>

\* Variant: the wait has no timer beside it.
NoTimer(o) == FALSE /\ step[o] = "wait" /\ UNCHANGED vars

\* The 24 hours are over before an answer came.
TimerFires(o) ==
    /\ server = "up"
    /\ step[o] = "wait"
    /\ Decided(o, "timeout")
    /\ UNCHANGED <<serverVars, total, approval, running, payments, shipments, tester>>

StartActivity(o) ==
    /\ server = "up"
    /\ step[o] \in Activities /\ running[o] = "queued"
    /\ running' = [running EXCEPT ![o] = "executing"]
    /\ UNCHANGED <<serverVars, step, total, approval, decision, payments, shipments, tester>>

Refused(o) == step[o] = "ship" /\ ~shipping

OneMore(count) == IF count = 0 THEN 1 ELSE 2

\* The activity publishes its message.
PerformActivity(o) ==
    /\ server = "up"
    /\ running[o] = "executing" /\ ~Refused(o)
    /\ running' = [running EXCEPT ![o] = "performed"]
    /\ payments' = [payments EXCEPT ![o] = IF step[o] = "pay" THEN OneMore(@) ELSE @]
    /\ shipments' = [shipments EXCEPT ![o] = IF step[o] = "ship" THEN OneMore(@) ELSE @]
    /\ UNCHANGED <<serverVars, step, total, approval, decision, tester>>

\* The activity throws: shipping is disabled, or the publish call fails, be it
\* that only its answer is lost.  No retry policy: the workflow fails with it.
ActivityFails(o) ==
    /\ server = "up"
    /\ running[o] \in {"executing", "performed"}
    /\ step' = [step EXCEPT ![o] = "failed"]
    /\ running' = [running EXCEPT ![o] = "queued"]
    /\ UNCHANGED <<serverVars, total, approval, decision, payments, shipments, tester>>

-----------------------------------------------------------------------------
\* The server.

\* Variant: negative totals are taken.
AnyTotal(body) ==
    body.customer # Absent /\ body.items # Absent /\ body.total # Absent

\* orderFromBody returns an order and not a complaint.
OrderFromBody(body) ==
    /\ body.customer # Absent /\ body.items # Absent
    /\ body.total # Absent /\ body.total >= 0

\* POST /orders.  The id is new: made up by the server, or not in use.
PostOrder(o, body) ==
    /\ server = "up"
    /\ step[o] = "none"
    /\ OrderFromBody(body)
    /\ total' = [total EXCEPT ![o] = body.total]
    /\ step' = [step EXCEPT ![o] = "notify"]
    /\ UNCHANGED <<serverVars, approval, decision, running, payments, shipments>>

\* POST /orders/:id/approve: the event is recorded for an order that has not
\* ended.  Only the first one is ever read.
RaiseEvent(o, answer) ==
    /\ server = "up"
    /\ step[o] \notin {"none"} \union Final
    /\ IF approval[o] = "none" /\ decision[o] = "none"
       THEN approval' = [approval EXCEPT ![o] = answer]
       ELSE UNCHANGED approval
    /\ IF step[o] = "wait" THEN Decided(o, answer) ELSE UNCHANGED <<step, decision>>
    /\ UNCHANGED <<serverVars, total, running, payments, shipments>>

\* The server process is killed or shut down; what it was executing is lost.
ServerStops ==
    /\ server # "down"
    /\ server' = "down"
    /\ running' = [o \in Orders |-> "queued"]
    /\ UNCHANGED <<shipping, step, total, approval, decision, payments, shipments, tester>>

ServerStarts ==
    /\ server = "down"
    /\ server' = "starting"
    /\ shipping' \in BOOLEAN
    /\ UNCHANGED <<workflowVars, tester>>

\* The sidecar answers and the workflow runtime connects to it.
RuntimeStarts ==
    /\ server = "starting"
    /\ server' = "up"
    /\ UNCHANGED <<shipping, workflowVars, tester>>

\* It does not in time: runtimeStarted is rejected.  The process ends if nobody
\* awaits it; if a request does, it stays, and refuses every later one.
SidecarTimesOut ==
    /\ server = "starting"
    /\ server' \in {"down", "stuck"}
    /\ UNCHANGED <<shipping, workflowVars, tester>>

-----------------------------------------------------------------------------
\* GET /orders/:id.
CustomStatus(o) ==
    CASE step[o] = "notify" -> "received"
      [] step[o] = "reserve" -> "inventory"
      [] step[o] \in {"notifyWaiting", "wait", "notifyTimeout", "notifyRejected",
                      "notifyApproved", "cancelled"} -> "waiting_for_approval"
      [] step[o] = "pay" -> "payment"
      [] step[o] = "ship" -> "shipping"
      [] OTHER -> step[o]

\* Variant: an order that is not running any more reads as completed.
NotRunning(o) == IF step[o] \in Final THEN "COMPLETED" ELSE "RUNNING"

RuntimeStatus(o) ==
    IF step[o] = "failed" THEN "FAILED"
    ELSE IF step[o] \in {"completed", "cancelled"} THEN "COMPLETED" ELSE "RUNNING"

\* The smoke test posts an order, and approves it if it has to wait.
TesterPosts(o, body) ==
    /\ tester[o] = "idle"
    /\ PostOrder(o, body)
    /\ tester' = [tester EXCEPT ![o] = IF body.total = 25 THEN "waitCompleted"
                                       ELSE "waitApproval"]

\* waitFor polls until its predicate holds, the order fails, or time is up.
TesterPolls(o) ==
    /\ server = "up"
    /\ tester' = [tester EXCEPT ![o] =
          CASE @ = "waitApproval" /\ CustomStatus(o) = "waiting_for_approval" -> "approve"
            [] @ = "waitCompleted" /\ RuntimeStatus(o) = "COMPLETED" -> "passed"
            [] @ \in {"waitApproval", "waitCompleted"} /\ RuntimeStatus(o) = "FAILED" -> "failed"
            [] OTHER -> @]
    /\ UNCHANGED <<serverVars, workflowVars>>

TesterApproves(o) ==
    /\ tester[o] = "approve"
    /\ RaiseEvent(o, "approved")
    /\ tester' = [tester EXCEPT ![o] = "waitCompleted"]

\* Any request of the smoke test may fail, and waitFor has a deadline.
TesterGivesUp(o) ==
    /\ tester[o] \in {"waitApproval", "approve", "waitCompleted"}
    /\ tester' = [tester EXCEPT ![o] = "failed"]
    /\ UNCHANGED <<serverVars, workflowVars>>

Next ==
    \/ \E o \in Orders :
          \/ StartActivity(o) \/ PerformActivity(o) \/ CompleteActivity(o)
          \/ ActivityFails(o) \/ TimerFires(o)
          \/ \E body \in Bodies : PostOrder(o, body) /\ UNCHANGED tester
          \/ \E a \in {"approved", "rejected"} : RaiseEvent(o, a) /\ UNCHANGED tester
          \/ \E body \in Bodies : TesterPosts(o, body)
          \/ TesterPolls(o) \/ TesterApproves(o) \/ TesterGivesUp(o)
    \/ ServerStops \/ ServerStarts \/ RuntimeStarts \/ SidecarTimesOut

Spec == Init /\ [][Next]_vars

\* A stopped server is started again, and runs long enough now and then for
\* its sidecar to answer, a timer to fire and each stage of an activity.
FairSpec ==
    /\ Spec
    /\ WF_vars(ServerStarts) /\ SF_vars(RuntimeStarts)
    /\ \A o \in Orders :
          /\ SF_vars(StartActivity(o))
          /\ SF_vars(PerformActivity(o) \/ ActivityFails(o))
          /\ SF_vars(CompleteActivity(o) \/ ActivityFails(o))
          /\ SF_vars(TimerFires(o))

-----------------------------------------------------------------------------
\* Types; only an order that is waiting for its activity has one going on.
TypeOK ==
    /\ server \in {"starting", "up", "stuck", "down"}
    /\ shipping \in BOOLEAN
    /\ step \in [Orders -> Steps]
    /\ total \in [Orders -> Int]
    /\ approval \in [Orders -> {"none", "approved", "rejected"}]
    /\ decision \in [Orders -> {"none", "approved", "rejected", "timeout"}]
    /\ running \in [Orders -> {"queued", "executing", "performed"}]
    /\ payments \in [Orders -> 0 .. 2]
    /\ shipments \in [Orders -> 0 .. 2]
    /\ tester \in [Orders -> {"idle", "waitApproval", "approve", "waitCompleted",
                              "passed", "failed"}]
    /\ \A o \in Orders : total[o] >= 0
    /\ \A o \in Orders : running[o] # "queued" => step[o] \in Activities

\* How the state of an order reads to somebody who only cares what became of it.
Outcome(o) ==
    CASE step[o] = "none" -> "none"
      [] step[o] = "completed" -> "processed"
      [] step[o] \in {"cancelled", "failed"} -> step[o]
      [] OTHER -> "open"

Abstract == INSTANCE OrderOutcome WITH
    small <- [o \in Orders |-> step[o] # "none" /\ total[o] < 1000],
    answer <- approval,
    paid <- [o \in Orders |-> payments[o] > 0],
    shipped <- [o \in Orders |-> shipments[o] > 0],
    outcome <- [o \in Orders |-> Outcome(o)]

\* The workflow implements OrderOutcome: with replays, repeated activities,
\* answers before the wait, after it and twice, and the timer beside them.
ImplementsOutcome == Abstract!Spec

\* Every order ends, unless the server is stuck with a rejected runtimeStarted.
EveryOrderEnds ==
    \A o \in Orders : step[o] # "none" ~> (step[o] \in Final \/ server = "stuck")

\* The smoke test passes only for an order that ended for good, and one whose
\* manager did not reject it was paid and shipped.
SmokeTestTruthful ==
    \A o \in Orders : tester[o] = "passed" =>
        /\ step[o] \in {"completed", "cancelled"}
        /\ decision[o] \in {"none", "approved"} => payments[o] > 0 /\ shipments[o] > 0
=============================================================================
