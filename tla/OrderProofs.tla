----------------------------- MODULE OrderProofs ----------------------------
(***************************************************************************)
(* What is proved of the order workflow, for every set of orders and every *)
(* set of request bodies: its types, that it implements OrderOutcome, and  *)
(* that its smoke test passes only for orders that were dealt with.        *)
(***************************************************************************)
EXTENDS OrderWorkflow, TLAPS

\* What the position of the generator says of its order.
Waiting == {"notifyWaiting", "wait", "notifyTimeout", "notifyRejected", "notifyApproved"}
Undecided == {"none", "notify", "reserve", "notifyWaiting", "wait"}

OrderInv(o) ==
    /\ step[o] = "none" => approval[o] = "none"
    /\ step[o] = "wait" => approval[o] = "none"
    /\ step[o] \in Undecided => decision[o] = "none"
    /\ step[o] \in Waiting => total[o] >= 1000
    /\ step[o] \in Undecided \union Waiting => payments[o] = 0 /\ shipments[o] = 0
    /\ step[o] \in {"notifyTimeout", "notifyRejected", "cancelled"} =>
          decision[o] \in {"rejected", "timeout"} /\ payments[o] = 0
    /\ step[o] = "notifyApproved" => decision[o] = "approved"
    /\ step[o] \in {"pay", "ship"} => total[o] < 1000 \/ decision[o] = "approved"
    /\ step[o] = "pay" /\ running[o] = "performed" => payments[o] > 0
    /\ step[o] \in {"ship", "completed"} => payments[o] > 0
    /\ step[o] = "ship" /\ running[o] = "performed" => shipments[o] > 0
    /\ step[o] = "completed" => shipments[o] > 0
    /\ tester[o] = "passed" => step[o] \in {"completed", "cancelled"}

Inv == \A o \in Orders : OrderInv(o)

\* The steps on one order, as Next lists them.
OrderStep(o) ==
    \/ StartActivity(o) \/ PerformActivity(o) \/ CompleteActivity(o)
    \/ ActivityFails(o) \/ TimerFires(o)
    \/ \E body \in Bodies : PostOrder(o, body) /\ UNCHANGED tester
    \/ \E a \in {"approved", "rejected"} : RaiseEvent(o, a) /\ UNCHANGED tester
    \/ \E body \in Bodies : TesterPosts(o, body)
    \/ TesterPolls(o) \/ TesterApproves(o) \/ TesterGivesUp(o)

\* The steps of the server process.
ServerStep == ServerStops \/ ServerStarts \/ RuntimeStarts \/ SidecarTimesOut

LEMMA StepOrServer ==
    ASSUME [Next]_vars
    PROVE  (\E o \in Orders : OrderStep(o)) \/ ServerStep \/ UNCHANGED vars
  BY DEF Next, OrderStep, ServerStep

-----------------------------------------------------------------------------
\* Types.
LEMMA AfterActivityType ==
    ASSUME NEW o \in Orders, step[o] \in Activities \ {"notifyWaiting"}
    PROVE  AfterActivity(o) \in Steps
  BY DEF AfterActivity, Steps, Activities

LEMMA PostedTotal ==
    ASSUME NEW body \in Bodies, OrderFromBody(body)
    PROVE  body.total \in Int /\ body.total >= 0
  BY OrderAssumption DEF OrderFromBody

LEMMA StepType ==
    ASSUME TypeOK, NEW o \in Orders, OrderStep(o)
    PROVE  TypeOK'
  <1>1. CASE StartActivity(o)
    BY <1>1 DEF TypeOK, StartActivity, serverVars
  <1>2. CASE PerformActivity(o)
    BY <1>2 DEF TypeOK, PerformActivity, serverVars, OneMore
  <1>3. CASE CompleteActivity(o)
    <2>1. step[o] \in Activities
      BY <1>3 DEF TypeOK, CompleteActivity
    <2>2. CASE step[o] = "notifyWaiting"
      BY <1>3, <2>2 DEF TypeOK, CompleteActivity, BeginWait, Decided, AfterDecision,
         serverVars, Steps, Activities
    <2>3. CASE step[o] # "notifyWaiting"
      BY <1>3, <2>1, <2>3, AfterActivityType DEF TypeOK, CompleteActivity, serverVars
    <2> QED
      BY <2>2, <2>3
  <1>4. CASE ActivityFails(o)
    BY <1>4 DEF TypeOK, ActivityFails, serverVars, Steps
  <1>5. CASE TimerFires(o)
    BY <1>5 DEF TypeOK, TimerFires, Decided, AfterDecision, serverVars, Steps, Activities
  <1>6. ASSUME NEW body \in Bodies, PostOrder(o, body),
               tester' \in [Orders -> {"idle", "waitApproval", "approve", "waitCompleted",
                                       "passed", "failed"}]
        PROVE  TypeOK'
    <2>1. body.total \in Int /\ body.total >= 0
      BY <1>6, PostedTotal DEF PostOrder
    <2> QED
      BY <1>6, <2>1 DEF TypeOK, PostOrder, serverVars, Steps, Activities
  <1>7. ASSUME NEW a \in {"approved", "rejected"}, RaiseEvent(o, a),
               tester' \in [Orders -> {"idle", "waitApproval", "approve", "waitCompleted",
                                       "passed", "failed"}]
        PROVE  TypeOK'
    BY <1>7 DEF TypeOK, RaiseEvent, Decided, AfterDecision, serverVars, Steps, Activities
  <1>8. CASE \E body \in Bodies : PostOrder(o, body) /\ UNCHANGED tester
    BY <1>6, <1>8 DEF TypeOK
  <1>9. CASE \E a \in {"approved", "rejected"} : RaiseEvent(o, a) /\ UNCHANGED tester
    BY <1>7, <1>9 DEF TypeOK
  <1>10. CASE \E body \in Bodies : TesterPosts(o, body)
    BY <1>6, <1>10 DEF TypeOK, TesterPosts
  <1>11. CASE TesterApproves(o)
    BY <1>7, <1>11 DEF TypeOK, TesterApproves
  <1>12. CASE TesterPolls(o) \/ TesterGivesUp(o)
    BY <1>12 DEF TypeOK, TesterPolls, TesterGivesUp, serverVars, workflowVars
  <1> QED
    BY <1>1, <1>2, <1>3, <1>4, <1>5, <1>8, <1>9, <1>10, <1>11, <1>12 DEF OrderStep

LEMMA ServerType ==
    ASSUME TypeOK, ServerStep \/ UNCHANGED vars
    PROVE  TypeOK'
  BY DEF TypeOK, ServerStep, ServerStops, ServerStarts, RuntimeStarts, SidecarTimesOut,
     workflowVars, serverVars, vars

\* Every variable keeps its type, no total is negative, and only an order that
\* waits for its activity has one going on.
THEOREM TypeCorrect == Spec => []TypeOK
  <1>1. Init => TypeOK
    BY DEF Init, TypeOK, Steps, Activities
  <1>2. TypeOK /\ [Next]_vars => TypeOK'
    BY StepOrServer, StepType, ServerType
  <1> QED
    BY <1>1, <1>2, PTL DEF Spec
-----------------------------------------------------------------------------
\* The invariant.  A step changes the state of one order.
LEMMA OtherOrders ==
    ASSUME TypeOK, NEW o \in Orders, OrderStep(o), NEW p \in Orders, p # o
    PROVE  /\ step'[p] = step[p] /\ total'[p] = total[p]
           /\ approval'[p] = approval[p] /\ decision'[p] = decision[p]
           /\ running'[p] = running[p] /\ tester'[p] = tester[p]
           /\ payments'[p] = payments[p] /\ shipments'[p] = shipments[p]
  <1>1. ASSUME NEW body \in Bodies, PostOrder(o, body)
        PROVE  /\ step'[p] = step[p] /\ total'[p] = total[p]
               /\ UNCHANGED <<approval, decision, running, payments, shipments>>
    BY <1>1 DEF PostOrder, TypeOK
  <1>2. ASSUME NEW a \in {"approved", "rejected"}, RaiseEvent(o, a)
        PROVE  /\ step'[p] = step[p] /\ approval'[p] = approval[p] /\ decision'[p] = decision[p]
               /\ UNCHANGED <<total, running, payments, shipments>>
    BY <1>2 DEF RaiseEvent, Decided, TypeOK
  <1>3. CASE StartActivity(o) \/ PerformActivity(o) \/ ActivityFails(o)
    BY <1>3 DEF StartActivity, PerformActivity, ActivityFails, TypeOK
  <1>4. CASE CompleteActivity(o) \/ TimerFires(o)
    BY <1>4 DEF CompleteActivity, BeginWait, TimerFires, Decided, TypeOK
  <1>5. CASE TesterPolls(o) \/ TesterGivesUp(o)
    BY <1>5 DEF TesterPolls, TesterGivesUp, workflowVars, TypeOK
  <1>6. CASE \E body \in Bodies : PostOrder(o, body) /\ UNCHANGED tester
    BY <1>1, <1>6
  <1>7. CASE \E a \in {"approved", "rejected"} : RaiseEvent(o, a) /\ UNCHANGED tester
    BY <1>2, <1>7
  <1>8. CASE \E body \in Bodies : TesterPosts(o, body)
    BY <1>1, <1>8 DEF TesterPosts, TypeOK
  <1>9. CASE TesterApproves(o)
    BY <1>2, <1>9 DEF TesterApproves, TypeOK
  <1> QED
    BY <1>3, <1>4, <1>5, <1>6, <1>7, <1>8, <1>9 DEF OrderStep

LEMMA StepInv ==
    ASSUME TypeOK, NEW o \in Orders, OrderInv(o), OrderStep(o)
    PROVE  OrderInv(o)'
  <1>1. CASE StartActivity(o)
    BY <1>1 DEF OrderInv, StartActivity, TypeOK
  <1>2. CASE PerformActivity(o)
    <2>1. /\ running'[o] = "performed" /\ step[o] \in Activities
          /\ payments'[o] = IF step[o] = "pay" THEN OneMore(payments[o]) ELSE payments[o]
          /\ shipments'[o] = IF step[o] = "ship" THEN OneMore(shipments[o]) ELSE shipments[o]
          /\ UNCHANGED <<step, total, approval, decision, tester>>
      BY <1>2 DEF PerformActivity, TypeOK
    <2>2. \A count \in 0 .. 2 : OneMore(count) > 0
      BY DEF OneMore
    <2> QED
      BY <2>1, <2>2 DEF OrderInv, TypeOK, Undecided, Waiting, Activities
  <1>3. CASE CompleteActivity(o)
    <2>1. /\ running[o] = "performed" /\ running'[o] = "queued"
          /\ step[o] \in Activities /\ total[o] \in Int
          /\ UNCHANGED <<total, approval, payments, shipments, tester>>
      BY <1>3 DEF CompleteActivity, TypeOK
    <2>2. CASE step[o] = "notifyWaiting"
      BY <1>3, <2>1, <2>2 DEF CompleteActivity, BeginWait, Decided, AfterDecision, OrderInv,
         TypeOK, Undecided, Waiting
    <2>3. CASE step[o] # "notifyWaiting"
      <3>1. step'[o] = AfterActivity(o) /\ UNCHANGED decision
        BY <1>3, <2>3 DEF CompleteActivity, TypeOK
      <3> QED
        BY <2>1, <2>3, <3>1
        DEF AfterActivity, NeedsApproval, OrderInv, Undecided, Waiting, Activities
    <2> QED
      BY <2>2, <2>3
  <1>4. CASE ActivityFails(o)
    BY <1>4 DEF OrderInv, ActivityFails, TypeOK, Undecided, Waiting, Activities
  <1>5. CASE TimerFires(o)
    BY <1>5 DEF OrderInv, TimerFires, Decided, AfterDecision, TypeOK, Undecided, Waiting
  <1>6. ASSUME NEW body \in Bodies, PostOrder(o, body), tester'[o] # "passed"
        PROVE  OrderInv(o)'
    BY <1>6 DEF OrderInv, PostOrder, TypeOK, Undecided, Waiting
  <1>7. ASSUME NEW a \in {"approved", "rejected"}, RaiseEvent(o, a),
               tester'[o] = "passed" => tester[o] = "passed"
        PROVE  OrderInv(o)'
    BY <1>7 DEF OrderInv, RaiseEvent, Decided, AfterDecision, TypeOK, Undecided, Waiting, Final
  <1>8. CASE \E body \in Bodies : PostOrder(o, body) /\ UNCHANGED tester
    BY <1>6, <1>8, ZenonT(60) DEF OrderInv, PostOrder
  <1>9. CASE \E a \in {"approved", "rejected"} : RaiseEvent(o, a) /\ UNCHANGED tester
    BY <1>7, <1>9
  <1>10. CASE \E body \in Bodies : TesterPosts(o, body)
    BY <1>6, <1>10 DEF TesterPosts, TypeOK
  <1>11. CASE TesterApproves(o)
    BY <1>7, <1>11 DEF TesterApproves, TypeOK
  <1>12. CASE TesterPolls(o)
    <2>1. tester'[o] = "passed" => tester[o] = "passed" \/ RuntimeStatus(o) = "COMPLETED"
      BY <1>12 DEF TesterPolls, TypeOK
    <2>2. RuntimeStatus(o) = "COMPLETED" => step[o] \in {"completed", "cancelled"}
      BY DEF RuntimeStatus
    <2>3. UNCHANGED workflowVars
      BY <1>12 DEF TesterPolls
    <2> QED
      BY <2>1, <2>2, <2>3 DEF OrderInv, workflowVars
  <1>13. CASE TesterGivesUp(o)
    BY <1>13 DEF TesterGivesUp, OrderInv, TypeOK, workflowVars
  <1> QED
    BY <1>1, <1>2, <1>3, <1>4, <1>5, <1>8, <1>9, <1>10, <1>11, <1>12, <1>13 DEF OrderStep

LEMMA ServerInv ==
    ASSUME TypeOK, NEW o \in Orders, OrderInv(o), ServerStep \/ UNCHANGED vars
    PROVE  OrderInv(o)'
  BY DEF OrderInv, TypeOK, ServerStep, ServerStops, ServerStarts, RuntimeStarts,
     SidecarTimesOut, workflowVars, vars

LEMMA Invariant == Spec => []Inv
  <1>1. Init => Inv
    <2> SUFFICES ASSUME Init, NEW o \in Orders PROVE OrderInv(o)
      BY DEF Inv
    <2>1. /\ step[o] = "none" /\ approval[o] = "none" /\ decision[o] = "none"
          /\ payments[o] = 0 /\ shipments[o] = 0 /\ tester[o] = "idle"
      BY DEF Init
    <2> QED
      BY <2>1 DEF OrderInv, Undecided, Waiting
  <1>2. TypeOK /\ Inv /\ [Next]_vars => Inv'
    <2> SUFFICES ASSUME TypeOK, Inv, [Next]_vars, NEW p \in Orders PROVE OrderInv(p)'
      BY DEF Inv
    <2>1. ASSUME NEW o \in Orders, OrderStep(o), p # o PROVE OrderInv(p)'
      BY <2>1, OtherOrders DEF Inv, OrderInv
    <2>2. ASSUME NEW o \in Orders, OrderStep(o), p = o PROVE OrderInv(p)'
      BY <2>2, StepInv DEF Inv
    <2> QED
      BY <2>1, <2>2, StepOrServer, ServerInv DEF Inv
  <1> QED
    BY <1>1, <1>2, TypeCorrect, PTL DEF Spec

\* The smoke test passes only for an order that was completed or cancelled, and
\* it was paid and shipped unless it was rejected or timed out.
THEOREM SmokeTestIsTruthful == Spec => []SmokeTestTruthful
  <1>1. TypeOK /\ Inv => SmokeTestTruthful
    BY DEF Inv, OrderInv, SmokeTestTruthful, TypeOK
  <1> QED
    BY <1>1, TypeCorrect, Invariant, PTL
-----------------------------------------------------------------------------
\* The refinement: a step of the workflow is a step of OrderOutcome or changes
\* nothing there.
Small == [o \in Orders |-> step[o] # "none" /\ total[o] < 1000]
Paid == [o \in Orders |-> payments[o] > 0]
Shipped == [o \in Orders |-> shipments[o] > 0]
Ending == [o \in Orders |-> Outcome(o)]

\* Two sets of flags are the same if they agree on every order.
LEMMA SameFlags ==
    ASSUME NEW f \in [Orders -> BOOLEAN], NEW g \in [Orders -> BOOLEAN],
           \A o \in Orders : f[o] <=> g[o]
    PROVE  f = g
  BY SMT

LEMMA OutcomeCases ==
    ASSUME NEW o \in Orders, step[o] \in Steps
    PROVE  /\ Outcome(o) = "none" <=> step[o] = "none"
           /\ Outcome(o) = "open" <=> step[o] \notin {"none"} \union Final
           /\ step[o] = "completed" => Outcome(o) = "processed"
           /\ step[o] \in {"cancelled", "failed"} => Outcome(o) = step[o]
  BY DEF Outcome, Final, Steps, Activities

\* A step that places no order leaves the size of all of them.
LEMMA SmallStays ==
    ASSUME TypeOK, NEW o \in Orders, step[o] # "none", NEW next \in Steps, next # "none",
           step' = [step EXCEPT ![o] = next] \/ step' = step, total' = total
    PROVE  Small' = Small
  <1>1. \A p \in Orders : (step'[p] # "none") <=> (step[p] # "none")
    BY DEF TypeOK
  <1> QED
    BY <1>1 DEF Small

\* How an order ends changes for this order only, or not at all.
LEMMA EndingStep ==
    ASSUME TypeOK, NEW o \in Orders, NEW next \in Steps, step' = [step EXCEPT ![o] = next]
    PROVE  /\ Ending' = [Ending EXCEPT ![o] = Outcome(o)']
           /\ Outcome(o)' = Outcome(o) => Ending' = Ending
  <1>1. \A p \in Orders \ {o} : Outcome(p)' = Outcome(p)
    BY DEF TypeOK, Outcome
  <1> QED
    BY <1>1 DEF Ending
\* What a step does when it ends no order and changes nothing else.
SameOutcome == UNCHANGED <<Small, approval, decision, Paid, Shipped, Ending>>

LEMMA SameOutcomeStutters == SameOutcome => UNCHANGED Abstract!outcomeVars
  BY DEF SameOutcome, Abstract!outcomeVars, Small, Paid, Shipped, Ending

LEMMA PerformRefines ==
    ASSUME TypeOK, NEW o \in Orders, OrderInv(o), PerformActivity(o)
    PROVE  Abstract!Pay(o) \/ Abstract!Ship(o) \/ SameOutcome
  <1>1. /\ UNCHANGED <<step, total, approval, decision>>
        /\ payments' = [payments EXCEPT ![o] = IF step[o] = "pay" THEN OneMore(@) ELSE @]
        /\ shipments' = [shipments EXCEPT ![o] = IF step[o] = "ship" THEN OneMore(@) ELSE @]
        /\ step[o] \in Activities
    BY DEF PerformActivity, TypeOK
  <1>2. UNCHANGED <<Small, approval, decision, Ending>>
    BY <1>1 DEF Small, Ending, Outcome
  <1>3. Outcome(o) = "open"
    BY <1>1, OutcomeCases DEF TypeOK, Activities, Final
  <1>4. \A count \in 0 .. 2 : OneMore(count) > 0
    BY DEF OneMore
  <1>5. CASE step[o] = "pay"
    <2>1. Paid' = [Paid EXCEPT ![o] = TRUE]
      BY <1>1, <1>4, <1>5 DEF Paid, TypeOK
    <2>2. Shipped' = Shipped
      BY <1>1, <1>5 DEF Shipped, TypeOK
    <2>3. total[o] < 1000 \/ decision[o] = "approved"
      BY <1>5 DEF OrderInv
    <2> QED
      BY <1>2, <1>3, <1>5, <2>1, <2>2, <2>3, ZenonT(60) DEF Abstract!Pay, Small, Paid, Shipped, Ending
  <1>6. CASE step[o] = "ship"
    <2>1. Shipped' = [Shipped EXCEPT ![o] = TRUE]
      BY <1>1, <1>4, <1>6 DEF Shipped, TypeOK
    <2>2. Paid' = Paid
      BY <1>1, <1>6 DEF Paid, TypeOK
    <2>3. payments[o] > 0
      BY <1>6 DEF OrderInv
    <2> QED
      BY <1>2, <1>3, <2>1, <2>2, <2>3 DEF Abstract!Ship, Small, Paid, Shipped, Ending
  <1>7. CASE step[o] \notin {"pay", "ship"}
    <2>1. Paid' = Paid /\ Shipped' = Shipped
      BY <1>1, <1>7 DEF Paid, Shipped, TypeOK
    <2> QED
      BY <1>2, <2>1 DEF SameOutcome
  <1> QED
    BY <1>5, <1>6, <1>7

\* An order that is open takes a step without a decision or a message.
LEMMA MoveRefines ==
    ASSUME TypeOK, NEW o \in Orders, Outcome(o) = "open",
           NEW next \in Steps \ {"none"}, step' = [step EXCEPT ![o] = next],
           UNCHANGED <<total, approval, decision, payments, shipments>>,
           next = "completed" => shipments[o] > 0,
           next = "cancelled" => decision[o] \in {"rejected", "timeout"} /\ ~(payments[o] > 0)
    PROVE  Abstract!End(o) \/ SameOutcome
  <1>1. step'[o] = next /\ step[o] # "none"
    BY OutcomeCases DEF TypeOK
  <1>2. Small' = Small /\ Paid' = Paid /\ Shipped' = Shipped
    BY <1>1, SmallStays DEF Paid, Shipped
  <1>3. Ending' = [Ending EXCEPT ![o] = Outcome(o)'] /\ (Outcome(o)' = Outcome(o) => Ending' = Ending)
    BY EndingStep
  <1>4. CASE next \in Final
    <2>1. \/ next = "completed" /\ Outcome(o)' = "processed"
          \/ next \in {"cancelled", "failed"} /\ Outcome(o)' = next
      BY <1>1, <1>4 DEF Outcome, Final
    <2> QED
      BY <1>2, <1>3, <2>1, ZenonT(60) DEF Abstract!End, Small, Paid, Shipped, Ending
  <1>5. CASE next \notin Final
    <2>1. Outcome(o)' = "open"
      BY <1>1, <1>5 DEF Outcome, Final
    <2> QED
      BY <1>2, <1>3, <2>1 DEF SameOutcome
  <1> QED
    BY <1>4, <1>5

\* An order that waits, or is about to, is decided.
LEMMA DecideRefines ==
    ASSUME TypeOK, NEW o \in Orders, OrderInv(o), step[o] \in {"notifyWaiting", "wait"},
           NEW d \in {"approved", "rejected", "timeout"}, Decided(o, d),
           UNCHANGED <<total, payments, shipments>>
    PROVE  /\ (UNCHANGED approval /\ d = IF approval[o] = "none" THEN "timeout" ELSE approval[o]) =>
                 Abstract!Decide(o)
           /\ (approval[o] = "none" /\ approval' = [approval EXCEPT ![o] = d] /\ d # "timeout") =>
                 Abstract!AnswerAndDecide(o)
  <1>1. AfterDecision(d) \in {"notifyTimeout", "notifyApproved", "notifyRejected"}
    BY DEF AfterDecision
  <1>2. step' = [step EXCEPT ![o] = AfterDecision(d)] /\ decision' = [decision EXCEPT ![o] = d]
    BY DEF Decided
  <1>3. AfterDecision(d) \in Steps /\ step'[o] = AfterDecision(d)
    BY <1>1, <1>2 DEF Steps, Activities, TypeOK
  <1>4. Small' = Small /\ Paid' = Paid /\ Shipped' = Shipped
    BY <1>1, <1>2, <1>3, SmallStays DEF Paid, Shipped
  <1>5. Outcome(o) = "open" /\ Outcome(o)' = "open"
    BY <1>1, <1>3 DEF Outcome
  <1>6. Ending' = Ending
    BY <1>2, <1>3, <1>5, EndingStep
  <1>7. decision[o] = "none" /\ ~(total[o] < 1000)
    BY DEF OrderInv, Undecided, Waiting, TypeOK
  <1>8. ~Small[o] /\ Ending[o] = "open"
    BY <1>5, <1>7, ZenonT(60) DEF Small, Ending
  <1> QED
    BY <1>2, <1>4, <1>6, <1>7, <1>8, ZenonT(60)
    DEF Abstract!Decide, Abstract!AnswerAndDecide, Small, Paid, Shipped, Ending

LEMMA PostRefines ==
    ASSUME TypeOK, NEW o \in Orders, OrderInv(o), NEW body \in Bodies, PostOrder(o, body)
    PROVE  Abstract!Place(o)
  <1>1. /\ step[o] = "none"
        /\ step' = [step EXCEPT ![o] = "notify"]
        /\ total' = [total EXCEPT ![o] = body.total]
        /\ UNCHANGED <<approval, decision, payments, shipments>>
    BY DEF PostOrder
  <1>2. \E isSmall \in BOOLEAN : Small' = [Small EXCEPT ![o] = isSmall]
    <2> DEFINE isSmall == IF body.total < 1000 THEN TRUE ELSE FALSE
               placed == [Small EXCEPT ![o] = isSmall]
    <2>1. isSmall \in BOOLEAN /\ (isSmall <=> body.total < 1000)
      OBVIOUS
    <2> HIDE DEF isSmall
    <2>2. /\ Small' \in [Orders -> BOOLEAN] /\ placed \in [Orders -> BOOLEAN]
          /\ placed[o] = isSmall /\ \A p \in Orders \ {o} : placed[p] = Small[p]
      BY <2>1, ZenonT(60) DEF Small
    <2>3. \A p \in Orders : Small'[p] <=> placed[p]
      BY <1>1, <2>1, <2>2 DEF Small, TypeOK
    <2>4. Small' = placed
      BY <2>2, <2>3, SameFlags
    <2> QED
      BY <2>1, <2>4, ZenonT(60)
  <1>3. Ending[o] = "none" /\ Outcome(o)' = "open" /\ Paid' = Paid /\ Shipped' = Shipped
    BY <1>1 DEF Ending, Outcome, Paid, Shipped, TypeOK
  <1>4. Ending' = [Ending EXCEPT ![o] = "open"]
    BY <1>1, <1>3, EndingStep DEF Steps, Activities
  <1>5. approval[o] = "none" /\ decision[o] = "none"
    BY <1>1 DEF OrderInv, Undecided
  <1> QED
    BY <1>1, <1>2, <1>3, <1>4, <1>5 DEF Abstract!Place, Small, Paid, Shipped, Ending

LEMMA RaiseRefines ==
    ASSUME TypeOK, NEW o \in Orders, OrderInv(o), NEW a \in {"approved", "rejected"},
           RaiseEvent(o, a)
    PROVE  Abstract!Answer(o) \/ Abstract!AnswerAndDecide(o) \/ SameOutcome
  <1>1. CASE step[o] = "wait"
    <2>1. /\ approval[o] = "none" /\ decision[o] = "none"
          /\ approval' = [approval EXCEPT ![o] = a]
          /\ Decided(o, a) /\ UNCHANGED <<total, payments, shipments>>
      BY <1>1 DEF RaiseEvent, OrderInv, Undecided
    <2> QED
      BY <1>1, <2>1, DecideRefines
  <1>2. CASE step[o] # "wait"
    <2>1. UNCHANGED <<step, decision, total, payments, shipments>>
      BY <1>2 DEF RaiseEvent
    <2>2. UNCHANGED <<Small, Paid, Shipped, Ending>>
      BY <2>1 DEF Small, Paid, Shipped, Ending, Outcome
    <2>3. Ending[o] = "open"
      BY OutcomeCases DEF RaiseEvent, Ending, TypeOK
    <2>4. CASE approval[o] = "none" /\ decision[o] = "none"
      <3>1. approval' = [approval EXCEPT ![o] = a]
        BY <2>4 DEF RaiseEvent
      <3> QED
        BY <2>1, <2>2, <2>3, <2>4, <3>1 DEF Abstract!Answer, Small, Paid, Shipped, Ending
    <2>5. CASE ~(approval[o] = "none" /\ decision[o] = "none")
      BY <2>1, <2>2, <2>5 DEF RaiseEvent, SameOutcome
    <2> QED
      BY <2>4, <2>5
  <1> QED
    BY <1>1, <1>2

LEMMA CompleteRefines ==
    ASSUME TypeOK, NEW o \in Orders, OrderInv(o), CompleteActivity(o)
    PROVE  Abstract!Decide(o) \/ Abstract!End(o) \/ SameOutcome
  <1>1. /\ running[o] = "performed" /\ step[o] \in Activities
        /\ UNCHANGED <<total, approval, payments, shipments>>
    BY DEF CompleteActivity, TypeOK
  <1>2. Outcome(o) = "open"
    BY <1>1, OutcomeCases DEF TypeOK, Activities, Final
  <1>3. CASE step[o] = "notifyWaiting" /\ approval[o] # "none"
    <2>1. Decided(o, approval[o]) /\ approval[o] \in {"approved", "rejected", "timeout"}
      BY <1>3 DEF CompleteActivity, BeginWait, TypeOK
    <2> QED
      BY <1>1, <1>3, <2>1, DecideRefines
  <1>4. CASE step[o] = "notifyWaiting" /\ approval[o] = "none"
    <2>1. step' = [step EXCEPT ![o] = "wait"] /\ UNCHANGED decision
      BY <1>4 DEF CompleteActivity, BeginWait
    <2> QED
      BY <1>1, <1>2, <2>1, MoveRefines DEF Steps
  <1>5. CASE step[o] # "notifyWaiting"
    <2>1. step' = [step EXCEPT ![o] = AfterActivity(o)] /\ UNCHANGED decision
      BY <1>5 DEF CompleteActivity
    <2>2. /\ AfterActivity(o) \in Steps \ {"none"}
          /\ AfterActivity(o) = "completed" => step[o] = "ship"
          /\ AfterActivity(o) = "cancelled" => step[o] \in {"notifyTimeout", "notifyRejected"}
      BY <1>1, <1>5 DEF AfterActivity, Steps, Activities
    <2>3. /\ AfterActivity(o) = "completed" => shipments[o] > 0
          /\ AfterActivity(o) = "cancelled" =>
                decision[o] \in {"rejected", "timeout"} /\ ~(payments[o] > 0)
      BY <1>1, <2>2 DEF OrderInv
    <2> QED
      BY <1>1, <1>2, <2>1, <2>2, <2>3, MoveRefines
  <1> QED
    BY <1>3, <1>4, <1>5

LEMMA OrderStepRefines ==
    ASSUME TypeOK, NEW o \in Orders, OrderInv(o), OrderStep(o)
    PROVE  Abstract!Next \/ SameOutcome
  <1>1. CASE StartActivity(o) \/ TesterPolls(o) \/ TesterGivesUp(o)
    BY <1>1 DEF StartActivity, TesterPolls, TesterGivesUp, workflowVars, SameOutcome,
       Small, Paid, Shipped, Ending, Outcome
  <1>2. CASE ActivityFails(o)
    <2>1. /\ step' = [step EXCEPT ![o] = "failed"]
          /\ UNCHANGED <<total, approval, decision, payments, shipments>>
          /\ step[o] \in Activities
      BY <1>2 DEF ActivityFails, TypeOK
    <2>2. Outcome(o) = "open"
      BY <2>1, OutcomeCases DEF TypeOK, Activities, Final
    <2> QED
      BY <2>1, <2>2, MoveRefines DEF Steps, Abstract!Next
  <1>3. CASE TimerFires(o)
    <2>1. /\ step[o] = "wait" /\ approval[o] = "none" /\ Decided(o, "timeout")
          /\ UNCHANGED <<total, approval, payments, shipments>>
      BY <1>3 DEF TimerFires, OrderInv
    <2> QED
      BY <2>1, DecideRefines DEF Abstract!Next
  <1>4. CASE PerformActivity(o)
    BY <1>4, PerformRefines DEF Abstract!Next
  <1>5. CASE CompleteActivity(o)
    BY <1>5, CompleteRefines DEF Abstract!Next
  <1>6. CASE \E body \in Bodies : PostOrder(o, body)
    BY <1>6, PostRefines DEF Abstract!Next
  <1>7. CASE \E a \in {"approved", "rejected"} : RaiseEvent(o, a)
    BY <1>7, RaiseRefines DEF Abstract!Next
  <1> QED
    BY <1>1, <1>2, <1>3, <1>4, <1>5, <1>6, <1>7 DEF OrderStep, TesterPosts, TesterApproves

\* The workflow implements OrderOutcome: with any number of orders, whatever
\* the server does and however often a message is published or an answer given,
\* an order is decided once, paid only if small or approved, shipped only if
\* paid, and ends for good.
THEOREM OutcomeIsImplemented == Spec => ImplementsOutcome
  <1>1. Init => Abstract!Init
    <2> SUFFICES ASSUME Init PROVE Abstract!Init
      OBVIOUS
    <2> DEFINE none == [o \in Orders |-> FALSE]
    <2>1. \A o \in Orders : Small[o] <=> none[o]
      BY ZenonT(60) DEF Init, Small
    <2>2. \A o \in Orders : (Paid[o] <=> none[o]) /\ (Shipped[o] <=> none[o])
      <3>1. ~(0 > 0)
        OBVIOUS
      <3>2. \A o \in Orders : ~(payments[o] > 0) /\ ~(shipments[o] > 0)
        BY <3>1, Zenon DEF Init
      <3> QED
        BY <3>2, Zenon DEF Paid, Shipped
    <2>3. /\ none \in [Orders -> BOOLEAN] /\ Small \in [Orders -> BOOLEAN]
          /\ Paid \in [Orders -> BOOLEAN] /\ Shipped \in [Orders -> BOOLEAN]
      BY DEF Small, Paid, Shipped
    <2>4. Small = none /\ Paid = none /\ Shipped = none
      BY <2>1, <2>2, <2>3, SameFlags
    <2>5. \A o \in Orders : Outcome(o) = "none"
      BY DEF Init, Outcome
    <2>6. Ending = [o \in Orders |-> "none"]
      BY <2>5 DEF Ending
    <2> QED
      BY <2>4, <2>6 DEF Init, Abstract!Init, Small, Paid, Shipped, Ending
  <1>2. TypeOK /\ Inv /\ [Next]_vars => [Abstract!Next]_(Abstract!outcomeVars)
    <2> SUFFICES ASSUME TypeOK, Inv, [Next]_vars
                 PROVE  Abstract!Next \/ UNCHANGED Abstract!outcomeVars
      OBVIOUS
    <2>1. CASE \E o \in Orders : OrderStep(o)
      BY <2>1, OrderStepRefines, SameOutcomeStutters DEF Inv
    <2>2. CASE ServerStep \/ UNCHANGED vars
      <3>1. UNCHANGED <<step, total, approval, decision, payments, shipments>>
        BY <2>2 DEF ServerStep, ServerStops, ServerStarts, RuntimeStarts, SidecarTimesOut,
           workflowVars, vars
      <3>2. SameOutcome
        BY <3>1 DEF SameOutcome, Small, Paid, Shipped, Ending, Outcome
      <3> QED
        BY <3>2, SameOutcomeStutters
    <2> QED
      BY <2>1, <2>2, StepOrServer
  <1> QED
    BY <1>1, <1>2, TypeCorrect, Invariant, PTL DEF Spec, ImplementsOutcome, Abstract!Spec
=============================================================================
