---------------------------- MODULE OrderOutcome ----------------------------
(***************************************************************************)
(* What the order workflow promises about each order: it is decided once,  *)
(* from the first answer of a manager or, without one, by the deadline;    *)
(* nothing is paid that was not approved or small, nothing shipped that    *)
(* was not paid, and how an order ended does not change.                   *)
(***************************************************************************)
CONSTANT Orders

VARIABLES
    small,      \* orders that need no approval
    answer,     \* the first answer that came before the decision
    decision,   \* how the order was decided
    paid,       \* whether payment was processed, at least once
    shipped,    \* whether shipping was submitted, at least once
    outcome     \* how the order ended

outcomeVars == <<small, answer, decision, paid, shipped, outcome>>

Init ==
    /\ small = [o \in Orders |-> FALSE]
    /\ answer = [o \in Orders |-> "none"]
    /\ decision = [o \in Orders |-> "none"]
    /\ paid = [o \in Orders |-> FALSE]
    /\ shipped = [o \in Orders |-> FALSE]
    /\ outcome = [o \in Orders |-> "none"]

\* The order is placed: this settles whether it is small.
Place(o) ==
    /\ outcome[o] = "none" /\ answer[o] = "none" /\ decision[o] = "none"
    /\ \E isSmall \in BOOLEAN : small' = [small EXCEPT ![o] = isSmall]
    /\ outcome' = [outcome EXCEPT ![o] = "open"]
    /\ UNCHANGED <<answer, decision, paid, shipped>>

Answer(o) ==
    /\ outcome[o] = "open" /\ answer[o] = "none" /\ decision[o] = "none"
    /\ \E a \in {"approved", "rejected"} : answer' = [answer EXCEPT ![o] = a]
    /\ UNCHANGED <<small, decision, paid, shipped, outcome>>

\* An order that is not small is decided by the answer, or times out.
Decide(o) ==
    /\ outcome[o] = "open" /\ decision[o] = "none"
    /\ ~small[o]
    /\ decision' = [decision EXCEPT ![o] =
                       IF answer[o] = "none" THEN "timeout" ELSE answer[o]]
    /\ UNCHANGED <<small, answer, paid, shipped, outcome>>

\* An answer that decides the moment it comes.
AnswerAndDecide(o) ==
    /\ outcome[o] = "open" /\ answer[o] = "none" /\ decision[o] = "none"
    /\ ~small[o]
    /\ \E a \in {"approved", "rejected"} :
          /\ answer' = [answer EXCEPT ![o] = a]
          /\ decision' = [decision EXCEPT ![o] = a]
    /\ UNCHANGED <<small, paid, shipped, outcome>>

Pay(o) ==
    /\ outcome[o] = "open"
    /\ small[o] \/ decision[o] = "approved"
    /\ paid' = [paid EXCEPT ![o] = TRUE]
    /\ UNCHANGED <<small, answer, decision, shipped, outcome>>

Ship(o) ==
    /\ outcome[o] = "open" /\ paid[o]
    /\ shipped' = [shipped EXCEPT ![o] = TRUE]
    /\ UNCHANGED <<small, answer, decision, paid, outcome>>

\* Processed, cancelled, or failed on the way.
End(o) ==
    /\ outcome[o] = "open"
    /\ \E end \in {"processed", "cancelled", "failed"} :
          /\ end = "processed" => shipped[o]
          /\ end = "cancelled" => decision[o] \in {"rejected", "timeout"} /\ ~paid[o]
          /\ outcome' = [outcome EXCEPT ![o] = end]
    /\ UNCHANGED <<small, answer, decision, paid, shipped>>

Next == \E o \in Orders :
    Place(o) \/ Answer(o) \/ Decide(o) \/ AnswerAndDecide(o) \/ Pay(o)
    \/ Ship(o) \/ End(o)

Spec == Init /\ [][Next]_outcomeVars
=============================================================================
