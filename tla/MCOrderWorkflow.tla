--------------------------- MODULE MCOrderWorkflow --------------------------
(***************************************************************************)
(* An order for TLC, with totals on both sides of the limit.  Orders share *)
(* nothing but the server process, so one meets everything one can meet.   *)
(***************************************************************************)
EXTENDS OrderWorkflow

BodyOf(customer, amount) == [customer |-> customer, items |-> "milk", total |-> amount]

MCBodies == {BodyOf("Riley", 25), BodyOf("Riley", 1000), BodyOf("Riley", -1),
             BodyOf(Absent, 25)}
=============================================================================
