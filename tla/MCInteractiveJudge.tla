------------------------- MODULE MCInteractiveJudge -------------------------
(* An instance of InteractiveJudge: two tests over pipes of two bytes, with  *)
(* solutions that answer more than fits in a pipe while they read, after it, *)
(* or without reading.                                                       *)
EXTENDS InteractiveJudge

TestInputs == {<<>>, <<7, 8, 9, 7>>}
Plan(limit, echo, tail) == [limit |-> limit, echo |-> echo, tail |-> tail]
CorrectPlan == Plan(9, 2, 1)
TestPlans == {CorrectPlan, Plan(9, 2, 3), Plan(9, 0, 3), Plan(2, 2, 1), Plan(0, 0, 3)}
=============================================================================
