----------------------------- MODULE MCJudgeRun -----------------------------
(* An instance of MakeTest around JudgeRun: two tests, two rounds and every  *)
(* set of options.                                                           *)
EXTENDS MakeTest
=============================================================================
