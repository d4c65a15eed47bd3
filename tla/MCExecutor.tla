----------------------------- MODULE MCExecutor -----------------------------
(***************************************************************************)
(* Plans for model checking the Executor.  One planner that fails leaves    *)
(* the default plan; others use ids of their own, the same id for two steps, *)
(* the same id for two phases, a phase without steps.                       *)
(***************************************************************************)
EXTENDS Executor, TLC

PlanOf(ids, steps) == [i \in DOMAIN ids |-> [id |-> ids[i], steps |-> steps[i]]]

AnyPlans ==
    {<<>>, PlanOf(<<2, 1>>, <<<<1, 1>>, <<1>>>>), PlanOf(<<1, 1>>, <<<<1>>, <<2>>>>)}
OtherPlans ==
    {PlanOf(<<2>>, <<<<1, 2, 1>>>>), PlanOf(<<2, 1>>, <<<<1>>, <<>>>>)}

RunSymmetry == Permutations(Runs)
=============================================================================
