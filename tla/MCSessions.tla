----------------------------- MODULE MCSessions -----------------------------
(***************************************************************************)
(* The rules of a session side by side where they share state: the hooks     *)
(* have the tool calls, the tracker and the steps the log, the steps and the *)
(* checks the phases.                                                      *)
(***************************************************************************)
EXTENDS Sessions

RulesThatMeet == {{"attention"}, {"track", "resolve"}, {"track", "step"}, {"step", "check"}}
CallerSymmetry == Permutations(Callers)
=============================================================================
