---------------------------- MODULE MCArtifacts ----------------------------
(* Two policies: one that only removes artifacts of every build, and a full   *)
(* one that keeps the builds that succeeded.                                  *)
EXTENDS Artifacts, TLC
MCPolicies == {[target |-> "artifacts_only", keep |-> {}],
               [target |-> "full", keep |-> {"succeeded"}]}
Symmetry == Permutations(Downloads)
=============================================================================
