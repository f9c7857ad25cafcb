---------------------------- MODULE MCBuildTable ----------------------------
(* The builds table under every caller.  Builds 1 and 2 are two builds of a *)
(* branch and retry one step; build 3 is another build of the branch.  The  *)
(* other project has no builds and may start without a source.              *)
EXTENDS BuildTable

CONSTANTS r1, pipe, proj, proj2, git

mcPipelineOf == [b \in Builds |-> pipe]
mcProjectOf == [b \in Builds |-> proj]
mcBranchOf == [b \in Builds |-> {"main"}]
mcNone == [b \in Builds |-> {}]
mcRetrySteps == [b \in Builds |-> IF b \in {1, 2} THEN {"step"} ELSE {}]
mcCapableOf == [b \in Builds |-> Runners]
=============================================================================
