----------------------------- MODULE MCDispatch -----------------------------
EXTENDS Dispatch, TLC

CONSTANTS r1, r2, w1, w2, pipe, proj, git, git2

mcPipelineOf == [b \in Builds |-> pipe]
mcProjectOf == [b \in Builds |-> proj]
mcBranchOf == [b \in Builds |-> {"main"}]
mcEmpty == [b \in Builds |-> {}]
mcCapableOf == [b \in Builds |-> Runners]

Symmetry == Permutations(Runners) \cup Permutations(Workers)
=============================================================================
