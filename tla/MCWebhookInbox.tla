-------------------------- MODULE MCWebhookInbox ----------------------------
(* Two pipelines of one project and file: "any" builds every workflow of    *)
(* the file, "rel" only the workflow "release".  Build 1 and 2 stand for    *)
(* "any" without a workflow, 3 and 4 for its workflows, 5 for "rel".  *)
EXTENDS WebhookInbox

CONSTANTS r1, git, proj, push, h1, h2

mcBuild == << <<"any", "">>, <<"any", "">>, <<"any", "test">>, <<"any", "release">>,
              <<"rel", "release">> >>
mcPipelineOf == [b \in Builds |-> mcBuild[b][1]]
mcDeliveryOf == [b \in Builds |-> {<<push, mcBuild[b][1], mcBuild[b][2]>>}]
mcProjectOf == [b \in Builds |-> proj]
mcBranchOf == [b \in Builds |-> {"main"}]
mcNone == [b \in Builds |-> {}]
mcCapableOf == [b \in Builds |-> Runners]
mcRepoOf == [d \in Deliveries |-> git]
mcWorkflowOf == [p \in Pipelines |-> IF p = "rel" THEN "release" ELSE ""]
mcLinkOf == [p \in Pipelines |-> proj]
mcFileOf == [d \in Deliveries |-> {"test", "release"}]
mcMatching == {<<push, "any", w>> : w \in {"", "test", "release"}} \cup {<<push, "rel", "release">>}
=============================================================================
