-------------------------- MODULE MCMutationQueue --------------------------
EXTENDS MutationQueue, TLC

CONSTANT w1

OneWorkflow == {w1}
FenceKinds == {"work", "rebase", "delete"}
LiveKinds == {"work", "rebase", "retry", "ready"}
WorkKinds == {"work"}
Awaited == {"enqueue"}
Mixed == {"enqueue", "defer"}
EveryForm == {"enqueue", "defer", "recovery"}
Both == {"high", "normal"}
Normal == {"normal"}

=============================================================================
