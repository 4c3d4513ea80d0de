-------------------------- MODULE MCRequeueWorker --------------------------
EXTENDS RequeueWorker, TLC

CONSTANTS t1, t2

OneTask == {t1}
TwoTasks == {t1, t2}
Stalls == {"liveness_stall"}
AnyClass == {"liveness_stall", "ssh-transport-transient", "other"}

=============================================================================
