--------------------------- MODULE MCLaunchHandoff ---------------------------
EXTENDS LaunchHandoff, TLC

CONSTANTS t1, t2

OneTask == {t1}
TwoTasks == {t1, t2}
TaskSymmetry == Permutations(TwoTasks)
NoFaults == {}
NoStalls == {"enqueue", "restart"}
RestartFault == {"restart"}
AllFaults == {"enqueue", "stall", "restart"}

=============================================================================
