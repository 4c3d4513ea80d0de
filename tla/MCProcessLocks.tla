-------------------------- MODULE MCProcessLocks --------------------------
EXTENDS ProcessLocks, TLC

CONSTANTS p1, p2

TwoPids == {p1, p2}
AllKinds == {"writer", "gui", "worker"}

=============================================================================
