---------------------------- MODULE MCOwnerBus ----------------------------
EXTENDS OwnerBus, TLC

CONSTANTS p1, p2, v1

TwoProcs == {p1, p2}
OneViewer == {v1}

=============================================================================
