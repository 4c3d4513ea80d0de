---------------------------- MODULE MCReviewGate ----------------------------
EXTENDS ReviewGate

CONSTANT p1

OnePoll == {p1}

=============================================================================
