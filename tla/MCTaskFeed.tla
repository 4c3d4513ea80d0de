----------------------------- MODULE MCTaskFeed -----------------------------
EXTENDS TaskFeed, TLC

CONSTANTS t1

OneTask == {t1}

OwnersWindow == [viewer |-> FALSE, overtaking |-> FALSE, losses |-> 0, reloads |-> 1, refreshes |-> 1]
ViewersWindow == [viewer |-> TRUE, overtaking |-> TRUE, losses |-> 2, reloads |-> 1, refreshes |-> 0]
Windows == {OwnersWindow, ViewersWindow}
QuietWindow == {[OwnersWindow EXCEPT !.reloads = 0, !.refreshes = 0]}

=============================================================================
