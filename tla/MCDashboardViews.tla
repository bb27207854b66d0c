--------------------------- MODULE MCDashboardViews ---------------------------
EXTENDS DashboardViews, TLC

CONSTANTS r1, r2, r3

MCRequest == {r1, r2, r3}
=============================================================================
