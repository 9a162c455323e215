---------------------------- MODULE MCOrderPlan ----------------------------
EXTENDS OrderPlan

SomeEntries == {0, -6, 1}
SomeStops == {0, -4, -13, 2}
SomeTargets == {0, 8, 16, 30, -1}
SomeTickers == {0, 188, 199, 214}
=============================================================================
