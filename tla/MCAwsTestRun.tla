--------------------------- MODULE MCAwsTestRun ---------------------------
EXTENDS AwsCleanup

CONSTANTS c1, c2, c3, r1, r2

ThreeCases == <<c1, c2, c3>>
TwoRegions == [c \in {c1, c2, c3} |-> IF c = c2 THEN {r1, r2} ELSE {r1}]
RegionOrder == <<r1, r2>>

=============================================================================
