--------------------------- MODULE MCMeasurement ---------------------------
(***************************************************************************)
(* A benchmark process and, in the plans that say so, a metrics collector  *)
(* beside it.  The collector watches the same nodes and shares no variable *)
(* with the benchmark; whoever started both kills it, if at all, when the  *)
(* benchmark has ended (aws_distributed_test.sh:415).                      *)
(***************************************************************************)
EXTENDS BenchmarkRun, MetricsMonitor

CONSTANTS c3, c5, x3, x5, n1, n2, n3, r1, r2

FourCases == <<c3, c5, x3, x5>>
CaseRegions == [c \in {c3, c5, x3, x5} |-> IF c \in {x3, x5} THEN {r1, r2} ELSE {r1}]
CaseSizes == [c \in {c3, c5, x3, x5} |-> IF c \in {c3, x3} THEN 3 ELSE 5]
CaseScenarios ==
    [c \in {c3, c5, x3, x5} |-> IF c \in {c3, c5} THEN "same-region" ELSE "cross-region"]
CaseRates == [c \in {c3, c5, x3, x5} |-> {1, 3}]
ThreeNodes == <<n1, n2, n3>>
TwoNodes == <<n1, n2>>
AllKinds == <<"system", "raft", "network", "quic_bench">>

\* Two clusters of three nodes that are deployed; existing clusters of one or
\* two sizes in both regions; an existing cluster with a collector beside.
ThePlans ==
    {[deploy |-> TRUE, monitor |-> TRUE, beside |-> FALSE, cases |-> <<c3, x3>>],
     [deploy |-> FALSE, monitor |-> FALSE, beside |-> FALSE, cases |-> <<c3, c5, x3>>],
     [deploy |-> FALSE, monitor |-> TRUE, beside |-> TRUE, cases |-> <<x5>>]}

MeasurementInit ==
    /\ BenchmarkInit
    /\ \A c \in Cases : env[c] = "absent"   \* which only the test runner would read
    /\ MonitorInit

MeasurementNext ==
    \/ BenchmarkNext /\ UNCHANGED monitorVars
    \/ /\ plan.beside
       /\ MonitorStep \/ InterruptMonitor \/ (step = "exit" /\ Terminate)
       /\ UNCHANGED benchmarkVars

MeasurementSpec ==
    /\ MeasurementInit /\ [][MeasurementNext]_<<benchmarkVars, monitorVars>>
    /\ BenchmarkFairness
    /\ WF_<<benchmarkVars, monitorVars>>(plan.beside /\ MonitorStep /\ UNCHANGED benchmarkVars)

=============================================================================
