--------------------------- MODULE ResultAnalysis ---------------------------
(***************************************************************************)
(* What the programs make of the results of a benchmark:                   *)
(* _generate_report of scripts/distributed_benchmark.py (a report per      *)
(* cluster size), scripts/analyze_distributed_results.py (means over       *)
(* sizes) and scripts/visualize_benchmark.py (seven charts).  Each works   *)
(* out for itself how QUIC compares with TCP.                              *)
(*                                                                         *)
(* R is a set of rows of one run, [protocol, size, scenario, tput].  A     *)
(* quotient is a pair of naturals; latencies are computed alike.           *)
(***************************************************************************)
EXTENDS Integers, FiniteSets, FiniteSetsExt

Of(R, p, s) == {r \in R : r.protocol = p /\ r.scenario = s}
Scenarios(R) == {r.scenario : r \in R}
Sizes(R) == {r.size : r \in R}
OfSize(R, z) == {r \in R : r.size = z}

Mean(S) == <<MapThenSumSet(LAMBDA r : r.tput, S), Cardinality(S)>>

\* A division is guarded: what has no denominator is given as 0.
Quotient(a, b) == IF b[1] = 0 THEN <<0, 1>> ELSE <<a[1] * b[2], a[2] * b[1]>>
AtLeastOne(q) == q[1] >= q[2]
AtMostOne(q) == q[1] <= q[2]

-----------------------------------------------------------------------------
(* _generate_report of distributed_benchmark.py                            *)

\* The sizes at which both protocols were measured in one region, and QUIC
\* over TCP there.
ReportRatios(R) ==
    LET quic == Of(R, "quic", "same-region")
        tcp == Of(R, "tcp", "same-region")
    IN [z \in Sizes(quic) \intersect Sizes(tcp) |->
           Quotient(Mean(OfSize(quic, z)), Mean(OfSize(tcp, z)))]

-----------------------------------------------------------------------------
(* analyze_distributed_results.py                                          *)

\* Mutant: the quotient is the wrong way round.
QuicVsTcp_Inverted(R) ==
    [s \in {s \in Scenarios(R) : Of(R, "quic", s) # {} /\ Of(R, "tcp", s) # {}} |->
        Quotient(Mean(Of(R, "tcp", s)), Mean(Of(R, "quic", s)))]

\* The means over all sizes of a scenario, the same sizes or not.
QuicVsTcp(R) ==
    [s \in {s \in Scenarios(R) : Of(R, "quic", s) # {} /\ Of(R, "tcp", s) # {}} |->
        Quotient(Mean(Of(R, "quic", s)), Mean(Of(R, "tcp", s)))]

\* by_protocol: the means over everything.
ByProtocol(R) ==
    [p \in {r.protocol : r \in R} |-> Mean({r \in R : r.protocol = p})]

\* analyze_cluster_scaling divides by the mean at the smallest size measured,
\* without a guard.
Smallest(S) == CHOOSE z \in S : \A y \in S : z <= y
Scaling(R) ==
    [s \in Scenarios(R) |->
        LET rows == {r \in R : r.scenario = s}
            base == Mean(OfSize(rows, Smallest(Sizes(rows))))
        IN [z \in Sizes(rows) |->
               IF z = Smallest(Sizes(rows)) THEN <<1, 1>>
               ELSE <<Mean(OfSize(rows, z))[1] * base[2], Mean(OfSize(rows, z))[2] * base[1]>>]]
DividesByZero(R) == \E s \in Scenarios(R) : \E z \in DOMAIN Scaling(R)[s] : Scaling(R)[s][z][2] = 0

\* main ends without a report when there is nothing, or with the exception.
HtmlReport(R) == R # {} /\ ~DividesByZero(R)

-----------------------------------------------------------------------------
(* visualize_benchmark.py                                                  *)

\* A bar of charts 1 and 3: what was not measured is drawn as 0.
Bar(R, p, s, z) ==
    IF OfSize(Of(R, p, s), z) = {} THEN 0
    ELSE (CHOOSE r \in OfSize(Of(R, p, s), z) : TRUE).tput

\* Chart 4 looks the TCP row up for every QUIC row with a throughput.
RatioBars(R, s) == {z \in Sizes(R) : Bar(R, "quic", s, z) > 0}

\* Mutant: it does so for every size, whether there is a QUIC row or not.
RowMissing_AllSizes(R) ==
    \E s \in {"same-region", "cross-region"} : \E z \in Sizes(R) :
        OfSize(Of(R, "tcp", s), z) = {}

RowMissing(R) ==
    \E s \in {"same-region", "cross-region"} : \E z \in RatioBars(R, s) :
        OfSize(Of(R, "tcp", s), z) = {}
RatioBar(R, s, z) == <<Bar(R, "tcp", s, z), Bar(R, "quic", s, z)>>

\* The charts are drawn in order, until one raises an exception.  Without a
\* result file there is none.
Charts(R) ==
    IF R = {} THEN {} ELSE IF RowMissing(R) THEN 1..3 ELSE 1..7

-----------------------------------------------------------------------------
(* Properties of the results                                               *)

\* Both protocols were measured, at the same sizes, and every write throughput
\* is positive.
Comparable(R, s) ==
    /\ Of(R, "quic", s) # {}
    /\ Sizes(Of(R, "quic", s)) = Sizes(Of(R, "tcp", s))
    /\ \A r \in R : r.scenario = s => r.tput > 0

\* Where the protocols are comparable in a scenario, the three programs agree
\* on which is faster: if QUIC is at least as fast at every size by the report
\* or by chart 4, it is by the analyzer's one figure for the scenario, and the
\* other way round.  Of one scenario alone, the analyzer's table by protocol
\* says so too.
ToolsAgree(R) ==
    \A s \in {s \in Scenarios(R) : Comparable(R, s)} :
        LET sizes == Sizes(Of(R, "quic", s))
            overall == QuicVsTcp(R)[s]
            total == Quotient(ByProtocol(R)["quic"], ByProtocol(R)["tcp"])
        IN /\ (\A z \in sizes : AtMostOne(RatioBar(R, s, z))) => AtLeastOne(overall)
           /\ (\A z \in sizes : AtLeastOne(RatioBar(R, s, z))) => AtMostOne(overall)
           /\ s = "same-region" => \A z \in sizes :
                  AtLeastOne(ReportRatios(R)[z]) <=> AtMostOne(RatioBar(R, s, z))
           /\ Scenarios(R) = {s} => (AtLeastOne(total) <=> AtLeastOne(overall))

\* A run in which every case was measured with writes that succeed gets its
\* whole evaluation: the analyzer's report, with a comparison for each scenario,
\* and all seven charts, with no bar for what was not measured.
Evaluated(R) ==
    /\ HtmlReport(R) /\ DOMAIN QuicVsTcp(R) = Scenarios(R)
    /\ Charts(R) = 1..7
    /\ \A s \in Scenarios(R) : \A z \in Sizes({r \in R : r.scenario = s}) :
          Bar(R, "quic", s, z) > 0 /\ Bar(R, "tcp", s, z) > 0

=============================================================================
