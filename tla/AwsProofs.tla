------------------------------ MODULE AwsProofs -----------------------------
(***************************************************************************)
(* The programs around AwsTestRun, for every list of cases, nodes and      *)
(* regions and any number of failing calls, dying processes and            *)
(* interrupts.                                                             *)
(*                                                                         *)
(* First the test runner and its cleanup: what a benchmark that ended      *)
(* leaves behind, how many clusters are up at a time, what a report stands *)
(* for, and what a cleanup that completed after the run has removed.       *)
(*                                                                         *)
(* Then the programs that measure, for every number of polls and rounds.   *)
(* A cluster that distributed_benchmark.py has deployed is measured only   *)
(* when both daemons of each of its nodes had joined; nothing it measured  *)
(* is lost; case by case it does what AwsTestRun says of a benchmark; and  *)
(* the programs that evaluate its rows agree, and come to their end when   *)
(* no case failed.  collect_metrics.py saves whole rounds.                 *)
(***************************************************************************)
EXTENDS AwsCleanup, BenchmarkRun, MetricsMonitor,
        FiniteSetTheorems, WellFoundedInduction, TLAPS

-----------------------------------------------------------------------------
(* The test runner and its cleanup                                         *)

\* How far the suite of a case is says how far its benchmark can be.
SuiteInv ==
    /\ \A c \in Cases :
          /\ suite[c] \in {"idle", "prepare"} => bench[c] = "none"
          /\ suite[c] \in {"sleep", "ok"} => bench[c] = "ended"
          /\ suite[c] = "failed" => bench[c] \in {"none", "died"}
    /\ \A k \in 1..Len(CaseList) : k >= next => suite[CaseList[k]] = "idle"

\* A case that was started and whose suite has not returned, or whose benchmark
\* still runs.
Busy(c) == suite[c] \notin {"idle"} \union Finished \/ bench[c] \in Steps

\* One case at a time is busy, or those that have a slot.
SlotInv ==
    /\ Sequential =>
          /\ main # "drain"
          /\ \A c \in Cases : Busy(c) => next > 1 /\ c = CaseList[next - 1]
          /\ main = "submit" => \A c \in Cases : ~Busy(c)
          /\ main = "suite" => next > 1
    /\ ~Sequential =>
          /\ main # "suite"
          /\ \A c \in Cases : Busy(c) => c \in active
    /\ IsFiniteSet(active) /\ Cardinality(active) <= parallel
    /\ failed + Cardinality(active) <= next - 1

\* What the script knows of the cases it has submitted.
OutcomeInv ==
    /\ Sequential =>
          /\ main = "submit" =>
                \A k \in 1..Len(CaseList) : k < next => suite[CaseList[k]] = "ok"
          /\ main = "suite" =>
                \A k \in 1..Len(CaseList) : k < next - 1 => suite[CaseList[k]] = "ok"
    /\ ~Sequential /\ main \in {"submit", "drain"} =>
              \A k \in 1..Len(CaseList) :
                  k < next => \/ CaseList[k] \in active
                              \/ suite[CaseList[k]] = "ok"
                              \/ failed > 0
    /\ main = "drain" => Submitted
    /\ main \in {"report", "exit0"} => \A c \in Cases : suite[c] = "ok"
    /\ main = "exit0" => reported = {c \in Cases : rows[c]}

\* Who answers for what a case has in AWS.
LeftoverInv ==
    \A c \in Cases :
        /\ bench[c] = "ended" /\ cloud[c] # {} => "destroy" \in blame[c]
        /\ objects[c] => \/ {"artifacts", "upload"} \intersect blame[c] # {}
                         \/ bench[c] \in {"services", "died"}
        /\ "upload" \in blame[c] => bench[c] \in {"teardown", "ended", "died"} /\ ~rows[c]
        /\ rows[c] => bench[c] \in {"teardown", "ended", "died"}

RunInv == TypeOK /\ SuiteInv /\ SlotInv /\ OutcomeInv /\ LeftoverInv

-----------------------------------------------------------------------------

Cleaned(r) ==
    \A c \in Cases :
        /\ <<"instance", r>> \notin cloud[c] /\ <<"key", r>> \notin cloud[c]
        /\ <<"group", r>> \in cloud[c] => <<"group", r>> \in unclean

\* What the script has removed on its way.
CleanInv ==
    /\ phase = "off" => index = 1
    /\ phase \in {"instance", "group", "key"} => \A k \in 1..index - 1 : Cleaned(RegionList[k])
    /\ phase \in {"group", "key"} => \A c \in Cases : <<"instance", Here>> \notin cloud[c]
    /\ phase = "key" => \A c \in Cases : <<"group", Here>> \in cloud[c] => <<"group", Here>> \in unclean
    /\ phase \in {"iam", "s3", "done"} => \A r \in Regions : Cleaned(r)
    /\ phase \in {"s3", "done"} =>
          \A c \in Cases : <<"iam", "global">> \in cloud[c] => <<"iam", "global">> \in unclean
    /\ phase = "done" => \A c \in Cases : objects[c] => <<"s3", "global">> \in unclean

IInv == RunInv /\ LifecycleTypeOK /\ CleanInv

-----------------------------------------------------------------------------
(* The run.                                                                *)

\* The list names every case once.
LEMMA Numbers ==
    /\ Len(CaseList) \in Nat \ {0}
    /\ \A k \in 1..Len(CaseList) : CaseList[k] \in Cases
    /\ \A c \in Cases : \E k \in 1..Len(CaseList) : CaseList[k] = c
    /\ \A j, k \in 1..Len(CaseList) : CaseList[j] = CaseList[k] => j = k
<1>1. CaseList \in Seq(Cases) /\ CaseList # <<>> /\ DOMAIN CaseList = 1..Len(CaseList)
  BY CasesAssumption
<1>2. \A j, k \in 1..Len(CaseList) : CaseList[j] = CaseList[k] => j = k
  BY CasesAssumption, <1>1
<1>3. \A c \in Cases : \E k \in 1..Len(CaseList) : CaseList[k] = c
  BY <1>1 DEF Cases
<1> QED
  BY <1>1, <1>2, <1>3

\* Each number of parallel cases is a number.
LEMMA Slots == TypeOK => parallel \in Nat \ {0} /\ next \in Nat \ {0} /\ failed \in Nat
  BY BoundsAssumption, Numbers DEF TypeOK

LEMMA InitRunInv == Init => RunInv
<1> SUFFICES ASSUME Init PROVE RunInv
    OBVIOUS
<1>1. TypeOK
  <2>1. 1 \in 1..Len(CaseList) + 1 /\ 0 \in 0..Len(CaseList) /\ 0 \in 0..MaxFaults
    BY Numbers, BoundsAssumption
  <2>2. env \in [Cases -> {"absent", "old", "own"}]
    BY DEF Init
  <2> QED
    BY <2>1, <2>2 DEF Init, TypeOK
<1>2. SuiteInv
  BY Numbers DEF Init, SuiteInv
<1>3. SlotInv
  <2>1. IsFiniteSet(active) /\ Cardinality(active) = 0
    BY FS_EmptySet DEF Init
  <2>2. \A c \in Cases : ~Busy(c)
    BY DEF Init, Busy, Steps
  <2>3. parallel \in Nat
    BY <1>1, Slots
  <2> QED
    BY <2>1, <2>2, <2>3 DEF Init, SlotInv
<1>4. OutcomeInv
  BY Numbers DEF Init, OutcomeInv
<1>5. LeftoverInv
  BY DEF Init, LeftoverInv
<1> QED
  BY <1>1, <1>2, <1>3, <1>4, <1>5 DEF RunInv

\* One busy case moves, the script does not.
LEMMA CaseMoves ==
    ASSUME TypeOK, SuiteInv, SlotInv, OutcomeInv,
           NEW c \in Cases, NEW s, NEW b, Busy(c),
           suite' = [suite EXCEPT ![c] = s], bench' = [bench EXCEPT ![c] = b],
           s # "idle",
           s = "prepare" => b = "none",
           s \in {"sleep", "ok"} => b = "ended",
           s = "failed" => b \in {"none", "died"},
           UNCHANGED <<flags, mainVars>>
    PROVE  SuiteInv' /\ SlotInv' /\ OutcomeInv'
<1> USE DEF flags, mainVars
<1>0. /\ suite[c] \notin {"idle", "ok", "failed"}
      /\ UNCHANGED <<parallel, main, next, active, failed, reported>>
      /\ (Sequential)' = Sequential /\ (Submitted)' = Submitted
  BY DEF SuiteInv, Busy, Finished, Steps, Sequential, Submitted
<1>1. SuiteInv'
  <2>1. \A d \in Cases : d # c => suite'[d] = suite[d] /\ bench'[d] = bench[d]
    BY DEF TypeOK
  <2>2. suite'[c] = s /\ bench'[c] = b
    BY DEF TypeOK
  <2>3. \A k \in 1..Len(CaseList) : k >= next => CaseList[k] # c
    BY <1>0 DEF SuiteInv
  <2> QED
    BY <1>0, <2>1, <2>2, <2>3, Numbers DEF SuiteInv
<1>2. SlotInv'
  <2>1. \A d \in Cases : Busy(d)' => Busy(d)
    BY DEF TypeOK, Busy
  <2> QED
    BY <1>0, <2>1 DEF SlotInv
<1>3. OutcomeInv'
  <2>1. main \notin {"report", "exit0"}
    BY <1>0 DEF OutcomeInv
  <2>2. \A d \in Cases : suite[d] = "ok" => suite'[d] = "ok"
    BY <1>0 DEF TypeOK
  <2> QED
    BY <1>0, <2>1, <2>2, Numbers DEF OutcomeInv
<1> QED
  BY <1>1, <1>2, <1>3

\* The steps of the suites.
LEMMA NextSuite ==
    ASSUME RunInv, NEW c \in Cases, Suite(c)
    PROVE  RunInv'
<1> USE DEF flags, mainVars, benchVars, awsVars
<1>0. TypeOK /\ SuiteInv /\ SlotInv /\ OutcomeInv /\ LeftoverInv
  BY DEF RunInv
<1>1. TypeOK'
  <2>1. CASE Prepare(c)
    BY <1>0, <2>1, BoundsAssumption DEF Prepare, TypeOK, Fault, Steps, Finished
  <2>2. CASE ReadEnv(c)
    BY <1>0, <2>2 DEF ReadEnv, TypeOK
  <2>3. CASE BenchReturns(c)
    BY <1>0, <2>3 DEF BenchReturns, TypeOK, Finished
  <2>4. CASE KillMonitor(c)
    BY <1>0, <2>4 DEF KillMonitor, TypeOK, Finished
  <2> QED
    BY <2>1, <2>2, <2>3, <2>4 DEF Suite
<1>2. Busy(c) /\ UNCHANGED <<flags, mainVars>>
  BY DEF Suite, Prepare, ReadEnv, BenchReturns, KillMonitor, Busy, Finished
<1>3. /\ suite' = [suite EXCEPT ![c] = suite'[c]] /\ bench' = [bench EXCEPT ![c] = bench'[c]]
      /\ suite'[c] \notin {"idle", "prepare"}
      /\ suite'[c] \in {"sleep", "ok"} => bench'[c] = "ended"
      /\ suite'[c] = "failed" => bench'[c] \in {"none", "died"}
  <2>1. CASE Prepare(c)
    BY <1>0, <2>1 DEF Prepare, TypeOK, SuiteInv
  <2>2. CASE ReadEnv(c)
    BY <1>0, <2>2 DEF ReadEnv, TypeOK
  <2>3. CASE BenchReturns(c)
    BY <1>0, <2>3 DEF BenchReturns, TypeOK
  <2>4. CASE KillMonitor(c)
    BY <1>0, <2>4 DEF KillMonitor, TypeOK, SuiteInv
  <2> QED
    BY <2>1, <2>2, <2>3, <2>4 DEF Suite
<1>4. SuiteInv' /\ SlotInv' /\ OutcomeInv'
  <2> DEFINE s == suite'[c]
             b == bench'[c]
  <2>1. /\ suite' = [suite EXCEPT ![c] = s] /\ bench' = [bench EXCEPT ![c] = b]
        /\ s \notin {"idle", "prepare"}
        /\ s \in {"sleep", "ok"} => b = "ended"
        /\ s = "failed" => b \in {"none", "died"}
    BY <1>3
  <2> HIDE DEF s, b
  <2> QED
    BY <1>0, <1>2, <2>1, CaseMoves
<1>5. LeftoverInv'
  <2>1. UNCHANGED <<cloud, objects, blame, rows>>
    BY DEF Suite, Prepare, ReadEnv, BenchReturns, KillMonitor
  <2>2. \A d \in Cases : /\ bench'[d] = "ended" => bench[d] = "ended"
                         /\ bench[d] \in {"services", "teardown", "ended", "died"}
                               => bench'[d] = bench[d]
    BY <1>0, <1>2 DEF Suite, Prepare, ReadEnv, BenchReturns, KillMonitor, TypeOK, SuiteInv
  <2> QED
    BY <1>0, <2>1, <2>2 DEF LeftoverInv
<1> QED
  BY <1>1, <1>4, <1>5 DEF RunInv

\* What is left of a set of resources is part of it.
LEMMA RemnantIsLess == \A S, x : Remnant(S, x) \subseteq S
  BY DEF Remnant

\* A flag per case stays one when one of them is set.
LEMMA FlagIsSet ==
    \A f \in [Cases -> BOOLEAN], c \in Cases, b \in BOOLEAN :
        [f EXCEPT ![c] = b] \in [Cases -> BOOLEAN]
  BY Zenon

\* The steps of the benchmarks, and their death.
LEMMA NextBench ==
    ASSUME RunInv, NEW c \in Cases, Bench(c) \/ Dies(c)
    PROVE  RunInv'
<1> USE DEF flags, mainVars, benchVars, awsVars
<1>0. TypeOK /\ SuiteInv /\ SlotInv /\ OutcomeInv /\ LeftoverInv
  BY DEF RunInv
<1>1. TypeOK'
  <2>1. CASE Deploy(c)
    BY <1>0, <2>1, BoundsAssumption, RemnantIsLess
       DEF Deploy, Raises, Goto, TypeOK, Fault, Steps
  <2>2. CASE Configure(c)
    BY <1>0, <2>2, BoundsAssumption DEF Configure, Raises, Goto, TypeOK, Fault, Steps
  <2>3. CASE Upload(c)
    <3>1. /\ bench' \in [Cases -> Steps \union {"none", "ended", "died"}]
          /\ faults' \in 0..MaxFaults
      BY <1>0, <2>3, BoundsAssumption DEF Upload, Raises, Goto, TypeOK, Fault, Steps
    <3>3. objects' \in [Cases -> BOOLEAN]
      <4>1. \E b \in BOOLEAN : objects' = [objects EXCEPT ![c] = b]
        BY <2>3 DEF Upload
      <4> QED
        BY <1>0, <4>1, FlagIsSet, Zenon DEF TypeOK
    <3>2. blame' \in [Cases -> SUBSET {"destroy", "artifacts", "upload", "died"}]
      BY <1>0, <2>3 DEF Upload, Blame, TypeOK
    <3> QED
      BY <1>0, <2>3, <3>1, <3>2, <3>3 DEF Upload, TypeOK
  <2>4. CASE Services(c)
    <3>1. bench' \in [Cases -> Steps \union {"none", "ended", "died"}]
      BY <1>0, <2>4 DEF Services, Raises, Goto, TypeOK, Steps
    <3>2. faults' \in 0..MaxFaults
      BY <1>0, <2>4, BoundsAssumption DEF Services, Raises, TypeOK, Fault
    <3>4. objects' \in [Cases -> BOOLEAN]
      <4>1. objects' = [objects EXCEPT ![c] = FALSE] \/ objects' = objects
        BY <2>4 DEF Services
      <4> QED
        BY <1>0, <4>1, FlagIsSet, Zenon DEF TypeOK
    <3>3. blame' \in [Cases -> SUBSET {"destroy", "artifacts", "upload", "died"}]
      BY <1>0, <2>4 DEF Services, Blame, TypeOK
    <3> QED
      BY <1>0, <2>4, <3>1, <3>2, <3>3, <3>4 DEF Services, TypeOK
  <2>5. CASE Measure(c)
    <3>1. /\ bench' \in [Cases -> Steps \union {"none", "ended", "died"}]
          /\ faults' \in 0..MaxFaults
      BY <1>0, <2>5, BoundsAssumption DEF Measure, Goto, TypeOK, Fault, Steps
    <3>2. rows' \in [Cases -> BOOLEAN]
      <4>1. \E b \in BOOLEAN : rows' = [rows EXCEPT ![c] = b]
        BY <2>5 DEF Measure
      <4> QED
        BY <1>0, <4>1, FlagIsSet, Zenon DEF TypeOK
    <3> QED
      BY <1>0, <2>5, <3>1, <3>2 DEF Measure, TypeOK
  <2>6. CASE Teardown(c)
    BY <1>0, <2>6, BoundsAssumption, RemnantIsLess
       DEF Teardown, Goto, Blame, TypeOK, Fault, Steps
  <2>7. CASE Dies(c)
    BY <1>0, <2>7, BoundsAssumption, RemnantIsLess
       DEF Dies, Alive, Kill, AfterKill, TypeOK, Fault, Steps
  <2> QED
    BY <2>1, <2>2, <2>3, <2>4, <2>5, <2>6, <2>7 DEF Bench
<1>2. /\ Busy(c) /\ UNCHANGED <<flags, mainVars, suite>>
      /\ bench[c] \in Steps /\ bench' = [bench EXCEPT ![c] = bench'[c]]
  <2>1. CASE Bench(c)
    BY <1>0, <2>1
       DEF Bench, Deploy, Configure, Upload, Services, Measure, Teardown,
           Raises, Goto, Busy, Steps, TypeOK
  <2>2. CASE Dies(c)
    BY <1>0, <2>2 DEF Dies, Alive, Kill, Busy, Steps, TypeOK
  <2> QED
    BY <2>1, <2>2
<1>3. SuiteInv' /\ SlotInv' /\ OutcomeInv'
  <2> DEFINE s == suite[c]
             b == bench'[c]
  <2>1. /\ suite' = [suite EXCEPT ![c] = s] /\ bench' = [bench EXCEPT ![c] = b]
        /\ s \notin {"idle", "prepare", "sleep", "ok", "failed"}
    BY <1>0, <1>2 DEF TypeOK, SuiteInv, Steps
  <2> HIDE DEF s, b
  <2> QED
    BY <1>0, <1>2, <2>1, CaseMoves
<1>4. LeftoverInv'
  <2>1. CASE Deploy(c)
    BY <1>0, <2>1 DEF Deploy, Raises, Goto, TypeOK, LeftoverInv, Steps
  <2>2. CASE Configure(c)
    BY <1>0, <2>2 DEF Configure, Raises, Goto, TypeOK, LeftoverInv, Steps
  <2>3. CASE Upload(c)
    BY <1>0, <2>3 DEF Upload, Raises, Goto, Blame, TypeOK, LeftoverInv, Steps
  <2>4. CASE Services(c)
    BY <1>0, <2>4 DEF Services, Raises, Goto, Blame, TypeOK, LeftoverInv, Steps
  <2>5. CASE Measure(c)
    BY <1>0, <2>5 DEF Measure, Goto, TypeOK, LeftoverInv, Steps
  <2>6. CASE Teardown(c)
    BY <1>0, <2>6 DEF Teardown, Goto, Blame, TypeOK, LeftoverInv, Steps
  <2>7. CASE Dies(c)
    <3>1. \A d \in Cases : d # c => /\ bench'[d] = bench[d] /\ cloud'[d] = cloud[d]
                                    /\ blame'[d] = blame[d] /\ objects'[d] = objects[d]
      BY <1>0, <2>7 DEF Dies, Kill, TypeOK
    <3>2. /\ bench'[c] = "died" /\ rows' = rows
          /\ "upload" \in blame'[c] => "upload" \in blame[c]
      BY <1>0, <2>7 DEF Dies, Kill, TypeOK
    <3> QED
      BY <1>0, <3>1, <3>2 DEF LeftoverInv
  <2> QED
    BY <2>1, <2>2, <2>3, <2>4, <2>5, <2>6, <2>7 DEF Bench
<1> QED
  BY <1>1, <1>3, <1>4 DEF RunInv

\* A monitor that ends changes nothing else.
LEMMA NextMonitor ==
    ASSUME RunInv, NEW c \in Cases, MonitorEnds(c)
    PROVE  RunInv'
<1> USE DEF flags, mainVars, benchVars, awsVars, RunInv, MonitorEnds
<1>1. TypeOK'
  BY DEF TypeOK
<1>2. SuiteInv' /\ LeftoverInv'
  BY DEF SuiteInv, LeftoverInv
<1>3. SlotInv'
  BY DEF SlotInv, Sequential, Busy
<1>4. OutcomeInv'
  BY DEF OutcomeInv, Sequential, Submitted
<1> QED
  BY <1>1, <1>2, <1>3, <1>4

\* The next case is submitted: it was idle, and now it is busy.
LEMMA NextStart ==
    ASSUME RunInv, main = "submit", ~Submitted, StartSuite(CaseList[next]),
           main' \in {"submit", "suite"}
    PROVE  /\ CaseList[next] \in Cases /\ suite[CaseList[next]] = "idle"
           /\ next \in 1..Len(CaseList) /\ next' = next + 1
           /\ suite' = [suite EXCEPT ![CaseList[next]] = "prepare"]
           /\ \A k \in 1..Len(CaseList) : k # next => suite'[CaseList[k]] = suite[CaseList[k]]
           /\ SuiteInv' /\ LeftoverInv'
<1> USE DEF flags, benchVars, awsVars
<1> DEFINE c == CaseList[next]
<1>0. TypeOK /\ SuiteInv /\ SlotInv /\ OutcomeInv /\ LeftoverInv
  BY DEF RunInv
<1>1. next \in 1..Len(CaseList) /\ next' = next + 1
  BY <1>0, Numbers DEF TypeOK, Submitted, StartSuite
<1>2. c \in Cases /\ suite[c] = "idle" /\ bench[c] = "none"
  BY <1>0, <1>1, Numbers DEF SuiteInv
<1>3. suite' = [suite EXCEPT ![c] = "prepare"] /\ UNCHANGED <<bench, cloud, objects, blame, rows>>
  BY DEF StartSuite
<1> HIDE DEF c
<1>4. suite'[c] = "prepare" /\ \A d \in Cases : d # c => suite'[d] = suite[d]
  BY <1>0, <1>2, <1>3 DEF TypeOK
<1>5. \A k \in 1..Len(CaseList) : k # next => CaseList[k] # c
  BY <1>1, Numbers DEF c
<1>6. \A k \in 1..Len(CaseList) : k # next => suite'[CaseList[k]] = suite[CaseList[k]]
  BY <1>4, <1>5, Numbers
<1>7. SuiteInv'
  <2>1. \A d \in Cases :
           /\ suite'[d] \in {"idle", "prepare"} => bench'[d] = "none"
           /\ suite'[d] \in {"sleep", "ok"} => bench'[d] = "ended"
           /\ suite'[d] = "failed" => bench'[d] \in {"none", "died"}
    BY <1>0, <1>2, <1>3, <1>4 DEF SuiteInv
  <2>2. \A k \in 1..Len(CaseList) : k >= next' => suite'[CaseList[k]] = "idle"
    BY <1>0, <1>1, <1>6 DEF SuiteInv
  <2> QED
    BY <2>1, <2>2 DEF SuiteInv
<1>8. LeftoverInv'
  BY <1>0, <1>3 DEF LeftoverInv
<1> QED
  BY <1>1, <1>2, <1>3, <1>6, <1>7, <1>8 DEF c

\* A suite starts in the script itself.
LEMMA NextInline ==
    ASSUME RunInv, SubmitInline
    PROVE  RunInv'
<1> USE DEF flags, benchVars, awsVars, SubmitInline
<1> DEFINE c == CaseList[next]
<1>0. TypeOK /\ SuiteInv /\ SlotInv /\ OutcomeInv /\ LeftoverInv
  BY DEF RunInv
<1>1. /\ UNCHANGED <<parallel, active, failed, reported, bench, rows>>
      /\ Sequential /\ (Sequential)' /\ main = "submit" /\ main' = "suite"
  BY DEF StartSuite, Sequential
<1>2. /\ c \in Cases /\ suite[c] = "idle"
      /\ next \in 1..Len(CaseList) /\ next' = next + 1
      /\ suite' = [suite EXCEPT ![c] = "prepare"]
      /\ \A k \in 1..Len(CaseList) : k # next => suite'[CaseList[k]] = suite[CaseList[k]]
      /\ SuiteInv' /\ LeftoverInv'
  BY <1>1, NextStart
<1>3. TypeOK'
  <2>1. next' \in 1..Len(CaseList) + 1
    BY <1>2, Numbers
  <2> QED
    BY <1>0, <1>1, <1>2, <2>1 DEF TypeOK, StartSuite
<1>4. SlotInv'
  <2>1. \A d \in Cases : Busy(d)' => d = c
    BY <1>0, <1>1, <1>2 DEF TypeOK, SlotInv, Busy
  <2>2. c = CaseList[next' - 1] /\ next' > 1
    BY <1>2
  <2>3. failed + Cardinality(active) <= next' - 1
    BY <1>0, <1>2, FS_CardinalityType, Slots DEF SlotInv
  <2> HIDE DEF c
  <2> QED
    BY <1>0, <1>1, <2>1, <2>2, <2>3 DEF SlotInv
<1>5. OutcomeInv'
  <2>1. \A k \in 1..Len(CaseList) : k < next' - 1 => suite'[CaseList[k]] = "ok"
    BY <1>0, <1>1, <1>2 DEF OutcomeInv
  <2> QED
    BY <1>1, <2>1 DEF OutcomeInv
<1> QED
  BY <1>2, <1>3, <1>4, <1>5 DEF RunInv

\* A suite starts in a subshell, in a free slot.
LEMMA NextBackground ==
    ASSUME RunInv, SubmitBackground
    PROVE  RunInv'
<1> USE DEF flags, benchVars, awsVars, SubmitBackground
<1> DEFINE c == CaseList[next]
<1>0. TypeOK /\ SuiteInv /\ SlotInv /\ OutcomeInv /\ LeftoverInv
  BY DEF RunInv
<1>1. /\ UNCHANGED <<parallel, failed, reported, bench, rows>>
      /\ ~Sequential /\ ~(Sequential)' /\ main = "submit" /\ main' = "submit"
      /\ active' = active \union {c} /\ Cardinality(active) < parallel
  BY DEF StartSuite, Sequential
<1>2. /\ c \in Cases /\ suite[c] = "idle"
      /\ next \in 1..Len(CaseList) /\ next' = next + 1
      /\ suite' = [suite EXCEPT ![c] = "prepare"]
      /\ \A k \in 1..Len(CaseList) : k # next => suite'[CaseList[k]] = suite[CaseList[k]]
      /\ SuiteInv' /\ LeftoverInv'
  BY <1>1, NextStart
<1>3. TypeOK'
  <2>1. next' \in 1..Len(CaseList) + 1
    BY <1>2, Numbers
  <2> QED
    BY <1>0, <1>1, <1>2, <2>1 DEF TypeOK, StartSuite
<1>4. SlotInv'
  <2>1. \A d \in Cases : Busy(d)' => d \in active'
    BY <1>0, <1>1, <1>2 DEF TypeOK, SlotInv, Busy
  <2>2. IsFiniteSet(active) /\ Cardinality(active) \in Nat
    BY <1>0, FS_CardinalityType DEF SlotInv
  <2>3. /\ IsFiniteSet(active')
        /\ Cardinality(active') \in Nat /\ Cardinality(active') <= Cardinality(active) + 1
    <3>1. PICK d \in Cases : d = c
      BY <1>2
    <3>2. active' = active \union {d}
      BY <1>1, <3>1
    <3>3. /\ IsFiniteSet(active \union {d})
          /\ Cardinality(active \union {d}) \in {Cardinality(active), Cardinality(active) + 1}
      BY <2>2, FS_AddElement
    <3>4. /\ IsFiniteSet(active')
          /\ Cardinality(active') \in {Cardinality(active), Cardinality(active) + 1}
      BY <3>2, <3>3, Zenon
    <3> HIDE DEF c
    <3> QED
      BY <2>2, <3>4
  <2>4. Cardinality(active') <= parallel' /\ failed' + Cardinality(active') <= next' - 1
    BY <1>0, <1>1, <1>2, <2>2, <2>3, Slots DEF SlotInv
  <2> HIDE DEF c
  <2> QED
    BY <1>1, <2>1, <2>3, <2>4 DEF SlotInv
<1>5. OutcomeInv'
  <2>1. ASSUME NEW k \in 1..Len(CaseList), k < next'
        PROVE  CaseList[k] \in active' \/ suite'[CaseList[k]] = "ok" \/ failed' > 0
    <3>1. CASE k = next
      BY <1>1, <3>1
    <3>2. CASE k # next
      <4>1. k < next
        BY <1>2, <2>1, <3>2
      <4> QED
        BY <1>0, <1>1, <1>2, <3>2, <4>1 DEF OutcomeInv
    <3> QED
      BY <3>1, <3>2
  <2> QED
    BY <1>1, <2>1 DEF OutcomeInv
<1> QED
  BY <1>2, <1>3, <1>4, <1>5 DEF RunInv

\* The script takes the suites that have ended out of its slots.
LEMMA NextReap ==
    ASSUME RunInv, Reap
    PROVE  RunInv'
<1> USE DEF flags, benchVars, awsVars
<1> DEFINE bad == {c \in active : suite[c] = "failed"}
<1>0. TypeOK /\ SuiteInv /\ SlotInv /\ OutcomeInv /\ LeftoverInv
  BY DEF RunInv
<1>1. /\ UNCHANGED <<parallel, main, next, reported, suite, bench, rows, cloud, objects, blame>>
      /\ active' = {c \in active : ~Ended(c)} /\ failed' = failed + Cardinality(bad)
      /\ (Sequential)' = Sequential /\ (Submitted)' = Submitted
  BY DEF Reap, Sequential, Submitted
<1>2. /\ IsFiniteSet(bad) /\ Cardinality(bad) \in Nat
      /\ IsFiniteSet(active') /\ Cardinality(active') \in Nat
      /\ Cardinality(bad) + Cardinality(active') <= Cardinality(active)
      /\ Cardinality(active') <= Cardinality(active)
  <2>1. bad \subseteq active /\ active' \subseteq active /\ bad \cap active' = {}
    BY <1>1 DEF Ended, Finished
  <2>2. IsFiniteSet(active) /\ IsFiniteSet(bad) /\ IsFiniteSet(active')
    BY <1>0, <2>1, FS_Subset DEF SlotInv
  <2>3. /\ Cardinality(bad \union active') = Cardinality(bad) + Cardinality(active')
        /\ IsFiniteSet(bad \union active')
    <3>1. Cardinality(bad \union active') =
              Cardinality(bad) + Cardinality(active') - Cardinality(bad \cap active')
      BY <2>2, FS_Union
    <3>2. Cardinality(bad \cap active') = 0
      BY <2>1, FS_EmptySet
    <3> QED
      BY <2>2, <3>1, <3>2, FS_Union, FS_CardinalityType
  <2>4. Cardinality(bad \union active') <= Cardinality(active)
    BY <2>1, <2>2, FS_Subset
  <2> HIDE DEF bad
  <2> QED
    BY <2>2, <2>3, <2>4, FS_CardinalityType
<1>3. failed' >= failed /\ failed' \in Nat /\ failed' + Cardinality(active') <= next' - 1
  <2> HIDE DEF bad
  <2> QED
    BY <1>0, <1>1, <1>2, Slots, FS_CardinalityType DEF SlotInv
<1>4. TypeOK'
  <2>1. failed' \in 0..Len(CaseList)
    BY <1>0, <1>1, <1>2, <1>3, Numbers DEF TypeOK
  <2>2. active' \subseteq Cases
    BY <1>0, <1>1 DEF TypeOK
  <2> QED
    BY <1>0, <2>1, <2>2 DEF TypeOK, Reap
<1>5. SuiteInv' /\ LeftoverInv'
  BY <1>0, <1>1 DEF SuiteInv, LeftoverInv
<1>6. SlotInv'
  <2>1. \A c \in Cases : Busy(c)' <=> Busy(c)
    BY <1>1 DEF Busy
  <2>2. \A c \in active : Busy(c) /\ ~Sequential => c \in active'
    BY <1>0, <1>1 DEF Busy, Ended, Finished, SuiteInv, Steps, TypeOK
  <2>3. Cardinality(active') <= parallel'
    BY <1>0, <1>1, <1>2, Slots, FS_CardinalityType DEF SlotInv
  <2> QED
    BY <1>0, <1>1, <1>2, <1>3, <2>1, <2>2, <2>3 DEF SlotInv
<1>7. OutcomeInv'
  <2>1. ASSUME NEW c \in active, c \notin active', suite[c] # "ok"
        PROVE  failed' > 0
    <3>1. c \in bad
      BY <1>1, <2>1 DEF Ended, Finished
    <3>2. Cardinality(bad) # 0
      BY <1>2, <3>1, FS_EmptySet
    <3> HIDE DEF bad
    <3> QED
      BY <1>0, <1>1, <1>2, <3>2, Slots
  <2> HIDE DEF bad
  <2> QED
    BY <1>0, <1>1, <1>3, <2>1, Slots DEF OutcomeInv
<1> QED
  BY <1>4, <1>5, <1>6, <1>7 DEF RunInv

\* The suite that the script waits for returns.
LEMMA NextReturns ==
    ASSUME RunInv, SuiteReturns
    PROVE  RunInv'
<1> USE DEF flags, benchVars, awsVars, SuiteReturns
<1> DEFINE c == CaseList[next - 1]
<1>0. TypeOK /\ SuiteInv /\ SlotInv /\ OutcomeInv /\ LeftoverInv
  BY DEF RunInv
<1>1. /\ UNCHANGED <<parallel, next, active, failed, reported, suite, bench, rows>>
      /\ (Sequential)' = Sequential /\ (Submitted)' = Submitted
      /\ Sequential /\ main' \in {"exit1", "report", "submit"}
  BY <1>0 DEF Sequential, Submitted, SlotInv
<1>2. next - 1 \in 1..Len(CaseList) /\ c \in Cases /\ suite[c] \in {"ok", "failed"}
  <2>1. next - 1 \in 1..Len(CaseList)
    BY <1>0, <1>1, Numbers DEF TypeOK, SlotInv
  <2> QED
    BY <2>1, Numbers DEF Ended, Finished
<1>3. TypeOK'
  BY <1>0, <1>1 DEF TypeOK
<1>4. SuiteInv' /\ LeftoverInv'
  BY <1>0 DEF SuiteInv, LeftoverInv
<1>5. SlotInv'
  <2>1. \A d \in Cases : Busy(d)' <=> Busy(d)
    BY <1>1 DEF Busy
  <2>2. ~Busy(c)
    BY <1>0, <1>2 DEF Busy, Finished, SuiteInv, Steps
  <2>3. \A d \in Cases : ~Busy(d)
    BY <1>0, <1>1, <2>2 DEF SlotInv
  <2> QED
    BY <1>0, <1>1, <2>1, <2>3 DEF SlotInv
<1>6. OutcomeInv'
  <2>1. CASE suite[c] = "failed"
    BY <1>1, <2>1 DEF OutcomeInv
  <2>2. CASE suite[c] = "ok"
    <3>1. \A k \in 1..Len(CaseList) : k < next => suite[CaseList[k]] = "ok"
      <4>1. \A k \in 1..Len(CaseList) : k < next => k < next - 1 \/ k = next - 1
        BY <1>0, Slots, Numbers
      <4> QED
        BY <1>0, <1>1, <2>2, <4>1 DEF OutcomeInv
    <3>2. Submitted => \A d \in Cases : suite[d] = "ok"
      BY <1>0, <3>1, Numbers, Slots DEF Submitted
    <3> QED
      BY <1>1, <2>2, <3>1, <3>2 DEF OutcomeInv
  <2> QED
    BY <1>2, <2>1, <2>2
<1> QED
  BY <1>3, <1>4, <1>5, <1>6 DEF RunInv

\* The script waits for its last jobs, then reports them or fails.
LEMMA NextDrain ==
    ASSUME RunInv, Drain
    PROVE  RunInv'
<1> USE DEF flags, benchVars, awsVars, Drain
<1>0. TypeOK /\ SuiteInv /\ SlotInv /\ OutcomeInv /\ LeftoverInv
  BY DEF RunInv
<1>1. /\ UNCHANGED <<parallel, next, active, failed, reported, suite, bench, rows>>
      /\ (Sequential)' = Sequential /\ (Submitted)' = Submitted
      /\ ~Sequential /\ main' \in {"exit1", "report", "drain"}
  BY DEF Sequential, Submitted
<1>2. TypeOK'
  BY <1>0, <1>1 DEF TypeOK
<1>3. SuiteInv' /\ LeftoverInv'
  BY <1>0 DEF SuiteInv, LeftoverInv
<1>4. SlotInv'
  <2>1. \A d \in Cases : Busy(d)' <=> Busy(d)
    BY <1>1 DEF Busy
  <2> QED
    BY <1>0, <1>1, <2>1 DEF SlotInv
<1>5. OutcomeInv'
  <2>1. main' = "report" => \A d \in Cases : suite[d] = "ok"
    <3>1. SUFFICES ASSUME main = "drain", active = {}, ~(failed > 0)
                   PROVE  \A d \in Cases : suite[d] = "ok"
      OBVIOUS
    <3>2. \A k \in 1..Len(CaseList) : k < next
      BY <1>0, <3>1, Numbers, Slots DEF OutcomeInv, Submitted
    <3> QED
      BY <1>0, <1>1, <3>1, <3>2, Numbers DEF OutcomeInv
  <2>2. main' = "drain" => Submitted /\ main = "submit"
    BY <1>0, <1>1
  <2> QED
    BY <1>0, <1>1, <2>1, <2>2 DEF OutcomeInv
<1> QED
  BY <1>2, <1>3, <1>4, <1>5 DEF RunInv

\* The script lists the results.
LEMMA NextReport ==
    ASSUME RunInv, Report
    PROVE  RunInv'
<1> USE DEF flags, benchVars, awsVars, Report
<1>0. TypeOK /\ SuiteInv /\ SlotInv /\ OutcomeInv /\ LeftoverInv
  BY DEF RunInv
<1>1. /\ UNCHANGED <<parallel, next, active, failed, suite, bench, rows>>
      /\ (Sequential)' = Sequential /\ (Submitted)' = Submitted
  BY DEF Sequential, Submitted
<1>2. TypeOK'
  BY <1>0 DEF TypeOK
<1>3. SuiteInv' /\ LeftoverInv'
  BY <1>0 DEF SuiteInv, LeftoverInv
<1>4. SlotInv'
  <2>1. \A d \in Cases : Busy(d)' <=> Busy(d)
    BY <1>1 DEF Busy
  <2> QED
    BY <1>0, <1>1, <2>1 DEF SlotInv
<1>5. OutcomeInv'
  <2>1. \A c \in Cases : suite[c] = "ok" /\ bench[c] = "ended"
    BY <1>0 DEF OutcomeInv, SuiteInv
  <2>2. reported' = {c \in Cases : rows[c]}
    BY <2>1
  <2> QED
    BY <1>1, <2>1, <2>2 DEF OutcomeInv
<1> QED
  BY <1>2, <1>3, <1>4, <1>5 DEF RunInv

\* The script is interrupted.
LEMMA NextInterrupt ==
    ASSUME RunInv, Interrupt
    PROVE  RunInv'
<1> USE DEF flags, benchVars, awsVars, Interrupt
<1> DEFINE c == CaseList[next - 1]
<1>0. TypeOK /\ SuiteInv /\ SlotInv /\ OutcomeInv /\ LeftoverInv
  BY DEF RunInv
<1>1. /\ UNCHANGED <<parallel, next, active, failed, reported, bench, rows>>
      /\ (Sequential)' = Sequential /\ main' = "exit1"
  BY DEF Sequential
<1>2. main = "suite" => Sequential /\ next - 1 \in 1..Len(CaseList) /\ next > 1
  BY <1>0, Numbers DEF TypeOK, SlotInv
<1>3. \A d \in Cases : suite'[d] = suite[d] \/ (suite'[d] = "gone" /\ main = "suite" /\ d = c)
  BY <1>0 DEF TypeOK
<1>4. TypeOK'
  <2>1. suite' \in [Cases -> {"idle", "prepare", "envwait", "wait", "sleep", "gone"}
                               \union Finished]
    BY <1>0 DEF TypeOK
  <2>2. faults' \in 0..MaxFaults
    BY <1>0, BoundsAssumption DEF TypeOK, Fault
  <2> QED
    BY <1>0, <2>1, <2>2 DEF TypeOK
<1> HIDE DEF c
<1>5. SuiteInv'
  <2>1. \A k \in 1..Len(CaseList) : k >= next => suite'[CaseList[k]] = suite[CaseList[k]]
    <3>1. ASSUME NEW k \in 1..Len(CaseList), k >= next, main = "suite"
          PROVE  CaseList[k] # c
      BY <1>0, <1>2, <3>1, Numbers DEF c, TypeOK
    <3> QED
      BY <1>3, <3>1, Numbers
  <2> QED
    BY <1>0, <1>1, <1>3, <2>1 DEF SuiteInv
<1>6. LeftoverInv'
  BY <1>0 DEF LeftoverInv
<1>7. SlotInv'
  <2>1. \A d \in Cases : Busy(d)' => Busy(d) \/ (main = "suite" /\ d = c)
    BY <1>1, <1>3 DEF Busy
  <2> QED
    BY <1>0, <1>1, <1>2, <2>1 DEF SlotInv, c
<1>8. OutcomeInv'
  BY <1>1 DEF OutcomeInv
<1> QED
  BY <1>4, <1>5, <1>6, <1>7, <1>8 DEF RunInv

\* The terminal hangs up: whatever lives dies.
LEMMA NextHangup ==
    ASSUME RunInv, Hangup
    PROVE  RunInv'
<1> USE DEF flags, benchVars, awsVars, Hangup
<1>0. TypeOK /\ SuiteInv /\ SlotInv /\ OutcomeInv /\ LeftoverInv
  BY DEF RunInv
<1>1. /\ UNCHANGED <<parallel, next, active, failed, reported, rows>>
      /\ (Sequential)' = Sequential /\ main' = "exit1"
  BY DEF Sequential
<1>2. \A c \in Cases :
         /\ suite'[c] = suite[c] \/ (suite'[c] = "gone" /\ suite[c] # "idle" /\ ~Ended(c))
         /\ bench'[c] = IF bench[c] \in Steps THEN "died" ELSE bench[c]
         /\ bench[c] \notin Steps => cloud'[c] = cloud[c] /\ blame'[c] = blame[c]
         /\ \A b \in {"artifacts", "upload"} : b \in blame'[c] <=> b \in blame[c]
  BY DEF Kill, Alive, AfterKill
<1>8. \A c \in Cases : bench[c] \notin Steps => (objects'[c] <=> objects[c])
  BY DEF Kill, Alive
<1>3. TypeOK'
  <2>1. suite' \in [Cases -> {"idle", "prepare", "envwait", "wait", "sleep", "gone"}
                               \union Finished]
    BY <1>0 DEF TypeOK
  <2>2. faults' \in 0..MaxFaults
    BY <1>0, BoundsAssumption DEF TypeOK, Fault
  <2>3. bench' \in [Cases -> Steps \union {"none", "ended", "died"}]
    BY <1>0 DEF TypeOK, Kill
  <2>4. blame' \in [Cases -> SUBSET {"destroy", "artifacts", "upload", "died"}]
    BY <1>0 DEF TypeOK, Kill
  <2>5. DOMAIN cloud' = Cases /\ \A c \in Cases : cloud'[c] \subseteq Resources(c)
    BY <1>0, RemnantIsLess DEF TypeOK, Kill, AfterKill
  <2>6. objects' \in [Cases -> BOOLEAN]
    BY DEF Kill
  <2>7. mon' \in [Cases -> {"none", "running", "killed", "saved"}]
    BY <1>0 DEF TypeOK
  <2> QED
    BY <1>0, <1>1, <2>1, <2>2, <2>3, <2>4, <2>5, <2>6, <2>7 DEF TypeOK
<1>4. SuiteInv'
  <2>1. \A c \in Cases : /\ suite'[c] \in {"idle", "prepare"} => bench'[c] = "none"
                         /\ suite'[c] \in {"sleep", "ok"} => bench'[c] = "ended"
                         /\ suite'[c] = "failed" => bench'[c] \in {"none", "died"}
    BY <1>0, <1>2 DEF SuiteInv, Steps
  <2>2. \A k \in 1..Len(CaseList) : k >= next' => suite'[CaseList[k]] = "idle"
    BY <1>0, <1>1, <1>2, Numbers DEF SuiteInv
  <2> QED
    BY <2>1, <2>2 DEF SuiteInv
<1>5. LeftoverInv'
  BY <1>0, <1>2, <1>8 DEF LeftoverInv, Steps
<1>6. SlotInv'
  <2>1. \A c \in Cases : Busy(c)' => Busy(c)
    BY <1>2 DEF Busy, Steps, Ended, Finished
  <2> QED
    BY <1>0, <1>1, <2>1 DEF SlotInv
<1>7. OutcomeInv'
  BY <1>1 DEF OutcomeInv
<1> QED
  BY <1>3, <1>4, <1>5, <1>6, <1>7 DEF RunInv

LEMMA NextRunInv ==
    ASSUME RunInv, Next
    PROVE  RunInv'
  BY NextInline, NextReturns, NextBackground, NextReap, NextDrain, NextReport,
     NextInterrupt, NextHangup, NextSuite, NextBench, NextMonitor
     DEF Next, Main

-----------------------------------------------------------------------------
(* The cleanup.                                                            *)

\* Nothing of the run changes but what is in AWS, of which there is less.
LEMMA CleanupShrinks ==
    ASSUME LifecycleTypeOK, RunInv, CleanupStep
    PROVE  /\ UNCHANGED testVars
           /\ DOMAIN cloud' = Cases /\ \A c \in Cases : cloud'[c] \subseteq cloud[c]
           /\ objects' \in [Cases -> BOOLEAN] /\ \A c \in Cases : objects'[c] => objects[c]
<1> USE DEF TerminateInstances, TerminateFails, DeleteGroups, DeleteKeyPairs,
            DeleteKeyPairFails, CleanupIam, CleanupArtifacts, testVars, flags, mainVars, benchVars, awsVars
<1>0. DOMAIN cloud = Cases /\ objects \in [Cases -> BOOLEAN]
  BY DEF LifecycleTypeOK, TypeOK
<1>1. UNCHANGED testVars
  BY DEF CleanupStep, vars
<1>2. DOMAIN cloud' = Cases /\ \A c \in Cases : cloud'[c] \subseteq cloud[c]
  BY <1>0 DEF CleanupStep, vars, DeleteAllBut
<1>3. objects' = objects \/ objects' = [c \in Cases |-> FALSE]
  BY DEF CleanupStep, vars
<1>4. objects' \in [Cases -> BOOLEAN] /\ \A c \in Cases : objects'[c] => objects[c]
  BY <1>0, <1>3, Zenon
<1> QED
  BY <1>1, <1>2, <1>4

\* The invariant of the run needs no more than that.
LEMMA RunInvShrinks ==
    ASSUME RunInv, UNCHANGED testVars,
           DOMAIN cloud' = Cases, \A c \in Cases : cloud'[c] \subseteq cloud[c],
           objects' \in [Cases -> BOOLEAN], \A c \in Cases : objects'[c] => objects[c]
    PROVE  RunInv'
<1> USE DEF testVars, flags, mainVars, benchVars
<1>0. TypeOK /\ SuiteInv /\ SlotInv /\ OutcomeInv /\ LeftoverInv
  BY DEF RunInv
<1>2. TypeOK'
  BY <1>0 DEF TypeOK
<1>3. SuiteInv'
  BY <1>0 DEF SuiteInv
<1>4. SlotInv'
  <2>1. (Sequential)' = Sequential /\ \A c \in Cases : Busy(c)' <=> Busy(c)
    BY DEF Sequential, Busy
  <2> QED
    BY <1>0, <2>1 DEF SlotInv
<1>5. OutcomeInv'
  <2>1. (Sequential)' = Sequential /\ (Submitted)' = Submitted
    BY DEF Sequential, Submitted
  <2> QED
    BY <1>0, <2>1 DEF OutcomeInv
<1>6. LeftoverInv'
  BY <1>0 DEF LeftoverInv
<1> QED
  BY <1>2, <1>3, <1>4, <1>5, <1>6 DEF RunInv

LEMMA RunInvIsOfTheRun ==
    ASSUME RunInv, UNCHANGED <<testVars, awsVars>>
    PROVE  RunInv'
  BY RunInvShrinks DEF awsVars, RunInv, TypeOK

\* The list of regions names every region, and nothing else.
LEMMA RegionsInOrder ==
    /\ Len(RegionList) \in Nat \ {0}
    /\ \A k \in 1..Len(RegionList) : RegionList[k] \in Regions
    /\ \A r \in Regions : \E k \in 1..Len(RegionList) : RegionList[k] = r
<1>1. RegionList \in Seq(Regions) /\ RegionList # <<>>
      /\ DOMAIN RegionList = 1..Len(RegionList)
  BY RegionListAssumption
<1> QED
  BY <1>1, RegionListAssumption

LEMMA CleanupTypeOK ==
    ASSUME LifecycleTypeOK, RunInv', CleanupStep
    PROVE  LifecycleTypeOK'
<1> USE DEF TerminateInstances, TerminateFails, DeleteGroups, DeleteKeyPairs,
            DeleteKeyPairFails, CleanupIam, CleanupArtifacts
<1>1. phase' \in {"off", "instance", "group", "key", "iam", "s3", "done", "aborted"}
  BY DEF CleanupStep
<1>2. index' \in 1..Len(RegionList)
  BY RegionsInOrder DEF CleanupStep, LifecycleTypeOK
<1>3. unclean' \subseteq {"group", "key", "iam", "s3"} \X (Regions \union {"global"})
  <2>1. phase \in {"group", "key"} => Here \in Regions
    BY RegionsInOrder DEF LifecycleTypeOK, Here
  <2> QED
    BY <2>1 DEF CleanupStep, DeleteAllBut, LifecycleTypeOK
<1> QED
  BY <1>1, <1>2, <1>3 DEF LifecycleTypeOK, RunInv

\* What a call that succeeds deletes is gone, and what is gone stays so.
LEMMA CleanupCleans ==
    ASSUME LifecycleTypeOK, RunInv, CleanInv, CleanupStep
    PROVE  CleanInv'
<1>0. /\ DOMAIN cloud' = Cases /\ \A c \in Cases : cloud'[c] \subseteq cloud[c]
      /\ \A c \in Cases : objects'[c] => objects[c]
  BY CleanupShrinks
<1>1. unclean \subseteq unclean'
  BY DEF CleanupStep, TerminateInstances, TerminateFails, DeleteGroups, DeleteKeyPairs,
         DeleteKeyPairFails, CleanupIam, CleanupArtifacts, DeleteAllBut
<1>2. \A r : Cleaned(r) => Cleaned(r)'
  BY <1>0, <1>1 DEF Cleaned
<1>3. CASE TerminateInstances
  <2>1. phase = "instance" /\ phase' = "group" /\ index' = index /\ (Here)' = Here
    BY <1>3 DEF TerminateInstances, Here
  <2>2. \A c \in Cases : <<"instance", Here>> \notin cloud'[c]
    BY <1>3 DEF TerminateInstances, DeleteAllBut
  <2> QED
    BY <1>2, <2>1, <2>2 DEF CleanInv
<1>4. CASE TerminateFails \/ DeleteKeyPairFails
  BY <1>4 DEF TerminateFails, DeleteKeyPairFails, CleanInv
<1>5. CASE DeleteGroups
  <2>1. phase = "group" /\ phase' = "key" /\ index' = index /\ (Here)' = Here
    BY <1>5 DEF DeleteGroups, Here
  <2>2. \A c \in Cases : <<"group", Here>> \in cloud'[c] => <<"group", Here>> \in unclean'
    BY <1>5 DEF DeleteGroups, DeleteAllBut, Having
  <2> QED
    BY <1>0, <1>2, <2>1, <2>2 DEF CleanInv
<1>6. CASE DeleteKeyPairs
  <2>1. phase = "key" /\ unclean' = unclean
        /\ \/ index = Len(RegionList) /\ phase' = "iam"
           \/ index # Len(RegionList) /\ phase' = "instance" /\ index' = index + 1
    BY <1>6 DEF DeleteKeyPairs, DeleteAllBut
  <2>2. index \in 1..Len(RegionList)
    BY DEF LifecycleTypeOK
  <2>3. \A c \in Cases : <<"key", Here>> \notin cloud'[c]
    BY <1>6 DEF DeleteKeyPairs, DeleteAllBut
  <2>4. PICK r \in Regions : r = RegionList[index]
    BY <2>2, RegionsInOrder
  <2>8. Cleaned(r)'
    <3>1. \A c \in Cases : /\ <<"instance", r>> \notin cloud[c] /\ <<"key", r>> \notin cloud'[c]
                           /\ <<"group", r>> \in cloud[c] => <<"group", r>> \in unclean
      BY <2>1, <2>3, <2>4 DEF CleanInv, Here
    <3> QED
      BY <1>0, <1>1, <3>1 DEF Cleaned
  <2>5. \A k \in 1..index : Cleaned(RegionList[k])'
    <3>1. \A k \in 1..index : k \in 1..index - 1 \/ k = index
      BY <2>2, RegionsInOrder
    <3> QED
      BY <1>2, <2>1, <2>4, <2>8, <3>1 DEF CleanInv
  <2>6. CASE phase' = "iam"
    <3>1. \A q \in Regions : Cleaned(q)'
      BY <2>1, <2>5, <2>6, RegionsInOrder
    <3> QED
      BY <2>6, <3>1 DEF CleanInv
  <2>7. CASE phase' = "instance"
    <3>1. index' - 1 = index
      BY <2>1, <2>2, <2>7, RegionsInOrder
    <3> QED
      BY <2>5, <2>7, <3>1 DEF CleanInv
  <2> QED
    BY <2>1, <2>6, <2>7
<1>7. CASE CleanupIam
  <2>1. phase = "iam" /\ phase' = "s3"
    BY <1>7 DEF CleanupIam
  <2>2. \A c \in Cases : <<"iam", "global">> \in cloud'[c] => <<"iam", "global">> \in unclean'
    BY <1>7 DEF CleanupIam, DeleteAllBut, Having
  <2> QED
    BY <1>2, <2>1, <2>2 DEF CleanInv
<1>8. CASE CleanupArtifacts
  <2>1. phase = "s3" /\ phase' = "done"
    BY <1>8 DEF CleanupArtifacts
  <2>2. \A c \in Cases : objects'[c] => <<"s3", "global">> \in unclean'
    BY <1>8 DEF CleanupArtifacts
  <2> QED
    BY <1>0, <1>1, <1>2, <2>1, <2>2 DEF CleanInv
<1> QED
  BY <1>3, <1>4, <1>5, <1>6, <1>7, <1>8 DEF CleanupStep

-----------------------------------------------------------------------------
(* The run and the cleanup after it.                                       *)

LEMMA InitIInv == LifecycleInit => IInv
<1> SUFFICES ASSUME LifecycleInit PROVE IInv
    OBVIOUS
<1>1. RunInv
  BY InitRunInv DEF LifecycleInit
<1>2. 1 \in 1..Len(RegionList)
  BY RegionsInOrder
<1>3. LifecycleTypeOK
  BY <1>1, <1>2 DEF LifecycleInit, LifecycleTypeOK, RunInv
<1>4. CleanInv
  BY DEF LifecycleInit, CleanInv
<1> QED
  BY <1>1, <1>3, <1>4 DEF IInv

LEMMA NextIInv == IInv /\ [LifecycleNext]_allVars => IInv'
<1> SUFFICES ASSUME IInv, [LifecycleNext]_allVars PROVE IInv'
    OBVIOUS
<1>0. RunInv /\ LifecycleTypeOK /\ CleanInv
  BY DEF IInv
<1>1. CASE RunStep
  <2>1. RunInv'
    BY <1>0, <1>1, NextRunInv DEF RunStep
  <2>2. LifecycleTypeOK'
    BY <1>0, <1>1, <2>1 DEF RunStep, cleanupVars, LifecycleTypeOK, RunInv
  <2>3. CleanInv'
    BY <1>0, <1>1 DEF RunStep, cleanupVars, CleanInv
  <2> QED
    BY <2>1, <2>2, <2>3 DEF IInv
<1>2. CASE Start
  <2>1. RunInv'
    <3>1. UNCHANGED <<testVars, awsVars>>
      BY <1>2 DEF Start, vars, testVars
    <3> QED
      BY <1>0, <3>1, RunInvIsOfTheRun
  <2>2. LifecycleTypeOK'
    BY <1>0, <1>2, <2>1 DEF Start, LifecycleTypeOK, RunInv
  <2>3. CleanInv'
    <3>1. phase' = "instance" /\ index = 1 /\ index' = 1
      BY <1>0, <1>2 DEF Start, CleanInv
    <3> QED
      BY <3>1 DEF CleanInv
  <2> QED
    BY <2>1, <2>2, <2>3 DEF IInv
<1>3. CASE CleanupStep
  BY <1>0, <1>3, CleanupShrinks, RunInvShrinks, CleanupTypeOK, CleanupCleans DEF IInv
<1>4. CASE UNCHANGED allVars
  <2>1. RunInv'
    <3>1. UNCHANGED <<testVars, awsVars>>
      BY <1>4 DEF allVars, vars, testVars
    <3> QED
      BY <1>0, <3>1, RunInvIsOfTheRun
  <2>2. LifecycleTypeOK'
    BY <1>0, <1>4, <2>1 DEF allVars, cleanupVars, LifecycleTypeOK, RunInv
  <2>3. CleanInv'
    <3>1. UNCHANGED <<phase, index, unclean, cloud, objects>>
      BY <1>4 DEF allVars, vars, cleanupVars, awsVars
    <3>2. (Here)' = Here /\ \A r : Cleaned(r)' <=> Cleaned(r)
      BY <3>1 DEF Here, Cleaned
    <3> QED
      BY <1>0, <3>1, <3>2 DEF CleanInv
  <2> QED
    BY <2>1, <2>2, <2>3 DEF IInv
<1> QED
  BY <1>1, <1>2, <1>3, <1>4 DEF LifecycleNext

LEMMA AlwaysIInv == LifecycleSpec => []IInv
  BY InitIInv, NextIInv, PTL DEF LifecycleSpec

\* Whatever fails, is interrupted or killed, a benchmark that came to its end
\* left nothing in AWS but what a removal that failed left, or an upload that failed
\* half-way: the finally blocks of distributed_benchmark.py, for every list of cases.
THEOREM EndedIsClean == LifecycleSpec => []EndedLeavesNothing
<1>1. IInv => EndedLeavesNothing
  BY DEF IInv, RunInv, LeftoverInv, EndedLeavesNothing
<1> QED
  BY <1>1, AlwaysIInv, PTL

\* At most PARALLEL_CASES benchmarks run at a time: each has a slot of the
\* script, also when the script that gave it is gone.
THEOREM ParallelIsBounded == LifecycleSpec => []ParallelBound
<1>1. ASSUME IInv PROVE ParallelBound
  <2> DEFINE up == {c \in Cases : bench[c] \in Steps}
  <2>0. TypeOK /\ SlotInv
    BY <1>1 DEF IInv, RunInv
  <2>1. \A c \in up : Busy(c)
    BY DEF Busy
  <2>2. CASE Sequential
    <3>1. PICK x : \A c \in up : c = x
      BY <2>0, <2>1, <2>2 DEF SlotInv
    <3>2. up \subseteq {x}
      BY <3>1
    <3>3. IsFiniteSet({x}) /\ Cardinality({x}) = 1
      BY FS_Singleton
    <3> HIDE DEF up
    <3>4. Cardinality(up) <= 1
      BY <3>2, <3>3, FS_Subset
    <3> QED
      BY <2>2, <3>4 DEF ParallelBound, Sequential, up
  <2>3. CASE ~Sequential
    <3>1. up \subseteq active
      BY <2>0, <2>1, <2>3 DEF SlotInv
    <3> HIDE DEF up
    <3>2. IsFiniteSet(up) /\ Cardinality(up) <= Cardinality(active)
      BY <2>0, <3>1, FS_Subset DEF SlotInv
    <3>3. Cardinality(up) <= parallel
      BY <2>0, <3>2, FS_CardinalityType, Slots DEF SlotInv
    <3> QED
      BY <3>3 DEF ParallelBound, up
  <2> QED
    BY <2>2, <2>3
<1> QED
  BY <1>1, AlwaysIInv, PTL

\* A script that reports success has seen every benchmark through, and its
\* report has all the results there are.
THEOREM SuccessIsComplete == LifecycleSpec => []ReportIsComplete
<1>1. IInv => ReportIsComplete
  BY DEF IInv, RunInv, SuiteInv, OutcomeInv, ReportIsComplete
<1> QED
  BY <1>1, AlwaysIInv, PTL

\* A cleanup that completed left, of each kind and in each place, only what a failing
\* call for that kind and place left: for every list of regions, each was visited.
THEOREM CleanupIsComplete == LifecycleSpec => []CompletedMeansClean
<1>1. ASSUME IInv, phase = "done" PROVE CompletedMeansClean
  <2>0. LifecycleTypeOK /\ CleanInv
    BY <1>1 DEF IInv
  <2>1. ASSUME NEW c \in Cases, NEW x \in cloud[c]
        PROVE  x \in unclean
    <3>1. x \in Resources(c) /\ RegionsOf[c] \subseteq Regions
      BY <2>0 DEF LifecycleTypeOK, TypeOK, Regions
    <3>2. CASE x = <<"iam", "global">>
      BY <1>1, <2>0, <2>1, <3>2 DEF CleanInv
    <3>3. CASE x \in Zonal \X RegionsOf[c]
      <4>1. PICK kind \in Zonal, r \in Regions : x = <<kind, r>>
        BY <3>1, <3>3
      <4>2. Cleaned(r)
        BY <1>1, <2>0 DEF CleanInv
      <4>3. kind = "group" /\ <<"group", r>> \in unclean
        BY <2>1, <4>1, <4>2 DEF Zonal, Cleaned
      <4> QED
        BY <4>1, <4>3
    <3> QED
      BY <3>1, <3>2, <3>3 DEF Resources
  <2> QED
    BY <1>1, <2>0, <2>1 DEF CleanInv, CompletedMeansClean
<1>2. IInv => CompletedMeansClean
  BY <1>1 DEF CompletedMeansClean
<1> QED
  BY <1>2, AlwaysIInv, PTL

-----------------------------------------------------------------------------
(* A benchmark process and the metrics collector                           *)

\* Whom the k-th request of a round asks.
NodeOf(k) == NodeList[IF k <= Len(NodeList) THEN k ELSE k - Len(NodeList)]
ProtocolOf(k) == IF k <= Len(NodeList) THEN "quic" ELSE "tcp"

HasJoined(d) == daemon[d] \in {"serving", "lost"}

\* The process goes on with a cluster that it takes for ready.
Measuring ==
    \/ step = "cleanup" /\ raised = "none"
    \/ step \in {"baseline", "run", "sample"} /\ plan.deploy

PlaceInv ==
    /\ remote \in [Nodes -> {"none", "fetch", "launch", "check", "success", "failed"}]
    /\ daemon \in [Daemons -> {"absent", "starting", "serving", "dead", "lost"}]
    /\ step \in {"ssm", "send", "poll"} => at \in 1..Len(NodeList)
    /\ step = "ready" => at \in 1..Requests + 1
    /\ step = "load" => ~plan.deploy

\* A script that has succeeded is over: the driver sends none to a node that has
\* had its own, and nothing resets the node's daemons any more.
SentInv ==
    /\ step \in {"send", "poll"} => \A k \in 1..at - 1 : remote[NodeList[k]] = "success"
    /\ step = "ready" \/ Measuring => \A n \in Nodes : remote[n] = "success"

\* A node that has answered in this round had joined, and one that has joined may
\* be lost but never goes back.
JoinedInv ==
    /\ step = "ready" /\ ~missed => \A k \in 1..at - 1 : HasJoined(<<NodeOf(k), ProtocolOf(k)>>)
    /\ Measuring => \A d \in Daemons : HasJoined(d)

DeployInv == PlaceInv /\ SentInv /\ JoinedInv

-----------------------------------------------------------------------------
(* The invariant of main                                                   *)

InDeploy == {"ssm", "send", "poll", "ready", "cleanup"}
InMeasure == {"baseline", "run", "sample"}

\* A process that ends without an interrupt has gone through its command line.
TurnInv ==
    /\ plan \in Plans /\ turn \in 0..Len(plan.cases)
    /\ turn = 0 => step \in {"next", "report", "exit"}
    /\ step = "report" \/ (step = "exit" /\ raised # "fatal") => turn = Len(plan.cases)

\* The step of AwsTestRun's benchmark that the case under way is at, and that
\* the ones after it have not begun.
StageInv ==
    /\ bench \in [Cases -> Steps \union {"none", "ended", "died"}]
    /\ blame \in [Cases -> SUBSET {"destroy", "artifacts", "upload", "died"}]
    /\ \A c \in Cases :
          bench[c] \in {"none", "deploy", "config", "upload", "services"} => blame[c] = {}
    /\ plan.deploy =>
          /\ step # "load"
          /\ step = "aws" => bench[Case] \in {"deploy", "config", "upload", "teardown"}
          /\ step \in InDeploy => bench[Case] = "services"
          /\ step \in InMeasure => bench[Case] = "measure"
          /\ \A k \in 1..Len(plan.cases) : k > turn => bench[plan.cases[k]] = "none"
    /\ ~plan.deploy => step \notin {"aws"} \union InDeploy

\* The failures that the case under way may still add without a call that fails.
Left == IF step = "load" \/ step \in InDeploy \/ (step = "aws" /\ bench[Case] # "teardown") THEN 2
        ELSE IF step \in InMeasure THEN 1 ELSE 0

RoomInv ==
    /\ trouble \in Nat /\ faults \in Nat
    /\ faults + Left <= MaxTrouble + 2 * turn

HasRow(p, c) ==
    \E r \in results : r.protocol = p /\ r.size = SizeOf[c] /\ r.scenario = ScenarioOf[c]
HasRows(c) == HasRow("quic", c) /\ HasRow("tcp", c)

\* The try block of the k-th case is over.
Past(k) ==
    \/ k < turn
    \/ k = turn /\ \/ step \in {"next", "report"}
                   \/ step = "exit" /\ raised # "fatal"
                   \/ step = "aws" /\ bench[Case] = "teardown"

\* A case leaves its try block by an exception or with both rows.
RowsInv ==
    /\ \A r \in results : r.protocol \in {"quic", "tcp"}
    /\ step = "run" => at \in 1..2 /\ (at = 2 => HasRow("quic", Case))
    /\ step = "sample" => HasRows(Case)
    /\ \A k \in 1..turn : Past(k) => plan.cases[k] \in broken \/ HasRows(plan.cases[k])
    /\ step = "report" \/ (step = "exit" /\ raised # "fatal") => saved = results

MainInv == TurnInv /\ StageInv /\ RoomInv /\ RowsInv

-----------------------------------------------------------------------------
(* Positions                                                               *)

\* Every node has its place in NodeList, and only one.
LEMMA Places ==
    /\ Len(NodeList) \in Nat /\ Len(NodeList) >= 3
    /\ \A k \in 1..Len(NodeList) : NodeList[k] \in Nodes
    /\ \A n \in Nodes : \E k \in 1..Len(NodeList) : NodeList[k] = n
  BY NodeListAssumption DEF Nodes

\* The requests of a round ask every daemon.
LEMMA EveryDaemonIsAsked ==
    \A d \in Daemons : \E k \in 1..Requests : <<NodeOf(k), ProtocolOf(k)>> = d
  <1> SUFFICES ASSUME NEW n \in Nodes, NEW p \in {"quic", "tcp"}
               PROVE  \E k \in 1..Requests : <<NodeOf(k), ProtocolOf(k)>> = <<n, p>>
    BY DEF Daemons
  <1>1. PICK k \in 1..Len(NodeList) : NodeList[k] = n
    BY Places
  <1>2. CASE p = "quic"
    <2>1. k \in 1..Requests /\ NodeOf(k) = n /\ ProtocolOf(k) = "quic"
      BY <1>1, Places DEF Requests, NodeOf, ProtocolOf
    <2> QED BY <2>1, <1>2
  <1>3. CASE p = "tcp"
    <2> DEFINE j == Len(NodeList) + k
    <2>1. j \in 1..Requests /\ ~(j <= Len(NodeList)) /\ j - Len(NodeList) = k
      BY Places DEF Requests
    <2>2. NodeOf(j) = n /\ ProtocolOf(j) = "tcp"
      BY <2>1, <1>1 DEF NodeOf, ProtocolOf
    <2> QED BY <2>1, <2>2, <1>3
  <1> QED BY <1>2, <1>3

-----------------------------------------------------------------------------
(* Steps that leave the deployment or go on measuring                      *)

\* Where neither the deployment nor the measuring goes on, nothing is promised.
LEMMA Leaves ==
    ASSUME DeployInv, UNCHANGED <<remote, daemon>>,
           \/ step' \in {"aws", "next", "report", "exit"}
           \/ step' = "cleanup" /\ raised' # "none"
    PROVE  DeployInv'
  BY DEF DeployInv, PlaceInv, SentInv, JoinedInv, Measuring, HasJoined

\* Measuring asks nothing new of the cluster.
LEMMA GoesOnMeasuring ==
    ASSUME DeployInv, UNCHANGED <<remote, daemon, plan>>,
           plan.deploy => \/ step = "cleanup" /\ raised = "none"
                          \/ step \in {"baseline", "run", "sample"},
           step' \in {"baseline", "run", "sample"}
    PROVE  DeployInv'
  BY DEF DeployInv, PlaceInv, SentInv, JoinedInv, Measuring, HasJoined

-----------------------------------------------------------------------------
(* The driver                                                              *)

\* Each step of the try block of deploy, and of its finally block.
LEMMA DriverKeepsInv ==
    ASSUME DeployInv, Driver(Case, First), UNCHANGED plan
    PROVE  DeployInv'
  <1> USE DEF driver, cluster
  <1>1. CASE SsmNotYet
    <2>1. CASE tries > 1 /\ tries' = tries - 1 /\ UNCHANGED <<step, raised, at, missed, led>>
      BY <1>1, <2>1 DEF SsmNotYet, DeployInv, PlaceInv, SentInv, JoinedInv, Measuring
    <2>2. CASE Fail("error")
      BY <1>1, <2>2, Leaves DEF SsmNotYet, Fail
    <2> QED BY <1>1, <2>1, <2>2 DEF SsmNotYet
  <1>2. CASE SsmOnline
    <2>1. CASE at < Len(NodeList)
      BY <1>2, <2>1, Places
      DEF SsmOnline, DeployInv, PlaceInv, SentInv, JoinedInv, Measuring
    <2>2. CASE ~(at < Len(NodeList))
      BY <1>2, <2>2, Places
      DEF SsmOnline, Begin, DeployInv, PlaceInv, SentInv, JoinedInv, Measuring
    <2> QED BY <2>1, <2>2
  <1>3. CASE SendCommand
    <2>1. CASE Fail("error") /\ UNCHANGED remote
      BY <1>3, <2>1, Leaves DEF SendCommand, Fail
    <2>2. CASE /\ step' = "poll"
               /\ remote' = [remote EXCEPT ![NodeList[at]] = "fetch"]
               /\ UNCHANGED <<raised, at, missed, led, trouble>>
      <3>1. at \in 1..Len(NodeList) /\ UNCHANGED daemon /\ step = "send"
        BY <1>3 DEF SendCommand, DeployInv, PlaceInv
      <3>2. PlaceInv'
        BY <2>2, <3>1 DEF DeployInv, PlaceInv
      <3>3. ASSUME NEW k \in 1..at' - 1
            PROVE  remote'[NodeList[k]] = "success"
        <4>1. k \in 1..at - 1 /\ k \in 1..Len(NodeList) /\ k # at
          BY <2>2, <3>1, <3>3, Places
        <4>2. NodeList[k] # NodeList[at] /\ NodeList[k] \in Nodes
          BY <3>1, <4>1, NodeListAssumption, Places
        <4> QED BY <2>2, <3>1, <4>1, <4>2 DEF DeployInv, PlaceInv, SentInv
      <3> QED BY <2>2, <3>2, <3>3 DEF DeployInv, SentInv, JoinedInv, Measuring
    <2> QED BY <1>3, <2>1, <2>2 DEF SendCommand
  <1>4. CASE PollCommand
    <2>1. CASE tries > 1 /\ tries' = tries - 1 /\ UNCHANGED <<step, raised, at, missed, led>>
      BY <1>4, <2>1 DEF PollCommand, DeployInv, PlaceInv, SentInv, JoinedInv, Measuring
    <2>2. CASE Fail("error")
      BY <1>4, <2>2, Leaves DEF PollCommand, Fail
    <2> QED BY <1>4, <2>1, <2>2 DEF PollCommand
  <1>5. CASE CommandDone
    <2>1. /\ step = "poll" /\ remote[NodeList[at]] = "success" /\ at \in 1..Len(NodeList)
          /\ \A k \in 1..at - 1 : remote[NodeList[k]] = "success"
          /\ UNCHANGED <<remote, daemon>>
      BY <1>5 DEF CommandDone, DeployInv, PlaceInv, SentInv
    <2>2. \A k \in 1..at : remote[NodeList[k]] = "success"
      BY <2>1
    <2>3. CASE at < Len(NodeList)
      BY <1>5, <2>1, <2>2, <2>3, Places
      DEF CommandDone, DeployInv, PlaceInv, SentInv, JoinedInv, Measuring
    <2>4. CASE ~(at < Len(NodeList))
      <3>1. at = Len(NodeList)
        BY <2>1, <2>4, Places
      <3>2. step' = "ready" /\ at' = 1 /\ missed' = FALSE
        BY <1>5, <2>4 DEF CommandDone, Begin, NewRound
      <3>3. \A n \in Nodes : remote'[n] = "success"
        BY <2>1, <2>2, <3>1, Places
      <3> QED BY <2>1, <3>2, <3>3, Places
              DEF DeployInv, PlaceInv, SentInv, JoinedInv, Measuring, Requests
    <2> QED BY <2>3, <2>4
  <1>6. CASE FetchStatus
    <2>1. /\ step = "ready" /\ step' = "ready" /\ at \in 1..Requests /\ at' = at + 1
          /\ UNCHANGED <<remote, daemon>>
      BY <1>6, Places DEF FetchStatus, DeployInv, PlaceInv, Requests
    <2>2. ~missed' => ~missed /\ daemon[<<AskedNode, AskedProtocol>>] = "serving"
      BY <1>6, <2>1 DEF FetchStatus
    <2>3. AskedNode = NodeOf(at) /\ AskedProtocol = ProtocolOf(at)
      BY DEF AskedNode, AskedProtocol, NodeOf, ProtocolOf
    <2>4. ~missed' => \A k \in 1..at' - 1 : HasJoined(<<NodeOf(k), ProtocolOf(k)>>)
      <3> SUFFICES ASSUME ~missed', NEW k \in 1..at' - 1
                   PROVE  HasJoined(<<NodeOf(k), ProtocolOf(k)>>)
        OBVIOUS
      <3>1. CASE k = at
        BY <2>2, <2>3, <3>1 DEF HasJoined
      <3>2. CASE k # at
        <4>1. k \in 1..at - 1
          BY <2>1, <3>2, Places DEF Requests
        <4> QED BY <2>1, <2>2, <4>1 DEF DeployInv, JoinedInv
      <3> QED BY <3>1, <3>2
    <2>5. PlaceInv'
      BY <2>1, Places DEF DeployInv, PlaceInv, Requests
    <2>6. SentInv'
      BY <2>1 DEF DeployInv, SentInv, Measuring
    <2>7. JoinedInv'
      BY <2>1, <2>4 DEF JoinedInv, Measuring, HasJoined
    <2> QED BY <2>5, <2>6, <2>7 DEF DeployInv
  <1>7. CASE EndOfRound
    <2>1. step = "ready" /\ at > Requests /\ UNCHANGED <<remote, daemon>>
      BY <1>7 DEF EndOfRound
    <2>2. CASE ~missed /\ step' = "cleanup" /\ UNCHANGED <<raised, at, tries, missed, led>>
      <3>1. at = Requests + 1
        BY <2>1, Places DEF DeployInv, PlaceInv, Requests
      <3>2. \A k \in 1..Requests : HasJoined(<<NodeOf(k), ProtocolOf(k)>>)
        BY <2>1, <2>2, <3>1, Places DEF DeployInv, JoinedInv, Requests
      <3>3. \A d \in Daemons : HasJoined(d)
        BY <3>2, EveryDaemonIsAsked
      <3> QED BY <2>1, <2>2, <3>3
              DEF DeployInv, PlaceInv, SentInv, JoinedInv, Measuring, HasJoined
    <2>3. CASE Begin("ready", tries - 1) /\ NewRound
      BY <2>1, <2>3, Places
      DEF Begin, NewRound, Requests, DeployInv, PlaceInv, SentInv, JoinedInv, Measuring
    <2>4. CASE Fail("error")
      BY <2>1, <2>4, Leaves DEF Fail
    <2> QED BY <1>7, <2>2, <2>3, <2>4 DEF EndOfRound
  <1>8. CASE Cleanup(Case, First)
    <2>1. step = "cleanup" /\ UNCHANGED <<remote, daemon>>
          /\ (raised' = raised \/ raised' = "fatal")
      BY <1>8 DEF Cleanup
    <2>2. CASE raised' = "none"
      <3>1. raised = "none" /\ step' = First
        BY <1>8, <2>1, <2>2 DEF Cleanup
      <3> QED BY <2>1, <3>1, GoesOnMeasuring DEF First
    <2>3. CASE raised' # "none"
      BY <1>8, <2>1, <2>3, Leaves DEF Cleanup
    <2> QED BY <2>2, <2>3
  <1> QED BY <1>1, <1>2, <1>3, <1>4, <1>5, <1>6, <1>7, <1>8 DEF Driver

-----------------------------------------------------------------------------
(* The instances                                                           *)

\* What the scripts and the daemons do meanwhile: a script that has succeeded
\* stays so, and a daemon that has joined stays a member.
LEMMA InstanceKeepsInv ==
    ASSUME DeployInv, Instance(Case), UNCHANGED plan
    PROVE  DeployInv'
  <1> SUFFICES
        ASSUME UNCHANGED <<step, raised, at, missed, plan>>,
               /\ remote' \in [Nodes -> {"none", "fetch", "launch", "check", "success", "failed"}]
               /\ daemon' \in [Daemons -> {"absent", "starting", "serving", "dead", "lost"}],
               \A n \in Nodes : remote[n] = "success" => remote'[n] = "success",
               \A d \in Daemons : HasJoined(d) /\ remote[d[1]] = "success" => HasJoined(d)'
        PROVE  DeployInv'
    <2> USE DEF driver
    <2>1. PICK n \in Nodes :
             \/ Fetch(Case, n) \/ Launch(n) \/ CheckDaemons(n)
             \/ \E p \in {"quic", "tcp"} : Serve(n, p) \/ Dead(n, p) \/ Lost(n, p) \/ Elect(n, p)
      BY DEF Instance
    <2>2. CASE Fetch(Case, n) \/ CheckDaemons(n)
      BY <2>1, <2>2
      DEF Fetch, CheckDaemons, Script, DeployInv, PlaceInv, HasJoined
    <2>3. CASE Launch(n)
      <3>1. /\ remote[n] = "launch" /\ remote' = [remote EXCEPT ![n] = "check"]
            /\ daemon' = [d \in Daemons |-> IF d[1] = n THEN "starting" ELSE daemon[d]]
            /\ UNCHANGED <<step, raised, at, missed>>
        BY <2>3 DEF Launch, Script
      <3>2. \A d \in Daemons : remote[d[1]] = "success" => daemon'[d] = daemon[d]
        BY <3>1
      <3> QED BY <3>1, <3>2 DEF DeployInv, PlaceInv, HasJoined
    <2>4. ASSUME NEW p \in {"quic", "tcp"},
                 Serve(n, p) \/ Dead(n, p) \/ Lost(n, p) \/ Elect(n, p)
          PROVE  /\ UNCHANGED <<step, raised, at, missed, remote>>
                 /\ daemon' \in [Daemons -> {"absent", "starting", "serving", "dead", "lost"}]
                 /\ \A d \in Daemons : HasJoined(d) => HasJoined(d)'
      <3>1. <<n, p>> \in Daemons
        BY DEF Daemons
      <3> QED BY <2>4, <3>1
              DEF Serve, Dead, Lost, Elect, DeployInv, PlaceInv, HasJoined
    <2> QED BY <2>1, <2>2, <2>3, <2>4 DEF DeployInv, PlaceInv
  <1>1. PlaceInv'
    BY DEF DeployInv, PlaceInv
  <1>2. SentInv'
    <2>1. step \in {"send", "poll"} => \A k \in 1..at - 1 : NodeList[k] \in Nodes
      BY Places DEF DeployInv, PlaceInv
    <2> QED BY <2>1 DEF DeployInv, SentInv, Measuring
  <1>3. JoinedInv'
    <2>1. \A d \in Daemons : d[1] \in Nodes
      BY DEF Daemons
    <2>2. Measuring' => \A d \in Daemons : HasJoined(d)'
      BY <2>1 DEF DeployInv, SentInv, JoinedInv, Measuring
    <2>3. ASSUME step = "ready", ~missed, NEW k \in 1..at - 1
          PROVE  HasJoined(<<NodeOf(k), ProtocolOf(k)>>)'
      <3>1. k \in 1..Requests
        BY <2>3, Places DEF DeployInv, PlaceInv, Requests
      <3>2. NodeOf(k) \in Nodes /\ ProtocolOf(k) \in {"quic", "tcp"}
        BY <3>1, Places DEF NodeOf, ProtocolOf, Requests
      <3>3. <<NodeOf(k), ProtocolOf(k)>> \in Daemons
        BY <3>2 DEF Daemons
      <3>4. remote[NodeOf(k)] = "success" /\ HasJoined(<<NodeOf(k), ProtocolOf(k)>>)
        BY <2>3, <3>2 DEF DeployInv, SentInv, JoinedInv
      <3> QED BY <3>3, <3>4
    <2> QED BY <2>2, <2>3 DEF JoinedInv
  <1> QED BY <1>1, <1>2, <1>3 DEF DeployInv

-----------------------------------------------------------------------------
(* main                                                                    *)

\* The loop over the cases, and what is measured.
LEMMA ProcessKeepsInv ==
    ASSUME DeployInv, Process
    PROVE  DeployInv'
  <1> USE DEF cluster, runVars, driver
  <1>1. CASE NextCase
    <2>1. /\ step' \in {"aws", "load"} /\ (step' = "load" => ~plan.deploy) /\ UNCHANGED plan
          /\ remote' = [n \in Nodes |-> "none"] /\ daemon' = [d \in Daemons |-> "absent"]
      BY <1>1 DEF NextCase
    <2> QED BY <2>1 DEF DeployInv, PlaceInv, SentInv, JoinedInv, Measuring
  <1>2. CASE LoadNodes
    <2>1. /\ ~plan.deploy /\ UNCHANGED <<remote, daemon, plan>>
          /\ step' = First \/ step' = "next"
      BY <1>2 DEF LoadNodes, Begin, DeployInv, PlaceInv
    <2>2. CASE step' = First
      BY <2>1, <2>2, GoesOnMeasuring DEF First
    <2>3. CASE step' = "next"
      BY <2>1, <2>3, Leaves
    <2> QED BY <2>1, <2>2, <2>3
  <1>3. CASE Aws
    <2>1. step = "aws" /\ UNCHANGED <<remote, daemon, plan>>
      BY <1>3 DEF Aws
    <2>2. \/ step' = "ssm" /\ at' = 1
          \/ step' = LeftCase(raised')
          \/ UNCHANGED step
      BY <1>3 DEF Aws
    <2>3. CASE step' = "ssm" /\ at' = 1
      BY <2>1, <2>3, Places DEF DeployInv, PlaceInv, SentInv, JoinedInv, Measuring
    <2>4. CASE step' = LeftCase(raised') \/ UNCHANGED step
      BY <2>1, <2>4, Leaves DEF LeftCase
    <2> QED BY <2>2, <2>3, <2>4
  <1>4. CASE DeployStep
    BY <1>4, DriverKeepsInv DEF DeployStep
  <1>5. ASSUME NEW why, LeaveTry(why), UNCHANGED <<remote, daemon>>
        PROVE  DeployInv'
    BY <1>5, Leaves DEF LeaveTry, LeftCase
  <1>6. CASE CollectBaseline
    <2>1. step = "baseline" /\ UNCHANGED <<remote, daemon, plan>>
      BY <1>6 DEF CollectBaseline, MeasureUnchanged
    <2>2. CASE step' = "run"
      BY <2>1, <2>2, GoesOnMeasuring
    <2>3. CASE \E why \in {"fatal"} \union (IF plan.deploy THEN {} ELSE {"error"}) : LeaveTry(why)
      BY <2>1, <2>3, <1>5
    <2> QED BY <1>6, <2>2, <2>3 DEF CollectBaseline
  <1>7. CASE RunBenchmark
    <2>1. step = "run" /\ UNCHANGED <<remote, daemon, plan>>
      BY <1>7 DEF RunBenchmark, MeasureUnchanged
    <2>2. CASE step' \in {"run", "sample"}
      BY <2>1, <2>2, GoesOnMeasuring
    <2>3. CASE \E why \in {"none", "error", "fatal"} : LeaveTry(why)
      BY <2>1, <2>3, <1>5
    <2> QED BY <1>7, <2>1, <2>2, <2>3 DEF RunBenchmark
  <1>8. CASE CollectRaft
    <2>1. UNCHANGED <<remote, daemon>> /\ (LeaveTry("none") \/ LeaveTry("fatal"))
      BY <1>8 DEF CollectRaft, MeasureUnchanged
    <2> QED BY <2>1, <1>5
  <1>9. CASE SaveResults \/ GenerateReport
    BY <1>9, Leaves DEF SaveResults, GenerateReport
  <1> QED BY <1>1, <1>2, <1>3, <1>4, <1>6, <1>7, <1>8, <1>9 DEF Process

\* The invariant holds in the initial state and in every step.
LEMMA DeployInvInductive ==
    /\ BenchmarkInit => DeployInv
    /\ DeployInv /\ [BenchmarkNext]_benchmarkVars => DeployInv'
  <1>1. ASSUME BenchmarkInit PROVE DeployInv
    BY <1>1 DEF BenchmarkInit, DeployInit, FreshCluster,
                DeployInv, PlaceInv, SentInv, JoinedInv, Measuring
  <1>2. ASSUME DeployInv, BenchmarkNext PROVE DeployInv'
    <2>1. CASE Process
      BY <1>2, <2>1, ProcessKeepsInv
    <2>2. CASE InterruptedDeploy
      BY <1>2, <2>2, Leaves DEF InterruptedDeploy, Interrupted, Fail, cluster
    <2>3. CASE InterruptedOutside
      BY <1>2, <2>3, Leaves DEF InterruptedOutside, cluster
    <2>4. CASE Environment
      BY <1>2, <2>4, InstanceKeepsInv DEF Environment, runVars
    <2> QED BY <1>2, <2>1, <2>2, <2>3, <2>4 DEF BenchmarkNext
  <1>3. ASSUME DeployInv, UNCHANGED benchmarkVars PROVE DeployInv'
    BY <1>3 DEF benchmarkVars, deployVars, driver, cluster, runVars,
                DeployInv, PlaceInv, SentInv, JoinedInv, Measuring, HasJoined
  <1> QED BY <1>1, <1>2, <1>3

\* A deployed cluster is measured only when both daemons of every node had joined
\* (deploy of distributed_benchmark.py), whatever fails and however scripts,
\* daemons and the driver interleave.
THEOREM MeasuresWholeClusters == BenchmarkSpec => []MeasuredClusterIsWhole
  <1>1. DeployInv => MeasuredClusterIsWhole
    BY DEF DeployInv, JoinedInv, Measuring, HasJoined, MeasuredClusterIsWhole
  <1> QED BY <1>1, DeployInvInductive, PTL DEF BenchmarkSpec

-----------------------------------------------------------------------------
(* main and the benchmark of AwsTestRun                                    *)

\* The case under way is one of the command line's.
LEMMA CaseUnderWay ==
    ASSUME TurnInv
    PROVE  /\ Len(plan.cases) \in Nat /\ turn \in Nat
           /\ \A k \in 1..Len(plan.cases) : plan.cases[k] \in Cases
           /\ turn # 0 => turn \in 1..Len(plan.cases) /\ Case \in Cases
  BY PlansAssumption DEF TurnInv, Case

\* Rows are not lost.
LEMMA RowsStay ==
    ASSUME results \subseteq results'
    PROVE  \A c : /\ \A p : HasRow(p, c) => HasRow(p, c)'
                  /\ HasRows(c) => HasRows(c)'
  BY DEF HasRow, HasRows

\* What is over stays over, if the case under way does not come to its end here.
LEMMA PastStays ==
    ASSUME TurnInv, RowsInv, results \subseteq results', broken \subseteq broken',
           UNCHANGED <<plan, turn>>,
           turn # 0 /\ Past(turn)' =>
              Past(turn) \/ Case \in broken' \/ HasRows(Case)'
    PROVE  \A k \in 1..turn' : Past(k)' => plan'.cases[k] \in broken' \/ HasRows(plan.cases[k])'
  <1> SUFFICES ASSUME NEW k \in 1..turn, Past(k)'
               PROVE  plan.cases[k] \in broken' \/ HasRows(plan.cases[k])'
    OBVIOUS
  <1>1. Past(k) => plan.cases[k] \in broken' \/ HasRows(plan.cases[k])'
    BY RowsStay DEF RowsInv
  <1>2. CASE k = turn
    BY <1>1, <1>2, CaseUnderWay DEF Case
  <1>3. CASE k # turn
    BY <1>1, <1>3, CaseUnderWay DEF Past
  <1> QED BY <1>2, <1>3

\* Where nothing of the results, of AWS or of the loop over the cases moves.
LEMMA MovesInDeploy ==
    ASSUME MainInv, step \in InDeploy, step' \in InDeploy, trouble' \in Nat,
           UNCHANGED <<bench, blame, faults, plan, turn, results, saved>>,
           broken \subseteq broken'
    PROVE  MainInv'
  <1> USE DEF InDeploy, InMeasure
  <1>1. TurnInv /\ turn # 0
    BY DEF MainInv, TurnInv
  <1>2. TurnInv'
    BY DEF MainInv, TurnInv
  <1>3. Case' = Case
    BY DEF Case
  <1>4. StageInv'
    BY <1>3 DEF MainInv, StageInv
  <1>5. RoomInv'
    BY <1>3 DEF MainInv, RoomInv, Left
  <1>6. ~Past(turn)'
    BY <1>1, CaseUnderWay DEF Past
  <1>7. \A k \in 1..turn' : Past(k)' => plan'.cases[k] \in broken' \/ HasRows(plan.cases[k])'
    BY <1>1, <1>6, PastStays DEF MainInv
  <1> QED BY <1>2, <1>4, <1>5, <1>7, PastStays DEF MainInv, RowsInv

\* A call that fails leaves room for the ones to come.
LEMMA TroubleCounts ==
    ASSUME RoomInv, Trouble
    PROVE  trouble' \in Nat /\ faults < MaxTrouble
  BY RoomAssumption DEF RoomInv, Trouble

\* The steps of deploy, and Ctrl-C in the middle of it.
LEMMA DriverKeepsMainInv ==
    ASSUME MainInv,
           DeployStep \/ InterruptedDeploy
    PROVE  MainInv'
  <1> USE DEF driver, cluster, vars, benchVars
  <1>1. TurnInv /\ RoomInv /\ broken \subseteq broken'
        /\ UNCHANGED <<plan, turn, results, saved>>
    BY DEF MainInv, DeployStep, InterruptedDeploy
  <1>2. CASE SsmNotYet \/ SsmOnline \/ SendCommand \/ PollCommand \/ CommandDone \/ FetchStatus
             \/ EndOfRound \/ Interrupted
    <2>1. step \in InDeploy /\ step' \in InDeploy
      BY <1>2 DEF InDeploy, SsmNotYet, SsmOnline, SendCommand, PollCommand, CommandDone,
                  FetchStatus, EndOfRound, Interrupted, Fail, Begin
    <2>2. UNCHANGED <<bench, blame, faults>>
      BY <1>2 DEF SsmNotYet, SsmOnline, SendCommand, PollCommand, CommandDone,
                  FetchStatus, EndOfRound, Interrupted
    <2>3. UNCHANGED trouble \/ Trouble
      BY <1>2 DEF SsmNotYet, SsmOnline, SendCommand, PollCommand, CommandDone,
                  FetchStatus, EndOfRound, Interrupted
    <2>4. trouble' \in Nat
      BY <1>1, <2>3, TroubleCounts DEF RoomInv
    <2> QED BY <1>1, <2>1, <2>2, <2>4, MovesInDeploy
  <1>3. CASE Cleanup(Case, First) /\ DeployStep
    <2> USE DEF InDeploy, InMeasure
    <2>1. /\ step = "cleanup" /\ turn # 0 /\ Case \in Cases /\ plan.deploy
          /\ Case' = Case /\ turn \in 1..Len(plan.cases)
      BY <1>1, <1>3, CaseUnderWay DEF Cleanup, TurnInv, MainInv, StageInv, Case
    <2>2. /\ raised' = "none" => step' = First /\ bench' = [bench EXCEPT ![Case] = "measure"]
                                 /\ at' = 1 /\ faults' \in {faults, faults + 1}
          /\ raised' # "none" => step' = "aws" /\ bench' = [bench EXCEPT ![Case] = "teardown"]
                                 /\ faults' = faults + 1 /\ Case \in broken'
      BY <1>3 DEF Cleanup, Goto, DeployStep
    <2>3. trouble' \in Nat
      BY <1>1, <1>3, TroubleCounts DEF Cleanup, RoomInv
    <2>4. First \in {"baseline", "run"}
      BY DEF First
    <2>5. blame' = blame \/ blame' = [blame EXCEPT ![Case] = @ \union {"artifacts"}]
      BY <1>3 DEF Cleanup, Blame
    <2>6. TurnInv'
      BY <1>1, <2>1, <2>2, <2>4 DEF TurnInv
    <2>7. StageInv'
      <3> USE DEF MainInv, StageInv
      <3>1. bench' \in [Cases -> Steps \union {"none", "ended", "died"}]
        BY <2>2 DEF Steps
      <3>2. blame' \in [Cases -> SUBSET {"destroy", "artifacts", "upload", "died"}]
        BY <2>1, <2>5
      <3>3. \A c \in Cases :
               bench'[c] \in {"none", "deploy", "config", "upload", "services"} => blame'[c] = {}
        BY <2>1, <2>2, <2>5
      <3>4. \A k \in 1..Len(plan.cases) : k > turn => bench'[plan.cases[k]] = "none"
        BY <2>1, <2>2, <1>1, CaseUnderWay DEF TurnInv
      <3>5. step' = "aws" => bench'[Case] = "teardown"
        BY <2>1, <2>2, <2>4
      <3>6. step' \in InMeasure => bench'[Case] = "measure"
        BY <2>1, <2>2, <2>4
      <3>7. step' \in {"aws"} \union {"baseline", "run"}
        BY <2>2, <2>4
      <3> QED BY <1>1, <2>1, <3>1, <3>2, <3>3, <3>4, <3>5, <3>6, <3>7
    <2>8. RoomInv'
      <3>1. faults + 2 <= MaxTrouble + 2 * turn /\ faults \in Nat
        BY <2>1 DEF MainInv, RoomInv, Left
      <3>2. Left' \in {0, 1} /\ faults' \in {faults, faults + 1}
        BY <1>1, <2>1, <2>2, <2>4 DEF Left, MainInv, StageInv
      <3>3. turn \in Nat /\ MaxTrouble \in Nat /\ turn' = turn
        BY <1>1, RoomAssumption, CaseUnderWay
      <3>4. Left' = 0 \/ Left' = 1
        BY <3>2
      <3>5. faults' = faults \/ faults' = faults + 1
        BY <3>2
      <3>6. faults' \in Nat /\ faults' + Left' <= MaxTrouble + 2 * turn
        BY <3>1, <3>3, <3>4, <3>5
      <3> QED BY <2>3, <3>3, <3>6 DEF RoomInv
    <2>9. RowsInv'
      <3>1. Past(turn)' => Case \in broken'
        BY <1>1, <2>2, <2>4, CaseUnderWay DEF Past
      <3>2. \A k \in 1..turn' : Past(k)' => plan'.cases[k] \in broken' \/ HasRows(plan.cases[k])'
        BY <1>1, <3>1, PastStays DEF MainInv
      <3>3. step' = "run" => at' = 1
        BY <2>2, <2>4
      <3>4. step' \notin {"sample", "report", "exit"}
        BY <2>2, <2>4
      <3> QED BY <1>1, <3>2, <3>3, <3>4 DEF MainInv, RowsInv
    <2> QED BY <2>6, <2>7, <2>8, <2>9 DEF MainInv
  <1> QED BY <1>2, <1>3 DEF DeployStep, InterruptedDeploy, Driver

\* Leaving the try block of main, after what has been measured.
LEMMA LeaveTryKeepsMainInv ==
    ASSUME MainInv, NEW why \in {"none", "error", "fatal"}, LeaveTry(why), step \in InMeasure,
           UNCHANGED <<blame, plan, turn, saved>>, trouble' \in Nat,
           results \subseteq results', \A r \in results' : r.protocol \in {"quic", "tcp"},
           why = "none" => HasRows(Case)'
    PROVE  MainInv'
  <1> USE DEF InDeploy, InMeasure
  <1>1. TurnInv /\ turn # 0 /\ Case \in Cases /\ Case' = Case /\ turn \in 1..Len(plan.cases)
    BY CaseUnderWay DEF MainInv, TurnInv, Case
  <1>2. /\ broken \subseteq broken' /\ raised' = why
        /\ Case \in broken' \/ HasRows(Case)'
    BY DEF LeaveTry
  <1>3. CASE plan.deploy
    <2>1. /\ step' = "aws" /\ bench' = [bench EXCEPT ![Case] = "teardown"]
          /\ faults' \in {faults, faults + 1}
      BY <1>3 DEF LeaveTry, Goto
    <2>2. TurnInv'
      BY <1>1, <2>1 DEF TurnInv
    <2>3. bench'[Case'] = "teardown"
      BY <1>1, <2>1 DEF MainInv, StageInv
    <2>4. StageInv'
      <3>1. \A k \in 1..Len(plan.cases) : k > turn => bench'[plan.cases[k]] = "none"
        <4> SUFFICES ASSUME NEW k \in 1..Len(plan.cases), k > turn
                     PROVE  bench'[plan.cases[k]] = "none"
          OBVIOUS
        <4>1. bench[plan.cases[k]] = "none" /\ bench[Case] = "measure"
          BY <1>3 DEF MainInv, StageInv
        <4> QED BY <1>1, <2>1, <4>1
      <3>2. bench' \in [Cases -> Steps \union {"none", "ended", "died"}]
        BY <2>1 DEF MainInv, StageInv, Steps
      <3>3. \A c \in Cases :
               bench'[c] \in {"none", "deploy", "config", "upload", "services"} => blame'[c] = {}
        BY <1>1, <2>1 DEF MainInv, StageInv
      <3> QED BY <1>3, <2>1, <2>3, <3>1, <3>2, <3>3 DEF MainInv, StageInv
    <2>5. RoomInv'
      <3>1. faults + 1 <= MaxTrouble + 2 * turn /\ faults \in Nat
        BY DEF MainInv, RoomInv, Left
      <3>2. Left' = 0
        BY <2>1, <2>3 DEF Left
      <3>3. turn \in Nat /\ MaxTrouble \in Nat
        BY <1>1, RoomAssumption, CaseUnderWay
      <3>4. CASE faults' = faults
        BY <3>1, <3>2, <3>3, <3>4 DEF RoomInv
      <3>5. CASE faults' = faults + 1
        BY <3>1, <3>2, <3>3, <3>5 DEF RoomInv
      <3> QED BY <2>1, <3>4, <3>5
    <2>6. RowsInv'
      <3>1. \A k \in 1..turn' : Past(k)' => plan'.cases[k] \in broken' \/ HasRows(plan.cases[k])'
        BY <1>1, <1>2, PastStays DEF MainInv
      <3> QED BY <2>1, <3>1 DEF RowsInv
    <2> QED BY <2>2, <2>4, <2>5, <2>6 DEF MainInv
  <1>4. CASE ~plan.deploy
    <2>1. step' = LeftCase(why) /\ UNCHANGED <<bench, rows, faults>>
      BY <1>4 DEF LeaveTry
    <2>2. step' \in {"next", "exit"} /\ (step' = "exit" => raised' = "fatal")
      BY <1>2, <2>1 DEF LeftCase
    <2>3. TurnInv'
      BY <1>1, <2>2 DEF TurnInv
    <2>4. StageInv'
      BY <1>4, <2>1, <2>2 DEF MainInv, StageInv
    <2>5. RoomInv'
      <3>1. Left' = 0
        BY <2>2 DEF Left
      <3>2. faults <= MaxTrouble + 2 * turn /\ faults \in Nat
        <4>1. Left = 1
          BY DEF Left
        <4>2. turn \in Nat /\ MaxTrouble \in Nat
          BY <1>1, RoomAssumption, CaseUnderWay
        <4> QED BY <4>1, <4>2 DEF MainInv, RoomInv
      <3> QED BY <2>1, <3>1, <3>2 DEF RoomInv
    <2>6. RowsInv'
      <3>1. \A k \in 1..turn' : Past(k)' => plan'.cases[k] \in broken' \/ HasRows(plan.cases[k])'
        BY <1>1, <1>2, PastStays DEF MainInv
      <3> QED BY <2>2, <3>1 DEF RowsInv
    <2> QED BY <2>3, <2>4, <2>5, <2>6 DEF MainInv
  <1> QED BY <1>3, <1>4

\* The next thing is measured.
LEMMA MeasuringGoesOn ==
    ASSUME MainInv, step \in InMeasure, step' \in InMeasure, trouble' \in Nat,
           UNCHANGED <<bench, blame, faults, plan, turn, saved, broken>>,
           results \subseteq results', \A r \in results' : r.protocol \in {"quic", "tcp"},
           step' = "run" => at' \in 1..2 /\ (at' = 2 => HasRow("quic", Case)'),
           step' = "sample" => HasRows(Case)'
    PROVE  MainInv'
  <1> USE DEF InDeploy, InMeasure
  <1>1. TurnInv /\ turn # 0 /\ Case' = Case
    BY DEF MainInv, TurnInv, Case
  <1>2. TurnInv'
    BY DEF MainInv, TurnInv
  <1>3. StageInv'
    BY <1>1 DEF MainInv, StageInv
  <1>4. RoomInv'
    BY <1>1 DEF MainInv, RoomInv, Left
  <1>5. RowsInv'
    <2>1. ~Past(turn)'
      BY <1>1, CaseUnderWay DEF Past
    <2>2. \A k \in 1..turn' : Past(k)' => plan'.cases[k] \in broken' \/ HasRows(plan.cases[k])'
      BY <1>1, <2>1, PastStays DEF MainInv
    <2> QED BY <1>1, <2>2 DEF RowsInv
  <1> QED BY <1>2, <1>3, <1>4, <1>5 DEF MainInv

\* The protocols are measured one after the other, and each gives a row.
LEMMA MeasureKeepsMainInv ==
    ASSUME MainInv, CollectBaseline \/ RunBenchmark \/ CollectRaft
    PROVE  MainInv'
  <1>1. /\ step \in InMeasure /\ UNCHANGED <<blame, plan, turn, saved>>
        /\ UNCHANGED trouble \/ Trouble
    BY DEF InMeasure, CollectBaseline, RunBenchmark, CollectRaft, MeasureUnchanged
  <1>2. trouble' \in Nat
    BY <1>1, TroubleCounts DEF MainInv, RoomInv
  <1>3. \A r \in results : r.protocol \in {"quic", "tcp"}
    BY DEF MainInv, RowsInv
  <1>4. CASE CollectBaseline
    <2>1. CASE step' = "run" /\ at' = 1 /\ UNCHANGED tries /\ StayInTry
      BY <1>1, <1>2, <1>3, <1>4, <2>1, MeasuringGoesOn
      DEF CollectBaseline, StayInTry, InMeasure
    <2>2. ASSUME NEW why \in {"error", "fatal"}, LeaveTry(why)
          PROVE  MainInv'
      BY <1>1, <1>2, <1>3, <1>4, <2>2, LeaveTryKeepsMainInv DEF CollectBaseline
    <2> QED BY <1>4, <2>1, <2>2 DEF CollectBaseline
  <1>5. CASE RunBenchmark
    <2>1. step = "run" /\ at \in 1..2 /\ (at = 2 => HasRow("quic", Case)) /\ Case' = Case
      BY <1>5, <1>1 DEF RunBenchmark, MainInv, RowsInv, Case
    <2>2. ASSUME NEW t \in Throughputs, results' = results \union {Row(Protocols[at], t)}
          PROVE  /\ results \subseteq results' /\ \A r \in results' : r.protocol \in {"quic", "tcp"}
                 /\ at = 1 => HasRow("quic", Case)'
                 /\ at = 2 => HasRows(Case)'
      <3>1. Row(Protocols[at], t) \in results' /\ results \subseteq results'
        BY <2>2
      <3>2. /\ Row(Protocols[at], t).protocol = Protocols[at]
            /\ Row(Protocols[at], t).size = SizeOf[Case]
            /\ Row(Protocols[at], t).scenario = ScenarioOf[Case]
        BY DEF Row
      <3>3. \E r \in results' : /\ r.protocol = Protocols[at]
                               /\ r.size = SizeOf[Case'] /\ r.scenario = ScenarioOf[Case']
        BY <2>1, <3>1, <3>2
      <3>4. at = 1 => HasRow("quic", Case)'
        BY <3>3 DEF HasRow, Protocols
      <3>5. at = 2 => HasRow("tcp", Case)'
        BY <3>3 DEF HasRow, Protocols
      <3>6. HasRow("quic", Case) => HasRow("quic", Case)'
        BY <2>1, <3>1, RowsStay
      <3>7. \A r \in results' : r.protocol \in {"quic", "tcp"}
        <4>1. Protocols[at] \in {"quic", "tcp"}
          BY <2>1 DEF Protocols
        <4> QED BY <1>3, <2>2, <3>2, <4>1
      <3> QED BY <2>1, <3>1, <3>4, <3>5, <3>6, <3>7 DEF HasRows
    <2>3. CASE \E t \in Throughputs : results' = results \union {Row(Protocols[at], t)}
      <3>1. /\ results \subseteq results' /\ \A r \in results' : r.protocol \in {"quic", "tcp"}
            /\ at = 1 => HasRow("quic", Case)'
            /\ at = 2 => HasRows(Case)'
        BY <2>2, <2>3
      <3>2. \/ at < Len(Protocols) /\ at' = at + 1 /\ UNCHANGED step /\ StayInTry
            \/ at = Len(Protocols) /\ step' = "sample" /\ StayInTry
            \/ at = Len(Protocols) /\ LeaveTry("none")
            \/ \E why \in {"error", "fatal"} : LeaveTry(why)
        BY <1>5 DEF RunBenchmark
      <3>3. Len(Protocols) = 2
        BY DEF Protocols
      <3>4. CASE at = 1 /\ at' = 2 /\ UNCHANGED step /\ StayInTry
        BY <1>1, <1>2, <2>1, <3>1, <3>4, MeasuringGoesOn DEF StayInTry, InMeasure
      <3>5. CASE at = 2 /\ step' = "sample" /\ StayInTry
        BY <1>1, <1>2, <2>1, <3>1, <3>5, MeasuringGoesOn DEF StayInTry, InMeasure
      <3>6. CASE at = 2 /\ LeaveTry("none")
        BY <1>1, <1>2, <3>1, <3>6, LeaveTryKeepsMainInv
      <3>7. ASSUME NEW why \in {"error", "fatal"}, LeaveTry(why)
            PROVE  MainInv'
        BY <1>1, <1>2, <3>1, <3>7, LeaveTryKeepsMainInv
      <3> QED BY <2>1, <3>2, <3>3, <3>4, <3>5, <3>6, <3>7
    <2>4. CASE UNCHANGED results /\ \E why \in {"error", "fatal"} : LeaveTry(why)
      BY <1>1, <1>2, <1>3, <2>4, LeaveTryKeepsMainInv
    <2> QED BY <1>5, <2>3, <2>4 DEF RunBenchmark
  <1>6. CASE CollectRaft
    <2>1. HasRows(Case) /\ UNCHANGED results /\ Case' = Case
      BY <1>1, <1>6 DEF CollectRaft, MainInv, RowsInv, Case
    <2>2. HasRows(Case)'
      BY <2>1, RowsStay
    <2> QED BY <1>1, <1>2, <1>3, <1>6, <2>1, <2>2, LeaveTryKeepsMainInv DEF CollectRaft
  <1> QED BY <1>4, <1>5, <1>6
\* The calls to Terraform and S3, as AwsTestRun has them.
LEMMA AwsKeepsMainInv ==
    ASSUME MainInv, Aws
    PROVE  MainInv'
  <1> USE DEF InDeploy, InMeasure
  <1>1. /\ step = "aws" /\ plan.deploy /\ TurnInv /\ turn # 0 /\ Case \in Cases /\ Case' = Case
        /\ turn \in 1..Len(plan.cases) /\ UNCHANGED <<plan, turn, results, saved, trouble>>
        /\ broken \subseteq broken' /\ turn \in Nat /\ MaxTrouble \in Nat
    BY CaseUnderWay, RoomAssumption DEF MainInv, TurnInv, StageInv, Aws, Case, cluster
  <1>2. faults \in Nat /\ (faults' = faults \/ (faults' = faults + 1 /\ faults < MaxTrouble))
    <2>1. faults \in Nat /\ trouble \in Nat
      BY DEF MainInv, RoomInv
    <2>2. faults' = faults \/ faults' = faults + 1
      BY DEF Aws, Deploy, Configure, Upload, Teardown, Raises, Fault
    <2>3. faults' # faults => faults < MaxTrouble
      BY <1>1, <2>1 DEF Aws
    <2> QED BY <2>1, <2>2, <2>3
  <1>3. \/ bench[Case] = "deploy" /\ faults' = faults /\ Goto(Case, "config") /\ UNCHANGED blame
        \/ bench[Case] = "config" /\ faults' = faults /\ Goto(Case, "upload") /\ UNCHANGED blame
        \/ bench[Case] = "upload" /\ faults' = faults /\ Goto(Case, "services") /\ UNCHANGED blame
        \/ /\ bench[Case] # "teardown" /\ faults' = faults + 1 /\ Goto(Case, "teardown")
           /\ UNCHANGED blame \/ Blame(Case, "upload")
        \/ /\ bench[Case] = "teardown" /\ Goto(Case, "ended")
           /\ UNCHANGED blame \/ Blame(Case, "destroy")
    BY DEF Aws, Deploy, Configure, Upload, Teardown, Raises, Fault
  <1>4. PICK s \in {"config", "upload", "services", "teardown", "ended"} :
           /\ bench' = [bench EXCEPT ![Case] = s]
           /\ s \in {"config", "upload", "services"} => UNCHANGED blame /\ bench[Case] # "teardown"
           /\ s = "teardown" => faults' = faults + 1 /\ bench[Case] # "teardown"
           /\ s = "ended" => bench[Case] = "teardown"
           /\ \/ UNCHANGED blame
              \/ \E b \in {"destroy", "upload"} : blame' = [blame EXCEPT ![Case] = @ \union {b}]
    BY <1>3 DEF Goto, Blame
  <1>5. bench'[Case] = s /\ bench' \in [Cases -> Steps \union {"none", "ended", "died"}]
    BY <1>1, <1>4 DEF MainInv, StageInv, Steps
  <1>6. /\ s = "services" => step' = "ssm"
        /\ s = "ended" => step' = LeftCase(raised')
        /\ s \notin {"services", "ended"} => step' = "aws"
    BY <1>1, <1>5 DEF Aws
  <1>7. LeftCase(raised') \in {"next", "exit"} /\ (LeftCase(raised') = "exit" => raised' = "fatal")
    BY DEF LeftCase
  <1>8. TurnInv'
    BY <1>1, <1>4, <1>6, <1>7 DEF TurnInv
  <1>9. StageInv'
    <2>1. blame' \in [Cases -> SUBSET {"destroy", "artifacts", "upload", "died"}]
      BY <1>1, <1>4 DEF MainInv, StageInv
    <2>2. \A c \in Cases :
             bench'[c] \in {"none", "deploy", "config", "upload", "services"} => blame'[c] = {}
      <3> SUFFICES ASSUME NEW c \in Cases,
                          bench'[c] \in {"none", "deploy", "config", "upload", "services"}
                   PROVE  blame'[c] = {}
        OBVIOUS
      <3>1. CASE c # Case
        BY <1>1, <1>4, <3>1 DEF MainInv, StageInv
      <3>2. CASE c = Case
        <4>1. UNCHANGED blame /\ bench[Case] \in {"deploy", "config", "upload"}
          BY <1>1, <1>4, <1>5, <3>2 DEF MainInv, StageInv
        <4> QED BY <1>1, <3>2, <4>1 DEF MainInv, StageInv
      <3> QED BY <3>1, <3>2
    <2>3. \A k \in 1..Len(plan.cases) : k > turn => bench'[plan.cases[k]] = "none"
      <3> SUFFICES ASSUME NEW k \in 1..Len(plan.cases), k > turn
                   PROVE  bench'[plan.cases[k]] = "none"
        OBVIOUS
      <3>1. bench[plan.cases[k]] = "none" /\ bench[Case] # "none"
        BY <1>1 DEF MainInv, StageInv
      <3> QED BY <1>4, <3>1
    <2> QED BY <1>1, <1>4, <1>5, <1>6, <1>7, <2>1, <2>2, <2>3 DEF MainInv, StageInv
  <1>10. RoomInv'
    <2>1. (Left' = 0 \/ Left' = 2) /\ (s \in {"teardown", "ended"} => Left' = 0)
      BY <1>1, <1>4, <1>5, <1>6, <1>7 DEF Left
    <2>2. faults + Left <= MaxTrouble + 2 * turn
      BY DEF MainInv, RoomInv
    <2>3. CASE s \in {"config", "upload", "services"}
      <3>1. Left = 2 /\ faults' = faults
        BY <1>1, <1>3, <1>4, <1>5, <2>3 DEF Left, Goto, MainInv, StageInv
      <3>2. faults' + Left' <= MaxTrouble + 2 * turn
        BY <1>1, <1>2, <2>1, <2>2, <3>1
      <3> QED BY <1>1, <1>2, <3>1, <3>2 DEF MainInv, RoomInv
    <2>4. CASE s \in {"teardown", "ended"}
      <3>1. Left \in {0, 2} /\ Left' = 0
        BY <1>1, <2>1, <2>4 DEF Left
      <3>2. CASE faults' = faults
        BY <1>1, <1>2, <2>2, <3>1, <3>2 DEF MainInv, RoomInv
      <3>3. CASE faults' = faults + 1 /\ faults < MaxTrouble
        BY <1>1, <1>2, <3>1, <3>3 DEF MainInv, RoomInv
      <3> QED BY <1>2, <3>2, <3>3
    <2> QED BY <1>4, <2>3, <2>4
  <1>11. RowsInv'
    <2>1. Past(turn)' => Past(turn) \/ Case \in broken'
      <3>1. CASE s \in {"config", "upload", "services"}
        BY <1>1, <1>5, <1>6, <3>1 DEF Past
      <3>2. CASE s = "teardown"
        <4>1. raised' # "none"
          BY <1>2, <1>4, <3>2 DEF Aws
        <4> QED BY <4>1 DEF Aws
      <3>3. CASE s = "ended"
        BY <1>1, <1>4, <3>3 DEF Past
      <3> QED BY <1>4, <3>1, <3>2, <3>3
    <2>2. \A k \in 1..turn' : Past(k)' => plan'.cases[k] \in broken' \/ HasRows(plan.cases[k])'
      BY <1>1, <2>1, PastStays DEF MainInv
    <2> QED BY <1>1, <1>4, <1>6, <1>7, <2>2 DEF MainInv, RowsInv
  <1> QED BY <1>8, <1>9, <1>10, <1>11 DEF MainInv

\* The steps of main between its try blocks, and what moves beside it.
LEMMA LoopKeepsMainInv ==
    ASSUME MainInv,
           \/ NextCase \/ LoadNodes \/ SaveResults \/ GenerateReport \/ InterruptedOutside
           \/ Environment
    PROVE  MainInv'
  <1> USE DEF InDeploy, InMeasure, cluster, vars, benchVars, runVars, driver
  <1>1. TurnInv /\ RoomInv /\ MaxTrouble \in Nat
    BY RoomAssumption DEF MainInv
  <1>2. CASE NextCase
    <2>1. /\ step = "next" /\ turn # Len(plan.cases) /\ turn' = turn + 1
          /\ turn' \in 1..Len(plan.cases) /\ turn \in 0..Len(plan.cases) /\ Case' \in Cases
          /\ Case' = plan.cases[turn + 1]
          /\ UNCHANGED <<plan, blame, faults, trouble, results, saved, broken>>
      BY <1>1, <1>2, CaseUnderWay DEF NextCase, LastCase, TurnInv, Case
    <2>2. /\ plan.deploy => step' = "aws" /\ bench' = [bench EXCEPT ![Case'] = "deploy"]
          /\ ~plan.deploy => step' = "load" /\ UNCHANGED bench
      BY <1>2, <2>1 DEF NextCase, Goto
    <2>3. plan.deploy => bench'[Case'] = "deploy" /\ bench[Case'] = "none"
      BY <2>1, <2>2 DEF MainInv, StageInv
    <2>4. TurnInv'
      BY <1>1, <2>1, <2>2 DEF TurnInv
    <2>5. StageInv'
      <3>1. bench' \in [Cases -> Steps \union {"none", "ended", "died"}]
        BY <2>2 DEF MainInv, StageInv, Steps
      <3>2. \A c \in Cases :
               bench'[c] \in {"none", "deploy", "config", "upload", "services"} => blame'[c] = {}
        BY <2>1, <2>2, <2>3 DEF MainInv, StageInv
      <3>3. plan.deploy => \A k \in 1..Len(plan.cases) : k > turn' => bench'[plan.cases[k]] = "none"
        <4> SUFFICES ASSUME plan.deploy, NEW k \in 1..Len(plan.cases), k > turn'
                     PROVE  bench'[plan.cases[k]] = "none"
          OBVIOUS
        <4>1. k > turn /\ k # turn + 1 /\ turn + 1 \in 1..Len(plan.cases)
          BY <1>1, <2>1, CaseUnderWay
        <4>2. plan.cases[k] # plan.cases[turn + 1]
          BY <1>1, <4>1, PlansAssumption DEF TurnInv
        <4>3. bench[plan.cases[k]] = "none" /\ plan.cases[k] \in Cases
          BY <1>1, <4>1, CaseUnderWay DEF MainInv, StageInv
        <4>4. bench' = [bench EXCEPT ![plan.cases[turn + 1]] = "deploy"]
          BY <2>1, <2>2
        <4> QED BY <4>2, <4>3, <4>4 DEF MainInv, StageInv
      <3>4. blame' \in [Cases -> SUBSET {"destroy", "artifacts", "upload", "died"}]
        BY <2>1 DEF MainInv, StageInv
      <3>5. CASE plan.deploy
        <4>1. step' = "aws" /\ bench'[Case'] = "deploy" /\ plan' = plan
          BY <2>1, <2>2, <2>3, <3>5
        <4> QED BY <3>1, <3>2, <3>3, <3>4, <3>5, <4>1 DEF StageInv
      <3>6. CASE ~plan.deploy
        <4>1. step' = "load" /\ plan' = plan
          BY <2>1, <2>2, <3>6
        <4> QED BY <3>1, <3>2, <3>4, <3>6, <4>1 DEF StageInv
      <3> QED BY <3>5, <3>6
    <2>6. RoomInv'
      <3>1. Left = 0 /\ (Left' = 0 \/ Left' = 2)
        BY <2>1, <2>2 DEF Left
      <3>2. faults + Left' <= MaxTrouble + 2 * (turn + 1)
        BY <1>1, <2>1, <3>1, CaseUnderWay DEF RoomInv
      <3> QED BY <1>1, <2>1, <3>2 DEF RoomInv
    <2>7. RowsInv'
      <3>1. \A k \in 1..turn' : Past(k)' => k \in 1..turn /\ Past(k)
        <4> SUFFICES ASSUME NEW k \in 1..turn', Past(k)'
                     PROVE  k \in 1..turn /\ Past(k)
          OBVIOUS
        <4>1. k # turn'
          BY <2>1, <2>2, <2>3 DEF Past
        <4> QED BY <1>1, <2>1, <4>1, CaseUnderWay DEF Past
      <3>2. \A c : HasRows(c) => HasRows(c)'
        BY <2>1, RowsStay
      <3> QED BY <2>1, <2>2, <3>1, <3>2 DEF MainInv, RowsInv
    <2> QED BY <2>4, <2>5, <2>6, <2>7 DEF MainInv
  <1>3. CASE LoadNodes \/ SaveResults \/ GenerateReport \/ InterruptedOutside \/ Environment
    <2>1. /\ UNCHANGED <<plan, turn, bench, blame, faults, results>> /\ broken \subseteq broken'
          /\ Case' = Case
      BY <1>3 DEF LoadNodes, SaveResults, GenerateReport, InterruptedOutside, Environment,
                  Instance, Fetch, Launch, CheckDaemons, Serve, Dead, Lost, Elect, Case
    <2>2. UNCHANGED trouble \/ Trouble
      BY <1>3 DEF LoadNodes, SaveResults, GenerateReport, InterruptedOutside, Environment,
                  Instance, Fetch, Launch, CheckDaemons, Serve, Dead, Lost, Elect
    <2>3. trouble' \in Nat
      BY <1>1, <2>2, TroubleCounts DEF RoomInv
    <2>4. \/ step = "load" /\ step' \in {"baseline", "run"} /\ at' = 1 /\ UNCHANGED saved
          \/ step = "load" /\ step' = "next" /\ Case \in broken' /\ UNCHANGED saved
          \/ step = "next" /\ step' = "report" /\ turn = Len(plan.cases) /\ saved' = results
          \/ step = "report" /\ step' = "exit" /\ UNCHANGED saved
          \/ step \in {"next", "load", "report"} /\ step' = "exit" /\ raised' = "fatal"
          \/ UNCHANGED <<step, raised, at, saved>>
      BY ZenonT(30), <1>3 DEF LoadNodes, SaveResults, GenerateReport, InterruptedOutside, Environment,
                  Instance, Fetch, Launch, CheckDaemons, Serve, Dead, Lost, Elect,
                  Begin, First, LastCase
    <2>5. TurnInv'
      BY <1>1, <2>1, <2>4 DEF TurnInv
    <2>6. StageInv'
      BY <2>1, <2>4 DEF MainInv, StageInv
    <2>7. RoomInv'
      <3>1. Left = 0 \/ Left = 1 \/ Left = 2
        BY DEF Left
      <3>2. CASE UNCHANGED step
        <4>1. Left' = Left
          BY <2>1, <3>2 DEF Left
        <4> QED BY <1>1, <2>1, <2>3, <4>1 DEF RoomInv
      <3>3. CASE step = "load" /\ step' \in {"baseline", "run"}
        <4>1. Left = 2 /\ Left' = 1
          BY <3>3 DEF Left
        <4> QED BY <1>1, <2>1, <2>3, <4>1, CaseUnderWay DEF RoomInv
      <3>4. CASE step' \in {"next", "report", "exit"}
        <4>1. Left' = 0
          BY <3>4 DEF Left
        <4>2. turn \in Nat /\ turn' = turn /\ faults' = faults
          BY <1>1, <2>1, CaseUnderWay
        <4>3. faults <= MaxTrouble + 2 * turn
          BY <1>1, <3>1, <4>2 DEF RoomInv
        <4>4. faults \in Nat
          BY <1>1 DEF RoomInv
        <4> QED BY <1>1, <2>3, <4>1, <4>2, <4>3, <4>4 DEF RoomInv
      <3> QED BY <2>4, <3>2, <3>3, <3>4
    <2>8. RowsInv'
      <3>1. turn # 0 /\ Past(turn)' => Past(turn) \/ Case \in broken'
        BY <1>1, <2>1, <2>4, CaseUnderWay DEF Past
      <3>2. \A k \in 1..turn' : Past(k)' => plan'.cases[k] \in broken' \/ HasRows(plan.cases[k])'
        BY <1>1, <2>1, <3>1, PastStays DEF MainInv
      <3>3. \A c : /\ HasRow("quic", c) => HasRow("quic", c)'
                   /\ HasRows(c) => HasRows(c)'
        BY <2>1, RowsStay
      <3> QED BY <2>1, <2>4, <3>2, <3>3 DEF MainInv, RowsInv
    <2> QED BY <2>5, <2>6, <2>7, <2>8 DEF MainInv
  <1> QED BY <1>2, <1>3

\* The invariant holds in the initial state and in every step.
LEMMA MainInvInductive ==
    /\ BenchmarkInit => MainInv
    /\ MainInv /\ [BenchmarkNext]_benchmarkVars => MainInv'
  <1>1. ASSUME BenchmarkInit PROVE MainInv
    <2>1. /\ plan \in Plans /\ turn = 0 /\ step = "next" /\ trouble = 0 /\ faults = 0
          /\ bench = [c \in Cases |-> "none"] /\ blame = [c \in Cases |-> {}]
          /\ results = {}
      BY <1>1 DEF BenchmarkInit, Init, DeployInit
    <2>2. TurnInv
      BY <2>1, PlansAssumption DEF TurnInv
    <2>5. StageInv
      <3>1. plan.deploy => \A k \in 1..Len(plan.cases) : bench[plan.cases[k]] = "none"
        BY <2>1, <2>2, CaseUnderWay
      <3> QED BY <2>1, <3>1 DEF StageInv, Steps, InDeploy, InMeasure
    <2>3. RoomInv
      BY <2>1, RoomAssumption DEF RoomInv, Left, InDeploy, InMeasure
    <2>4. RowsInv
      BY <2>1 DEF RowsInv
    <2> QED BY <2>2, <2>3, <2>4, <2>5 DEF MainInv
  <1>2. ASSUME MainInv, BenchmarkNext PROVE MainInv'
    BY <1>2, DriverKeepsMainInv, MeasureKeepsMainInv, AwsKeepsMainInv, LoopKeepsMainInv
    DEF BenchmarkNext, Process
  <1>3. ASSUME MainInv, UNCHANGED benchmarkVars PROVE MainInv'
    BY <1>3 DEF benchmarkVars, deployVars, driver, cluster, runVars, vars, benchVars,
                MainInv, TurnInv, StageInv, RoomInv, RowsInv, Left, Past, HasRows, HasRow, Case
  <1> QED BY <1>1, <1>2, <1>3

\* Main saves what it has measured (_save_results after the loops): every row of every
\* case, also those that a case appended before it failed, and both rows of every case that
\* did not fail, whatever the cases before it did.
THEOREM NothingIsLost == BenchmarkSpec => []NothingMeasuredIsLost
  <1>1. ASSUME MainInv PROVE NothingMeasuredIsLost
    <2> SUFFICES ASSUME step = "exit", raised # "fatal"
                 PROVE  /\ saved = results
                        /\ \A c \in Unbroken : {r.protocol : r \in MeasuredFor(c)} = {"quic", "tcp"}
      BY DEF NothingMeasuredIsLost
    <2>1. saved = results /\ turn = Len(plan.cases) /\ TurnInv
      BY <1>1 DEF MainInv, RowsInv, TurnInv
    <2>2. ASSUME NEW c \in Unbroken PROVE HasRows(c)
      <3>1. PICK k \in 1..Len(plan.cases) : plan.cases[k] = c /\ c \notin broken
        <4>1. plan.cases \in Seq(Cases)
          BY <2>1, PlansAssumption DEF TurnInv
        <4> QED BY <2>2, <4>1 DEF Unbroken
      <3>2. Past(k)
        BY <2>1, CaseUnderWay DEF Past
      <3> QED BY <1>1, <2>1, <3>1, <3>2 DEF MainInv, RowsInv
    <2>3. ASSUME NEW c \in Unbroken
          PROVE  {r.protocol : r \in MeasuredFor(c)} = {"quic", "tcp"}
      <3>1. \A r \in MeasuredFor(c) : r.protocol \in {"quic", "tcp"}
        BY <1>1, <2>1 DEF MainInv, RowsInv, MeasuredFor
      <3>2. \A p \in {"quic", "tcp"} : \E r \in MeasuredFor(c) : r.protocol = p
        BY <2>1, <2>2, <2>3 DEF HasRows, HasRow, MeasuredFor
      <3> QED BY <3>1, <3>2
    <2> QED BY <2>1, <2>3
  <1> QED BY <1>1, MainInvInductive, PTL DEF BenchmarkSpec

-----------------------------------------------------------------------------
(* The refinement                                                          *)

\* What AwsTestRun says of a benchmark.
BenchmarkStep ==
    \/ \E c \in Cases : Bench(c)
    \/ \E c \in Cases :
          /\ bench[c] = "none" /\ Goto(c, "deploy")
          /\ UNCHANGED <<flags, mainVars, suite, rows, blame, mon, env, awsVars, faults>>

\* There is room for one more failure while a case is under way.
LEMMA RoomForFault ==
    ASSUME MainInv, step = "aws" \/ step \in InDeploy \/ step \in InMeasure,
           faults + 1 <= MaxTrouble + 2 * turn
    PROVE  faults < MaxFaults
  <1>1. /\ plan \in Plans /\ turn \in Nat /\ Len(plan.cases) \in Nat /\ turn <= Len(plan.cases)
        /\ faults \in Nat
    BY CaseUnderWay DEF MainInv, TurnInv, RoomInv
  <1>2. MaxTrouble \in Nat /\ MaxTrouble + 2 * Len(plan.cases) <= MaxFaults /\ MaxFaults \in Nat
    BY <1>1, RoomAssumption, BoundsAssumption
  <1>3. faults + 1 <= MaxTrouble + 2 * Len(plan.cases)
    BY <1>1, <1>2
  <1> QED BY <1>1, <1>2, <1>3

\* The end of deploy, with its finally block, is the end of Services.
LEMMA CleanupIsServices ==
    ASSUME MainInv, plan.deploy, DeployStep, Cleanup(Case, First)
    PROVE  Services(Case)
  <1>1. /\ step = "cleanup" /\ Case \in Cases /\ bench[Case] = "services" /\ blame[Case] = {}
        /\ DOMAIN blame = Cases /\ "cleanup" \in InDeploy
    BY CaseUnderWay DEF Cleanup, MainInv, TurnInv, StageInv, InDeploy
  <1>2. faults < MaxFaults
    <2>1. Left = 2
      BY <1>1 DEF Left
    <2>2. faults + 1 <= MaxTrouble + 2 * turn
      <3>1. turn \in Nat
        BY CaseUnderWay DEF MainInv
      <3> QED BY <2>1, <3>1, RoomAssumption DEF MainInv, RoomInv
    <2> QED BY <1>1, <2>2, RoomForFault
  <1>3. UNCHANGED <<flags, mainVars, suite, rows, mon, env, cloud>>
    BY DEF Cleanup
  <1>4. raised' = "none" =>
          Goto(Case, "measure") /\ faults' = IF blame' = blame THEN faults ELSE faults + 1
    BY DEF Cleanup
  <1>5. raised' # "none" => Goto(Case, "teardown") /\ faults' = faults + 1
    BY DEF Cleanup
  <1>6. CASE objects' = [objects EXCEPT ![Case] = FALSE] /\ UNCHANGED blame
    BY <1>1, <1>2, <1>3, <1>4, <1>5, <1>6 DEF Services, Raises, Fault
  <1>7. CASE Blame(Case, "artifacts") /\ UNCHANGED objects
    <2>1. blame' # blame
      <3>1. blame'[Case] = {} \union {"artifacts"}
        BY <1>1, <1>7 DEF Blame
      <3> QED BY <1>1, <3>1
    <2>2. Fault
      BY <1>2, <1>4, <1>5, <2>1 DEF Fault
    <2> QED BY <1>1, <1>3, <1>4, <1>5, <1>7, <2>2 DEF Services
  <1> QED BY <1>6, <1>7 DEF Cleanup

\* Leaving the try block of main is the end of Measure.
LEMMA LeaveTryIsMeasure ==
    ASSUME MainInv, plan.deploy, step \in InMeasure, MeasureUnchanged,
           NEW why \in {"none", "error", "fatal"}, LeaveTry(why),
           why = "none" => HasRow("quic", Case)'
    PROVE  Measure(Case)
  <1>1. bench[Case] = "measure" /\ Goto(Case, "teardown")
    BY DEF MainInv, StageInv, LeaveTry
  <1>2. UNCHANGED <<flags, mainVars, suite, blame, mon, env, awsVars>> /\ Case' = Case
    BY DEF MeasureUnchanged, Case
  <1>3. PICK b \in BOOLEAN :
           /\ b <=> \E r \in results' : r.size = SizeOf[Case] /\ r.scenario = ScenarioOf[Case]
           /\ rows' = [rows EXCEPT ![Case] = b]
    BY Zenon DEF LeaveTry
  <1>4. CASE why = "none"
    <2>1. \E r \in results' : r.size = SizeOf[Case] /\ r.scenario = ScenarioOf[Case]
      BY <1>2, <1>4 DEF HasRow
    <2>2. rows' = [rows EXCEPT ![Case] = TRUE]
      BY <1>3, <2>1
    <2>3. faults' = faults
      BY <1>4 DEF LeaveTry
    <2> QED BY <1>1, <1>2, <2>2, <2>3 DEF Measure
  <1>5. CASE why # "none"
    <2>1. Left = 1
      BY DEF Left, InMeasure, InDeploy
    <2>2. faults < MaxFaults
      BY <2>1, RoomForFault DEF MainInv, RoomInv
    <2>3. Fault
      BY <1>5, <2>2 DEF LeaveTry, Fault
    <2> QED BY <1>1, <1>2, <1>3, <2>3 DEF Measure
  <1> QED BY <1>4, <1>5

\* Every step of a process that deploys is one of the benchmark's, or none.
LEMMA StepOfBenchmark ==
    ASSUME MainInv, plan.deploy, [BenchmarkNext]_benchmarkVars
    PROVE  BenchmarkStep \/ UNCHANGED vars
  <1>1. CASE NextCase
    <2>1. /\ turn \in 0..Len(plan.cases) /\ turn # Len(plan.cases)
          /\ turn + 1 \in 1..Len(plan.cases) /\ plan.cases[turn + 1] \in Cases
      BY <1>1, CaseUnderWay DEF MainInv, TurnInv, NextCase, LastCase
    <2>2. bench[plan.cases[turn + 1]] = "none"
      BY <2>1, CaseUnderWay DEF MainInv, StageInv
    <2>3. Goto(plan.cases[turn + 1], "deploy")
          /\ UNCHANGED <<flags, mainVars, suite, rows, blame, mon, env, awsVars, faults>>
      BY <1>1 DEF NextCase
    <2> QED BY <2>1, <2>2, <2>3 DEF BenchmarkStep
  <1>2. CASE Aws
    <2>1. Case \in Cases
      BY <1>2, CaseUnderWay DEF MainInv, TurnInv, Aws
    <2> QED BY <1>2, <2>1 DEF Aws, BenchmarkStep, Bench
  <1>3. CASE DeployStep
    <2>1. CASE Cleanup(Case, First)
      <3>1. Case \in Cases
        BY <2>1, CaseUnderWay DEF MainInv, TurnInv, Cleanup
      <3> QED BY <1>3, <2>1, <3>1, CleanupIsServices DEF BenchmarkStep, Bench
    <2> QED BY <1>3, <2>1 DEF DeployStep, Driver, SsmNotYet, SsmOnline, SendCommand, PollCommand,
                              CommandDone, FetchStatus, EndOfRound
  <1>4. CASE CollectBaseline \/ RunBenchmark \/ CollectRaft
    <2>1. step \in InMeasure /\ MeasureUnchanged /\ Case \in Cases /\ Case' = Case
      BY <1>4, CaseUnderWay DEF InMeasure, CollectBaseline, RunBenchmark, CollectRaft,
                                MeasureUnchanged, MainInv, TurnInv, Case
    <2>2. CASE StayInTry
      BY <2>1, <2>2 DEF StayInTry, MeasureUnchanged, vars, benchVars
    <2>3. ASSUME NEW why \in {"none", "error", "fatal"}, LeaveTry(why),
                 why = "none" => HasRow("quic", Case)'
          PROVE  BenchmarkStep
      BY <2>1, <2>3, LeaveTryIsMeasure DEF BenchmarkStep, Bench
    <2>4. HasRow("quic", Case) /\ results \subseteq results' => HasRow("quic", Case)'
      BY <2>1 DEF HasRow
    <2>5. CASE CollectBaseline
      BY <2>2, <2>3, <2>5 DEF CollectBaseline
    <2>6. CASE RunBenchmark
      <3>1. at = Len(Protocols) => HasRow("quic", Case)
        BY <2>6 DEF Protocols, RunBenchmark, MainInv, RowsInv
      <3>2. results \subseteq results'
        BY <2>6 DEF RunBenchmark
      <3> QED BY <2>2, <2>3, <2>4, <2>6, <3>1, <3>2 DEF RunBenchmark
    <2>7. CASE CollectRaft
      <3>1. HasRow("quic", Case) /\ results \subseteq results'
        BY <2>7 DEF CollectRaft, MainInv, RowsInv, HasRows
      <3> QED BY <2>3, <2>4, <2>7, <3>1 DEF CollectRaft
    <2> QED BY <1>4, <2>5, <2>6, <2>7
  <1>5. CASE LoadNodes \/ SaveResults \/ GenerateReport \/ InterruptedDeploy
             \/ InterruptedOutside \/ Environment
    BY <1>5 DEF LoadNodes, SaveResults, GenerateReport, InterruptedDeploy, Interrupted,
                InterruptedOutside, Environment, Instance, Fetch, Launch, CheckDaemons, Serve,
                Dead, Lost, Elect
  <1>6. CASE UNCHANGED benchmarkVars
    BY <1>6 DEF benchmarkVars
  <1> QED BY <1>1, <1>2, <1>3, <1>4, <1>5, <1>6 DEF BenchmarkNext, Process

\* A process that deploys its clusters does, case by case, what AwsTestRun says of a
\* benchmark (main and deploy of distributed_benchmark.py): whichever call fails and
\* whenever Ctrl-C comes, the artifacts are gone or blamed before measuring begins, and
\* what follows an exception is the teardown.
THEOREM ProcessIsBenchmark == BenchmarkSpec => ImplementsTestRun
  <1>1. MainInv /\ [BenchmarkNext]_benchmarkVars =>
           [plan.deploy =>
              \/ \E c \in Cases : Bench(c)
              \/ \E c \in Cases :
                    /\ bench[c] = "none" /\ Goto(c, "deploy")
                    /\ UNCHANGED <<flags, mainVars, suite, rows, blame, mon, env, awsVars,
                                   faults>>]_vars
    BY StepOfBenchmark DEF BenchmarkStep
  <1> QED BY <1>1, MainInvInductive, PTL DEF BenchmarkSpec, ImplementsTestRun

-----------------------------------------------------------------------------
(* The sum of a set of rows                                                *)

\* MapThenSumSet(LAMBDA r : r.tput, S) is SumOf(S)[S], a recursion on subsets of S.
Summed(f, s) ==
    IF s = {} THEN 0 ELSE LET x == CHOOSE x \in s : TRUE IN x.tput + f[s \ {x}]
SumOf(S) == CHOOSE f : f = [s \in SUBSET S |-> Summed(f, s)]

LEMMA MeanIsSum ==
    ASSUME NEW S
    PROVE  Mean(S) = <<SumOf(S)[S], Cardinality(S)>>
  BY DEF Mean, MapThenSumSet, MapThenFoldSet, SumOf, Summed

\* There is a least number in a nonempty set of them.
LEMMA LeastNumber ==
    ASSUME NEW T, T \subseteq Nat, T # {}
    PROVE  \E m \in T : \A n \in T : m <= n
  <1> DEFINE Less == OpToRel(<, Nat)
  <1>1. IsWellFoundedOn(Less, Nat)
    BY NatLessThanWellFounded
  <1>2. \E m \in T : \A n \in T : ~(<<n, m>> \in Less)
    BY <1>1, WFMin
  <1>3. \A m, n \in T : ~(<<n, m>> \in Less) => m <= n
    BY DEF OpToRel
  <1> QED BY <1>2, <1>3

\* Of the subsets of a finite set that are bad, one is not once any element is
\* taken away.
LEMMA SmallestSet ==
    ASSUME NEW S, IsFiniteSet(S), NEW Bad \in SUBSET (SUBSET S), Bad # {}
    PROVE  \E s \in Bad : \A x \in s : s \ {x} \notin Bad
  <1> DEFINE T == {Cardinality(s) : s \in Bad}
  <1>1. \A s \in SUBSET S : IsFiniteSet(s) /\ Cardinality(s) \in Nat
    BY FS_Subset, FS_CardinalityType
  <1>2. T \in SUBSET Nat /\ T # {}
    BY <1>1
  <1> HIDE DEF T
  <1>3. PICK m \in T : \A n \in T : m <= n
    BY <1>2, LeastNumber
  <1>4. PICK s \in Bad : Cardinality(s) = m
    BY DEF T
  <1>5. ASSUME NEW x \in s, s \ {x} \in Bad PROVE FALSE
    <2>1. IsFiniteSet(s)
      BY <1>1
    <2>2. Cardinality(s \ {x}) = Cardinality(s) - 1
      BY <2>1, FS_RemoveElement
    <2>3. Cardinality(s \ {x}) \in T
      BY <1>5 DEF T
    <2> QED BY <1>1, <1>3, <1>4, <2>2, <2>3
  <1> QED BY <1>4, <1>5

\* The recursion has a solution: one for the subsets with m elements extends to
\* those with m + 1.
LEMMA SumExists ==
    ASSUME NEW S, IsFiniteSet(S)
    PROVE  \E f : f = [s \in SUBSET S |-> Summed(f, s)]
  <1> DEFINE D(m) == {s \in SUBSET S : Cardinality(s) <= m}
             T == {m \in Nat : ~ \E f : f = [s \in D(m) |-> Summed(f, s)]}
  <1>1. \A s \in SUBSET S :
           IsFiniteSet(s) /\ Cardinality(s) \in Nat /\ Cardinality(s) <= Cardinality(S)
    BY FS_Subset, FS_CardinalityType
  <1>2. ASSUME NEW m \in Nat, NEW s \in D(m), NEW x \in s
        PROVE  s \ {x} \in SUBSET S /\ m # 0 /\ s \ {x} \in D(m - 1)
    <2>1. IsFiniteSet(s) /\ s # {} /\ s \ {x} \in SUBSET S
      BY <1>1, <1>2
    <2>2. Cardinality(s \ {x}) = Cardinality(s) - 1 /\ Cardinality(s \ {x}) \in Nat
      BY <1>1, <1>2, <2>1, FS_RemoveElement
    <2>3. Cardinality(s) \in Nat /\ Cardinality(s) <= m
      BY <1>1, <1>2
    <2> QED BY <2>1, <2>2, <2>3
  <1>3. T = {}
    <2> SUFFICES ASSUME T # {} PROVE FALSE
      OBVIOUS
    <2>1. PICK m \in T : \A n \in T : m <= n
      <3>1. T \in SUBSET Nat
        OBVIOUS
      <3> HIDE DEF T
      <3> QED BY <3>1, LeastNumber
    <2>2. m \in Nat /\ ~ \E f : f = [s \in D(m) |-> Summed(f, s)]
      BY <2>1
    <2>3. CASE m = 0
      <3> DEFINE g == [s \in D(m) |-> 0]
      <3>1. \A s \in D(m) : s = {}
        BY <1>2, <2>2, <2>3
      <3>2. \A s \in D(m) : Summed(g, s) = 0
        BY <3>1 DEF Summed
      <3>3. g = [s \in D(m) |-> Summed(g, s)]
        BY <3>2
      <3> QED BY <2>2, <3>3
    <2>4. CASE m # 0
      <3>1. m - 1 \in Nat /\ m - 1 \notin T
        <4>1. m - 1 \in Nat /\ ~(m <= m - 1)
          BY <2>2, <2>4
        <4> HIDE DEF T
        <4> QED BY <2>1, <4>1
      <3>2. PICK f : f = [s \in D(m - 1) |-> Summed(f, s)]
        BY <3>1
      <3> DEFINE g == [s \in D(m) |-> IF s \in D(m - 1) THEN f[s] ELSE Summed(f, s)]
      <3>3. D(m - 1) \subseteq D(m)
        BY <1>1, <2>2
      <3>4. \A s \in D(m - 1) : f[s] = Summed(f, s)
        BY <3>2
      <3>5. \A s \in D(m) : g[s] = Summed(f, s)
        BY <3>4
      <3>6. \A s \in D(m - 1) : g[s] = f[s]
        BY <3>3
      <3>7. ASSUME NEW s \in D(m) PROVE Summed(f, s) = Summed(g, s)
        <4>1. \A x \in s : s \ {x} \in D(m - 1)
          BY <1>2, <2>2
        <4>2. \A x \in s : g[s \ {x}] = f[s \ {x}]
          BY <3>6, <4>1
        <4> HIDE DEF g, D
        <4>3. CASE s = {}
          BY <4>3 DEF Summed
        <4>4. CASE s # {}
          <5>1. PICK c \in s : c = CHOOSE y \in s : TRUE
            BY <4>4
          <5>2. g[s \ {c}] = f[s \ {c}]
            BY <4>2
          <5>3. Summed(f, s) = c.tput + f[s \ {c}] /\ Summed(g, s) = c.tput + g[s \ {c}]
            BY <4>4, <5>1 DEF Summed
          <5> QED BY <5>2, <5>3
        <4> QED BY <4>3, <4>4
      <3>8. g = [s \in D(m) |-> Summed(g, s)]
        <4>1. \A s \in D(m) : g[s] = Summed(g, s)
          BY <3>5, <3>7
        <4> QED BY <4>1
      <3> QED BY <2>2, <3>8
    <2> QED BY <2>3, <2>4
  <1>4. Cardinality(S) \in Nat /\ Cardinality(S) \notin T
    BY <1>3, FS_CardinalityType
  <1>5. D(Cardinality(S)) = SUBSET S
    BY <1>1
  <1>6. \E f : f = [s \in D(Cardinality(S)) |-> Summed(f, s)]
    BY <1>4
  <1> HIDE DEF D
  <1> QED BY <1>5, <1>6

\* Rows with a throughput each, of which there are finitely many.
Rows(S) == IsFiniteSet(S) /\ \A r \in S : r.tput \in Nat

LEMMA SumStep ==
    ASSUME NEW S, Rows(S)
    PROVE  \A s \in SUBSET S : SumOf(S)[s] = Summed(SumOf(S), s) /\ SumOf(S)[s] \in Nat
  <1> DEFINE f == SumOf(S)
             Bad == {s \in SUBSET S : f[s] \notin Nat}
  <1>1. f = [s \in SUBSET S |-> Summed(f, s)]
    <2>1. \E g : g = [s \in SUBSET S |-> Summed(g, s)]
      BY SumExists DEF Rows
    <2> QED BY <2>1 DEF SumOf
  <1> HIDE DEF f
  <1>2. \A s \in SUBSET S : f[s] = Summed(f, s)
    BY <1>1
  <1>3. Bad = {}
    <2> SUFFICES ASSUME Bad # {} PROVE FALSE
      OBVIOUS
    <2>1. PICK s \in Bad : \A x \in s : s \ {x} \notin Bad
      <3>1. Bad \in SUBSET (SUBSET S)
        OBVIOUS
      <3> HIDE DEF Bad
      <3> QED BY <3>1, SmallestSet DEF Rows
    <2>2. s # {}
      <3>1. f[{}] = Summed(f, {}) /\ Summed(f, {}) = 0
        BY <1>2 DEF Summed
      <3>2. f[{}] \in Nat
        BY <3>1
      <3> QED BY <2>1, <3>2
    <2>3. PICK x \in s : x = CHOOSE y \in s : TRUE
      BY <2>2
    <2>4. f[s] = x.tput + f[s \ {x}]
      BY <1>2, <2>2, <2>3 DEF Summed
    <2>5. s \ {x} \in SUBSET S /\ f[s \ {x}] \in Nat /\ x.tput \in Nat
      BY <2>1, <2>3 DEF Rows
    <2> QED BY <2>1, <2>4, <2>5
  <1> QED BY <1>2, <1>3 DEF f

\* The order in which the rows are added does not matter.
LEMMA SumRemoves ==
    ASSUME NEW S, Rows(S)
    PROVE  /\ SumOf(S)[{}] = 0
           /\ \A s \in SUBSET S : \A x \in s : SumOf(S)[s] = x.tput + SumOf(S)[s \ {x}]
  <1> DEFINE f == SumOf(S)
             Removes(s, x) == f[s] = x.tput + f[s \ {x}]
             Bad == {s \in SUBSET S : \E x \in s : ~Removes(s, x)}
  <1>1. \A s \in SUBSET S : f[s] = Summed(f, s) /\ f[s] \in Nat
    BY SumStep
  <1> HIDE DEF f
  <1>2. f[{}] = 0
    BY <1>1 DEF Summed
  <1>3. Bad = {}
    <2> SUFFICES ASSUME Bad # {} PROVE FALSE
      OBVIOUS
    <2>1. PICK s \in Bad : \A x \in s : s \ {x} \notin Bad
      <3>1. Bad \in SUBSET (SUBSET S)
        OBVIOUS
      <3> HIDE DEF Bad
      <3> QED BY <3>1, SmallestSet DEF Rows
    <2>2. PICK x \in s : ~Removes(s, x)
      BY <2>1
    <2>3. PICK c \in s : c = CHOOSE y \in s : TRUE
      BY <2>2
    <2>4. s \in SUBSET S
      BY <2>1
    <2>5. Removes(s, c)
      BY <1>1, <2>2, <2>3, <2>4 DEF Summed
    <2>6. x # c
      BY <2>2, <2>5
    <2>7. Removes(s \ {c}, x)
      BY <2>1, <2>3, <2>4, <2>6
    <2>8. Removes(s \ {x}, c)
      BY <2>1, <2>2, <2>3, <2>4, <2>6
    <2>9. (s \ {c}) \ {x} = (s \ {x}) \ {c}
      OBVIOUS
    <2>10. /\ f[s \ {x}] \in Nat /\ f[(s \ {c}) \ {x}] \in Nat
           /\ x.tput \in Nat /\ c.tput \in Nat
      BY <1>1, <2>3, <2>4 DEF Rows
    <2>11. f[s] = c.tput + (x.tput + f[(s \ {c}) \ {x}])
      BY <2>5, <2>7
    <2>12. f[s \ {x}] = c.tput + f[(s \ {c}) \ {x}]
      BY <2>8, <2>9
    <2>13. \A i, j, k \in Nat : i + (j + k) = j + (i + k)
      OBVIOUS
    <2>14. f[s] = x.tput + f[s \ {x}]
      BY <2>10, <2>11, <2>12, <2>13
    <2> QED BY <2>2, <2>14
  <1> QED BY <1>2, <1>3 DEF f

\* A sum of positive rows is positive, and that of one row is the row.
LEMMA SumPositive ==
    ASSUME NEW S, Rows(S), S # {}, \A r \in S : r.tput > 0
    PROVE  SumOf(S)[S] \in Nat \ {0}
  <1>1. PICK x \in S : TRUE
    OBVIOUS
  <1>2. SumOf(S)[S] = x.tput + SumOf(S)[S \ {x}]
    BY SumRemoves
  <1>3. SumOf(S)[S \ {x}] \in Nat /\ x.tput \in Nat /\ x.tput > 0
    BY SumStep DEF Rows
  <1> QED BY <1>2, <1>3

LEMMA SumOfOne ==
    ASSUME NEW r, r.tput \in Nat
    PROVE  Rows({r}) /\ SumOf({r})[{r}] = r.tput
  <1>1. Rows({r})
    BY FS_Singleton DEF Rows
  <1>2. SumOf({r})[{r}] = r.tput + SumOf({r})[{r} \ {r}] /\ SumOf({r})[{}] = 0
    BY <1>1, SumRemoves
  <1>3. {r} \ {r} = {}
    OBVIOUS
  <1> QED BY <1>1, <1>2, <1>3

OnePerSize(A) == \A a, b \in A : a.size = b.size => a = b
SlowerThan(A, B) == \A a \in A, b \in B : a.size = b.size => a.tput <= b.tput

\* There are as many rows as sizes.
LEMMA SizesCount ==
    ASSUME NEW A, IsFiniteSet(A), OnePerSize(A)
    PROVE  IsFiniteSet(Sizes(A)) /\ Cardinality(Sizes(A)) = Cardinality(A)
  <1> DEFINE size == [a \in A |-> a.size]
  <1>1. size \in [A -> Sizes(A)] /\ \A a \in A : size[a] = a.size
    BY DEF Sizes
  <1>2. \A z \in Sizes(A) : \E a \in A : size[a] = z
    BY DEF Sizes
  <1>3. \A a, b \in A : size[a] = size[b] => a = b
    BY <1>1 DEF OnePerSize
  <1> HIDE DEF size
  <1>4. size \in Bijection(A, Sizes(A))
    BY <1>1, <1>2, <1>3 DEF Bijection, Injection, Surjection, IsInjective
  <1>5. ExistsBijection(A, Sizes(A))
    BY <1>4 DEF ExistsBijection
  <1> QED BY <1>5, FS_Bijection

\* Of two sets with one row per size, and the same sizes, the one that is slower at
\* every size has the smaller sum.
LEMMA SumsCompare ==
    ASSUME NEW A, NEW B, Rows(A), Rows(B), OnePerSize(A), OnePerSize(B),
           Sizes(A) = Sizes(B), SlowerThan(A, B)
    PROVE  SumOf(A)[A] <= SumOf(B)[B]
  <1> DEFINE Part(S, W) == {r \in S : r.size \in W}
             Bad == {W \in SUBSET Sizes(A) : ~(SumOf(A)[Part(A, W)] <= SumOf(B)[Part(B, W)])}
  <1>1. IsFiniteSet(Sizes(A))
    BY SizesCount DEF Rows
  <1>2. \A S, W : Part(S, W) \in SUBSET S
    OBVIOUS
  <1>3. Bad = {}
    <2> SUFFICES ASSUME Bad # {} PROVE FALSE
      OBVIOUS
    <2>1. PICK W \in Bad : \A z \in W : W \ {z} \notin Bad
      <3>1. Bad \in SUBSET (SUBSET Sizes(A))
        OBVIOUS
      <3> HIDE DEF Bad
      <3> QED BY <1>1, <3>1, SmallestSet
    <2>2. W \in SUBSET Sizes(A) /\ ~(SumOf(A)[Part(A, W)] <= SumOf(B)[Part(B, W)])
      BY <2>1
    <2>3. W # {}
      <3> SUFFICES ASSUME W = {} PROVE FALSE
        OBVIOUS
      <3>1. Part(A, W) = {} /\ Part(B, W) = {}
        OBVIOUS
      <3>2. SumOf(A)[{}] = 0 /\ SumOf(B)[{}] = 0
        BY SumRemoves
      <3> HIDE DEF Part
      <3> QED BY <2>2, <3>1, <3>2
    <2>4. PICK z \in W : TRUE
      BY <2>3
    <2>5. PICK a \in A, b \in B : a.size = z /\ b.size = z
      BY <2>2 DEF Sizes
    <2>6. Part(A, W \ {z}) = Part(A, W) \ {a} /\ a \in Part(A, W)
      BY <2>4, <2>5 DEF OnePerSize
    <2>7. Part(B, W \ {z}) = Part(B, W) \ {b} /\ b \in Part(B, W)
      BY <2>4, <2>5 DEF OnePerSize
    <2>8. SumOf(A)[Part(A, W \ {z})] <= SumOf(B)[Part(B, W \ {z})]
      BY <2>1, <2>2, <2>4
    <2> HIDE DEF Part
    <2>9. SumOf(A)[Part(A, W)] = a.tput + SumOf(A)[Part(A, W \ {z})]
      <3>1. \A s \in SUBSET A : \A x \in s : SumOf(A)[s] = x.tput + SumOf(A)[s \ {x}]
        BY SumRemoves
      <3>2. SumOf(A)[Part(A, W)] = a.tput + SumOf(A)[Part(A, W) \ {a}]
        BY <1>2, <2>6, <3>1
      <3> QED BY <2>6, <3>2
    <2>10. SumOf(B)[Part(B, W)] = b.tput + SumOf(B)[Part(B, W \ {z})]
      <3>1. \A s \in SUBSET B : \A x \in s : SumOf(B)[s] = x.tput + SumOf(B)[s \ {x}]
        BY SumRemoves
      <3>2. SumOf(B)[Part(B, W)] = b.tput + SumOf(B)[Part(B, W) \ {b}]
        BY <1>2, <2>7, <3>1
      <3> QED BY <2>7, <3>2
    <2>11. SumOf(A)[Part(A, W \ {z})] \in Nat /\ SumOf(B)[Part(B, W \ {z})] \in Nat
      BY <1>2, SumStep
    <2>12. a.tput \in Nat /\ b.tput \in Nat /\ a.tput <= b.tput
      BY <2>5 DEF Rows, SlowerThan
    <2>13. \A i, j, k, l \in Nat : i <= j /\ k <= l => i + k <= j + l
      OBVIOUS
    <2> QED BY <2>2, <2>8, <2>9, <2>10, <2>11, <2>12, <2>13
  <1>4. Part(A, Sizes(A)) = A /\ Part(B, Sizes(A)) = B
    BY DEF Sizes
  <1>5. SumOf(A)[Part(A, Sizes(A))] <= SumOf(B)[Part(B, Sizes(A))]
    BY <1>3
  <1> HIDE DEF Part
  <1> QED BY <1>4, <1>5

-----------------------------------------------------------------------------
(* Evaluations                                                             *)

OneRowEach(R) ==
    \A q, r \in R :
        q.protocol = r.protocol /\ q.scenario = r.scenario /\ q.size = r.size => q = r

\* A quotient of means over equally many rows is one of sums.
LEMMA QuotientOfMeans ==
    ASSUME NEW A, NEW B, Rows(A), Rows(B), A # {}, Cardinality(A) = Cardinality(B),
           SumOf(B)[B] \in Nat \ {0}
    PROVE  /\ SumOf(A)[A] >= SumOf(B)[B] => AtLeastOne(Quotient(Mean(A), Mean(B)))
           /\ SumOf(A)[A] <= SumOf(B)[B] => AtMostOne(Quotient(Mean(A), Mean(B)))
  <1>1. PICK a \in Nat, b \in Nat \ {0}, n \in Nat :
            a = SumOf(A)[A] /\ b = SumOf(B)[B] /\ n = Cardinality(A)
    BY SumStep, FS_CardinalityType DEF Rows
  <1>2. Mean(A) = <<a, n>> /\ Mean(B) = <<b, n>>
    BY <1>1, MeanIsSum
  <1>3. Quotient(Mean(A), Mean(B)) = <<a * n, n * b>>
    BY <1>2 DEF Quotient
  <1>4. (a >= b => a * n >= n * b) /\ (a <= b => a * n <= n * b)
    <2>1. \A i, j, k \in Nat : i <= j => i * k <= j * k
      <3> SUFFICES ASSUME NEW i \in Nat, NEW d \in Nat, NEW k \in Nat
                   PROVE  i * k <= (i + d) * k
        <4>1. \A i, j \in Nat : i <= j => \E d \in Nat : j = i + d
          <5> SUFFICES ASSUME NEW i \in Nat, NEW j \in Nat, i <= j PROVE \E d \in Nat : j = i + d
            OBVIOUS
          <5>1. j - i \in Nat /\ j = i + (j - i)
            OBVIOUS
          <5> QED BY <5>1
        <4> QED BY <4>1
      <3>1. (i + d) * k = i * k + d * k /\ d * k \in Nat /\ i * k \in Nat
        OBVIOUS
      <3> QED BY <3>1
    <2>2. n * b = b * n
      OBVIOUS
    <2>3. b \in Nat /\ (a >= b <=> b <= a) /\ (a * n >= b * n <=> b * n <= a * n)
      OBVIOUS
    <2> QED BY <2>1, <2>2, <2>3
  <1> QED BY <1>1, <1>3, <1>4 DEF AtLeastOne, AtMostOne

\* And of single rows it is that of the rows.
LEMMA QuotientOfRows ==
    ASSUME NEW q, NEW t, q.tput \in Nat, t.tput \in Nat \ {0}
    PROVE  AtLeastOne(Quotient(Mean({q}), Mean({t}))) <=> t.tput <= q.tput
  <1>1. Mean({q}) = <<q.tput, 1>> /\ Mean({t}) = <<t.tput, 1>>
    BY MeanIsSum, SumOfOne, FS_Singleton
  <1>2. Quotient(Mean({q}), Mean({t})) = <<q.tput, t.tput>>
    BY <1>1 DEF Quotient
  <1> QED BY <1>2 DEF AtLeastOne

LEMMA RowsAgree ==
    ASSUME NEW R, Rows(R), OneRowEach(R)
    PROVE  ToolsAgree(R)
  <1> SUFFICES ASSUME NEW s \in Scenarios(R), Comparable(R, s)
               PROVE  LET sizes == Sizes(Of(R, "quic", s))
                          overall == QuicVsTcp(R)[s]
                          total == Quotient(ByProtocol(R)["quic"], ByProtocol(R)["tcp"])
                      IN /\ (\A z \in sizes : AtMostOne(RatioBar(R, s, z))) => AtLeastOne(overall)
                         /\ (\A z \in sizes : AtLeastOne(RatioBar(R, s, z))) => AtMostOne(overall)
                         /\ s = "same-region" => \A z \in sizes :
                                AtLeastOne(ReportRatios(R)[z]) <=> AtMostOne(RatioBar(R, s, z))
                         /\ Scenarios(R) = {s} => (AtLeastOne(total) <=> AtLeastOne(overall))
    BY DEF ToolsAgree
  <1> DEFINE quic == Of(R, "quic", s)
             tcp == Of(R, "tcp", s)
  <1>1. /\ Rows(quic) /\ Rows(tcp) /\ OnePerSize(quic) /\ OnePerSize(tcp)
        /\ \A r \in quic \union tcp : r \in R /\ r.tput \in Nat \ {0}
    <2>1. quic \subseteq R /\ tcp \subseteq R
      BY DEF Of
    <2>2. Rows(quic) /\ Rows(tcp)
      BY <2>1, FS_Subset DEF Rows
    <2>3. OnePerSize(quic) /\ OnePerSize(tcp)
      BY DEF OnePerSize, OneRowEach, Of
    <2>4. \A r \in quic \union tcp : r \in R /\ r.tput \in Nat \ {0}
      BY DEF Of, Rows, Comparable
    <2> QED BY <2>2, <2>3, <2>4
  <1>2. quic # {} /\ Sizes(quic) = Sizes(tcp)
    BY DEF Comparable
  <1>3. tcp # {}
    <2>1. PICK q \in quic : TRUE
      BY <1>2
    <2>2. q.size \in Sizes(tcp)
      BY <1>2 DEF Sizes
    <2> QED BY <2>2 DEF Sizes
  <1>4. ASSUME NEW z \in Sizes(quic)
        PROVE  \E q \in quic, t \in tcp :
                  /\ OfSize(quic, z) = {q} /\ OfSize(tcp, z) = {t}
                  /\ RatioBar(R, s, z) = <<t.tput, q.tput>>
    <2>1. PICK q \in quic, t \in tcp : q.size = z /\ t.size = z
      BY <1>2 DEF Sizes
    <2>2. OfSize(quic, z) = {q} /\ OfSize(tcp, z) = {t}
      BY <1>1, <2>1 DEF OfSize, OnePerSize
    <2> HIDE DEF quic, tcp
    <2>3. RatioBar(R, s, z) = <<t.tput, q.tput>>
      BY <2>2 DEF RatioBar, Bar, quic, tcp
    <2> QED BY <2>2, <2>3
  <1>5. QuicVsTcp(R)[s] = Quotient(Mean(quic), Mean(tcp))
    BY <1>2, <1>3 DEF QuicVsTcp
  <1>6. /\ SumOf(quic)[quic] \in Nat \ {0} /\ SumOf(tcp)[tcp] \in Nat \ {0}
        /\ Cardinality(quic) = Cardinality(tcp)
    <2>1. \A r \in quic \union tcp : r.tput > 0
      BY <1>1
    <2> HIDE DEF quic, tcp
    <2> QED BY <1>1, <1>2, <1>3, <2>1, SumPositive, SizesCount DEF Rows
  <1>7. (\A z \in Sizes(quic) : AtMostOne(RatioBar(R, s, z))) => AtLeastOne(QuicVsTcp(R)[s])
    <2> SUFFICES ASSUME \A z \in Sizes(quic) : AtMostOne(RatioBar(R, s, z))
                 PROVE  AtLeastOne(QuicVsTcp(R)[s])
      OBVIOUS
    <2>1. SlowerThan(tcp, quic)
      <3> SUFFICES ASSUME NEW t \in tcp, NEW q \in quic, t.size = q.size
                   PROVE  t.tput <= q.tput
        BY DEF SlowerThan
      <3>1. q.size \in Sizes(quic) /\ q \in OfSize(quic, q.size) /\ t \in OfSize(tcp, q.size)
        BY DEF Sizes, OfSize
      <3> HIDE DEF quic, tcp
      <3>2. RatioBar(R, s, q.size) = <<t.tput, q.tput>>
        BY <1>4, <3>1
      <3>3. AtMostOne(RatioBar(R, s, q.size))
        BY <3>1
      <3> QED BY <3>2, <3>3 DEF AtMostOne
    <2> HIDE DEF quic, tcp
    <2>2. SumOf(tcp)[tcp] <= SumOf(quic)[quic]
      BY <1>1, <1>2, <2>1, SumsCompare
    <2>3. SumOf(quic)[quic] >= SumOf(tcp)[tcp]
      BY <1>6, <2>2
    <2> QED BY <1>1, <1>2, <1>5, <1>6, <2>3, QuotientOfMeans
  <1>8. (\A z \in Sizes(quic) : AtLeastOne(RatioBar(R, s, z))) => AtMostOne(QuicVsTcp(R)[s])
    <2> SUFFICES ASSUME \A z \in Sizes(quic) : AtLeastOne(RatioBar(R, s, z))
                 PROVE  AtMostOne(QuicVsTcp(R)[s])
      OBVIOUS
    <2>1. SlowerThan(quic, tcp)
      <3> SUFFICES ASSUME NEW q \in quic, NEW t \in tcp, q.size = t.size
                   PROVE  q.tput <= t.tput
        BY DEF SlowerThan
      <3>1. q.size \in Sizes(quic) /\ q \in OfSize(quic, q.size) /\ t \in OfSize(tcp, q.size)
        BY DEF Sizes, OfSize
      <3>2. q.tput \in Nat /\ t.tput \in Nat
        BY <1>1
      <3> HIDE DEF quic, tcp
      <3>3. RatioBar(R, s, q.size) = <<t.tput, q.tput>>
        BY <1>4, <3>1
      <3>4. AtLeastOne(RatioBar(R, s, q.size))
        BY <3>1
      <3> QED BY <3>2, <3>3, <3>4 DEF AtLeastOne
    <2> HIDE DEF quic, tcp
    <2>2. SumOf(quic)[quic] <= SumOf(tcp)[tcp]
      BY <1>1, <1>2, <2>1, SumsCompare
    <2> QED BY <1>1, <1>2, <1>5, <1>6, <2>2, QuotientOfMeans
  <1>9. s = "same-region" => \A z \in Sizes(quic) :
            AtLeastOne(ReportRatios(R)[z]) <=> AtMostOne(RatioBar(R, s, z))
    <2> SUFFICES ASSUME s = "same-region", NEW z \in Sizes(quic)
                 PROVE  AtLeastOne(ReportRatios(R)[z]) <=> AtMostOne(RatioBar(R, s, z))
      OBVIOUS
    <2>1. PICK q \in quic, t \in tcp :
              /\ OfSize(quic, z) = {q} /\ OfSize(tcp, z) = {t}
              /\ RatioBar(R, s, z) = <<t.tput, q.tput>>
      BY <1>4
    <2>2. ReportRatios(R)[z] = Quotient(Mean(OfSize(quic, z)), Mean(OfSize(tcp, z)))
      BY <1>2 DEF ReportRatios
    <2>3. q.tput \in Nat /\ t.tput \in Nat \ {0}
      BY <1>1
    <2> HIDE DEF quic, tcp
    <2>4. AtLeastOne(ReportRatios(R)[z]) <=> t.tput <= q.tput
      BY <2>1, <2>2, <2>3, QuotientOfRows
    <2> QED BY <2>1, <2>4 DEF AtMostOne
  <1>10. Scenarios(R) = {s} =>
            Quotient(ByProtocol(R)["quic"], ByProtocol(R)["tcp"]) = QuicVsTcp(R)[s]
    <2> SUFFICES ASSUME Scenarios(R) = {s}
                 PROVE  Quotient(ByProtocol(R)["quic"], ByProtocol(R)["tcp"]) = QuicVsTcp(R)[s]
      OBVIOUS
    <2>1. \A r \in R : r.scenario = s
      BY DEF Scenarios
    <2>2. {r \in R : r.protocol = "quic"} = quic /\ {r \in R : r.protocol = "tcp"} = tcp
      BY <2>1 DEF Of
    <2>3. {"quic", "tcp"} \subseteq {r.protocol : r \in R}
      BY <1>2, <1>3 DEF Of
    <2> HIDE DEF quic, tcp
    <2>4. ByProtocol(R)["quic"] = Mean(quic) /\ ByProtocol(R)["tcp"] = Mean(tcp)
      BY <2>2, <2>3 DEF ByProtocol
    <2> QED BY <1>5, <2>4
  <1> QED BY <1>7, <1>8, <1>9, <1>10

\* Where both protocols were measured, and every row is positive, everything can be made.
LEMMA RowsEvaluate ==
    ASSUME NEW R, Rows(R), R # {},
           \A r \in R : r.tput > 0 /\ r.size \in Nat,
           \A r \in R : \A p \in {"quic", "tcp"} : \E q \in R :
               q.protocol = p /\ q.scenario = r.scenario /\ q.size = r.size
    PROVE  Evaluated(R)
  <1> DEFINE Positive(m) == \E a \in Nat \ {0}, n \in Nat \ {0} : m = <<a, n>>
  <1>1. ASSUME NEW S \in SUBSET R, S # {}
        PROVE  Positive(Mean(S))
    <2>1. Rows(S) /\ \A r \in S : r.tput > 0
      BY <1>1, FS_Subset DEF Rows
    <2>2. SumOf(S)[S] \in Nat \ {0} /\ Cardinality(S) \in Nat \ {0}
      BY <1>1, <2>1, SumPositive, FS_CardinalityType, FS_EmptySet DEF Rows
    <2> QED BY <2>2, MeanIsSum
  <1>2. ASSUME NEW s \in Scenarios(R), NEW z \in DOMAIN Scaling(R)[s]
        PROVE  Scaling(R)[s][z][2] # 0
    <2> DEFINE mine == {r \in R : r.scenario = s}
               least == Smallest(Sizes(mine))
    <2>1. DOMAIN Scaling(R)[s] = Sizes(mine)
      BY DEF Scaling
    <2>2. Sizes(mine) \in SUBSET Nat /\ Sizes(mine) # {}
      <3>1. PICK r \in R : r.scenario = s
        BY DEF Scenarios
      <3>2. r.size \in Sizes(mine)
        BY <3>1 DEF Sizes
      <3>3. Sizes(mine) \subseteq Nat
        <4> SUFFICES ASSUME NEW y \in Sizes(mine) PROVE y \in Nat
          OBVIOUS
        <4>1. PICK q \in mine : q.size = y
          BY DEF Sizes
        <4> QED BY <4>1
      <3> QED BY <3>2, <3>3
    <2>3. least \in Sizes(mine)
      <3> HIDE DEF mine
      <3>1. \E y \in Sizes(mine) : \A x \in Sizes(mine) : y <= x
        BY <2>2, LeastNumber
      <3> QED BY <3>1 DEF Smallest
    <2>4. ASSUME NEW y \in Sizes(mine)
          PROVE  Positive(Mean(OfSize(mine, y)))
      <3>1. PICK r \in mine : r.size = y
        BY DEF Sizes
      <3>2. r \in OfSize(mine, y) /\ OfSize(mine, y) \subseteq R
        BY <3>1 DEF OfSize
      <3>3. OfSize(mine, y) # {} /\ OfSize(mine, y) \in SUBSET R
        BY <3>2
      <3> HIDE DEF mine, Positive
      <3> QED BY <1>1, <3>3
    <2>5. Scaling(R)[s][z] = IF z = least THEN <<1, 1>>
              ELSE <<Mean(OfSize(mine, z))[1] * Mean(OfSize(mine, least))[2],
                     Mean(OfSize(mine, z))[2] * Mean(OfSize(mine, least))[1]>>
      BY <2>1 DEF Scaling
    <2> HIDE DEF mine, least
    <2>6. PICK a \in Nat \ {0}, n \in Nat \ {0} : Mean(OfSize(mine, z)) = <<a, n>>
      BY <2>1, <2>4
    <2>7. PICK b \in Nat \ {0}, m \in Nat \ {0} : Mean(OfSize(mine, least)) = <<b, m>>
      BY <2>3, <2>4
    <2>8. Scaling(R)[s][z] = IF z = least THEN <<1, 1>> ELSE <<a * m, n * b>>
      BY <2>5, <2>6, <2>7
    <2>9. n * b # 0
      OBVIOUS
    <2> QED BY <2>8, <2>9
  <1>3. HtmlReport(R)
    BY <1>2 DEF HtmlReport, DividesByZero
  <1>4. ASSUME NEW r \in R, NEW p \in {"quic", "tcp"}
        PROVE  OfSize(Of(R, p, r.scenario), r.size) # {}
    <2>1. PICK q \in R : q.protocol = p /\ q.scenario = r.scenario /\ q.size = r.size
      OBVIOUS
    <2>2. q \in OfSize(Of(R, p, r.scenario), r.size)
      BY <2>1 DEF OfSize, Of
    <2> QED BY <2>2
  <1>5. \A p, s, z : OfSize(Of(R, p, s), z) # {} => Bar(R, p, s, z) > 0
    <2> SUFFICES ASSUME NEW p, NEW s, NEW z, OfSize(Of(R, p, s), z) # {}
                 PROVE  Bar(R, p, s, z) > 0
      OBVIOUS
    <2>1. PICK r \in OfSize(Of(R, p, s), z) : r = CHOOSE y \in OfSize(Of(R, p, s), z) : TRUE
      OBVIOUS
    <2>2. Bar(R, p, s, z) = r.tput
      BY <2>1 DEF Bar
    <2>3. r \in R
      BY <2>1 DEF OfSize, Of
    <2> QED BY <2>2, <2>3
  <1>6. Charts(R) = 1..7
    <2> SUFFICES ASSUME NEW s, NEW z, Bar(R, "quic", s, z) > 0, OfSize(Of(R, "tcp", s), z) = {}
                 PROVE  FALSE
      BY DEF Charts, RowMissing, RatioBars
    <2>1. OfSize(Of(R, "quic", s), z) # {}
      BY DEF Bar
    <2>2. PICK r \in R : r.scenario = s /\ r.size = z
      BY <2>1 DEF OfSize, Of
    <2> QED BY <1>4, <2>2
  <1>7. DOMAIN QuicVsTcp(R) = Scenarios(R)
    <2>1. ASSUME NEW s \in Scenarios(R)
          PROVE  Of(R, "quic", s) # {} /\ Of(R, "tcp", s) # {}
      <3>1. PICK r \in R : r.scenario = s
        BY DEF Scenarios
      <3> QED BY <1>4, <3>1 DEF OfSize
    <2> QED BY <2>1 DEF QuicVsTcp
  <1>8. ASSUME NEW s \in Scenarios(R), NEW z \in Sizes({r \in R : r.scenario = s})
        PROVE  Bar(R, "quic", s, z) > 0 /\ Bar(R, "tcp", s, z) > 0
    <2>1. PICK r \in R : r.scenario = s /\ r.size = z
      BY DEF Sizes
    <2> QED BY <1>4, <1>5, <2>1
  <1> QED BY <1>3, <1>6, <1>7, <1>8 DEF Evaluated

-----------------------------------------------------------------------------
(* The rows of a run and what is made of them                              *)

NoCaseTwice ==
    \A p \in Plans : \A j, k \in 1..Len(p.cases) : p.cases[j] = p.cases[k] => j = k
NamesCases == \A p \in Plans : p.cases # <<>>

\* The rows of the case under way that have not been measured yet.
Early ==
    \/ step \in {"load", "baseline"} \union InDeploy
    \/ step = "aws" /\ bench[Case] # "teardown"
ToCome(p) == Early \/ (step = "run" /\ (p = "quic" => at = 1))

\* Rows are of cases that were begun, and they are saved together.
SourceInv ==
    /\ IsFiniteSet(results)
    /\ \A r \in results :
          /\ r.tput \in Nat
          /\ \E k \in 1..turn : /\ r.size = SizeOf[plan.cases[k]]
                                /\ r.scenario = ScenarioOf[plan.cases[k]]
    /\ saved = {} \/ saved = results
    /\ step \notin {"report", "exit"} => saved = {}

\* A case is measured once for each protocol.
UniqueInv ==
    NoCaseTwice =>
        /\ OneRowEach(results)
        /\ \A p \in {"quic", "tcp"} : ToCome(p) => ~HasRow(p, Case)

ResultsInv == SourceInv /\ UniqueInv

\* Where nothing is measured, and the case under way, if nothing of it has been, was
\* so before.
LEMMA ResultsStay ==
    ASSUME ResultsInv, UNCHANGED <<plan, turn, results, saved>>,
           step \in {"report", "exit"} => step' \in {"report", "exit"},
           Early' \/ step' = "run" => Early
    PROVE  ResultsInv'
  <1>1. SourceInv'
    BY DEF ResultsInv, SourceInv
  <1>2. Case' = Case
    BY DEF Case
  <1>3. UniqueInv'
    BY <1>2 DEF ResultsInv, UniqueInv, ToCome, HasRow, OneRowEach
  <1> QED BY <1>1, <1>3 DEF ResultsInv

LEMMA RunBenchmarkKeepsResults ==
    ASSUME MainInv, ResultsInv, RunBenchmark
    PROVE  ResultsInv'
  <1>1. /\ step = "run" /\ turn # 0 /\ turn \in 1..Len(plan.cases) /\ Case \in Cases
        /\ at \in 1..2 /\ saved = {} /\ UNCHANGED <<plan, turn, saved>> /\ Case' = Case
    BY CaseUnderWay
       DEF RunBenchmark, MainInv, TurnInv, RowsInv, ResultsInv, SourceInv, MeasureUnchanged, Case
  <1>2. bench \in [Cases -> Steps \union {"none", "ended", "died"}] /\ Len(Protocols) = 2
    BY DEF MainInv, StageInv, Protocols
  <1>3. ASSUME NEW why, LeaveTry(why)
        PROVE  step' \notin {"report", "run"} /\ ~Early'
    <2>1. \/ step' \in {"next", "exit"}
          \/ step' = "aws" /\ bench'[Case] = "teardown"
      BY <1>1, <1>2, <1>3 DEF LeaveTry, LeftCase, Goto
    <2> QED BY <1>1, <2>1 DEF Early, InDeploy
  <1>4. CASE UNCHANGED results /\ \E why \in {"error", "fatal"} : LeaveTry(why)
    BY <1>1, <1>3, <1>4, ResultsStay
  <1>5. CASE \E t \in Throughputs :
                /\ results' = results \union {Row(Protocols[at], t)}
                /\ ~Early' /\ (step' = "run" => at = 1 /\ at' = 2)
    <2>1. PICK t \in Throughputs : results' = results \union {Row(Protocols[at], t)}
      BY <1>5
    <2> DEFINE new == Row(Protocols[at], t)
    <2>2. /\ new.protocol = Protocols[at] /\ new.size = SizeOf[Case]
          /\ new.scenario = ScenarioOf[Case] /\ new.tput \in Nat
      BY <1>1, MeasuresAssumption DEF Row, Throughputs
    <2> HIDE DEF new
    <2>3. SourceInv'
      <3>1. IsFiniteSet(results')
        BY <2>1, FS_AddElement DEF ResultsInv, SourceInv, new
      <3>2. \A r \in results' :
              /\ r.tput \in Nat
              /\ \E k \in 1..turn : /\ r.size = SizeOf[plan.cases[k]]
                                    /\ r.scenario = ScenarioOf[plan.cases[k]]
        <4> SUFFICES ASSUME NEW r \in results'
                     PROVE  /\ r.tput \in Nat
                            /\ \E k \in 1..turn : /\ r.size = SizeOf[plan.cases[k]]
                                                  /\ r.scenario = ScenarioOf[plan.cases[k]]
          OBVIOUS
        <4>1. CASE r \in results
          BY <4>1 DEF ResultsInv, SourceInv
        <4>2. CASE r = new
          BY <1>1, <2>2, <4>2 DEF Case
        <4> QED BY <2>1, <4>1, <4>2 DEF new
      <3> QED BY <1>1, <3>1, <3>2 DEF SourceInv
    <2>4. UniqueInv'
      <3> SUFFICES ASSUME NoCaseTwice
                   PROVE  /\ OneRowEach(results')
                          /\ \A p \in {"quic", "tcp"} : ToCome(p)' => ~HasRow(p, Case)'
        BY DEF UniqueInv
      <3>1. ToCome(Protocols[at]) /\ Protocols[at] \in {"quic", "tcp"}
        BY <1>1 DEF ToCome, Protocols
      <3>2. ~HasRow(Protocols[at], Case) /\ OneRowEach(results)
        BY <3>1 DEF ResultsInv, UniqueInv
      <3>3. \A r \in results :
               ~(r.protocol = new.protocol /\ r.size = new.size /\ r.scenario = new.scenario)
        BY <2>2, <3>2 DEF HasRow
      <3>4. OneRowEach(results')
        BY <2>1, <3>2, <3>3 DEF OneRowEach, new
      <3>5. ASSUME NEW p \in {"quic", "tcp"}, ToCome(p)', HasRow(p, Case)'
            PROVE  FALSE
        <4>1. step' = "run" /\ at = 1 /\ at' = 2
          BY <1>5, <3>5 DEF ToCome
        <4>2. p = "tcp" /\ ToCome(p)
          BY <1>1, <3>5, <4>1 DEF ToCome, Early, InDeploy
        <4>3. ~HasRow(p, Case) /\ new.protocol = "quic"
          BY <2>2, <4>1, <4>2 DEF ResultsInv, UniqueInv, Protocols
        <4>4. \E r \in results' :
                 r.protocol = p /\ r.size = SizeOf[Case] /\ r.scenario = ScenarioOf[Case]
          BY <1>1, <3>5 DEF HasRow
        <4> QED BY <2>1, <4>2, <4>3, <4>4 DEF HasRow, new
      <3> QED BY <3>4, <3>5
    <2> QED BY <2>3, <2>4 DEF ResultsInv
  <1>6. ASSUME step' \in {"run", "sample"} PROVE ~Early'
    BY <1>6 DEF Early, InDeploy
  <1>7. \/ UNCHANGED results /\ \E why \in {"error", "fatal"} : LeaveTry(why)
        \/ \E t \in Throughputs :
                /\ results' = results \union {Row(Protocols[at], t)}
                /\ ~Early' /\ (step' = "run" => at = 1 /\ at' = 2)
    BY <1>1, <1>2, <1>3, <1>6 DEF RunBenchmark, StayInTry
  <1> QED BY <1>4, <1>5, <1>7
LEMMA ResultsInvInductive ==
    /\ BenchmarkInit => ResultsInv
    /\ MainInv /\ ResultsInv /\ [BenchmarkNext]_benchmarkVars => ResultsInv'
  <1>1. ASSUME BenchmarkInit PROVE ResultsInv
    BY <1>1, FS_EmptySet
       DEF BenchmarkInit, DeployInit, ResultsInv, SourceInv, UniqueInv, OneRowEach, ToCome, Early,
           InDeploy
  <1> SUFFICES ASSUME MainInv, ResultsInv, [BenchmarkNext]_benchmarkVars
               PROVE  ResultsInv'
    BY <1>1
  <1>2. CASE NextCase
    <2>1. /\ step = "next" /\ turn' = turn + 1 /\ turn' \in 1..Len(plan.cases) /\ turn \in Nat
          /\ UNCHANGED <<plan, results, saved>> /\ step' \in {"aws", "load"} /\ saved = {}
      BY <1>2, CaseUnderWay DEF NextCase, LastCase, MainInv, TurnInv, ResultsInv, SourceInv
    <2>2. SourceInv'
      BY <2>1 DEF ResultsInv, SourceInv
    <2>3. ASSUME NoCaseTwice, NEW p, HasRow(p, Case)'
          PROVE  FALSE
      <3>1. PICK r \in results : r.size = SizeOf[plan.cases[turn + 1]]
                                 /\ r.scenario = ScenarioOf[plan.cases[turn + 1]]
        <4>1. Case' = plan.cases[turn + 1]
          BY <2>1 DEF Case
        <4> QED BY <2>1, <2>3, <4>1 DEF HasRow
      <3>2. PICK k \in 1..turn : r.size = SizeOf[plan.cases[k]]
                                 /\ r.scenario = ScenarioOf[plan.cases[k]]
        BY DEF ResultsInv, SourceInv
      <3>3. /\ k \in 1..Len(plan.cases) /\ turn + 1 \in 1..Len(plan.cases) /\ k # turn + 1
            /\ Len(plan.cases) \in Nat
        BY <2>1, CaseUnderWay DEF MainInv
      <3>4. plan.cases[k] \in Cases /\ plan.cases[turn + 1] \in Cases /\ plan \in Plans
        BY <3>3, CaseUnderWay DEF MainInv, TurnInv
      <3>5. plan.cases[k] = plan.cases[turn + 1]
        BY <3>1, <3>2, <3>4, MeasuresAssumption
      <3> QED BY <2>3, <3>3, <3>4, <3>5 DEF NoCaseTwice
    <2>4. UniqueInv'
      <3>1. NoCaseTwice => OneRowEach(results')
        BY <2>1 DEF ResultsInv, UniqueInv
      <3>2. NoCaseTwice => \A p : ~HasRow(p, Case)'
        BY <2>3
      <3> QED BY <3>1, <3>2 DEF UniqueInv
    <2> QED BY <2>2, <2>4 DEF ResultsInv
  <1>3. CASE LoadNodes \/ DeployStep \/ InterruptedDeploy \/ CollectBaseline
    <2>1. Early /\ step \notin {"report", "exit"} /\ UNCHANGED <<plan, turn, results, saved>>
      BY <1>3 DEF LoadNodes, DeployStep, InterruptedDeploy, CollectBaseline, MeasureUnchanged,
                  Driver, SsmNotYet, SsmOnline, SendCommand, PollCommand, CommandDone,
                  FetchStatus, EndOfRound, Cleanup, Interrupted, Early, InDeploy
    <2>2. step \in {"report", "exit"} => step' \in {"report", "exit"}
      BY <2>1
    <2> QED BY <2>1, <2>2, ResultsStay
  <1>4. CASE Aws
    <2>1. /\ step = "aws" /\ UNCHANGED <<plan, turn, results, saved>>
          /\ turn # 0 /\ Case \in Cases /\ Case' = Case
          /\ bench \in [Cases -> Steps \union {"none", "ended", "died"}]
      <3>1. step = "aws" /\ UNCHANGED <<plan, turn, results, saved>>
        BY <1>4 DEF Aws
      <3>2. turn # 0 /\ TurnInv /\ bench \in [Cases -> Steps \union {"none", "ended", "died"}]
        BY <3>1 DEF MainInv, TurnInv, StageInv
      <3> QED BY <3>1, <3>2, CaseUnderWay DEF Case
    <2>2. CASE bench[Case] # "teardown"
      BY <2>1, <2>2, ResultsStay DEF Early
    <2>3. CASE bench[Case] = "teardown"
      <3>1. bench'[Case] = "ended"
        BY <1>4, <2>1, <2>3 DEF Aws, Deploy, Configure, Upload, Teardown, Goto
      <3>2. step' \in {"next", "exit"}
        BY <1>4, <3>1 DEF Aws, LeftCase
      <3> QED BY <2>1, <3>2, ResultsStay DEF Early, InDeploy
    <2> QED BY <2>2, <2>3
  <1>5. CASE RunBenchmark
    BY <1>5, RunBenchmarkKeepsResults
  <1>6. CASE CollectRaft
    <2>1. /\ step = "sample" /\ UNCHANGED <<plan, turn, results, saved>>
          /\ turn # 0 /\ Case \in Cases /\ Case' = Case
          /\ bench \in [Cases -> Steps \union {"none", "ended", "died"}]
      BY <1>6, CaseUnderWay
         DEF CollectRaft, MeasureUnchanged, LeaveTry, MainInv, TurnInv, StageInv, Case
    <2>2. \/ step' \in {"next", "exit"}
          \/ step' = "aws" /\ bench'[Case] = "teardown"
      BY <1>6, <2>1 DEF CollectRaft, LeaveTry, LeftCase, Goto
    <2> QED BY <2>1, <2>2, ResultsStay DEF Early, InDeploy
  <1>7. CASE SaveResults \/ GenerateReport \/ InterruptedOutside
    <2>1. /\ step' \in {"report", "exit"} /\ UNCHANGED <<plan, turn, results>>
          /\ saved' = saved \/ saved' = results
      BY <1>7 DEF SaveResults, GenerateReport, InterruptedOutside, runVars
    <2>2. ~Early' /\ step' # "run"
      BY <2>1 DEF Early, InDeploy
    <2>3. SourceInv'
      BY <2>1 DEF ResultsInv, SourceInv
    <2>4. UniqueInv'
      BY <2>1, <2>2 DEF ResultsInv, UniqueInv, ToCome, OneRowEach
    <2> QED BY <2>3, <2>4 DEF ResultsInv
  <1>8. CASE Environment
    <2>1. UNCHANGED <<plan, turn, results, saved, step, at, bench>>
      BY <1>8 DEF Environment, Instance, Fetch, Launch, CheckDaemons, Serve, Dead, Lost, Elect,
                  driver, vars, benchVars, runVars
    <2>2. Case' = Case
      BY <2>1 DEF Case
    <2> QED BY <2>1, <2>2
            DEF ResultsInv, SourceInv, UniqueInv, ToCome, Early, HasRow, OneRowEach
  <1>9. CASE UNCHANGED benchmarkVars
    <2>1. UNCHANGED <<plan, turn, results, saved, step, at, bench>>
      BY <1>9 DEF benchmarkVars, deployVars, vars, benchVars, runVars, driver
    <2>2. Case' = Case
      BY <2>1 DEF Case
    <2> QED BY <2>1, <2>2
            DEF ResultsInv, SourceInv, UniqueInv, ToCome, Early, HasRow, OneRowEach
  <1> QED BY <1>2, <1>3, <1>4, <1>5, <1>6, <1>7, <1>8, <1>9 DEF BenchmarkNext, Process

\* However many sizes, scenarios and rows there are, and whatever failed: where the
\* two protocols are comparable, the report, the analyzer and the charts agree on
\* which is faster.  The command lines name no case twice.
THEOREM EvaluationsDoAgree ==
    ASSUME NoCaseTwice
    PROVE  BenchmarkSpec => []EvaluationsAgree
  <1>1. ASSUME ResultsInv PROVE EvaluationsAgree
    <2>1. Rows(results) /\ OneRowEach(results)
      BY <1>1 DEF ResultsInv, SourceInv, UniqueInv, Rows
    <2>2. Rows({}) /\ OneRowEach({})
      BY FS_EmptySet DEF Rows, OneRowEach
    <2>3. saved = {} \/ saved = results
      BY <1>1 DEF ResultsInv, SourceInv
    <2> QED BY <2>1, <2>2, <2>3, RowsAgree DEF EvaluationsAgree
  <1> QED BY <1>1, MainInvInductive, ResultsInvInductive, PTL DEF BenchmarkSpec

\* If no case failed and every write throughput is positive, the analyzer meets no
\* zero denominator, and no chart lacks a row.  The command lines name a case.
THEOREM CleanRunsAreEvaluated ==
    ASSUME NamesCases
    PROVE  BenchmarkSpec => []CleanRunIsEvaluated
  <1>1. ASSUME MainInv, ResultsInv PROVE CleanRunIsEvaluated
    <2> SUFFICES ASSUME step = "exit", raised # "fatal", broken = {}, \A r \in saved : r.tput > 0
                 PROVE  Evaluated(saved)
      BY DEF CleanRunIsEvaluated
    <2>1. /\ saved = results /\ Rows(results)
          /\ turn = Len(plan.cases) /\ turn \in Nat /\ plan \in Plans
          /\ \A k \in 1..Len(plan.cases) : plan.cases[k] \in Cases
      BY <1>1, CaseUnderWay DEF MainInv, RowsInv, TurnInv, ResultsInv, SourceInv, Rows
    <2>2. \A k \in 1..turn : HasRows(plan.cases[k])
      <3> TAKE k \in 1..turn
      <3>1. Past(k)
        BY <2>1 DEF Past
      <3> QED BY <1>1, <3>1 DEF MainInv, RowsInv
    <2>3. results # {}
      <3>1. turn # 0
        BY <2>1, PlansAssumption DEF NamesCases
      <3>2. HasRows(plan.cases[1])
        BY <2>1, <2>2, <3>1
      <3> QED BY <3>2 DEF HasRows, HasRow
    <2>4. \A r \in results : r.tput > 0 /\ r.size \in Nat
      <3> TAKE r \in results
      <3>1. PICK k \in 1..turn : r.size = SizeOf[plan.cases[k]]
        BY <1>1 DEF ResultsInv, SourceInv
      <3> QED BY <2>1, <3>1, MeasuresAssumption
    <2>5. ASSUME NEW r \in results, NEW p \in {"quic", "tcp"}
          PROVE  \E q \in results :
                    q.protocol = p /\ q.scenario = r.scenario /\ q.size = r.size
      <3>1. PICK k \in 1..turn : r.size = SizeOf[plan.cases[k]]
                                 /\ r.scenario = ScenarioOf[plan.cases[k]]
        BY <1>1 DEF ResultsInv, SourceInv
      <3>2. HasRow(p, plan.cases[k])
        BY <2>2 DEF HasRows
      <3> QED BY <3>1, <3>2 DEF HasRow
    <2> QED BY <2>1, <2>3, <2>4, <2>5, RowsEvaluate
  <1> QED BY <1>1, MainInvInductive, ResultsInvInductive, PTL DEF BenchmarkSpec

-----------------------------------------------------------------------------
(* The metrics collector                                                   *)

\* Whose sample of which kind is taken at a position within a round.
At(k) == <<NodeAt(k), KindAt(k)>>

\* Every node has as many samples of each kind as there were rounds; in the middle of
\* one, those after the thread's position have one less.
SamplesInv ==
    /\ \A x \in Watched \X KindSet : history[x] \in Seq({"measured", "zero", "absent"})
    /\ DOMAIN history = Watched \X KindSet
    /\ round \in Nat
    /\ collector # "lost" /\ thread # "collect" =>
          \A x \in Watched \X KindSet : Len(history[x]) = round
    /\ collector # "lost" /\ thread = "collect" =>
          /\ spot \in 1..Spots /\ round > 0
          /\ \A k \in 1..Spots : Len(history[At(k)]) = IF k < spot THEN round ELSE round - 1

\* The main thread saves when the other is over.
SavingInv ==
    /\ collector = "start" => thread = "none"
    /\ collector = "lost" => thread = "over"
    /\ collector \in {"save", "done"} => thread = "over"
    /\ collector = "done" =>
          stored = [x \in {x \in DOMAIN history : history[x] # <<>>} |-> history[x]]

\* A round has at least one sample.
LEMMA WatchSizes ==
    /\ Len(WatchList) \in Nat \ {0} /\ Len(Kinds) \in Nat \ {0}
    /\ Spots \in Nat \ {0} /\ Spots = Len(WatchList) * Len(Kinds)
    /\ \A k \in 1..Len(WatchList) : WatchList[k] \in Watched
    /\ \A k \in 1..Len(Kinds) : Kinds[k] \in KindSet
    /\ \A w \in Watched : \E k \in 1..Len(WatchList) : WatchList[k] = w
    /\ \A d \in KindSet : \E k \in 1..Len(Kinds) : Kinds[k] = d
  <1>1. Len(WatchList) \in Nat \ {0} /\ Len(Kinds) \in Nat \ {0}
    BY WatchAssumption, KindsAssumption
  <1>2. \A m, n \in Nat \ {0} : m * n \in Nat \ {0}
    <2> TAKE m, n \in Nat \ {0}
    <2>1. m * n >= n
      OBVIOUS
    <2> QED BY <2>1
  <1>3. Spots \in Nat \ {0} /\ Spots = Len(WatchList) * Len(Kinds)
    BY <1>1, <1>2 DEF Spots
  <1> QED BY <1>1, <1>3, WatchAssumption, KindsAssumption DEF Watched, KindSet

\* The quotient and the remainder of a position say whose sample it is.
LEMMA QuotientOfSpot ==
    ASSUME NEW k \in 1..Spots
    PROVE  /\ (k - 1) \div Len(Kinds) \in 0..Len(WatchList) - 1
           /\ (k - 1) % Len(Kinds) \in 0..Len(Kinds) - 1
           /\ k - 1 = Len(Kinds) * ((k - 1) \div Len(Kinds)) + ((k - 1) % Len(Kinds))
  <1> DEFINE K == Len(Kinds)
             N == Len(WatchList)
             q == (k - 1) \div K
             r == (k - 1) % K
  <1>1. K \in Nat /\ K > 0 /\ N \in Nat /\ k - 1 \in Nat /\ k - 1 < N * K
    BY WatchSizes
  <1>2. r \in 0..K - 1
    BY <1>1 DEF K
  <1>3. q \in Nat
    BY <1>1 DEF K
  <1>4. k - 1 = K * q + r
    BY <1>1 DEF K
  <1>5. q < N
    <2> SUFFICES ASSUME q >= N PROVE FALSE
      BY <1>1, <1>3
    <2> HIDE DEF q, r, K, N
    <2>1. K * q >= K * N
      BY <1>1, <1>3
    <2>2. k - 1 >= N * K
      BY <1>1, <1>2, <1>3, <1>4, <2>1
    <2> QED BY <1>1, <2>2
  <1> QED BY <1>1, <1>2, <1>3, <1>4, <1>5

\* Each sample of a round has one position, and each position one sample.
LEMMA SpotsAreSamples ==
    /\ \A k \in 1..Spots : At(k) \in Watched \X KindSet
    /\ \A j, k \in 1..Spots : At(j) = At(k) => j = k
    /\ \A x \in Watched \X KindSet : \E k \in 1..Spots : At(k) = x
  <1> DEFINE K == Len(Kinds)
             q(k) == (k - 1) \div K
             r(k) == (k - 1) % K
  <1>1. K \in Nat /\ K > 0 /\ Len(WatchList) \in Nat
    BY WatchSizes
  <1>2. ASSUME NEW k \in 1..Spots
        PROVE  /\ q(k) + 1 \in 1..Len(WatchList) /\ r(k) + 1 \in 1..K
               /\ q(k) \in Nat /\ r(k) \in Nat
               /\ k - 1 = K * q(k) + r(k)
               /\ At(k) = <<WatchList[q(k) + 1], Kinds[r(k) + 1]>>
    <2>1. /\ q(k) \in 0..Len(WatchList) - 1 /\ r(k) \in 0..K - 1
          /\ k - 1 = K * q(k) + r(k)
      BY QuotientOfSpot
    <2> HIDE DEF q, r
    <2>2. q(k) + 1 \in 1..Len(WatchList) /\ r(k) + 1 \in 1..K /\ q(k) \in Nat /\ r(k) \in Nat
      BY <1>1, <2>1
    <2>3. At(k) = <<WatchList[q(k) + 1], Kinds[r(k) + 1]>>
      BY DEF At, NodeAt, KindAt, q, r
    <2> QED BY <2>1, <2>2, <2>3
  <1> HIDE DEF q, r
  <1>3. ASSUME NEW k \in 1..Spots PROVE At(k) \in Watched \X KindSet
    <2>1. WatchList[q(k) + 1] \in Watched /\ Kinds[r(k) + 1] \in KindSet
      BY <1>2, WatchSizes
    <2> QED BY <1>2, <2>1
  <1>4. ASSUME NEW j \in 1..Spots, NEW k \in 1..Spots, At(j) = At(k)
        PROVE  j = k
    <2>1. q(j) + 1 = q(k) + 1 /\ r(j) + 1 = r(k) + 1
      <3>1. <<WatchList[q(j) + 1], Kinds[r(j) + 1]>> = <<WatchList[q(k) + 1], Kinds[r(k) + 1]>>
        BY <1>2, <1>4
      <3>2. WatchList[q(j) + 1] = WatchList[q(k) + 1] /\ Kinds[r(j) + 1] = Kinds[r(k) + 1]
        BY <3>1
      <3>3. /\ q(j) + 1 \in 1..Len(WatchList) /\ q(k) + 1 \in 1..Len(WatchList)
            /\ r(j) + 1 \in 1..K /\ r(k) + 1 \in 1..K
        BY <1>2
      <3> QED BY <3>2, <3>3, WatchAssumption, KindsAssumption
    <2>2. q(j) = q(k) /\ r(j) = r(k)
      <3>1. \A a, b \in Nat : a + 1 = b + 1 => a = b
        OBVIOUS
      <3>2. q(j) \in Nat /\ q(k) \in Nat /\ r(j) \in Nat /\ r(k) \in Nat
        BY <1>2
      <3> QED BY <2>1, <3>1, <3>2, Zenon
    <2>3. j - 1 = k - 1
      BY <1>2, <2>2
    <2> QED BY <2>3, WatchSizes
  <1>5. ASSUME NEW w \in Watched, NEW d \in KindSet
        PROVE  \E k \in 1..Spots : At(k) = <<w, d>>
    <2>1. PICK a \in 1..Len(WatchList) : WatchList[a] = w
      BY WatchSizes
    <2>2. PICK b \in 1..K : Kinds[b] = d
      BY WatchSizes
    <2>3. PICK m \in Nat, n \in Nat : m = a - 1 /\ n = b - 1
      BY <1>1
    <2>4. (K * m + n) \div K = m /\ (K * m + n) % K = n
      <3>1. n \in 0..K - 1
        BY <2>3, <1>1
      <3>2. K \in Nat \ {0}
        BY <1>1
      <3> HIDE DEF K
      <3>3. (K * m + n) \div K = m
        BY <3>1, <3>2
      <3>4. (K * m + n) % K = n
        BY <3>1, <3>2
      <3> QED BY <3>3, <3>4
    <2>5. K * m + n + 1 \in 1..Spots
      <3> HIDE DEF K
      <3>1. m + 1 <= Len(WatchList) /\ n + 1 <= K
        BY <2>3, <1>1
      <3>2. K * (m + 1) <= K * Len(WatchList)
        BY <1>1, <3>1
      <3>3. K * (m + 1) = K * m + K /\ K * m \in Nat
        BY <1>1
      <3>4. K * m + n + 1 <= K * Len(WatchList)
        BY <1>1, <3>1, <3>2, <3>3
      <3>5. Spots = K * Len(WatchList)
        BY <1>1, WatchSizes DEF K
      <3>6. K * m + n + 1 \in Nat /\ K * m + n + 1 >= 1
        BY <3>3
      <3> QED BY <3>4, <3>5, <3>6, WatchSizes
    <2>6. (K * m + n + 1) - 1 = K * m + n
      BY <1>1
    <2>7. q(K * m + n + 1) = m /\ r(K * m + n + 1) = n
      BY <2>4, <2>6 DEF q, r
    <2>8. At(K * m + n + 1) = <<WatchList[m + 1], Kinds[n + 1]>>
      BY <1>2, <2>5, <2>7
    <2>9. m + 1 = a /\ n + 1 = b
      BY <2>3, <1>1
    <2> QED BY <2>1, <2>2, <2>5, <2>8, <2>9
  <1> QED BY <1>3, <1>4, <1>5

\* The invariant holds in the initial state and in every step.
LEMMA MonitorInvInductive ==
    /\ MonitorInit => SamplesInv /\ SavingInv
    /\ SamplesInv /\ SavingInv /\ [MonitorNext]_monitorVars => SamplesInv' /\ SavingInv'
  <1>1. ASSUME MonitorInit PROVE SamplesInv /\ SavingInv
    BY <1>1 DEF MonitorInit, SamplesInv, SavingInv
  <1> SUFFICES ASSUME SamplesInv, SavingInv, [MonitorNext]_monitorVars
               PROVE  SamplesInv' /\ SavingInv'
    BY <1>1
  <1>2. CASE StartMonitoring \/ Sleep \/ Joined \/ SaveMetrics \/ InterruptMonitor \/ Terminate
    <2>1. UNCHANGED <<history, round, spot>>
      BY <1>2 DEF StartMonitoring, Sleep, Joined, SaveMetrics, InterruptMonitor, Terminate
    <2>2. collector' # "lost" => /\ collector # "lost"
                                /\ (thread' = "collect" <=> thread = "collect")
      BY <1>2 DEF StartMonitoring, Sleep, Joined, SaveMetrics, InterruptMonitor, Terminate,
                  SavingInv
    <2>3. SamplesInv'
      BY <2>1, <2>2 DEF SamplesInv, At, NodeAt, KindAt
    <2>4. SavingInv'
      BY <1>2 DEF StartMonitoring, Sleep, Joined, SaveMetrics, InterruptMonitor, Terminate,
                  SavingInv
    <2> QED BY <2>3, <2>4
  <1>3. CASE LoopTest
    <2>1. /\ thread = "test" /\ UNCHANGED <<collector, history, stored>>
          /\ \/ thread' = "collect" /\ spot' = 1 /\ round' = round + 1
             \/ thread' = "over" /\ UNCHANGED round
      BY <1>3 DEF LoopTest
    <2>2. SavingInv'
      BY <2>1 DEF SavingInv
    <2>3. CASE thread' = "over" /\ UNCHANGED round
      <3>1. /\ \A x \in Watched \X KindSet : history'[x] \in Seq({"measured", "zero", "absent"})
            /\ DOMAIN history' = Watched \X KindSet /\ round' \in Nat
        BY <2>1, <2>3 DEF SamplesInv
      <3>2. collector' # "lost" => \A x \in Watched \X KindSet : Len(history'[x]) = round'
        BY <2>1, <2>3 DEF SamplesInv
      <3> QED BY <2>2, <2>3, <3>1, <3>2 DEF SamplesInv
    <2>4. CASE thread' = "collect" /\ spot' = 1 /\ round' = round + 1
      <3>1. spot' \in 1..Spots /\ round' \in Nat /\ round' > 0
        BY <2>4, WatchSizes DEF SamplesInv
      <3>2. collector # "lost" =>
               \A k \in 1..Spots : Len(history'[At(k)]) = IF k < spot' THEN round' ELSE round' - 1
        <4> SUFFICES ASSUME collector # "lost", NEW k \in 1..Spots
                     PROVE  Len(history[At(k)]) = round
          BY <2>1, <2>4, WatchSizes DEF SamplesInv
        <4> QED BY <2>1, SpotsAreSamples DEF SamplesInv
      <3>3. /\ \A x \in Watched \X KindSet : history'[x] \in Seq({"measured", "zero", "absent"})
            /\ DOMAIN history' = Watched \X KindSet
        BY <2>1 DEF SamplesInv
      <3>4. collector # "lost" => \A k \in 1..Spots :
               (Len(history[At(k)]) = IF k < spot THEN round ELSE round - 1)'
        BY <3>2 DEF At, NodeAt, KindAt
      <3> QED BY <2>1, <2>2, <2>4, <3>1, <3>3, <3>4 DEF SamplesInv
    <2> QED BY <2>1, <2>2, <2>3, <2>4
  <1>4. CASE Collect
    <2>1. /\ thread = "collect" /\ NextSpot /\ UNCHANGED <<collector, round, stored>>
      BY <1>4 DEF Collect
    <2>3. spot \in 1..Spots /\ round \in Nat /\ collector # "lost" /\ round > 0
      BY <2>1 DEF SamplesInv, SavingInv
    <2>2. PICK v : history' = [history EXCEPT ![At(spot)] = Append(@, v)]
                   /\ v \in {"measured", "zero", "absent"}
      <3>1. PICK reply \in Replies :
               history' = [history EXCEPT ![At(spot)] = Append(@, Field(KindAt(spot), reply))]
        BY <1>4 DEF Collect, At
      <3>2. KindAt(spot) \in KindSet
        BY <2>3, QuotientOfSpot, WatchSizes DEF KindAt
      <3>3. Field(KindAt(spot), reply) \in {"measured", "zero", "absent"}
        BY <3>2, KindsAssumption DEF Field, System, Raft, Network, Latency
      <3> QED BY <3>1, <3>3
    <2>4. At(spot) \in Watched \X KindSet /\ DOMAIN history = Watched \X KindSet
      BY <2>3, SpotsAreSamples DEF SamplesInv
    <2>5. /\ DOMAIN history' = Watched \X KindSet
          /\ \A x \in Watched \X KindSet :
                /\ history'[x] \in Seq({"measured", "zero", "absent"})
                /\ Len(history'[x]) = IF x = At(spot) THEN Len(history[x]) + 1
                                      ELSE Len(history[x])
      <3> DEFINE s == At(spot)
      <3>1. history' = [history EXCEPT ![s] = Append(@, v)] /\ s \in DOMAIN history
        BY <2>2, <2>4
      <3> HIDE DEF s
      <3>2. \A x \in Watched \X KindSet :
               /\ x = s => history'[x] = Append(history[x], v)
               /\ x # s => history'[x] = history[x]
        BY <2>4, <3>1
      <3>3. \A x \in Watched \X KindSet :
               /\ history'[x] \in Seq({"measured", "zero", "absent"})
               /\ Len(history'[x]) = IF x = s THEN Len(history[x]) + 1 ELSE Len(history[x])
        BY <2>2, <3>2 DEF SamplesInv
      <3> QED BY <2>4, <3>1, <3>3 DEF s
    <2>6. \A k \in 1..Spots :
             Len(history'[At(k)]) = IF k <= spot THEN round ELSE round - 1
      <3> SUFFICES ASSUME NEW k \in 1..Spots
                   PROVE  Len(history'[At(k)]) = IF k <= spot THEN round ELSE round - 1
        OBVIOUS
      <3>1. /\ At(k) = At(spot) <=> k = spot
            /\ At(k) \in Watched \X KindSet
        BY <2>3, SpotsAreSamples
      <3>2. Len(history[At(k)]) = IF k < spot THEN round ELSE round - 1
        BY <2>1, <2>3 DEF SamplesInv
      <3>3. Len(history'[At(k)]) = IF k = spot THEN Len(history[At(k)]) + 1
                                   ELSE Len(history[At(k)])
        BY <2>5, <3>1
      <3> QED BY <2>3, <3>2, <3>3, WatchSizes DEF SamplesInv
    <2>7. CASE spot = Spots /\ thread' = "sleep"
      <3>1. \A x \in Watched \X KindSet : Len(history'[x]) = round
        <4> SUFFICES ASSUME NEW x \in Watched \X KindSet
                     PROVE  Len(history'[x]) = round
          OBVIOUS
        <4>1. PICK k \in 1..Spots : At(k) = x
          BY SpotsAreSamples
        <4>2. k <= spot
          BY <2>7, WatchSizes
        <4> QED BY <2>6, <4>1, <4>2
      <3> QED BY <2>1, <2>3, <2>5, <2>7, <3>1 DEF SamplesInv, SavingInv
    <2>8. CASE spot # Spots /\ spot' = spot + 1 /\ thread' = thread
      <3>1. spot' \in 1..Spots
        BY <2>3, <2>8, WatchSizes
      <3>2. \A k \in 1..Spots : k <= spot <=> k < spot'
        BY <2>3, <2>8, WatchSizes
      <3>3. \A k \in 1..Spots :
               Len(history'[At(k)]) = IF k < spot' THEN round' ELSE round' - 1
        BY <2>1, <2>6, <3>2
      <3>4. \A k \in 1..Spots :
               (Len(history[At(k)]) = IF k < spot THEN round ELSE round - 1)'
        BY <3>3 DEF At, NodeAt, KindAt
      <3> QED BY <2>1, <2>3, <2>5, <2>8, <3>1, <3>4 DEF SamplesInv, SavingInv
    <2> QED BY <2>1, <2>7, <2>8 DEF NextSpot
  <1>5. CASE UNCHANGED monitorVars
    BY <1>5 DEF monitorVars, SamplesInv, SavingInv, At, NodeAt, KindAt
  <1> QED BY <1>2, <1>3, <1>4, <1>5 DEF MonitorNext, MonitorStep

\* Whatever the commands of a round return, whenever Ctrl-C or SIGTERM comes, what
\* collect_metrics.py saves at its end is every sample of every round that was begun, and
\* only finished rounds (stop_monitoring joins the thread before save_metrics).
THEOREM SavedSamplesAreWhole == MonitorSpec => []SavedIsWhole
  <1>1. ASSUME SamplesInv, SavingInv PROVE SavedIsWhole
    <2> SUFFICES ASSUME collector = "done" PROVE SavedIsWhole
      BY DEF SavedIsWhole
    <2>1. thread = "over" /\ \A x \in DOMAIN history : Len(history[x]) = round
      BY <1>1 DEF SamplesInv, SavingInv
    <2>2. DOMAIN stored = {x \in DOMAIN history : history[x] # <<>>}
          /\ \A x \in DOMAIN stored : stored[x] = history[x]
      BY <1>1 DEF SavingInv
    <2>3. \A x \in DOMAIN history : history[x] = <<>> <=> round = 0
      BY <1>1, <2>1 DEF SamplesInv
    <2>4. DOMAIN stored = (IF round = 0 THEN {} ELSE DOMAIN history)
      BY <2>2, <2>3
    <2> QED BY <2>1, <2>2, <2>4 DEF SavedIsWhole
  <1> QED BY <1>1, MonitorInvInductive, PTL DEF MonitorSpec

=============================================================================
