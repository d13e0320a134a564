---------------------------- MODULE BenchmarkRun ----------------------------
(***************************************************************************)
(* main of scripts/distributed_benchmark.py: one process that goes through *)
(* its cases (scenario and cluster size) one after the other, each with a  *)
(* try, an except and a finally block, and saves the results at its end.   *)
(* A cluster is deployed and destroyed for each case, or with              *)
(* --skip-deploy taken from the env file of an earlier deployment.         *)
(*                                                                         *)
(* The process is that of AwsTestRun, whose steps Deploy, Configure,       *)
(* Upload and Teardown are used as they are; Services and Measure are      *)
(* taken apart.  The shell script around it does not move here.            *)
(***************************************************************************)
EXTENDS ClusterDeploy, ResultAnalysis

CONSTANTS
    Plans,          \* [deploy, monitor, cases]: the command lines
    SizeOf, ScenarioOf,
    Rates           \* the positive write throughputs that a case may have

\* A plan that deploys names no case twice: AwsTestRun has one cluster for each.
ASSUME PlansAssumption ==
    \A p \in Plans :
        /\ p.deploy \in BOOLEAN /\ p.monitor \in BOOLEAN /\ p.cases \in Seq(Cases)
        /\ p.deploy => \A j, k \in DOMAIN p.cases : p.cases[j] = p.cases[k] => j = k

\* MaxFaults of AwsTestRun, which counts a case that fails by itself too, ends no
\* run: a case adds at most two to the failures of calls.
ASSUME RoomAssumption ==
    MaxTrouble \in Nat /\ \A p \in Plans : MaxTrouble + 2 * Len(p.cases) <= MaxFaults

\* A case is a scenario and a size.
ASSUME MeasuresAssumption ==
    /\ \A c \in Cases : SizeOf[c] \in Nat /\ Rates[c] \subseteq Nat \ {0}
    /\ \A b, c \in Cases : SizeOf[b] = SizeOf[c] /\ ScenarioOf[b] = ScenarioOf[c] => b = c

VARIABLES
    plan, turn,     \* the command line, the number of the case under way
    results,        \* all_results
    saved,          \* the rows of the CSV file
    broken          \* history: the cases that did not come to their end

runVars == <<plan, turn, results, saved, broken>>
benchmarkVars == <<vars, deployVars, runVars>>

\* What the variables range over.
RunTypeOK ==
    /\ TypeOK /\ DeployTypeOK
    /\ plan \in Plans /\ turn \in 0..Len(plan.cases)
    /\ \A r \in results \union saved :
          /\ r.protocol \in {"quic", "tcp"}
          /\ \E c \in Cases : /\ r.size = SizeOf[c] /\ r.scenario = ScenarioOf[c]
                            /\ r.tput \in Rates[c] \union {0}
    /\ broken \subseteq Cases

Case == plan.cases[turn]
LastCase == turn = Len(plan.cases)

BenchmarkInit ==
    /\ plan \in Plans /\ turn = 0
    /\ Init /\ parallel = 1 /\ monitored = plan.monitor
    /\ DeployInit
    /\ results = {} /\ saved = {} /\ broken = {}

-----------------------------------------------------------------------------
(* The loop                                                                *)

NextCase ==
    /\ step = "next" /\ ~LastCase
    /\ turn' = turn + 1
    /\ raised' = "none"
    /\ IF plan.deploy
         THEN step' = "aws" /\ Goto(plan.cases[turn + 1], "deploy")
         ELSE step' = "load" /\ UNCHANGED bench
    /\ remote' = [n \in Nodes |-> "none"]
    /\ daemon' = [d \in Daemons |-> "absent"]
    /\ leader' = [p \in {"quic", "tcp"} |-> NoNode]
    /\ UNCHANGED <<at, tries, missed, led, trouble, flags, mainVars, suite, rows, blame, mon, env,
                   awsVars, faults, plan, results, saved, broken>>

First == IF plan.monitor THEN "baseline" ELSE "run"

\* --skip-deploy: the nodes of the env file, none if there is no file.
LoadNodes ==
    /\ step = "load"
    /\ \/ Begin(First, 0) /\ UNCHANGED broken
       \/ /\ step' = "next" /\ broken' = broken \union {Case}
          /\ UNCHANGED <<raised, at, tries>>
    /\ UNCHANGED <<missed, led, cluster, trouble, vars, plan, turn, results, saved>>

\* After the finally block of a case.
LeftCase(why) == IF why = "fatal" THEN "exit" ELSE "next"

\* Terraform, the env file and the artifacts; and the teardown of the finally
\* block, whose terraform is not checked but may be cut off by Ctrl-C.
Aws ==
    /\ step = "aws"
    /\ Deploy(Case) \/ Configure(Case) \/ Upload(Case) \/ Teardown(Case)
    /\ faults' # faults => faults < MaxTrouble - trouble
    /\ raised' \in IF faults' = faults THEN {raised}
                   ELSE IF bench[Case] = "teardown" THEN {raised, "fatal"} ELSE {"error", "fatal"}
    /\ broken' = IF raised' = "none" THEN broken ELSE broken \union {Case}
    /\ CASE bench'[Case] = "services" -> step' = "ssm" /\ at' = 1 /\ tries' = SsmPolls
         [] bench'[Case] = "ended" -> step' = LeftCase(raised') /\ UNCHANGED <<at, tries>>
         [] OTHER -> UNCHANGED <<step, at, tries>>
    /\ UNCHANGED <<missed, led, cluster, trouble, plan, turn, results, saved>>

DeployStep ==
    /\ Driver(Case, First)
    /\ broken' = IF raised' = "none" THEN broken ELSE broken \union {Case}
    /\ UNCHANGED <<plan, turn, results, saved>>

-----------------------------------------------------------------------------
(* Measuring                                                               *)

\* The try block of main is left; what it has appended to all_results stays.
LeaveTry(why) ==
    /\ raised' = why
    /\ broken' = IF why = "none" THEN broken ELSE broken \union {Case}
    /\ IF plan.deploy
         THEN /\ step' = "aws" /\ Goto(Case, "teardown")
              /\ rows' = [rows EXCEPT ![Case] =
                            \E r \in results' : r.size = SizeOf[Case]
                                                /\ r.scenario = ScenarioOf[Case]]
              /\ faults' = IF why = "none" THEN faults ELSE faults + 1
         ELSE step' = LeftCase(why) /\ UNCHANGED <<bench, rows, faults>>
    /\ UNCHANGED <<at, tries>>

StayInTry == UNCHANGED <<raised, broken, bench, rows, faults>>
MeasureUnchanged ==
    UNCHANGED <<missed, led, cluster, flags, mainVars, suite, blame, mon, env, awsVars,
                plan, turn, saved>>

\* collect_baseline, whose result nobody reads.  _ssm_exec turns failures into
\* an empty text; without instance ids it is ssh, and its timeout an exception.
CollectBaseline ==
    /\ step = "baseline" /\ UNCHANGED results
    /\ \/ step' = "run" /\ at' = 1 /\ UNCHANGED <<tries, trouble>> /\ StayInTry
       \/ Trouble /\ \E why \in {"fatal"} \union (IF plan.deploy THEN {} ELSE {"error"}) : LeaveTry(why)
    /\ MeasureUnchanged

Row(p, t) == [protocol |-> p, size |-> SizeOf[Case], scenario |-> ScenarioOf[Case], tput |-> t]

\* All the writes of a case may fail: nobody leads, or leads without a majority,
\* or no answer comes in time.
Throughputs == Rates[Case] \union {0}

\* run_benchmark returns a row whatever its requests returned.
RunBenchmark ==
    /\ step = "run"
    /\ \/ /\ \E t \in Throughputs :
                results' = results \union {Row(Protocols[at], t)}
          /\ \/ at < Len(Protocols) /\ at' = at + 1 /\ UNCHANGED <<step, tries>> /\ StayInTry
             \/ at = Len(Protocols) /\ plan.monitor /\ step' = "sample"
                /\ UNCHANGED <<at, tries>> /\ StayInTry
             \/ at = Len(Protocols) /\ ~plan.monitor /\ LeaveTry("none")
          /\ UNCHANGED trouble
       \/ /\ Trouble /\ UNCHANGED results
          /\ \E why \in {"error", "fatal"} : LeaveTry(why)
    /\ MeasureUnchanged

\* collect_raft_metrics, which catches every exception but Ctrl-C.
CollectRaft ==
    /\ step = "sample" /\ UNCHANGED results
    /\ \/ LeaveTry("none") /\ UNCHANGED trouble
       \/ LeaveTry("fatal") /\ Trouble
    /\ MeasureUnchanged

-----------------------------------------------------------------------------
(* The end of the process                                                  *)

\* Mutant: only the results of the case under way are saved.
SaveResults_Last ==
    /\ step = "next" /\ LastCase
    /\ saved' = {r \in results : r.size = SizeOf[Case] /\ r.scenario = ScenarioOf[Case]}
    /\ step' = "report"
    /\ UNCHANGED <<raised, at, tries, missed, led, cluster, trouble, vars, plan, turn, results,
                   broken>>

\* _save_results: no file without results.
SaveResults ==
    /\ step = "next" /\ LastCase
    /\ saved' = results
    /\ step' = "report"
    /\ UNCHANGED <<raised, at, tries, missed, led, cluster, trouble, vars, plan, turn, results,
                   broken>>

\* _generate_report writes ReportRatios(results).
GenerateReport ==
    /\ step = "report"
    /\ step' = "exit"
    /\ UNCHANGED <<raised, at, tries, missed, led, cluster, trouble, vars, runVars>>

\* Ctrl-C where main has no try block to leave.
InterruptedOutside ==
    /\ step \in {"next", "load", "report"} /\ Trouble
    /\ step' = "exit" /\ raised' = "fatal"
    /\ UNCHANGED <<at, tries, missed, led, cluster, vars, runVars>>

InterruptedDeploy ==
    Interrupted /\ broken' = broken \union {Case} /\ UNCHANGED <<plan, turn, results, saved>>

Environment ==
    /\ step \notin {"next", "exit"} /\ turn > 0 /\ bench[Case] \in {"services", "measure"}
    /\ Instance(Case)
    /\ UNCHANGED runVars

Process ==
    \/ NextCase \/ LoadNodes \/ Aws \/ DeployStep \/ CollectBaseline \/ RunBenchmark
    \/ CollectRaft \/ SaveResults \/ GenerateReport

BenchmarkNext == Process \/ InterruptedDeploy \/ InterruptedOutside \/ Environment

\* The process is scheduled, and every command that it waits for ends: its
\* requests have timeouts, its polls are counted.
BenchmarkFairness == WF_benchmarkVars(Process)

BenchmarkSpec == BenchmarkInit /\ [][BenchmarkNext]_benchmarkVars /\ BenchmarkFairness

-----------------------------------------------------------------------------
(* Properties                                                              *)

\* A process that deploys its clusters does, case by case, what AwsTestRun says
\* of a benchmark: whatever is raised in which block, the artifacts are gone or
\* blamed when measuring begins, and the next thing after an exception is the
\* teardown.
ImplementsTestRun ==
    [][plan.deploy =>
          \/ \E c \in Cases : Bench(c)
          \/ \E c \in Cases :
                /\ bench[c] = "none" /\ Goto(c, "deploy")
                /\ UNCHANGED <<flags, mainVars, suite, rows, blame, mon, env, awsVars, faults>>]_vars

\* A deployed cluster is measured only when both daemons of every node had
\* joined their cluster, though pgrep may have found a dead one, scripts go on
\* after a command has timed out, and nodes are asked one after the other.
MeasuredClusterIsWhole ==
    plan.deploy /\ step \in {"baseline", "run", "sample"} =>
        \A d \in Daemons : daemon[d] \in {"serving", "lost"}

Unbroken == {plan.cases[k] : k \in DOMAIN plan.cases} \ broken
MeasuredFor(c) == {r \in saved : r.size = SizeOf[c] /\ r.scenario = ScenarioOf[c]}

\* A process that ends without an interrupt has saved every row it measured,
\* those of a case that failed later included, and both rows of every case
\* that did not fail, those after a failing case included.
NothingMeasuredIsLost ==
    step = "exit" /\ raised # "fatal" =>
        /\ saved = results
        /\ \A c \in Unbroken : {r.protocol : r \in MeasuredFor(c)} = {"quic", "tcp"}

\* The programs that evaluate the saved results agree on which protocol is
\* faster wherever that is meaningful (ToolsAgree of ResultAnalysis).
EvaluationsAgree == step = "exit" => ToolsAgree(saved)

\* If no case failed and in each some write succeeded, everything that is made
\* of the results can be made.
CleanRunIsEvaluated ==
    /\ step = "exit" /\ raised # "fatal" /\ broken = {}
    /\ \A r \in saved : r.tput > 0
    => Evaluated(saved)

\* The process ends, whatever its cluster does.
ProcessEnds == <>(step = "exit")

=============================================================================
