------------------------------ MODULE AwsTestRun ------------------------------
(***************************************************************************)
(* A distributed test run on AWS: scripts/aws_distributed_test.sh starts a *)
(* suite per scenario and cluster size, one after the other or several at  *)
(* once; every suite starts scripts/distributed_benchmark.py, which deploys*)
(* a cluster with Terraform, measures and destroys it, and, with --monitor,*)
(* scripts/collect_metrics.py beside it.                                   *)
(*                                                                         *)
(* Processes: the script, a suite per case (inline, or a subshell), a      *)
(* benchmark and a monitor per case.  AWS and Terraform are external.  The *)
(* run is interrupted (Ctrl-C, which background jobs ignore) or its        *)
(* terminal hangs up (which ends every process) at any moment.             *)
(***************************************************************************)
EXTENDS Integers, Sequences, FiniteSets

CONSTANTS
    CaseList,       \* the cases in the order in which they are submitted
    RegionsOf,      \* the regions that each case deploys to
    MaxParallel,    \* the greatest --parallel-cases
    MaxFaults       \* bound: failing calls and processes

Cases == {CaseList[k] : k \in DOMAIN CaseList}
Regions == UNION {RegionsOf[c] : c \in Cases}

\* --cluster-sizes and --scenarios name no value twice: two equal cases would share
\* their Terraform directory and their env file.
ASSUME CasesAssumption ==
    /\ CaseList \in Seq(Cases) /\ CaseList # <<>>
    /\ \A j, k \in DOMAIN CaseList : CaseList[j] = CaseList[k] => j = k
ASSUME RegionsAssumption == DOMAIN RegionsOf = Cases /\ "global" \notin Regions
ASSUME BoundsAssumption == MaxParallel \in 1..Len(CaseList) /\ MaxFaults \in Nat

VARIABLES
    parallel, monitored,    \* PARALLEL_CASES and MONITOR
    main, next,             \* the script: where it is, the next case
    active, failed,         \* ACTIVE_PIDS, FAILED_TESTS
    reported,               \* the cases whose results the report lists
    suite, bench, mon,      \* the processes of each case
    env,                    \* deploy/cluster-<scenario>-<size>.env
    cloud,                  \* what exists in AWS of each case's cluster
    objects,                \* there are artifacts of it in S3
    rows,                   \* the benchmark has results
    faults,
    blame                   \* history: failures after which something may stay behind

flags == <<parallel, monitored>>
mainVars == <<main, next, active, failed, reported>>
awsVars == <<cloud, objects>>
benchVars == <<bench, rows, blame>>
vars == <<flags, mainVars, suite, benchVars, mon, env, awsVars, faults>>

Zonal == {"instance", "group", "key"}
Resources(c) == (Zonal \X RegionsOf[c]) \union {<<"iam", "global">>}
\* What a failing apply or destroy leaves of a set of resources: everything,
\* or what the instances depend on.
Extents == {"all", "base"}
Remnant(S, extent) == {x \in S : extent = "all" \/ x[1] # "instance"}

Steps == {"deploy", "config", "upload", "services", "measure", "teardown"}
Finished == {"ok", "failed"}
Over == main \in {"exit0", "exit1"}

TypeOK ==
    /\ parallel \in 1..MaxParallel /\ monitored \in BOOLEAN
    /\ main \in {"submit", "suite", "drain", "report", "exit0", "exit1"}
    /\ next \in 1..Len(CaseList) + 1
    /\ active \subseteq Cases /\ failed \in 0..Len(CaseList) /\ reported \subseteq Cases
    /\ suite \in [Cases -> {"idle", "prepare", "envwait", "wait", "sleep", "gone"} \union Finished]
    /\ bench \in [Cases -> Steps \union {"none", "ended", "died"}]
    /\ mon \in [Cases -> {"none", "running", "killed", "saved"}]
    /\ rows \in [Cases -> BOOLEAN]
    /\ env \in [Cases -> {"absent", "old", "own"}]
    /\ DOMAIN cloud = Cases /\ \A c \in Cases : cloud[c] \subseteq Resources(c)
    /\ objects \in [Cases -> BOOLEAN]
    /\ faults \in 0..MaxFaults
    /\ blame \in [Cases -> SUBSET {"destroy", "artifacts", "upload", "died"}]

\* An earlier run, or the repository, may have left a cluster env file, which
\* only the monitoring reads.
Init ==
    /\ parallel \in 1..MaxParallel /\ monitored \in BOOLEAN
    /\ main = "submit" /\ next = 1 /\ active = {} /\ failed = 0 /\ reported = {}
    /\ suite = [c \in Cases |-> "idle"] /\ bench = [c \in Cases |-> "none"]
    /\ mon = [c \in Cases |-> "none"]
    /\ rows = [c \in Cases |-> FALSE]
    /\ \E e \in {"absent"} \union (IF monitored THEN {"old"} ELSE {}) : env = [c \in Cases |-> e]
    /\ cloud = [c \in Cases |-> {}]
    /\ objects = [c \in Cases |-> FALSE]
    /\ faults = 0 /\ blame = [c \in Cases |-> {}]

Fault == faults < MaxFaults /\ faults' = faults + 1

-----------------------------------------------------------------------------
(* main of the script                                                      *)

Sequential == parallel = 1
Submitted == next > Len(CaseList)
Ended(c) == suite[c] \in Finished

StartSuite(c) ==
    /\ suite' = [suite EXCEPT ![c] = "prepare"]
    /\ next' = next + 1
    /\ UNCHANGED <<failed, reported, flags, benchVars, mon, env, awsVars, faults>>

SubmitInline ==
    /\ Sequential /\ main = "submit" /\ ~Submitted
    /\ main' = "suite"
    /\ StartSuite(CaseList[next])
    /\ UNCHANGED active

\* A failing suite takes the script down with it (set -e).
SuiteReturns ==
    /\ main = "suite" /\ Ended(CaseList[next - 1])
    /\ main' = IF suite[CaseList[next - 1]] = "failed" THEN "exit1"
               ELSE IF Submitted THEN "report" ELSE "submit"
    /\ UNCHANGED <<next, active, failed, reported, flags, suite, benchVars, mon, env,
                   awsVars, faults>>

\* Mutant: the slots are counted off by one.
SubmitBackground_OffByOne ==
    /\ ~Sequential /\ main = "submit" /\ ~Submitted
    /\ Cardinality(active) <= parallel
    /\ active' = active \union {CaseList[next]}
    /\ StartSuite(CaseList[next])
    /\ UNCHANGED main

SubmitBackground ==
    /\ ~Sequential /\ main = "submit" /\ ~Submitted
    /\ Cardinality(active) < parallel
    /\ active' = active \union {CaseList[next]}
    /\ StartSuite(CaseList[next])
    /\ UNCHANGED main

\* Mutant: only the jobs that succeeded are taken out.
Reap_KeepsFailed ==
    /\ main = "drain" \/ (main = "submit" /\ ~Submitted /\ Cardinality(active) >= parallel)
    /\ \E c \in active : suite[c] = "ok"
    /\ active' = {c \in active : suite[c] # "ok"}
    /\ UNCHANGED <<main, next, failed, reported, flags, suite, benchVars, mon, env, awsVars,
                   faults>>

\* reap_finished_parallel_jobs, which runs while no slot is free and, at the
\* end, until no suite is left.
Reap ==
    /\ main = "drain" \/ (main = "submit" /\ ~Submitted /\ Cardinality(active) >= parallel)
    /\ \E c \in active : Ended(c)
    /\ active' = {c \in active : ~Ended(c)}
    /\ failed' = failed + Cardinality({c \in active : suite[c] = "failed"})
    /\ UNCHANGED <<main, next, reported, flags, suite, benchVars, mon, env, awsVars, faults>>

\* Mutant: without wait_for_all_parallel_jobs.
Drain_NoWait ==
    /\ ~Sequential /\ main = "submit" /\ Submitted
    /\ main' = IF failed > 0 THEN "exit1" ELSE "report"
    /\ UNCHANGED <<next, active, failed, reported, flags, suite, benchVars, mon, env,
                   awsVars, faults>>

Drain ==
    /\ ~Sequential
    /\ \/ main = "submit" /\ Submitted /\ main' = "drain"
       \/ main = "drain" /\ active = {} /\ main' = IF failed > 0 THEN "exit1" ELSE "report"
    /\ UNCHANGED <<next, active, failed, reported, flags, suite, benchVars, mon, env,
                   awsVars, faults>>

\* generate_summary_report lists the results that are there.
Report ==
    /\ main = "report"
    /\ main' = "exit0"
    /\ reported' = {c \in Cases : bench[c] = "ended" /\ rows[c]}
    /\ UNCHANGED <<next, active, failed, flags, suite, benchVars, mon, env, awsVars, faults>>

\* The trap ends the script, and with it a suite that runs inline; background
\* jobs of the shell ignore SIGINT.
Interrupt ==
    /\ ~Over /\ Fault
    /\ main' = "exit1"
    /\ suite' = IF main = "suite" THEN [suite EXCEPT ![CaseList[next - 1]] = "gone"] ELSE suite
    /\ UNCHANGED <<next, active, failed, reported, flags, benchVars, mon, env, awsVars>>

-----------------------------------------------------------------------------
(* run_test_suite                                                          *)

Prepare(c) ==
    /\ suite[c] = "prepare"
    /\ \/ /\ bench' = [bench EXCEPT ![c] = "deploy"]
          /\ suite' = [suite EXCEPT ![c] = IF monitored THEN "envwait" ELSE "wait"]
          /\ UNCHANGED faults
       \/ /\ Fault   \* prepare_terraform_workdir fails
          /\ suite' = [suite EXCEPT ![c] = "failed"]
          /\ UNCHANGED bench
    /\ UNCHANGED <<flags, mainVars, rows, blame, mon, env, awsVars>>

\* wait_for_cluster_env finds a file, of this deployment or not, or gives up.
\* A file that is being written is found empty, and nothing is monitored.
ReadEnv(c) ==
    /\ suite[c] = "envwait"
    /\ \/ env[c] # "absent" /\ mon' = [mon EXCEPT ![c] = "running"]
       \/ (env[c] = "absent" \/ bench[c] = "config") /\ UNCHANGED mon
    /\ suite' = [suite EXCEPT ![c] = "wait"]
    /\ UNCHANGED <<flags, mainVars, benchVars, env, awsVars, faults>>

\* wait $bench_pid; set -e ends the suite when the benchmark died.
BenchReturns(c) ==
    /\ suite[c] = "wait" /\ bench[c] \in {"ended", "died"}
    /\ suite' = [suite EXCEPT ![c] = IF bench[c] = "died" THEN "failed"
                                     ELSE IF mon[c] = "none" THEN "ok" ELSE "sleep"]
    /\ UNCHANGED <<flags, mainVars, benchVars, mon, env, awsVars, faults>>

\* kill $monitor_pid: SIGTERM, on which collect_metrics saves nothing.
KillMonitor(c) ==
    /\ suite[c] = "sleep"
    /\ mon' = IF mon[c] = "running" THEN [mon EXCEPT ![c] = "killed"] ELSE mon
    /\ suite' = [suite EXCEPT ![c] = "ok"]
    /\ UNCHANGED <<flags, mainVars, benchVars, env, awsVars, faults>>

\* The monitor's duration is over: it saves what it has collected.
MonitorEnds(c) ==
    /\ mon[c] = "running"
    /\ mon' = [mon EXCEPT ![c] = "saved"]
    /\ UNCHANGED <<flags, mainVars, suite, benchVars, env, awsVars, faults>>

-----------------------------------------------------------------------------
(* main of distributed_benchmark.py                                        *)

Goto(c, step) == bench' = [bench EXCEPT ![c] = step]
Blame(c, what) == blame' = [blame EXCEPT ![c] = @ \union {what}]

\* An exception goes to the finally block of main, which destroys the cluster.
Raises(c) == Fault /\ Goto(c, "teardown")

\* The binaries, terraform init and terraform apply.
Deploy(c) ==
    /\ bench[c] = "deploy"
    /\ \/ /\ cloud' = [cloud EXCEPT ![c] = Resources(c)]
          /\ Goto(c, "config")
          /\ UNCHANGED faults
       \/ /\ Raises(c)
          /\ \E x \in Extents : cloud' = [cloud EXCEPT ![c] = Remnant(Resources(c), x)]
    /\ UNCHANGED <<flags, mainVars, suite, rows, blame, mon, env, objects>>

\* _parse_terraform_output and _save_cluster_config.
Configure(c) ==
    /\ bench[c] = "config"
    /\ \/ /\ env' = [env EXCEPT ![c] = "own"]
          /\ Goto(c, "upload")
          /\ UNCHANGED faults
       \/ Raises(c) /\ UNCHANGED env
    /\ UNCHANGED <<flags, mainVars, suite, rows, blame, mon, awsVars>>

\* _prepare_artifacts: two uploads, two URLs, and only then artifact_keys.  It
\* is called before deploy enters its try block.
Upload(c) ==
    /\ bench[c] = "upload"
    /\ \/ /\ objects' = [objects EXCEPT ![c] = TRUE]
          /\ Goto(c, "services")
          /\ UNCHANGED <<blame, faults>>
       \/ /\ Raises(c)
          /\ \E b \in BOOLEAN : objects' = [objects EXCEPT ![c] = b]
          /\ Blame(c, "upload")
    /\ UNCHANGED <<flags, mainVars, suite, rows, mon, env, cloud>>

\* Mutant: the artifacts are removed after the try block, not in its finally.
Services_NoFinally(c) ==
    /\ bench[c] = "services"
    /\ \/ /\ objects' = [objects EXCEPT ![c] = FALSE]
          /\ Goto(c, "measure")
          /\ UNCHANGED <<blame, faults>>
       \/ Raises(c) /\ UNCHANGED <<objects, blame>>
    /\ UNCHANGED <<flags, mainVars, suite, rows, mon, env, cloud>>

\* The try block of deploy, SSM, the services and their readiness, and its
\* finally block, which removes the artifacts and checks no result.
Services(c) ==
    /\ bench[c] = "services"
    /\ \/ /\ objects' = [objects EXCEPT ![c] = FALSE]
          /\ (Goto(c, "measure") /\ UNCHANGED faults) \/ Raises(c)
          /\ UNCHANGED blame
       \/ /\ Fault /\ Blame(c, "artifacts") /\ UNCHANGED objects
          /\ Goto(c, "measure") \/ Goto(c, "teardown")
    /\ UNCHANGED <<flags, mainVars, suite, rows, mon, env, cloud>>

\* run_benchmark for each protocol; an exception keeps the rows there are.
Measure(c) ==
    /\ bench[c] = "measure"
    /\ Goto(c, "teardown")
    /\ \/ rows' = [rows EXCEPT ![c] = TRUE] /\ UNCHANGED faults
       \/ Fault /\ \E b \in BOOLEAN : rows' = [rows EXCEPT ![c] = b]
    /\ UNCHANGED <<flags, mainVars, suite, blame, mon, env, awsVars>>

\* terraform destroy, whose result teardown does not check; then the results
\* are saved and the process ends.
Teardown(c) ==
    /\ bench[c] = "teardown"
    /\ Goto(c, "ended")
    /\ \/ cloud' = [cloud EXCEPT ![c] = {}] /\ UNCHANGED <<blame, faults>>
       \/ /\ Fault /\ Blame(c, "destroy")
          /\ \E x \in Extents : cloud' = [cloud EXCEPT ![c] = Remnant(cloud[c], x)]
    /\ UNCHANGED <<flags, mainVars, suite, rows, mon, env, objects>>

\* A process that is killed runs no finally block; what its terraform or its
\* upload was at stays half done.
Alive(c) == bench[c] \in Steps
AfterKill(c, extent) ==
    CASE bench[c] = "deploy" -> Remnant(Resources(c), extent)
      [] bench[c] = "teardown" -> Remnant(cloud[c], extent)
      [] OTHER -> cloud[c]

Kill(C) ==
    /\ bench' = [c \in Cases |-> IF c \in C THEN "died" ELSE bench[c]]
    /\ blame' = [c \in Cases |-> IF c \in C THEN blame[c] \union {"died"} ELSE blame[c]]
    /\ \E x \in Extents :
          cloud' = [c \in Cases |-> IF c \in C THEN AfterKill(c, x) ELSE cloud[c]]
    /\ \E b \in BOOLEAN :
          objects' = [c \in Cases |-> objects[c] \/ (c \in C /\ bench[c] = "upload" /\ b)]

Dies(c) ==
    /\ Alive(c) /\ Fault
    /\ Kill({c})
    /\ UNCHANGED <<flags, mainVars, suite, rows, mon, env>>

\* The terminal hangs up: every process of the run dies.
Hangup ==
    /\ ~Over /\ Fault
    /\ main' = "exit1"
    /\ Kill({c \in Cases : Alive(c)})
    /\ suite' = [c \in Cases |-> IF suite[c] = "idle" \/ Ended(c) THEN suite[c] ELSE "gone"]
    /\ mon' = [c \in Cases |-> IF mon[c] = "running" THEN "killed" ELSE mon[c]]
    /\ UNCHANGED <<next, active, failed, reported, flags, rows, env>>

-----------------------------------------------------------------------------
Main == SubmitInline \/ SuiteReturns \/ SubmitBackground \/ Reap \/ Drain \/ Report
Suite(c) == Prepare(c) \/ ReadEnv(c) \/ BenchReturns(c) \/ KillMonitor(c)
Bench(c) ==
    \/ Deploy(c) \/ Configure(c) \/ Upload(c) \/ Services(c) \/ Measure(c)
    \/ Teardown(c)

Next ==
    \/ Main \/ Interrupt \/ Hangup
    \/ \E c \in Cases : Suite(c) \/ Bench(c) \/ MonitorEnds(c) \/ Dies(c)

Spec == Init /\ [][Next]_vars

\* The operating system schedules the processes, and every call to AWS or
\* Terraform ends.  Each process takes finitely many steps, so that it is
\* enough that some process moves while one can.
Progress == Main \/ \E c \in Cases : Suite(c) \/ Bench(c) \/ MonitorEnds(c)

-----------------------------------------------------------------------------
(* Properties                                                              *)

\* A benchmark that came to its end left no resource behind unless terraform destroy
\* failed, whichever step raised an exception.  It may have left an artifact where the
\* removal failed, and in one more case: an upload that failed half-way, of which the
\* finally block of deploy knows nothing.  That case has measured nothing: where there
\* are results the artifacts are gone or their removal failed.
EndedLeavesNothing ==
    \A c \in Cases : bench[c] = "ended" =>
        /\ cloud[c] # {} => "destroy" \in blame[c]
        /\ objects[c] => "artifacts" \in blame[c] \/ ("upload" \in blame[c] /\ ~rows[c])

\* --parallel-cases bounds the clusters that are up at the same time, those of
\* an interrupted script included.
ParallelBound ==
    Cardinality({c \in Cases : bench[c] \in Steps}) <= parallel

\* The script reports success only when every benchmark ran to its end, and its
\* report then lists the results of all of them that have any.
ReportIsComplete ==
    main = "exit0" =>
        /\ \A c \in Cases : suite[c] = "ok" /\ bench[c] = "ended"
        /\ reported = {c \in Cases : rows[c]}

\* In the end, also after an interrupt, the script is over, no monitor runs and
\* no cluster is up, but for those whose destruction failed or whose benchmark
\* was killed.
RunEnds ==
    <>[] /\ Over
         /\ \A c \in Cases :
               /\ mon[c] # "running"
               /\ cloud[c] = {} \/ blame[c] \intersect {"destroy", "died"} # {}

=============================================================================
