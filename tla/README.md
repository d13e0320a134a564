# Raft over QUIC: TLA+ models, checks and proofs

This directory holds TLA+ models of the parts of this repository whose
correctness depends on the order in which things happen, the TLC configurations
that check them on small instances, and proofs that TLAPS checks for every value
of the constants.

Contents: 1. the system; 2. modules and the code they model; 3. runs, bounds and
what they show; 4. fairness; 5. proofs; 6. disagreements found; 7. what is not
modelled; 8. plan.

## 1. The system

`cmd/raftd` is a replicated key-value store: hashicorp/raft with a QUIC transport
of its own (`transport/`), a map as its state machine (`fsm/`), and an HTTP API.
Around it are Python and shell programs that deploy clusters on AWS, measure
them, and clean up (`scripts/`, `deploy/`). Raft itself is a library and is not
in the repository.

| Component | State it keeps | Operations | Interacts with |
|---|---|---|---|
| `QuicPipeline` (transport/pipeline.go) | `reqCh`, `doneCh`, `shutdownCh`, 32 workers, futures with an error and a `done` channel | `AppendEntries`, `worker`, `Close`, `failPending`, `Consumer` | raft's replication goroutine calls it; its decoder goroutine reads `Consumer()`; `sendOne` opens a stream of the transport |
| `peerConn` (transport/conn.go) and the pool (transport.go) | `conn` under `p.mu`; `peers` under `peersMu` | `getOrDial`, `close`, `getPeerConn`, `openStream`, `Close` | every goroutine with an RPC for that peer; QUIC connections that die by themselves |
| RPC path (transport.go) | `consumeCh`, `heartbeatFn`, one stream per RPC | `sendRPC`, `acceptLoop`, `handleConn`, `handleStream`, `sendResponse` | raft's main loop reads `consumeCh` and answers through a response channel; heartbeats bypass it |
| Node (node/node.go) | raft instance, in-memory log and stable store, snapshot store, sampled metrics | `New`, `Shutdown`, `monitorMetrics`, `GetMetrics` | owns the transport and the state machine |
| State machine (fsm/fsm.go) | `data` under `mu` | `Apply`, `Snapshot`, `Persist`, `Restore`, `Get` | raft's FSM and snapshot goroutines, HTTP reads |
| Server (cmd/raftd/main.go) | none of its own | bootstrap or join at start, `/set`, `/get`, `/join`, `/leader`, `/status` | other nodes by HTTP (`JoinCluster`), clients |
| Benchmark client (`DistributedBenchmark` of scripts/distributed_benchmark.py) | believed leader, counters | write, latency and read phases, search for a leader, retries | `/set`, `/get`, `/status` of all nodes |
| Cluster life cycle (`AwsClusterManager`, same file) | Terraform directory, artifacts in S3, cluster env file | `deploy` (Terraform, upload, SSM, start scripts, readiness), `teardown` | Terraform, AWS, the start scripts and daemons on the instances |
| Benchmark process (`main`, same file) | `all_results`, position in its loop over scenarios and sizes | deploy or load, measure, tear down, save, report | the life cycle, the client, `MetricsCollector` |
| Metrics collector (scripts/collect_metrics.py) | `running`, `metrics_history` | `start_monitoring`, the `collect_*` functions, `stop_monitoring`, `save_metrics` | SSM or SSH to every node; a main thread that joins the monitor thread; Ctrl-C |
| Result tools (`_generate_report`, scripts/analyze_distributed_results.py, scripts/visualize_benchmark.py) | none | means, ratios, charts | the CSV files of the benchmark process |
| Test runner (scripts/aws_distributed_test.sh) | `ACTIVE_PIDS`, `FAILED_TESTS` | submit, reap, drain, report, interrupt | one suite, benchmark and monitor process per case |
| Cleanup (scripts/cleanup_aws_leftovers.sh) | region list, `UNIQUE_LIST` | terminate, delete groups, keys, IAM, S3 objects | AWS |

What is hard in it: channels shared by callers, workers and a closer; a mutex
held across a dial; one `Close` that waits for another machine; raft code that
was written for one goroutine and runs on two; a snapshot encoded while the map
changes; memory that a restart loses; requests whose answer is lost; processes
that die while they own machines that cost money; waits over machines that may
never answer, with a `finally` around each; a thread that appends to what another
will save. Every such place is listed
with its line under `hazards` in PROJECT.json, with the properties that would
catch it.

## 2. Modules and the code they model

Names are those of the source where TLA+ allows it, and PROJECT.json maps every
definition to its lines. Definitions whose comment begins with "Mutant" are not
part of a model: each is a plausible bug, put in place of the definition it is
named after to confirm that a property notices it.

**QuicPipeline** (transport/pipeline.go). Goroutines have program counters
(`gpc`, `wpc`). A `select` is one action per ready case, so `AppendEntries` is
`AppendRefused` (the first select sees the shutdown) or `AppendBegin` followed
by `AppendEnqueue` or `AppendAbort`, with anything in between. A worker takes,
sends, closes `done` and delivers in separate steps. `Close` is `sync.Once`:
`CloseFirst`, `CloseWaited`, `FailPendingOne`... for the first caller, and
`CloseAgain`, which blocks until the first has finished. Futures are numbered by
call. **AppendPipeline** is what raft relies on whatever the transport: requests
go from pending to complete, are handed over once, and none is pending after
Close. `KeepsPromise` maps the one onto the other.

**PeerConn** (transport/conn.go, openStream). `mu` is a variable, because a dial
happens under it; critical sections without a blocking call are one step. Each
connection has a status of its own, so that a connection nobody refers to any
more can be seen to stay alive.

**NodeShutdown** (sendRPC, handleStream, Node.Shutdown). An RPC of a link
`<<client, server>>` is at one of six places, which are the blocking points of
the two functions. It was sent by the client's goroutine for that link, which calls
`sendRPC` or owns a pipeline, or by a worker of the pipeline, which is reduced here to
the number of requests in its `reqCh`, one worker, and a Close in two steps. Raft's
part is external: a loop that reads `Consumer()` until it is shut down, goroutines
that end when they see the shutdown, and a future that waits for those. It does not
wait for a pipeline's workers, which raft does not know: whether any is left when the
transport closes depends on the pipeline's Close.
**MCNodeShutdown** says which nodes talk to each other.

**HeartbeatPath** (handleStream). The requests of one leader to one follower, on
streams that overtake each other, handled by the main loop or directly on the
stream's goroutine. What raft's `appendEntries` and `processLogs` do is cut into
the steps between which the other goroutine can run (external).

**KVStateMachine** (fsm/fsm.go). Persist encodes the copy key by key while
commands go on being applied; the sink may fail; the node restarts from its
newest snapshot and replays. `Replay` is the reference definition.

**Cluster** (main.go, node.go). Processes that start, bootstrap or join, serve,
give up and die, on top of an abstract raft: an election with its quorum is one
step, a replication exchange another.

**BenchClient** (DistributedBenchmark, handleSet, handleGet). The client's three
loops with their counters, one request at a time, and the nodes that answer it:
which of them believes to lead, what 307, 503, a lost answer and a late commit do.

**AwsTestRun** and **AwsCleanup** (the runner, the life cycle of a cluster, the
cleanup). Per case a suite, a benchmark and a monitor process; what exists in AWS
as sets of resources per region. `blame` is a history of the calls of a case that
failed: "destroy" (terraform destroy), "artifacts" (the removal from S3) and "upload"
(an upload that failed half-way, outside the `try` of deploy, of which no removal
knows). AwsCleanup EXTENDS AwsTestRun: its `LifecycleSpec` runs the cleanup on what
any run may leave. Its position is `phase` and the `index` of its region, and
`unclean` the kinds and places in which one of its calls failed; where `set -e` makes
such a call the end of the script, it is.

**ClusterDeploy** (`AwsClusterManager.deploy`) takes apart what AwsTestRun has as
the one step `Services`. The driver is a program counter (`step`) with the
position in its loops (`at`) and the attempts left (`tries`); an exception is a
jump to `cleanup` with `raised`. Beside it run the start scripts of the instances
(`remote`), which do not stop when the driver gives up on them, and the daemons
(`daemon`), whose port is open only after their join. Elections are external.
`Services` of AwsTestRun also lets a cleanup of artifacts be cut off after an
exception; finding that step was the work of `ImplementsTestRun`.

**BenchmarkRun** (`main` of distributed_benchmark.py) EXTENDS ClusterDeploy: the
loop over cases, with and without `--skip-deploy` (`LoadNodes`) and `--monitor`,
the `try`, `except` and `finally` of each case (`LeaveTry`, `LeftCase`), the rows
and what is saved of them. It uses AwsTestRun's `Deploy`, `Configure`, `Upload` and
`Teardown` unchanged and refines its `Bench`. Ctrl-C is "fatal": no `except
Exception` catches it, every `finally` runs.

**ResultAnalysis** is pure: from a set of rows to the report's ratios, the
analyzer's comparison, table by protocol and scaling factors, and the bars of the
charts, with the places where these raise an exception.

**MetricsMonitor** (collect_metrics.py): the main thread (`collector`) and the
monitor thread (`thread`), Ctrl-C once or twice, SIGTERM. A sample is what became
of one field when the command behind it answered, failed or timed out; the four
operators `System`, `Raft`, `Network` and `Latency` are the four collectors'
different ways of recording a failure (as 0, or by leaving the field out).

**MCMeasurement** composes the last four: plans (command lines) for the benchmark
process and a collector beside it.

**QuicPipelineProofs**, **PeerConnProofs**, **NodeShutdownProofs**,
**HeartbeatPathProofs**, **KVStateMachineProofs**, **BenchClientProofs** and
**ClusterProofs** extend the modules that they are named after with the theorems
about them, and **AwsProofs** those of the programs that own or measure clusters on
AWS: first AwsTestRun and AwsCleanup, then ClusterDeploy, BenchmarkRun,
ResultAnalysis and MetricsMonitor (section 5).

## 3. Runs

| Run | Configuration | States | What it shows |
|---|---|---|---|
| `pipeline_owner` | MCQuicPipelineOwner | 1 caller that also closes, 2 workers, queues of 2, 6 calls | used as raft uses it, the pipeline implements AppendPipeline, leaves nothing pending, and answers overtake each other by fewer places than there are workers |
| `pipeline_shared` | MCQuicPipelineShared | 2 callers, 2 closers (one is both), 2 workers, queues of 1, 3 calls | with any number of users futures are complete when delivered, delivered once, and every Close returns |
| `peer_shared` | MCPeerConnShared | 2 senders, 4 connections | one death is hidden by the retry, leaks are bounded, the mutexes do not deadlock |
| `shutdown_some` | MCNodeShutdownSome | 3 nodes, 3 links, 2 pipelines, queues of 1, 2 may stop, 2 may be killed | no goroutine or worker is left to use a closed transport; a shutdown hangs only in a circle of nodes waiting for each other; an RPC returns unless its server is told to stop |
| `heartbeat` | MCHeartbeatPath | 2 streams, 3 entries, 4 requests | no entry is skipped or applied before it is committed |
| `heartbeat_reads` | MCHeartbeatPathReads | 2 streams, 3 entries, 5 requests | *violated*: an old entry is applied after a newer one |
| `kv_machine` | MCKVStateMachine | 2 keys, 2 values, 3 commands, 1 restart | the map and every snapshot are the effect of a prefix of the log |
| `cluster_stop` | MCClusterStop | 3 nodes, 3 terms, 1 write, 1 crash | as long as nobody restarts, nodes agree, and a leader that can still have anything committed (`CanCommit`: a quorum of its voters would answer it) has every acknowledged write and all confirmed members as voters |
| `cluster_restart` | MCClusterRestart | 3 nodes, 4 terms, 1 write, 1 crash; the bootstrap node may restart | *violated*: it bootstraps a second cluster with its old name |
| `bench_client` | MCBenchClient | 3 nodes, 1 round, 2 writes, 1 tick, 1 read, 2 leader changes, 1 lost request | the counters agree with the fate of the writes, a counted write was applied, a calm write is applied once, the benchmark ends |
| `aws_test_run` | MCAwsTestRun | 3 cases, 2 regions, up to 2 at a time, 1 fault | a benchmark that ends leaves nothing but what its own failing calls left, the number of clusters is bounded, the report is complete, the run ends, a completed cleanup is clean but where one of its calls failed |
| `measurement` | MCMeasurement | 3 plans of 1 to 3 cases, 3 nodes, 2 polls and rounds each, 1 failing call, dead daemon or Ctrl-C; 2 nodes, 2 rounds and 1 failing command of the collector | the process does what AwsTestRun says of a benchmark, measures whole clusters only, loses no row and ends; report, analyzer and charts agree and are complete after a clean run; the collector saves whole rounds and ends |

The middle column names the bounds (constants called `Max...` are bounds, the
others parameters of the code). Why they are enough:

- *pipeline*: two workers already answer out of order and two closers already
  meet in `sync.Once`. With queues of one, three calls block a caller at a full
  `reqCh` and a worker at a full `doneCh`. The owner's run has six calls on queues
  of two, which fill both queues and both workers.
- *peer_shared*: one connection that dies, its replacement, the one by which the
  second sender replaces the replacement, and one more, which is what a second leak
  after the same loss takes: with fewer the bound could not fail once something is
  lost. Two losses with a leak each are left to `PoolLeaksLittle`.
- *shutdown_some*: two nodes send to each other and a third to one of them, so the
  circle, a chain and a `consumeCh` with two users are all present. Queues of one
  fill at once; one request in a `reqCh` is the one a worker may still take, or Close
  must still fail, when the pipeline is closing.
- *heartbeat*: the violation needs two streams and entries 1 and 2; the passing
  run has one entry more than that and a request that is sent again.
- *kv_machine*: two keys make a snapshot encodable in two orders with a command in
  between; three commands put one before, one during and one after it.
- *cluster*: three nodes are the clusters of the repository's own tests; three
  terms are the bootstrap's, a rival's and the next. `Symmetry` permutes the
  joiners, which the code does not tell apart, and is used with invariants only.
  The two properties about `CanCommit` are not about every leader: one that is cut
  off may lack the newest writes and voters and does no harm, for it commits
  nothing; and when too many processes have died nobody leads at all.
- *bench_client*: a leader change before a write and another during its retries;
  four attempts are `MaxAttempts` of the code and are not bounded further.
- *aws_test_run*: with three cases and two at a time, one case waits for a slot;
  one case spans two regions. One fault at any call is every single failure;
  pairs of failures are outside the run.
- *measurement*: one plan deploys two clusters, one goes through three existing
  ones (two sizes and two scenarios, so that means and scaling factors differ
  from single rows), one has the collector beside it. Two polls or rounds are one
  that is retried and one that is the last. Rates of 1 and 3, and 0 for a case
  none of whose writes came through, make sums over sizes come out on either side.
  One failing call, at any place of either program, and one interrupt; pairs of
  failures are outside the run (they do not finish in the time a run has).

Each detailed module also has a type invariant, which says what its variables range over.
Only the pipeline's is among a run's invariants: the others hold on
the same instances, as an `INVARIANT TypeOK` in their configurations shows
(`LifecycleTypeOK`, `RunTypeOK`, `MonitorTypeOK` where that is their name), but say
nothing by themselves that one of the listed properties would not miss. Those of the
pipeline, the connections, the nodes, the heartbeat path and the cluster are theorems
of their own (`TypeCorrect`, `ClusterTypesHold`), those of KVStateMachine, BenchClient, AwsTestRun and AwsCleanup
are part of a proved inductive invariant.

Deadlock checking is off where the system may stop: a closed pipeline or
transport, stopped nodes, requests used up, a log at its bound, a test run that
is over. In `bench_client` it is on (`Done` is the end of the program).

## 4. Fairness

Stated in each module beside its definition:

- goroutines and processes that can run are run (weak fairness per process);
  nobody is made to begin a call, to shut down or to die;
- a Go mutex hands itself to a goroutine that has waited for a millisecond, and a
  channel serves blocked senders in turn, hence strong fairness of PeerConn's
  `SenderStep` and `ClosePeer` and of NodeShutdown's `RpcStep`;
- a dial returns within the `rpcTimeout` of its context. **A read does not**: an
  RPC whose stream is open has no deadline, which is why `RpcReturns` is stated
  only for as long as the server is not told to shut down;
- raft's goroutines look at its shutdown channel in every round of their loops, and
  the channel stays ready, so they take it in the end (strong fairness of
  `SenderEnds`); they leave a pipeline once raft has stopped;
- a pipeline worker's RPC returns; by the previous point this means that the peer
  answers or its connection dies;
- the consumer of a pipeline reads while it lives; `AppendReturns` says so as a
  premise, because a caller does block at pipeline.go:79 when the consumer is gone
  and the queues are full, until Close;
- calls to AWS and Terraform end;
- the benchmark process is scheduled and each command it waits for ends
  (`BenchmarkFairness`); nothing is assumed of start scripts, daemons or elections,
  whose waits have deadlines, and `ProcessEnds` shows that the deadlines suffice;
- the collector's two threads are scheduled, and each of its commands ends, by its
  timeout at the latest.

## 5. Proofs

Every theorem below is about the specification for all values of its constants;
bounds are constants like any other, so they hold for any number of calls, faults,
terms and so on. The assumptions named are those of the modules, which TLC
evaluates in every run.

| Module | Theorem | Property | Says |
|---|---|---|---|
| QuicPipelineProofs | `TypeCorrect` | `TypeOK` | types, and channels within their capacity |
| | `NoDoubleClose` | `CompletedOnce` | no `done` channel is closed twice |
| | `ConsumerNeverBlocks` | `DeliveredIsComplete` | what is in `doneCh` is complete and has its error |
| | `OutcomeIsNeverRewritten` | `OutcomeIsFinal` | no step changes the error of a completed future |
| | `CloseCompletesEverything` | `ClosedLeavesNonePending` | with one owner, nothing accepted is pending after Close |
| | `NothingHandedTwice` | `DeliveredOnce` | no future reaches `Consumer()` twice |
| | `OvertakingIsBounded` | `OvertakingBounded` | with one caller, an answer overtakes fewer calls than there are workers |
| | `ImplementsPromise` | `KeepsPromise` | with one owner the pipeline implements AppendPipeline |
| PeerConnProofs | `TypeCorrect` | `TypeOK` | types |
| | `OneDeathIsHidden` | `OneDeathIsMasked` | one dead connection is hidden by the retry |
| | `PoolLeaksLittle` | `LeaksBounded` | each loss leaks at most one connection per other sender |
| | `CloseLeavesLeaks` | `CloseLeavesOnlyLeaks` | Close leaves nothing alive but leaks |
| NodeShutdownProofs | `TypeCorrect` | `TypeOK` | types, and `consumeCh` and `reqCh` within their capacities |
| | `NothingIsOut` | `NothingUsesClosedTransport` | no RPC is out, and no request is queued in a pipeline, when a transport is closed |
| HeartbeatPathProofs | `TypeCorrect` | `TypeOK` | types |
| | `FsmGetsPrefixes` | `NothingSkipped` | no entry is skipped, or applied before it is committed |
| KVStateMachineProofs | `GetReadsPrefix` | `DataIsReplay` | the map is the effect of a prefix of the log |
| | `PersistWritesCopy` | `SnapshotIsConsistent` | a snapshot is the map when Snapshot was called |
| BenchClientProofs | `ReportAddsUp` | `CountersAddUp` | the counters agree with each other and the writes |
| | `CountedIsApplied` | `CountedWritesApplied` | what is counted as done was applied |
| | `CalmIsOnce` | `CalmWritesOnce` | an undisturbed write is applied once and no error |
| ClusterProofs | `ClusterTypesHold` | `TypeOK` | types, and commit indexes within the logs |
| | `ConsistentDataHolds` | `ConsistentData` | two nodes never disagree on what both have applied |
| | `AckedWritesSurviveHolds` | `AckedWritesSurvive` | a leader that can commit has every acknowledged write |
| | `ServingIsMemberHolds` | `ServingIsMember` | such a leader has all nodes that serve as voters |
| AwsProofs | `EndedIsClean` | `EndedLeavesNothing` | what remains after a benchmark was left by a failing destroy, a failing removal or an upload that failed half-way |
| | `ParallelIsBounded` | `ParallelBound` | never more clusters than `--parallel-cases` |
| | `SuccessIsComplete` | `ReportIsComplete` | exit 0 means every case has run, and the report is complete |
| | `CleanupIsComplete` | `CompletedMeansClean` | a completed cleanup left only kinds and places in which its own calls failed |
| | `MeasuresWholeClusters` | `MeasuredClusterIsWhole` | a deployed cluster is measured only when all had joined |
| | `NothingIsLost` | `NothingMeasuredIsLost` | no measured row is lost |
| | `ProcessIsBenchmark` | `ImplementsTestRun` | the process refines AwsTestRun's benchmark |
| | `SavedSamplesAreWhole` | `SavedIsWhole` | the collector saves whole rounds |
| | `EvaluationsDoAgree` | `EvaluationsAgree` | report, analyzer and charts agree on which protocol is faster |
| | `CleanRunsAreEvaluated` | `CleanRunIsEvaluated` | an undisturbed run gets its whole evaluation |

None of these properties but the simplest is inductive. What is added to each, and why:

- *Pipeline.* That a worker does not close a future a second time depends on nobody
  else having it, so `IInv` is about ownership: a call under way owns its number
  (`CallsInv`), the queue holds accepted, incomplete futures, each once (`QueueInv`),
  and a worker owns the future in its hand, which is in no queue and no other hand
  and is complete exactly from its close to its delivery (`HeldInv`). `failPending`
  runs after the workers have ended (`CloseInv`), and `QueueInv` is what keeps it from
  closing one that a worker has closed. `PendingInv` says where the accepted,
  incomplete futures are, `OwnerInv` that one owner is not inside `AppendEntries`
  while Close runs. `DeliveryInv` follows a future from the hand to `doneCh` to the
  reader. `OvertakeInv` counts: with one caller every call that started is in the
  queue, in a hand, or answered (`NoneLostInv`), the queue is in order (`OrderInv`),
  so what an answer has skipped is in the hands of the other workers, which are
  fewer than `Cardinality(Workers)`. The refinement takes each action of the pipeline
  to one of AppendPipeline or to a stutter. `GoroutinesAssumption`: callers and
  workers are finite sets.
- *Connections.* `PoolInv`: connections are numbered as they are dialed, under
  `p.mu`; `LossInv`: what is lost is what has died; `MaskInv`: as long as one has
  died, whoever makes a second attempt holds a live connection. `LeakInv` bounds the
  live uncached connections *and those that may join them*: the senders that are
  about to reset (the threats). Without the threats it is not inductive, and with
  all senders among them the first finds nothing to drop (`Slack`).
  `SendersAssumption`: the senders are a finite, nonempty set.
- *Nodes.* `ClosedIsOver`: a transport is closed only after every goroutine of raft
  that uses it has ended. That alone says nothing about workers; `NothingLeftBehind`
  does: a goroutine that is outside of calls and pipelines has no RPC out and nothing
  in `reqCh`, because Close waits for the workers and then empties the queue.
- *Heartbeat path.* `LogInv` (no gaps in the follower's log), `CommitInv` (a request
  does not carry a commit index the leader has not reached) and `BatchInv`: a
  goroutine hands over from one after an entry that *was* handed over. The last is
  why two `processLogs` at once repeat entries (finding 1) and yet skip none.
- *State machine.* `PersistInv` relates the copy being encoded to the index at which
  it was taken, `StoredInv` the stored snapshot to the log. The map is compared with
  `Replay`, a recursive function. That it exists, and depends on a prefix of the log
  only, is proved from the least index at which it would fail (`LeastNumber`), since
  the induction theorems of the library take an operator as a parameter.
- *Benchmark client.* `PlaceInv` says where the client can be with which request out;
  `CountInv` is the relation of the counters in the middle of a write;
  `EntryInv` that each attempt leaves at most one entry; `CalmInv` that an undisturbed
  write finds the leader with its second attempt.
- *Cluster.* The premise of its four theorems is `Restartable = {}`: no process is
  started again. It is what `cluster_stop` checks, and finding 2 shows what happens
  without it; nothing bounds how many processes die, or when. The argument is that of
  raft, for what is different here: configurations grow by one voter at a time, the
  first has one voter, and a log dies with its process.
  - The invariant speaks of the longest log that was ever committed, `d`, which no
    variable has and no process need hold; it is `\E d : ClusterInv(d)`, and a step
    that commits picks the next `d` (`DecidedGrows`).
  - `LogsInv` is log matching, `LeaderInv` one leader per term with all entries of the
    term, `MatchInv` what a leader may believe of a follower.
  - A dead process counts as one that keeps what it knew (`Dead(v) \/ Has(...)` in
    `Cert`), because it never votes again. That makes the loss of logs harmless
    without a bound on the losses, and it is where the proof needs the premise.
  - What is committed is `Safe`, not simply on a quorum of its own configuration
    (`Exact`). A leader counts by its *latest* configuration, which may be one it
    appended after the entry; then the quorum is one of the configuration with one voter
    more, and an `Exact` entry of the same term comes before. `JoinAccepted`'s guard (an
    entry of the leader's own term is committed, and so is the configuration before)
    gives every configuration such an entry as its root (`ConfigInv`).
  - Two logs whose configurations have their roots in each other go by configurations
    that differ by one voter at most (`ConfigsAreNear`), so their quorums meet
    (`QuorumsMeet`). From that, whoever can win an election, or commit, has every safe
    entry (`BackedHasExact`, `BackedHasSafe`).
  - `VoteInv` keeps, for the first entry of each term in a log, the quorum that voted for
    it and what those voters had told earlier leaders. `CommitComplete` needs it: in
    the first later term without the entry that is now committed, one of its holders
    would have voted.
  - The constants' assumptions are that there are finitely many nodes, that the boot node
    may start in term 1 (`MaxTerm` is not 0), and a number of join attempts.
- *Runner and cleanup.* `SuiteInv` ties a suite to its benchmark, `SlotInv` says who
  may be busy (one case, or those in `ACTIVE_PIDS`, which are at most `parallel`, of
  which the sizes are counted with FiniteSetTheorems), `OutcomeInv` what the script
  knows of the cases it has submitted, `LeftoverInv` which failing
  call answers for what is in AWS, and that a case whose upload failed has no results.
  `CleanInv` says of each step of the cleanup what the earlier ones have removed,
  region by region. `CasesAssumption`: a case is listed once; `RegionListAssumption`:
  the cleanup's list has every region in it.
- *Benchmark process.* `DeployInv`: where the driver is (`PlaceInv`); the scripts of
  the nodes it has passed have succeeded, so that none will reset its node's daemons
  (`SentInv`); and as long as no node was missed, every daemon asked in this round had
  joined and may be lost but not go back (`JoinedInv`). `MainInv`: the stage of
  AwsTestRun that each case is at (`StageInv`), the rows of the cases gone through
  (`RowsInv`), and how many failures are left (`RoomInv`). The refinement needs the
  last because AwsTestRun stops failing at `MaxFaults`; `RoomAssumption` says that a
  process has few enough cases not to meet that bound. `PlansAssumption`: a plan that
  deploys names no case twice, for AwsTestRun has one cluster per case.
- *Evaluations.* `ResultsInv` has two parts: every row is of a case that was begun, and
  what is saved is all or nothing (`SourceInv`); and a protocol has one row for a size
  of a scenario (`UniqueInv`), where a bar of a chart and a mean are the same number.
  `MeasuresAssumption`: a size and a scenario make one case, and a rate is positive.
  The rest is about `Mean` for every finite set of rows. It is a fold, which chooses an
  order; that the sum it is built on exists, and does not depend on the order, is
  proved without induction over data: `SumExists` goes from the subsets of `m` rows to
  those of `m + 1` by the least number at which it could fail, `SumRemoves` shows that
  any row may be added last, `SumsCompare` takes a smallest set of sizes on which one
  protocol could be ahead at every size and yet not in the sum. `EvaluationsDoAgree`
  needs that no command line names a case twice (`NoCaseTwice`: otherwise a size
  has two rows, of which the analyzer takes the mean, where the charts expect one), `CleanRunsAreEvaluated`
  that each names one at all (`NamesCases`: without a row there is no report).
- *Collector.* `SamplesInv` counts the samples on either side of the thread's
  position (`spot`), which division and remainder take to a node and a kind
  (`SpotsAreSamples`), and `SavingInv` says that saving comes after the thread.
  `WatchAssumption`, `KindsAssumption`: nodes and kinds are listed once each, and
  there is one of each.

Every inductive invariant was checked by TLC, as an `INVARIANT` of the run of its
module, before it was proved (that of Cluster with a variable that keeps `d`).
Each proof that a step keeps it has one step per action, in lemmas of their own
where several theorems use them.

Only model-checked:

- all liveness properties (`AppendReturns`, `CloseReturns`, `CallsReturn`,
  `ShutdownCompletesOrCircle`, `RpcReturns`, `BenchmarkEnds`, `RunEnds`, `ProcessEnds`,
  `CollectorEnds`): the provers know neither fairness nor ENABLED;
- the two findings, which are counterexamples.

## 6. Disagreements between the code and what is said of it

1. **Reads can stay stale on one follower** (`heartbeat_reads`). A request
   without entries is handled on its stream's goroutine (transport.go:189), also
   when it carries a new commit index. `processLogs` then runs twice at once and
   the state machine is handed 1, 2, 1. test_cluster.sh:115 expects the same value
   on all nodes.
2. **A restarted bootstrap node starts a second cluster** (`cluster_restart`).
   The log, term and vote are in memory (node.go:108) and a node without `-join`
   always bootstraps. test_cluster.sh:207 expects consistent data after a restart.

Met on the way, and documented as hazards or as a limit in a property:

- Two nodes that shut down together may hang. `Node.Shutdown` ("gracefully stops
  the node", node.go:208) closes the transport after raft's goroutines have ended,
  an RPC that is out has no deadline, and a stopped raft does not answer: two
  nodes that stop with an RPC out to each other wait for each other. `ShutdownCompletesOrCircle` states
  that this circle is the only way to hang; `ShutdownCompletes` alone is false.
- `openStream` resets whatever connection is cached (transport.go:288): of two
  goroutines that lose one connection together, the second forgets the live one
  that the first has dialed. conn.go:11 speaks of a single connection;
  `LeaksBounded` states what holds instead.
- `_prepare_artifacts` uploads before `deploy`'s `try` and `artifact_keys` is set only
  when all of it has succeeded (distributed_benchmark.py:104, 321): an upload that
  fails half-way leaves objects that nothing of the run removes. It is the one
  exception in `EndedLeavesNothing`.
- In bash, `"${UNIQUE_LIST[@]-}"` of an empty array is one empty string, so
  cleanup_aws_leftovers.sh does not skip a region without instances, and stops
  there. `CompletedMeansClean` is about a cleanup that says it completed.
- `retries` counts attempts and `retry_recovered` counts writes; README.md:270
  compares them as if they counted the same thing (`CountersAddUp` is the
  relation that holds).
- benchmark.py, test_cluster.sh and deploy.sh look for a field `state` in
  `/status`, which `Metrics` (node.go:269-283) does not have.
- A ratio whose TCP side is zero is reported as 0, as if QUIC were infinitely
  slower (analyze_distributed_results.py:248). The analyzer's means run over
  whatever sizes each protocol was measured at; `ToolsAgree` therefore compares
  the tools only where both were measured at the same sizes (`Comparable`).
- The analyzer divides by the mean at the smallest size without a guard
  (line 282), and visualize_benchmark.py:177 looks a TCP row up without a test:
  `DividesByZero` and `RowMissing` are where these end the program, and
  `CleanRunIsEvaluated` says that a run without failures meets neither.
- analyze_distributed_results.py:98 looks for the literal text
  `metrics_*_system`, which no file's name contains: its system part stays empty.
- aws_distributed_test.sh waits for an env file that may be an older run's.

## 7. Not modelled

PROJECT.json lists every component with its reason. In short: framing and TLS
(two calls and a comparison, no state), the TCP server (the same program over a
library's transport), Terraform's own work and the AWS API (external), argument
parsing, layout. The single-cluster benchmarks cannot get past their first step at
this commit: benchmark.py:45 and benchmark_aws.py:75-85 wait for the field `state`,
which no node sends; the chart and report programs that read only their files
(generate_report.py, visualize.py, visualize_svg.py) and the one that invents such
files are left out with them. Within modelled parts: TimeoutNow and message
bodies, latencies, the 500 that `/set` returns when raft's queue stays full for its
enqueue timeout (the client retries it like the failures that are modelled), the dry
run of the cleanup, the choice of a bucket, and `--skip-quic`/`--skip-tcp`. Hazards
that no property covers have a note in PROJECT.json that says why.

## 8. Plan

Order of the modules: the pipeline first, because it is the code that is most
concurrent and most the repository's own; then the connections below it, the RPC
path around it, the state machine, the cluster, and then the programs that use a
cluster: first the ones that own it, then the ones that measure it. These are
written. Next:

1. *NodeMetrics* (`monitorMetrics`, `GetMetrics`, `/status`): what a sampled
   counter promises against what happened between two ticks, composed with the
   leader changes of BenchClient, whose `/status` it refines.
2. *ClusterDeploy over Cluster*: the joins of `Serve` and `Dead` as those of
   Cluster, so that "ready" is about a real configuration.
3. TimeoutNow and InstallSnapshot's body in NodeShutdown; deploy.sh and teardown.sh.
4. *Proofs*: every safety property of the passing runs is proved. What could be added
   is the other half of Cluster's premise: which restarts are harmless (a joiner that
   was never a voter, say) and which are finding 2 in another form.
