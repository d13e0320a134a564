---------------------------- MODULE ClusterDeploy ----------------------------
(***************************************************************************)
(* The try block of AwsClusterManager.deploy in                            *)
(* scripts/distributed_benchmark.py, which AwsTestRun has as the one step  *)
(* Services: wait until SSM reaches every instance, send the start script  *)
(* to the nodes one after the other, and ask every node's /status until    *)
(* both clusters (raftd on port 8001, tcp-server on 9001) are whole.       *)
(*                                                                         *)
(* Beside the driver run the start scripts on the instances, which go on   *)
(* when the driver has given up on them, and the daemons they start.  A    *)
(* follower opens its HTTP port only after its join has succeeded          *)
(* (cmd/raftd/main.go), and dies when it is out of attempts.               *)
(***************************************************************************)
EXTENDS AwsTestRun

CONSTANTS
    NodeList,       \* the nodes of a cluster, sorted by _node_sort_key
    SsmPolls,       \* attempts per node until SSM is online (60 in the code)
    CommandPolls,   \* polls of a command until its deadline (600 s in the code)
    ReadyRounds,    \* rounds over all nodes until the deadline (90 s in the code)
    MaxTrouble,     \* bound: failing calls, dying daemons, interrupts
    NoNode

Nodes == {NodeList[k] : k \in DOMAIN NodeList}
Boot == NodeList[1]
Protocols == <<"quic", "tcp">>
Daemons == Nodes \X {"quic", "tcp"}

ASSUME NodeListAssumption ==
    /\ NodeList \in Seq(Nodes) /\ Len(NodeList) >= 3
    /\ \A j, k \in 1..Len(NodeList) : NodeList[j] = NodeList[k] => j = k
    /\ NoNode \notin Nodes
ASSUME PollsAssumption == {SsmPolls, CommandPolls, ReadyRounds} \subseteq Nat \ {0}

VARIABLES
    step,           \* where the process is
    raised,         \* what ends the case: "none", an "error" that main catches,
                    \* or something "fatal" that it does not
    at, tries,      \* the position in the loop under way, the attempts left
    missed, led,    \* a node was unreachable, protocols with a leader, this round
    remote,         \* the start script on each node
    daemon,         \* the processes it starts
    leader,         \* who leads each protocol's cluster
    trouble

driver == <<step, raised, at, tries, missed, led>>
cluster == <<remote, daemon, leader>>
deployVars == <<driver, cluster, trouble>>

\* What the variables range over.
DeployTypeOK ==
    /\ step \in {"next", "load", "aws", "ssm", "send", "poll", "ready", "cleanup", "baseline",
                "run", "sample", "report", "exit"}
    /\ raised \in {"none", "error", "fatal"}
    /\ at \in 0..2 * Len(NodeList) + 1
    /\ tries \in Nat
    /\ missed \in BOOLEAN /\ led \subseteq {"quic", "tcp"}
    /\ remote \in [Nodes -> {"none", "fetch", "launch", "check", "success", "failed"}]
    /\ daemon \in [Daemons -> {"absent", "starting", "serving", "dead", "lost"}]
    /\ leader \in [{"quic", "tcp"} -> Nodes \union {NoNode}]
    /\ trouble \in 0..MaxTrouble

\* The instances are there, and nothing runs on them.
FreshCluster ==
    /\ remote = [n \in Nodes |-> "none"]
    /\ daemon = [d \in Daemons |-> "absent"]
    /\ leader = [p \in {"quic", "tcp"} |-> NoNode]

DeployInit ==
    /\ step = "next" /\ raised = "none"
    /\ at = 0 /\ tries = 0 /\ missed = FALSE /\ led = {}
    /\ FreshCluster
    /\ trouble = 0

Trouble == trouble + faults < MaxTrouble /\ trouble' = trouble + 1

-----------------------------------------------------------------------------
(* The driver.  An exception goes to the finally block of deploy.          *)

Fail(why) == step' = "cleanup" /\ raised' = why /\ UNCHANGED <<at, tries, missed, led>>
Begin(s, k) == step' = s /\ at' = 1 /\ tries' = k /\ UNCHANGED raised

\* _wait_for_ssm_ready: describe-instance-information for one node.
SsmNotYet ==
    /\ step = "ssm"
    /\ \/ /\ tries > 1 /\ tries' = tries - 1
          /\ UNCHANGED <<step, raised, at, missed, led>>
       \/ tries = 1 /\ Fail("error")
    /\ UNCHANGED <<vars, cluster, trouble>>

SsmOnline ==
    /\ step = "ssm"
    /\ IF at < Len(NodeList)
         THEN at' = at + 1 /\ tries' = SsmPolls /\ UNCHANGED <<step, raised>>
         ELSE Begin("send", 0)
    /\ UNCHANGED <<missed, led, vars, cluster, trouble>>

\* _run_ssm_commands: send-command is checked, and must give an id.
SendCommand ==
    /\ step = "send"
    /\ \/ /\ step' = "poll" /\ tries' = CommandPolls
          /\ remote' = [remote EXCEPT ![NodeList[at]] = "fetch"]
          /\ UNCHANGED <<raised, at, missed, led, trouble>>
       \/ Trouble /\ Fail("error") /\ UNCHANGED remote
    /\ UNCHANGED <<vars, daemon, leader>>

\* Mutant: the command is polled without a deadline.
PollCommand_NoDeadline ==
    /\ step = "poll"
    /\ \/ remote[NodeList[at]] = "failed" /\ Fail("error")
       \/ UNCHANGED driver
    /\ UNCHANGED <<vars, cluster, trouble>>

\* get-command-invocation: no terminal status yet, or the call itself fails,
\* until the deadline; or a terminal status that is not Success.
PollCommand ==
    /\ step = "poll"
    /\ \/ remote[NodeList[at]] = "failed" /\ Fail("error")
       \/ tries > 1 /\ tries' = tries - 1 /\ UNCHANGED <<step, raised, at, missed, led>>
       \/ tries = 1 /\ Fail("error")
    /\ UNCHANGED <<vars, cluster, trouble>>

NewRound == missed' = FALSE /\ led' = {}

\* The next node's script is sent, or all have been.
CommandDone ==
    /\ step = "poll" /\ remote[NodeList[at]] = "success"
    /\ IF at < Len(NodeList)
         THEN step' = "send" /\ at' = at + 1 /\ UNCHANGED <<raised, tries, missed, led>>
         ELSE Begin("ready", ReadyRounds) /\ NewRound
    /\ UNCHANGED <<vars, cluster, trouble>>

\* _wait_for_cluster_ready asks every node for each protocol in turn.
Requests == 2 * Len(NodeList)
AskedProtocol == IF at <= Len(NodeList) THEN "quic" ELSE "tcp"
AskedNode == NodeList[IF at <= Len(NodeList) THEN at ELSE at - Len(NodeList)]

\* Mutant: a node that does not answer is skipped.
FetchStatus_Skips ==
    /\ step = "ready" /\ at <= Requests
    /\ IF daemon[<<AskedNode, AskedProtocol>>] = "serving"
         THEN led' = IF leader[AskedProtocol] = AskedNode THEN led \union {AskedProtocol} ELSE led
         ELSE UNCHANGED led
    /\ at' = at + 1
    /\ UNCHANGED <<step, raised, tries, missed, vars, cluster, trouble>>

\* _fetch_status: no answer within three seconds is None.
FetchStatus ==
    /\ step = "ready" /\ at <= Requests
    /\ \/ /\ daemon[<<AskedNode, AskedProtocol>>] = "serving"
          /\ led' = IF leader[AskedProtocol] = AskedNode THEN led \union {AskedProtocol} ELSE led
          /\ UNCHANGED <<missed, trouble>>
       \/ /\ (daemon[<<AskedNode, AskedProtocol>>] # "serving" /\ UNCHANGED trouble) \/ Trouble
          /\ missed' = TRUE /\ UNCHANGED led
    /\ at' = at + 1
    /\ UNCHANGED <<step, raised, tries, vars, cluster>>

EndOfRound ==
    /\ step = "ready" /\ at > Requests
    /\ \/ /\ ~missed /\ led = {"quic", "tcp"}
          /\ step' = "cleanup" /\ UNCHANGED <<raised, at, tries, missed, led>>
       \/ /\ missed \/ led # {"quic", "tcp"}
          /\ \/ tries > 1 /\ Begin("ready", tries - 1) /\ NewRound
             \/ tries = 1 /\ Fail("error")
    /\ UNCHANGED <<vars, cluster, trouble>>

\* Ctrl-C, which no except clause of the program catches.
Interrupted ==
    /\ step \in {"ssm", "send", "poll", "ready"} /\ Trouble
    /\ Fail("fatal")
    /\ UNCHANGED <<vars, cluster>>

\* Mutant: the artifacts are removed after the try block, not in its finally.
Cleanup_NoFinally(c, first) ==
    /\ step = "cleanup"
    /\ IF raised = "none"
         THEN /\ Goto(c, "measure") /\ step' = first /\ at' = 1 /\ UNCHANGED faults
              /\ objects' = [objects EXCEPT ![c] = FALSE]
         ELSE /\ Goto(c, "teardown") /\ step' = "aws" /\ faults' = faults + 1
              /\ UNCHANGED <<at, objects>>
    /\ UNCHANGED <<raised, blame, trouble, tries, missed, led, cluster, flags, mainVars, suite,
                   rows, mon, env, cloud>>

\* _cleanup_artifacts in the finally block: aws s3 rm is not checked, but may
\* be cut off by Ctrl-C.
Cleanup(c, first) ==
    /\ step = "cleanup"
    /\ \/ objects' = [objects EXCEPT ![c] = FALSE] /\ UNCHANGED <<raised, blame, trouble>>
       \/ /\ Trouble /\ Blame(c, "artifacts") /\ UNCHANGED objects
          /\ raised' \in {raised, "fatal"}
    /\ IF raised' = "none"
         THEN /\ Goto(c, "measure") /\ step' = first /\ at' = 1
              /\ faults' = IF blame' = blame THEN faults ELSE faults + 1
         ELSE Goto(c, "teardown") /\ step' = "aws" /\ faults' = faults + 1 /\ UNCHANGED at
    /\ UNCHANGED <<tries, missed, led, cluster, flags, mainVars, suite, rows, mon, env, cloud>>

Driver(c, first) ==
    \/ SsmNotYet \/ SsmOnline \/ SendCommand \/ PollCommand \/ CommandDone
    \/ FetchStatus \/ EndOfRound \/ Cleanup(c, first)

-----------------------------------------------------------------------------
(* The start script on an instance (set -e), and the daemons               *)

Script(n, s) == remote' = [remote EXCEPT ![n] = s]

\* The two binaries are fetched from S3 by their URLs.
Fetch(c, n) ==
    /\ remote[n] = "fetch"
    /\ \/ objects[c] /\ Script(n, "launch") /\ UNCHANGED trouble
       \/ ((~objects[c] /\ UNCHANGED trouble) \/ Trouble) /\ Script(n, "failed")
    /\ UNCHANGED <<driver, daemon, leader, vars>>

\* pkill of older daemons, and nohup of both.
Launch(n) ==
    /\ remote[n] = "launch"
    /\ Script(n, "check")
    /\ daemon' = [d \in Daemons |-> IF d[1] = n THEN "starting" ELSE daemon[d]]
    /\ UNCHANGED <<driver, leader, vars, trouble>>

\* Two seconds later pgrep must find both.  It runs under sudo, whose own
\* command line matches the pattern too, so it may find a dead daemon.
CheckDaemons(n) ==
    /\ remote[n] = "check"
    /\ \/ Script(n, "success")
       \/ (\E p \in {"quic", "tcp"} : daemon[<<n, p>>] = "dead") /\ Script(n, "failed")
    /\ UNCHANGED <<driver, daemon, leader, vars, trouble>>

\* main of raftd and of tcp-server: the bootstrap node serves at once, another
\* when the bootstrap node, which must lead, has added it.
Serve(n, p) ==
    /\ daemon[<<n, p>>] = "starting"
    /\ n = Boot \/ leader[p] = Boot
    /\ daemon' = [daemon EXCEPT ![<<n, p>>] = "serving"]
    /\ UNCHANGED <<driver, remote, leader, vars, trouble>>

\* Its port is taken, or its join attempts have run out.
Dead(n, p) ==
    /\ daemon[<<n, p>>] = "starting" /\ Trouble
    /\ daemon' = [daemon EXCEPT ![<<n, p>>] = "dead"]
    /\ UNCHANGED <<driver, remote, leader, vars>>

\* A daemon that had joined dies, and stays a member.
Lost(n, p) ==
    /\ daemon[<<n, p>>] = "serving" /\ Trouble
    /\ daemon' = [daemon EXCEPT ![<<n, p>>] = "lost"]
    /\ leader' = IF leader[p] = n THEN [leader EXCEPT ![p] = NoNode] ELSE leader
    /\ UNCHANGED <<driver, remote, vars>>

Standing(p, s) == {n \in Nodes : daemon[<<n, p>>] = s}

Elect(n, p) ==
    /\ leader[p] = NoNode /\ n \in Standing(p, "serving")
    /\ Cardinality(Standing(p, "serving")) > Cardinality(Standing(p, "lost"))
    /\ leader' = [leader EXCEPT ![p] = n]
    /\ UNCHANGED <<driver, remote, daemon, vars, trouble>>

Instance(c) ==
    \E n \in Nodes :
        \/ Fetch(c, n) \/ Launch(n) \/ CheckDaemons(n)
        \/ \E p \in {"quic", "tcp"} : Serve(n, p) \/ Dead(n, p) \/ Lost(n, p) \/ Elect(n, p)

=============================================================================
