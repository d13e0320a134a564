---------------------------- MODULE NodeShutdown ----------------------------
(***************************************************************************)
(* RPCs from one node (sendRPC, or a worker of a QuicPipeline) through     *)
(* handleStream on another to raft and back (transport/transport.go,       *)
(* transport/pipeline.go), while nodes are shut down (Node.Shutdown,       *)
(* node/node.go) or killed.                                                *)
(*                                                                         *)
(* Raft itself is not in the repository.  What is modelled of it is what   *)
(* the code relies on: a main loop that reads Consumer() until Shutdown, a *)
(* heartbeat handler that answers at once but stays silent after Shutdown, *)
(* goroutines that send RPCs to a peer, or own a pipeline to it and close  *)
(* it (defer), until they see that raft stops, and a Shutdown future that  *)
(* waits for all of them.  The workers of a pipeline are none of raft's    *)
(* goroutines: that nothing uses the transport when it is closed is up to  *)
(* the pipeline's Close.                                                   *)
(*                                                                         *)
(* A node has at most one RPC out to each peer; rpcTimeout bounds only the *)
(* opening of the stream, so an RPC that is out has no deadline.           *)
(***************************************************************************)
EXTENDS Integers, Sequences, FiniteSets

CONSTANTS
    Nodes,
    Links,       \* pairs <<client, server>> that exchange RPCs
    Stoppers,    \* nodes that may be told to shut down
    Victims,     \* nodes that may be killed
    ConsumeCap,  \* capacity of consumeCh (consumeQueue)
    Pipelines,   \* links that the client may replicate along through a pipeline
    QueueSize    \* capacity of a pipeline's reqCh (pipelineQueueSize)

ASSUME LinksAssumption == Links \subseteq {l \in Nodes \X Nodes : l[1] # l[2]}
ASSUME ActorsAssumption == Stoppers \subseteq Nodes /\ Victims \subseteq Nodes
ASSUME ConsumeCapAssumption == ConsumeCap \in Nat \ {0}
ASSUME PipelinesAssumption == Pipelines \subseteq Links /\ QueueSize \in Nat \ {0}

VARIABLES
    raft,       \* raft's goroutines on each node
    transport,  \* the transport of each node
    sender,     \* the client's goroutine for each link, and its pipeline
    reqCh,      \* how many requests each pipeline has that no worker has taken
    rpc,        \* where the RPC of each link is
    consumeCh   \* RPCs handed to raft's main loop and not yet read

vars == <<raft, transport, sender, reqCh, rpc, consumeCh>>
client == <<sender, reqCh>>

Client(l) == l[1]
Server(l) == l[2]

\* In openStream or on the wire; in handleStream before the consumeCh select; in
\* consumeCh; in the sendResp select with no answer; there with one in respCh.
Places == {"none", "opening", "handling", "queued", "waiting", "answered"}

\* In its loop; in sendRPC; owns an open pipeline; is in the pipeline's Close; has ended.
Senders == {"idle", "calling", "pipeline", "closing", "ended"}

TypeOK ==
    /\ raft \in [Nodes -> {"running", "stopping", "stopped", "killed"}]
    /\ transport \in [Nodes -> {"open", "closed"}]
    /\ sender \in [Links -> Senders] /\ reqCh \in [Links -> 0..QueueSize]
    /\ rpc \in [Links -> Places]
    /\ consumeCh \in [Nodes -> Seq(Links)]
    /\ \A n \in Nodes : Len(consumeCh[n]) <= ConsumeCap

Init ==
    /\ raft = [n \in Nodes |-> "running"]
    /\ transport = [n \in Nodes |-> "open"]
    /\ sender = [l \in Links |-> "idle"] /\ reqCh = [l \in Links |-> 0]
    /\ rpc = [l \in Links |-> "none"]
    /\ consumeCh = [n \in Nodes |-> <<>>]

-----------------------------------------------------------------------------
(* The client                                                              *)

Put(l, place) == rpc' = [rpc EXCEPT ![l] = place]

\* A goroutine of raft calls sendRPC; it may do so until it sees that raft stops.
SendRPC(l) ==
    /\ sender[l] = "idle"
    /\ sender' = [sender EXCEPT ![l] = "calling"]
    /\ Put(l, "opening")
    /\ UNCHANGED <<raft, transport, reqCh, consumeCh>>

\* sendRPC has the answer or an error.
CallReturns(l) ==
    /\ sender[l] = "calling" /\ rpc[l] = "none"
    /\ sender' = [sender EXCEPT ![l] = "idle"]
    /\ UNCHANGED <<raft, transport, reqCh, rpc, consumeCh>>

\* newQuicPipeline, for a follower that has caught up.
OpenPipeline(l) ==
    /\ l \in Pipelines
    /\ sender[l] = "idle"
    /\ sender' = [sender EXCEPT ![l] = "pipeline"]
    /\ UNCHANGED <<raft, transport, reqCh, rpc, consumeCh>>

AppendEntries(l) ==
    /\ sender[l] = "pipeline" /\ reqCh[l] < QueueSize
    /\ reqCh' = [reqCh EXCEPT ![l] = @ + 1]
    /\ UNCHANGED <<raft, transport, sender, rpc, consumeCh>>

\* A worker takes a request and calls openStream.  Close has closed shutdownCh when
\* the pipeline is closing, but the worker's select may take reqCh all the same.
WorkerSends(l) ==
    /\ sender[l] \in {"pipeline", "closing"} /\ reqCh[l] > 0 /\ rpc[l] = "none"
    /\ reqCh' = [reqCh EXCEPT ![l] = @ - 1]
    /\ Put(l, "opening")
    /\ UNCHANGED <<raft, transport, sender, consumeCh>>

\* The replication loop is left, because of an error, a lost leadership or raft's
\* Shutdown, and calls Close.
ClosePipeline(l) ==
    /\ sender[l] = "pipeline"
    /\ sender' = [sender EXCEPT ![l] = "closing"]
    /\ UNCHANGED <<raft, transport, reqCh, rpc, consumeCh>>

\* Mutant: Close does not wait for the workers.
PipelineClosed_NoWait(l) ==
    /\ sender[l] = "closing"
    /\ sender' = [sender EXCEPT ![l] = "idle"]
    /\ reqCh' = [reqCh EXCEPT ![l] = 0]
    /\ UNCHANGED <<raft, transport, rpc, consumeCh>>

\* wg.Wait returns, failPending empties reqCh, and Close returns.
PipelineClosed(l) ==
    /\ sender[l] = "closing" /\ rpc[l] = "none"
    /\ sender' = [sender EXCEPT ![l] = "idle"]
    /\ reqCh' = [reqCh EXCEPT ![l] = 0]
    /\ UNCHANGED <<raft, transport, rpc, consumeCh>>

\* The goroutine sees that raft stops, and returns.
SenderEnds(l) ==
    /\ sender[l] = "idle"
    /\ raft[Client(l)] \in {"stopping", "stopped"}
    /\ sender' = [sender EXCEPT ![l] = "ended"]
    /\ UNCHANGED <<raft, transport, reqCh, rpc, consumeCh>>

-----------------------------------------------------------------------------
(* The server                                                              *)

\* The stream does not open within rpcTimeout, or breaks before it is accepted.
OpenFails(l) ==
    /\ rpc[l] = "opening"
    /\ Put(l, "none")
    /\ UNCHANGED <<raft, transport, client, consumeCh>>

\* handleStream calls heartbeatFn on its own goroutine.  After raft's Shutdown
\* the function returns without an answer.
HandleHeartbeat(l) ==
    /\ rpc[l] = "opening"
    /\ raft[Server(l)] # "killed"
    /\ Put(l, IF raft[Server(l)] = "running" THEN "answered" ELSE "waiting")
    /\ UNCHANGED <<raft, transport, client, consumeCh>>

\* handleStream decodes any other request and comes to the consumeCh select.
HandleRequest(l) ==
    /\ rpc[l] = "opening"
    /\ raft[Server(l)] # "killed"
    /\ Put(l, "handling")
    /\ UNCHANGED <<raft, transport, client, consumeCh>>

Enqueue(l) ==
    /\ rpc[l] = "handling"
    /\ raft[Server(l)] # "killed"
    /\ Len(consumeCh[Server(l)]) < ConsumeCap
    /\ consumeCh' = [consumeCh EXCEPT ![Server(l)] = Append(@, l)]
    /\ Put(l, "queued")
    /\ UNCHANGED <<raft, transport, client>>

\* Mutant: the RPC is read and forgotten.
RaftConsumes_NoAnswer(n) ==
    /\ raft[n] \in {"running", "stopping"}
    /\ consumeCh[n] # <<>>
    /\ consumeCh' = [consumeCh EXCEPT ![n] = Tail(@)]
    /\ UNCHANGED <<raft, transport, client, rpc>>

\* Raft's main loop reads an RPC and answers it; between Shutdown and its exit
\* its select may still choose to.  The caller of a stale entry may be gone.
RaftConsumes(n) ==
    /\ raft[n] \in {"running", "stopping"}
    /\ consumeCh[n] # <<>>
    /\ LET l == Head(consumeCh[n]) IN
         rpc' = IF rpc[l] = "queued" THEN [rpc EXCEPT ![l] = "answered"] ELSE rpc
    /\ consumeCh' = [consumeCh EXCEPT ![n] = Tail(@)]
    /\ UNCHANGED <<raft, transport, client>>

\* The handler writes the answer and the client's readFrame returns it.
SendResponse(l) ==
    /\ rpc[l] = "answered"
    /\ raft[Server(l)] # "killed"
    /\ Put(l, "none")
    /\ UNCHANGED <<raft, transport, client, consumeCh>>

\* Mutant: a handler that waits for an answer does not watch shutdownCh.
HandlerGivesUp_NotWaiting(l) ==
    /\ rpc[l] = "handling"
    /\ transport[Server(l)] = "closed"
    /\ Put(l, "none")
    /\ UNCHANGED <<raft, transport, client, consumeCh>>

\* Either select of handleStream sees the server's transport closed: the
\* stream is closed without an answer and the client's readFrame fails.
HandlerGivesUp(l) ==
    /\ rpc[l] \in {"handling", "queued", "waiting", "answered"}
    /\ transport[Server(l)] = "closed"
    /\ Put(l, "none")
    /\ UNCHANGED <<raft, transport, client, consumeCh>>

\* The server process is gone: after MaxIdleTimeout the connection is, too.
ConnectionDies(l) ==
    /\ rpc[l] # "none"
    /\ raft[Server(l)] = "killed"
    /\ Put(l, "none")
    /\ UNCHANGED <<raft, transport, client, consumeCh>>

-----------------------------------------------------------------------------

\* Node.Shutdown calls Raft.Shutdown, which tells every goroutine to stop.
Shutdown(n) ==
    /\ n \in Stoppers
    /\ raft[n] = "running"
    /\ raft' = [raft EXCEPT ![n] = "stopping"]
    /\ UNCHANGED <<transport, client, rpc, consumeCh>>

RaftLoopExits(n) ==
    /\ raft[n] = "stopping"
    /\ raft' = [raft EXCEPT ![n] = "stopped"]
    /\ UNCHANGED <<transport, client, rpc, consumeCh>>

\* The future returns once raft's goroutines have ended; the transport closes.
CloseTransport(n) ==
    /\ raft[n] = "stopped" /\ transport[n] = "open"
    /\ \A l \in Links : Client(l) = n => sender[l] = "ended"
    /\ transport' = [transport EXCEPT ![n] = "closed"]
    /\ UNCHANGED <<raft, client, rpc, consumeCh>>

\* SIGKILL: the process and its RPCs are gone.
Kill(n) ==
    /\ n \in Victims
    /\ raft[n] # "killed"
    /\ raft' = [raft EXCEPT ![n] = "killed"]
    /\ transport' = [transport EXCEPT ![n] = "closed"]
    /\ sender' = [l \in Links |-> IF Client(l) = n THEN "ended" ELSE sender[l]]
    /\ reqCh' = [l \in Links |-> IF Client(l) = n THEN 0 ELSE reqCh[l]]
    /\ rpc' = [l \in Links |-> IF Client(l) = n THEN "none" ELSE rpc[l]]
    /\ consumeCh' = [consumeCh EXCEPT ![n] = <<>>]

-----------------------------------------------------------------------------

SenderStep(l) ==
    \/ SendRPC(l) \/ CallReturns(l) \/ OpenPipeline(l) \/ AppendEntries(l) \/ WorkerSends(l)
    \/ ClosePipeline(l) \/ PipelineClosed(l) \/ SenderEnds(l)

RpcStep(l) ==
    \/ OpenFails(l) \/ HandleHeartbeat(l) \/ HandleRequest(l) \/ Enqueue(l)
    \/ SendResponse(l) \/ HandlerGivesUp(l) \/ ConnectionDies(l)

Next ==
    \/ \E l \in Links : SenderStep(l) \/ RpcStep(l)
    \/ \E n \in Nodes :
          RaftConsumes(n) \/ Shutdown(n) \/ RaftLoopExits(n) \/ CloseTransport(n) \/ Kill(n)

Spec == Init /\ [][Next]_vars

(* Goroutines run.  A channel serves the senders that block on it in turn, *)
(* so a handler is not starved of consumeCh (strong fairness).  The loops  *)
(* of raft's goroutines look at its shutdown channel, which stays ready,   *)
(* each time around, so that they take it in the end (strong fairness;     *)
(* that of all together is that of each, as each ends only once).  Nobody  *)
(* is made to send an RPC, to shut down or to die.                         *)
Fairness ==
    /\ SF_vars(\E l \in Links : SenderEnds(l))
    /\ \A l \in Links :
          /\ SF_vars(RpcStep(l)) /\ WF_vars(CallReturns(l)) /\ WF_vars(PipelineClosed(l))
          /\ WF_vars(raft[Client(l)] = "stopped" /\ ClosePipeline(l))
    /\ \A n \in Nodes :
          WF_vars(RaftConsumes(n)) /\ WF_vars(RaftLoopExits(n)) /\ WF_vars(CloseTransport(n))

FairSpec == Spec /\ Fairness

-----------------------------------------------------------------------------
(* Properties                                                              *)

\* Once Close has closed the cached connections of a node, none of its goroutines
\* opens a stream any more, and none is left that could: what is dialed then would
\* never be closed (getOrDial looks at no shutdown).  Shutdown waits for raft's
\* goroutines only; that no worker of a pipeline is left behind is due to the
\* pipeline's Close, although a worker may take further requests meanwhile.
NothingUsesClosedTransport ==
    \A l \in Links :
        transport[Client(l)] = "closed" => rpc[l] = "none" /\ reqCh[l] = 0

\* node.go:208: "Shutdown gracefully stops the node."
ShutdownCompletes ==
    \A n \in Stoppers : (raft[n] = "stopping") ~> (transport[n] = "closed")

\* n waits for an answer of m, and m for its own RPCs before it gives any.
WaitsFor(n, m) ==
    /\ raft[n] = "stopped" /\ raft[m] = "stopped"
    /\ transport[n] = "open" /\ transport[m] = "open"
    /\ \E l \in Links : l = <<n, m>> /\ rpc[l] \notin {"none", "opening"}

CircularWait ==
    \E S \in SUBSET Nodes \ {{}} : \A n \in S : \E m \in S : WaitsFor(n, m)

\* What the code does guarantee: a shutdown stays incomplete only if from some time
\* on there is a circle of nodes that shut down with RPCs out to one another.
ShutdownCompletesOrCircle == ShutdownCompletes \/ <>[]CircularWait

\* Every RPC is answered or fails, however full the consumeCh of its server is, and
\* if the server is killed, unless the server is told to shut down meanwhile.
RpcReturns ==
    \A l \in Links :
        (rpc[l] # "none") ~> (rpc[l] = "none" \/ raft[Server(l)] \in {"stopping", "stopped"})

=============================================================================
