-------------------------- MODULE NodeShutdownProofs --------------------------
(***************************************************************************)
(* For all sets of nodes, links and pipelines and all capacities: the      *)
(* variables keep their types, and once a node's transport is closed no    *)
(* RPC of it is out and none waits in a pipeline for a worker.             *)
(***************************************************************************)
EXTENDS NodeShutdown, TLAPS

\* A transport closes after every goroutine of raft that uses it has ended.
ClosedIsOver ==
    \A l \in Links : transport[Client(l)] = "closed" => sender[l] = "ended"

\* A goroutine that is outside calls and pipelines has left nothing behind: when a
\* pipeline's Close returns no worker has an RPC out, and failPending empties reqCh.
NothingLeftBehind ==
    \A l \in Links :
        /\ sender[l] \in {"idle", "ended"} => rpc[l] = "none"
        /\ sender[l] \notin {"pipeline", "closing"} => reqCh[l] = 0

IInv ==
    /\ TypeOK
    /\ ClosedIsOver
    /\ NothingLeftBehind

-----------------------------------------------------------------------------

\* The ends of a link are nodes.
LEMMA EndsOfLinks == \A l \in Links : Client(l) \in Nodes /\ Server(l) \in Nodes
  BY LinksAssumption DEF Client, Server

\* Initially nothing is out and every transport is open.
LEMMA InitIInv == Init => IInv
<1> SUFFICES ASSUME Init PROVE IInv
    OBVIOUS
<1> USE EndsOfLinks DEF Init
<1>1. TypeOK
  BY ConsumeCapAssumption, PipelinesAssumption DEF TypeOK, Places, Senders
<1>2. ClosedIsOver /\ NothingLeftBehind
  BY DEF ClosedIsOver, NothingLeftBehind
<1> QED
  BY <1>1, <1>2 DEF IInv

\* Every step keeps the types; only a handler that enqueues, raft's main loop
\* and a kill change a consumeCh.
LEMMA NextTypeOK == TypeOK /\ [Next]_vars => TypeOK'
<1> SUFFICES ASSUME TypeOK, [Next]_vars
             PROVE  TypeOK'
    OBVIOUS
<1> USE EndsOfLinks DEF TypeOK, Places, Senders, client
<1>1. ASSUME NEW l \in Links, SenderStep(l)
      PROVE  TypeOK'
  <2> USE DEF SenderStep, SendRPC, CallReturns, OpenPipeline, AppendEntries, WorkerSends,
              ClosePipeline, PipelineClosed, SenderEnds, Put
  <2>1. UNCHANGED <<raft, transport, consumeCh>>
    BY <1>1
  <2>2. rpc' \in [Links -> Places]
    BY <1>1
  <2>3. sender' \in [Links -> Senders]
    BY <1>1
  <2>4. reqCh' \in [Links -> 0..QueueSize]
    <3>1. reqCh[l] \in 0..QueueSize /\ QueueSize \in Nat
      BY PipelinesAssumption
    <3>2. CASE AppendEntries(l)
      <4>1. reqCh[l] + 1 \in 0..QueueSize /\ reqCh' = [reqCh EXCEPT ![l] = reqCh[l] + 1]
        BY <3>1, <3>2
      <4> QED
        BY <4>1
    <3>3. CASE WorkerSends(l)
      <4>1. reqCh[l] - 1 \in 0..QueueSize /\ reqCh' = [reqCh EXCEPT ![l] = reqCh[l] - 1]
        BY <3>1, <3>3
      <4> QED
        BY <4>1
    <3>4. CASE PipelineClosed(l)
      <4>1. 0 \in 0..QueueSize /\ reqCh' = [reqCh EXCEPT ![l] = 0]
        BY <3>1, <3>4
      <4> QED
        BY <4>1
    <3>5. CASE UNCHANGED reqCh
      BY <3>5
    <3> QED
      BY <1>1, <3>2, <3>3, <3>4, <3>5
  <2> QED
    BY <2>1, <2>2, <2>3, <2>4
<1>2. ASSUME NEW l \in Links, OpenFails(l) \/ HandleHeartbeat(l) \/ HandleRequest(l)
                              \/ SendResponse(l) \/ HandlerGivesUp(l) \/ ConnectionDies(l)
      PROVE  TypeOK'
  BY <1>2 DEF OpenFails, HandleHeartbeat, HandleRequest, SendResponse, HandlerGivesUp,
              ConnectionDies, Put
<1>3. ASSUME NEW l \in Links, Enqueue(l)
      PROVE  TypeOK'
  <2> DEFINE n == Server(l)
  <2>1. /\ consumeCh[n] \in Seq(Links) /\ n \in Nodes
        /\ Len(consumeCh[n]) \in Nat /\ Len(consumeCh[n]) < ConsumeCap
    BY <1>3 DEF Enqueue
  <2>2. /\ Append(consumeCh[n], l) \in Seq(Links)
        /\ Len(Append(consumeCh[n], l)) <= ConsumeCap
    BY <2>1, ConsumeCapAssumption
  <2>3. consumeCh' = [consumeCh EXCEPT ![n] = Append(consumeCh[n], l)]
    BY <1>3 DEF Enqueue
  <2> QED
    BY <1>3, <2>1, <2>2, <2>3 DEF Enqueue, Put
<1>4. ASSUME NEW n \in Nodes, RaftConsumes(n)
      PROVE  TypeOK'
  <2>1. /\ consumeCh[n] \in Seq(Links) /\ consumeCh[n] # <<>>
        /\ Len(consumeCh[n]) \in Nat /\ Len(consumeCh[n]) <= ConsumeCap
    BY <1>4 DEF RaftConsumes
  <2>2. /\ Tail(consumeCh[n]) \in Seq(Links) /\ Head(consumeCh[n]) \in Links
        /\ Len(Tail(consumeCh[n])) <= ConsumeCap
    BY <2>1, ConsumeCapAssumption
  <2>3. consumeCh' = [consumeCh EXCEPT ![n] = Tail(consumeCh[n])]
    BY <1>4 DEF RaftConsumes
  <2>4. rpc' \in [Links -> Places]
    BY <1>4, <2>2 DEF RaftConsumes
  <2> QED
    BY <1>4, <2>2, <2>3, <2>4 DEF RaftConsumes
<1>5. ASSUME NEW n \in Nodes, Shutdown(n) \/ RaftLoopExits(n) \/ CloseTransport(n)
      PROVE  TypeOK'
  BY <1>5 DEF Shutdown, RaftLoopExits, CloseTransport
<1>6. ASSUME NEW n \in Nodes, Kill(n)
      PROVE  TypeOK'
  BY <1>6, ConsumeCapAssumption, PipelinesAssumption DEF Kill
<1>7. CASE UNCHANGED vars
  BY <1>7 DEF vars
<1> QED
  BY <1>1, <1>2, <1>3, <1>4, <1>5, <1>6, <1>7 DEF Next, RpcStep

\* Every step keeps the invariant.  A goroutine is in its loop again only when its
\* call, or the Close of its pipeline, has returned; and it ends only from there.
LEMMA NextIInv == IInv /\ [Next]_vars => IInv'
<1> SUFFICES ASSUME IInv, [Next]_vars
             PROVE  IInv'
    OBVIOUS
<1> USE EndsOfLinks DEF IInv, ClosedIsOver, NothingLeftBehind, client
<1>0. TypeOK /\ TypeOK'
  BY NextTypeOK
<1>1. ASSUME NEW l \in Links, SenderStep(l)
      PROVE  IInv'
  <2>1. sender[l] # "ended"
    BY <1>1 DEF SenderStep, SendRPC, CallReturns, OpenPipeline, AppendEntries, WorkerSends,
                ClosePipeline, PipelineClosed, SenderEnds
  <2>2. transport[Client(l)] # "closed" /\ transport' = transport
    BY <1>1, <2>1 DEF SenderStep, SendRPC, CallReturns, OpenPipeline, AppendEntries,
                      WorkerSends, ClosePipeline, PipelineClosed, SenderEnds
  <2>3. /\ sender \in [Links -> Senders] /\ reqCh \in [Links -> 0..QueueSize]
        /\ rpc \in [Links -> Places]
    BY <1>0 DEF TypeOK
  <2>4. CASE SendRPC(l) \/ CallReturns(l)
    BY <1>0, <2>2, <2>3, <2>4 DEF SendRPC, CallReturns, Put
  <2>5. CASE OpenPipeline(l) \/ ClosePipeline(l)
    BY <1>0, <2>2, <2>3, <2>5 DEF OpenPipeline, ClosePipeline
  <2>6. CASE AppendEntries(l) \/ WorkerSends(l)
    BY <1>0, <2>2, <2>3, <2>6 DEF AppendEntries, WorkerSends, Put
  <2>7. CASE PipelineClosed(l)
    BY <1>0, <2>2, <2>3, <2>7 DEF PipelineClosed
  <2>8. CASE SenderEnds(l)
    BY <1>0, <2>2, <2>3, <2>8 DEF SenderEnds
  <2> QED
    BY <1>1, <2>4, <2>5, <2>6, <2>7, <2>8 DEF SenderStep
<1>2. ASSUME NEW l \in Links, RpcStep(l)
      PROVE  IInv'
  <2>1. rpc[l] # "none" /\ UNCHANGED <<transport, sender, reqCh>>
    BY <1>2 DEF RpcStep, OpenFails, HandleHeartbeat, HandleRequest, Enqueue, SendResponse,
                HandlerGivesUp, ConnectionDies
  <2>2. \A k \in Links \ {l} : rpc'[k] = rpc[k]
    BY <1>0, <1>2 DEF RpcStep, OpenFails, HandleHeartbeat, HandleRequest, Enqueue,
                      SendResponse, HandlerGivesUp, ConnectionDies, Put, TypeOK
  <2> QED
    BY <1>0, <2>1, <2>2
<1>3. ASSUME NEW n \in Nodes, RaftConsumes(n)
      PROVE  IInv'
  <2>1. \A k \in Links : rpc[k] = "none" => rpc'[k] = "none"
    BY <1>0, <1>3 DEF RaftConsumes, TypeOK
  <2> QED
    BY <1>0, <1>3, <2>1 DEF RaftConsumes
<1>4. ASSUME NEW n \in Nodes, Shutdown(n) \/ RaftLoopExits(n)
      PROVE  IInv'
  BY <1>0, <1>4 DEF Shutdown, RaftLoopExits
<1>5. ASSUME NEW n \in Nodes, CloseTransport(n)
      PROVE  IInv'
  BY <1>0, <1>5 DEF CloseTransport, TypeOK
<1>6. ASSUME NEW n \in Nodes, Kill(n)
      PROVE  IInv'
  BY <1>0, <1>6 DEF Kill, TypeOK
<1>7. CASE UNCHANGED vars
  BY <1>0, <1>7 DEF vars
<1> QED
  BY <1>1, <1>2, <1>3, <1>4, <1>5, <1>6, <1>7 DEF Next

-----------------------------------------------------------------------------

\* consumeCh and reqCh never hold more than their capacity, and the other
\* variables keep their types.
THEOREM TypeCorrect == Spec => []TypeOK
<1>1. IInv => TypeOK
  BY DEF IInv
<1> QED
  BY InitIInv, NextIInv, <1>1, PTL DEF Spec

\* However many nodes stop and die together, and whatever their pipelines hold when
\* they do: the workers, which are none of the goroutines that Shutdown waits for,
\* have finished with a transport when it closes.
THEOREM NothingIsOut == Spec => []NothingUsesClosedTransport
<1>1. IInv => NothingUsesClosedTransport
  BY DEF IInv, ClosedIsOver, NothingLeftBehind, NothingUsesClosedTransport
<1> QED
  BY InitIInv, NextIInv, <1>1, PTL DEF Spec

=============================================================================
