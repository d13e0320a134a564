---------------------------- MODULE QuicPipeline ----------------------------
(***************************************************************************)
(* transport/pipeline.go: the AppendEntries pipeline to one follower.      *)
(*                                                                         *)
(* Goroutines that hold the pipeline call AppendEntries and Close; a fixed *)
(* pool of workers takes requests from the bounded channel reqCh, performs *)
(* one RPC each, completes the future and hands it to the bounded channel  *)
(* doneCh, which the consumer (raft's decoder goroutine) reads.            *)
(*                                                                         *)
(* A call of AppendEntries and the future it creates share a number: calls *)
(* are numbered in the order in which they start.  The constant MaxCalls   *)
(* bounds that number; nothing else in the model is bounded artificially.  *)
(***************************************************************************)
EXTENDS Integers, Sequences, FiniteSets

CONSTANTS
    Callers,    \* goroutines that call AppendEntries
    Closers,    \* goroutines that call Close
    Workers,    \* the worker goroutines (pipelineWorkers of them)
    QueueSize,  \* capacity of reqCh and of doneCh (pipelineQueueSize)
    MaxCalls    \* bound: number of AppendEntries calls in a behaviour

ASSUME QueueSizeAssumption == QueueSize \in Nat \ {0}
ASSUME MaxCallsAssumption == MaxCalls \in Nat
\* A process has finitely many goroutines.
ASSUME GoroutinesAssumption == IsFiniteSet(Callers) /\ IsFiniteSet(Workers)

VARIABLES
    reqCh,      \* futures accepted and not yet taken by a worker
    doneCh,     \* completed futures the consumer has not read
    shutdown,   \* shutdownCh is closed
    once,       \* state of shutdownOnce
    gpc,        \* what each goroutine holding the pipeline is doing
    cur,        \* the call each caller is in
    started,    \* number of AppendEntries calls started so far
    result,     \* what each call returned
    wpc,        \* what each worker is doing
    wfut,       \* the future each worker last took
    err,        \* the err field of each future
    closes,     \* how often each future's done channel was closed
    received,   \* the futures the consumer has read, in order
    consumer    \* whether the consumer still reads

vars == <<reqCh, doneCh, shutdown, once, gpc, cur, started, result,
          wpc, wfut, err, closes, received, consumer>>

Goroutines == Callers \union Closers
Futures == 1..MaxCalls
NoFuture == 0

callVars   == <<cur, started, result>>
workerVars == <<wpc, wfut>>
futureVars == <<err, closes>>
readVars   == <<received, consumer>>

TypeOK ==
    /\ reqCh \in Seq(Futures) /\ Len(reqCh) <= QueueSize
    /\ doneCh \in Seq(Futures) /\ Len(doneCh) <= QueueSize
    /\ shutdown \in BOOLEAN
    /\ once \in {"new", "running", "done"}
    /\ gpc \in [Goroutines -> {"idle", "append", "wait", "drain", "once"}]
    /\ cur \in [Goroutines -> Futures \union {NoFuture}]
    /\ started \in 0..MaxCalls
    /\ result \in [Futures -> {"none", "accepted", "rejected"}]
    /\ wpc \in [Workers -> {"select", "send", "close", "deliver", "exited"}]
    /\ wfut \in [Workers -> Futures \union {NoFuture}]
    /\ err \in [Futures -> {"unset", "nil", "failed", "closed"}]
    /\ closes \in [Futures -> Nat]
    /\ received \in Seq(Futures)
    /\ consumer \in {"reading", "stopped"}

\* newQuicPipeline: empty channels, every worker started.
Init ==
    /\ reqCh = <<>> /\ doneCh = <<>>
    /\ shutdown = FALSE /\ once = "new"
    /\ gpc = [g \in Goroutines |-> "idle"]
    /\ cur = [g \in Goroutines |-> NoFuture]
    /\ started = 0
    /\ result = [f \in Futures |-> "none"]
    /\ wpc = [w \in Workers |-> "select"]
    /\ wfut = [w \in Workers |-> NoFuture]
    /\ err = [f \in Futures |-> "unset"]
    /\ closes = [f \in Futures |-> 0]
    /\ received = <<>> /\ consumer = "reading"

-----------------------------------------------------------------------------
(* AppendEntries                                                           *)

\* The first select: a pipeline known to be closed refuses the call at once.
AppendRefused(g) ==
    /\ gpc[g] = "idle" /\ started < MaxCalls
    /\ shutdown
    /\ started' = started + 1
    /\ result' = [result EXCEPT ![started + 1] = "rejected"]
    /\ UNCHANGED <<reqCh, doneCh, shutdown, once, gpc, cur,
                   workerVars, futureVars, readVars>>

\* The first select falls through and the future is allocated.
AppendBegin(g) ==
    /\ gpc[g] = "idle" /\ started < MaxCalls
    /\ ~shutdown
    /\ started' = started + 1
    /\ cur' = [cur EXCEPT ![g] = started + 1]
    /\ gpc' = [gpc EXCEPT ![g] = "append"]
    /\ UNCHANGED <<reqCh, doneCh, shutdown, once, result,
                   workerVars, futureVars, readVars>>

\* Mutant: a send that ignores the channel's capacity.
AppendEnqueue_Unbounded(g) ==
    /\ gpc[g] = "append"
    /\ reqCh' = Append(reqCh, cur[g])
    /\ result' = [result EXCEPT ![cur[g]] = "accepted"]
    /\ gpc' = [gpc EXCEPT ![g] = "idle"]
    /\ cur' = [cur EXCEPT ![g] = NoFuture]
    /\ UNCHANGED <<doneCh, shutdown, once, started,
                   workerVars, futureVars, readVars>>

\* Mutant: shutdown is looked at again after the send, and the caller is told that
\* the call was refused although its request is in reqCh.
AppendEnqueue_LateRefusal(g) ==
    /\ gpc[g] = "append"
    /\ Len(reqCh) < QueueSize
    /\ reqCh' = Append(reqCh, cur[g])
    /\ result' = [result EXCEPT ![cur[g]] = IF shutdown THEN "rejected" ELSE "accepted"]
    /\ gpc' = [gpc EXCEPT ![g] = "idle"]
    /\ cur' = [cur EXCEPT ![g] = NoFuture]
    /\ UNCHANGED <<doneCh, shutdown, once, started,
                   workerVars, futureVars, readVars>>

\* The second select takes its send case; it stays possible after shutdown.
AppendEnqueue(g) ==
    /\ gpc[g] = "append"
    /\ Len(reqCh) < QueueSize
    /\ reqCh' = Append(reqCh, cur[g])
    /\ result' = [result EXCEPT ![cur[g]] = "accepted"]
    /\ gpc' = [gpc EXCEPT ![g] = "idle"]
    /\ cur' = [cur EXCEPT ![g] = NoFuture]
    /\ UNCHANGED <<doneCh, shutdown, once, started,
                   workerVars, futureVars, readVars>>

\* The second select takes its shutdown case.
AppendAbort(g) ==
    /\ gpc[g] = "append"
    /\ shutdown
    /\ result' = [result EXCEPT ![cur[g]] = "rejected"]
    /\ gpc' = [gpc EXCEPT ![g] = "idle"]
    /\ cur' = [cur EXCEPT ![g] = NoFuture]
    /\ UNCHANGED <<reqCh, doneCh, shutdown, once, started,
                   workerVars, futureVars, readVars>>

-----------------------------------------------------------------------------
(* worker                                                                  *)

WorkerTake(w) ==
    /\ wpc[w] = "select"
    /\ reqCh # <<>>
    /\ wfut' = [wfut EXCEPT ![w] = Head(reqCh)]
    /\ reqCh' = Tail(reqCh)
    /\ wpc' = [wpc EXCEPT ![w] = "send"]
    /\ UNCHANGED <<doneCh, shutdown, once, gpc, callVars, futureVars, readVars>>

\* Mutant: a worker that has taken a request looks at shutdownCh before it sends it.
WorkerExit_Drops(w) ==
    /\ wpc[w] = "select"
    /\ shutdown
    /\ wpc' = [wpc EXCEPT ![w] = "exited"]
    /\ reqCh' = IF reqCh = <<>> THEN reqCh ELSE Tail(reqCh)
    /\ UNCHANGED <<doneCh, shutdown, once, gpc, callVars, wfut, futureVars, readVars>>

WorkerExit(w) ==
    /\ wpc[w] = "select"
    /\ shutdown
    /\ wpc' = [wpc EXCEPT ![w] = "exited"]
    /\ UNCHANGED <<reqCh, doneCh, shutdown, once, gpc, callVars, wfut,
                   futureVars, readVars>>

\* Mutant: a request whose RPC failed goes back into reqCh to be sent again.
WorkerSent_Requeue(w) ==
    /\ wpc[w] = "send"
    /\ \/ /\ err' = [err EXCEPT ![wfut[w]] = "nil"]
          /\ wpc' = [wpc EXCEPT ![w] = "close"]
          /\ UNCHANGED reqCh
       \/ /\ Len(reqCh) < QueueSize
          /\ reqCh' = Append(reqCh, wfut[w])
          /\ wpc' = [wpc EXCEPT ![w] = "select"]
          /\ UNCHANGED err
    /\ UNCHANGED <<doneCh, shutdown, once, gpc, callVars, wfut, closes, readVars>>

\* sendOne returns, at any later time, and its error is stored.
WorkerSent(w) ==
    /\ wpc[w] = "send"
    /\ \E e \in {"nil", "failed"} : err' = [err EXCEPT ![wfut[w]] = e]
    /\ wpc' = [wpc EXCEPT ![w] = "close"]
    /\ UNCHANGED <<reqCh, doneCh, shutdown, once, gpc, callVars, wfut,
                   closes, readVars>>

\* Mutant: an RPC that failed never completes its future.
WorkerComplete_NotOnError(w) ==
    /\ wpc[w] = "close"
    /\ closes' = IF err[wfut[w]] = "nil"
                 THEN [closes EXCEPT ![wfut[w]] = @ + 1] ELSE closes
    /\ wpc' = [wpc EXCEPT ![w] = "deliver"]
    /\ UNCHANGED <<reqCh, doneCh, shutdown, once, gpc, callVars, wfut,
                   err, readVars>>

WorkerComplete(w) ==
    /\ wpc[w] = "close"
    /\ closes' = [closes EXCEPT ![wfut[w]] = @ + 1]
    /\ wpc' = [wpc EXCEPT ![w] = "deliver"]
    /\ UNCHANGED <<reqCh, doneCh, shutdown, once, gpc, callVars, wfut,
                   err, readVars>>

\* Mutant: a worker without its loop, which serves one request and returns.
WorkerDeliver_OneShot(w) ==
    /\ wpc[w] = "deliver"
    /\ Len(doneCh) < QueueSize
    /\ doneCh' = Append(doneCh, wfut[w])
    /\ wpc' = [wpc EXCEPT ![w] = "exited"]
    /\ UNCHANGED <<reqCh, shutdown, once, gpc, callVars, wfut,
                   futureVars, readVars>>

WorkerDeliver(w) ==
    /\ wpc[w] = "deliver"
    /\ Len(doneCh) < QueueSize
    /\ doneCh' = Append(doneCh, wfut[w])
    /\ wpc' = [wpc EXCEPT ![w] = "select"]
    /\ UNCHANGED <<reqCh, shutdown, once, gpc, callVars, wfut,
                   futureVars, readVars>>

\* Mutant: the delivery does not watch shutdownCh.
WorkerAbandon_Never(w) == wpc[w] = "deliver" /\ shutdown /\ FALSE /\ UNCHANGED vars

\* Mutant: the future that could not be delivered is marked as failed.
WorkerAbandon_Overwrite(w) ==
    /\ wpc[w] = "deliver"
    /\ shutdown
    /\ wpc' = [wpc EXCEPT ![w] = "exited"]
    /\ err' = [err EXCEPT ![wfut[w]] = "closed"]
    /\ UNCHANGED <<reqCh, doneCh, shutdown, once, gpc, callVars, wfut,
                   closes, readVars>>

\* Mutant: a worker that cannot deliver puts the future back for failPending.
WorkerAbandon_Requeue(w) ==
    /\ wpc[w] = "deliver"
    /\ shutdown
    /\ Len(reqCh) < QueueSize
    /\ reqCh' = Append(reqCh, wfut[w])
    /\ wpc' = [wpc EXCEPT ![w] = "exited"]
    /\ UNCHANGED <<doneCh, shutdown, once, gpc, callVars, wfut, futureVars, readVars>>

\* On shutdown a completed future may stay undelivered.
WorkerAbandon(w) ==
    /\ wpc[w] = "deliver"
    /\ shutdown
    /\ wpc' = [wpc EXCEPT ![w] = "exited"]
    /\ UNCHANGED <<reqCh, doneCh, shutdown, once, gpc, callVars, wfut,
                   futureVars, readVars>>

-----------------------------------------------------------------------------
(* Close                                                                   *)

\* The first Close enters shutdownOnce and closes shutdownCh.
CloseFirst(g) ==
    /\ gpc[g] = "idle" /\ once = "new"
    /\ once' = "running"
    /\ shutdown' = TRUE
    /\ gpc' = [gpc EXCEPT ![g] = "wait"]
    /\ UNCHANGED <<reqCh, doneCh, callVars, workerVars, futureVars, readVars>>

\* A Close during another one blocks in shutdownOnce until that one is done.
\* (A Close after it returns at once and changes nothing.)
CloseAgain(g) ==
    /\ gpc[g] = "idle" /\ once = "running"
    /\ gpc' = [gpc EXCEPT ![g] = "once"]
    /\ UNCHANGED <<reqCh, doneCh, shutdown, once, callVars, workerVars,
                   futureVars, readVars>>

CloseAgainReturns(g) ==
    /\ gpc[g] = "once" /\ once = "done"
    /\ gpc' = [gpc EXCEPT ![g] = "idle"]
    /\ UNCHANGED <<reqCh, doneCh, shutdown, once, callVars, workerVars,
                   futureVars, readVars>>

\* Mutant: pending requests are failed without waiting for the workers.
CloseWaited_NoWait(g) ==
    /\ gpc[g] = "wait"
    /\ gpc' = [gpc EXCEPT ![g] = "drain"]
    /\ UNCHANGED <<reqCh, doneCh, shutdown, once, callVars, workerVars,
                   futureVars, readVars>>

\* wg.Wait returns.
CloseWaited(g) ==
    /\ gpc[g] = "wait"
    /\ \A w \in Workers : wpc[w] = "exited"
    /\ gpc' = [gpc EXCEPT ![g] = "drain"]
    /\ UNCHANGED <<reqCh, doneCh, shutdown, once, callVars, workerVars,
                   futureVars, readVars>>

\* One round of failPending; a full doneCh loses the future.
FailPendingOne(g) ==
    /\ gpc[g] = "drain" /\ reqCh # <<>>
    /\ reqCh' = Tail(reqCh)
    /\ err' = [err EXCEPT ![Head(reqCh)] = "closed"]
    /\ closes' = [closes EXCEPT ![Head(reqCh)] = @ + 1]
    /\ \/ /\ Len(doneCh) < QueueSize
          /\ doneCh' = Append(doneCh, Head(reqCh))
       \/ /\ Len(doneCh) = QueueSize
          /\ UNCHANGED doneCh
    /\ UNCHANGED <<shutdown, once, gpc, callVars, workerVars, readVars>>

\* failPending finds the channel empty, and Close returns.
FailPendingEnd(g) ==
    /\ gpc[g] = "drain" /\ reqCh = <<>>
    /\ once' = "done"
    /\ gpc' = [gpc EXCEPT ![g] = "idle"]
    /\ UNCHANGED <<reqCh, doneCh, shutdown, callVars, workerVars,
                   futureVars, readVars>>

-----------------------------------------------------------------------------
(* Consumer: raft's decoder goroutine                                      *)

\* The decoder reads a future; an unsuccessful answer, which an error always
\* is, makes it return and never read again.
ConsumerReceive ==
    /\ consumer = "reading" /\ doneCh # <<>>
    /\ received' = Append(received, Head(doneCh))
    /\ doneCh' = Tail(doneCh)
    /\ \/ err[Head(doneCh)] = "nil" /\ UNCHANGED consumer
       \/ consumer' = "stopped"
    /\ UNCHANGED <<reqCh, shutdown, once, gpc, callVars, workerVars, futureVars>>

\* The decoder is told to stop.
ConsumerStop ==
    /\ consumer = "reading"
    /\ consumer' = "stopped"
    /\ UNCHANGED <<reqCh, doneCh, shutdown, once, gpc, callVars, workerVars,
                   futureVars, received>>

-----------------------------------------------------------------------------

CallerStep(g) == AppendEnqueue(g) \/ AppendAbort(g)

CloserStep(g) ==
    CloseAgainReturns(g) \/ CloseWaited(g) \/ FailPendingOne(g) \/ FailPendingEnd(g)

WorkerStep(w) ==
    \/ WorkerTake(w) \/ WorkerExit(w) \/ WorkerSent(w)
    \/ WorkerComplete(w) \/ WorkerDeliver(w) \/ WorkerAbandon(w)

Next ==
    \/ \E g \in Callers : AppendRefused(g) \/ AppendBegin(g) \/ CallerStep(g)
    \/ \E w \in Workers : WorkerStep(w)
    \/ \E g \in Closers : CloseFirst(g) \/ CloseAgain(g) \/ CloserStep(g)
    \/ ConsumerReceive
    \/ ConsumerStop

Spec == Init /\ [][Next]_vars

(* A goroutine that can run is run: every step of a call that has begun is *)
(* taken, a worker's RPC returns (the peer answers or the connection dies  *)
(* of its idle timeout), and the consumer reads while it lives.  Nothing   *)
(* makes anyone begin a call or a Close, nor the consumer stop.            *)
Fairness ==
    /\ \A g \in Callers : WF_vars(CallerStep(g))
    /\ \A g \in Closers : WF_vars(CloserStep(g))
    /\ \A w \in Workers : WF_vars(WorkerStep(w))
    /\ WF_vars(ConsumerReceive)

FairSpec == Spec /\ Fairness

-----------------------------------------------------------------------------
(* Properties                                                              *)

InChannel(f, ch) == \E i \in 1..Len(ch) : ch[i] = f

\* No future is completed twice: closing a done channel a second time would
\* panic and take the whole node down.  Workers and failPending both close it.
CompletedOnce == \A f \in Futures : closes[f] <= 1

\* Whoever reads a future from Consumer() can call Response() without
\* blocking: a future in doneCh has its done channel closed and its error set.
DeliveredIsComplete ==
    \A i \in 1..Len(doneCh) : closes[doneCh[i]] = 1 /\ err[doneCh[i]] # "unset"

\* The consumer is handed no future twice and none whose call was refused.
DeliveredOnce ==
    LET all == received \o doneCh
    IN  /\ \A i, j \in 1..Len(all) : all[i] = all[j] => i = j
        /\ \A i \in 1..Len(all) : result[all[i]] = "accepted"

\* The goroutine that appends is the goroutine that closes: the way raft's
\* replication loop uses a pipeline (it defers Close).
OneOwner == \A g, h \in Goroutines : g = h

\* With one owner, once Close has returned no accepted future is pending:
\* whoever waits in Error() or Response() gets an answer.
ClosedLeavesNonePending ==
    OneOwner /\ once = "done" =>
        \A f \in Futures : result[f] = "accepted" => closes[f] = 1

\* A completed future's outcome never changes under a reader of Error().
OutcomeIsFinal ==
    [][\A f \in Futures : closes[f] >= 1 => err'[f] = err[f]]_vars

\* The workers answer out of order, but boundedly so: with one caller, when an
\* answer is read from an open pipeline fewer earlier calls than there are
\* workers are still unanswered.  (One worker would keep the order.)
OvertakingBounded ==
    Cardinality(Callers) = 1 /\ ~shutdown =>
        \A i \in 1..Len(received) :
            Cardinality({f \in 1..received[i] - 1 : ~InChannel(f, SubSeq(received, 1, i))})
                < Cardinality(Workers)

\* While the consumer lives, every call of AppendEntries returns.
AppendReturns ==
    [](consumer = "reading") =>
        \A g \in Callers : (gpc[g] = "append") ~> (gpc[g] # "append")

\* Close returns, whatever the consumer does: no worker stays blocked on doneCh.
CloseReturns == \A g \in Closers : (gpc[g] # "idle" /\ shutdown) ~> (gpc[g] = "idle")

-----------------------------------------------------------------------------
(* The promise of raft.AppendPipeline, kept for a pipeline with one owner. *)

RequestState(f) ==
    CASE result[f] = "none"     -> "new"
      [] result[f] = "rejected" -> "refused"
      [] OTHER -> IF closes[f] = 0 THEN "pending" ELSE "complete"

Promise == INSTANCE AppendPipeline WITH
    Requests <- Futures,
    state    <- [f \in Futures |-> RequestState(f)],
    handed   <- received,
    closed   <- once = "done"

\* raft's replication loop sees an AppendPipeline: nothing refused is
\* answered, nothing is handed over before it is complete or twice, and Close
\* leaves no future on which somebody could block for ever.
KeepsPromise == Promise!AbsSpec

=============================================================================
