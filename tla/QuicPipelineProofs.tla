------------------------- MODULE QuicPipelineProofs -------------------------
(***************************************************************************)
(* For every number of goroutines, workers and calls and every capacity:   *)
(* the variables keep their types; no future is completed twice; a reader  *)
(* of Consumer() gets no future that would block it and none twice; Close  *)
(* leaves its owner nothing pending; the workers of a pipeline with one    *)
(* caller overtake each other by less than their number; and a pipeline    *)
(* with one owner implements AppendPipeline.                               *)
(***************************************************************************)
EXTENDS QuicPipeline, TLAPS, FiniteSetTheorems

Served(w) == wpc[w] \in {"send", "close"}

Holding(w) == wpc[w] \in {"send", "close", "deliver"}

\* A call under way owns its number, which no other call has.
CallsInv ==
    /\ \A g \in Goroutines : gpc[g] = "append" =>
          /\ cur[g] \in 1..started
          /\ result[cur[g]] = "none"
    /\ \A g, h \in Goroutines :
          gpc[g] = "append" /\ gpc[h] = "append" /\ cur[g] = cur[h] => g = h
    /\ \A f \in Futures : f > started => result[f] = "none"
    /\ \A f \in Futures : result[f] # "accepted" => closes[f] = 0

\* The queue holds accepted, incomplete futures, each once.
QueueInv ==
    /\ \A i \in 1..Len(reqCh) :
          result[reqCh[i]] = "accepted" /\ closes[reqCh[i]] = 0
    /\ \A i, j \in 1..Len(reqCh) : reqCh[i] = reqCh[j] => i = j

\* A worker owns the future it holds: it is in no queue and no other hand.
HeldInv ==
    /\ \A w \in Workers : Holding(w) =>
          /\ wfut[w] \in Futures
          /\ result[wfut[w]] = "accepted"
          /\ \A i \in 1..Len(reqCh) : reqCh[i] # wfut[w]
    /\ \A v, w \in Workers : Holding(v) /\ Holding(w) /\ wfut[v] = wfut[w] => v = w
    /\ \A w \in Workers : Served(w) => closes[wfut[w]] = 0
    /\ \A w \in Workers : wpc[w] = "deliver" => closes[wfut[w]] = 1
    /\ \A w \in Workers : wpc[w] \in {"close", "deliver"} => err[wfut[w]] # "unset"

IInv ==
    /\ TypeOK
    /\ CallsInv
    /\ QueueInv
    /\ HeldInv
    /\ CompletedOnce
    /\ DeliveredIsComplete

-----------------------------------------------------------------------------
(* What the channel operations do to a sequence.                           *)

\* Sending to a channel keeps what is in it and adds one value at the end.
LEMMA SendToChannel ==
    ASSUME NEW S, NEW ch \in Seq(S), NEW v \in S
    PROVE  /\ Append(ch, v) \in Seq(S)
           /\ Len(Append(ch, v)) = Len(ch) + 1
           /\ Append(ch, v)[Len(ch) + 1] = v
           /\ \A i \in 1..Len(ch) : Append(ch, v)[i] = ch[i]
  OBVIOUS

\* Receiving from a channel takes its first value and shifts the others.
LEMMA ReceiveFromChannel ==
    ASSUME NEW S, NEW ch \in Seq(S), ch # <<>>
    PROVE  /\ Len(ch) >= 1 /\ Head(ch) = ch[1] /\ Head(ch) \in S
           /\ Tail(ch) \in Seq(S)
           /\ Len(Tail(ch)) = Len(ch) - 1
           /\ \A i \in 1..Len(Tail(ch)) : Tail(ch)[i] = ch[i + 1]
  OBVIOUS

-----------------------------------------------------------------------------

\* Initially every channel is empty and no call has begun.
LEMMA InitIInv == Init => IInv
<1> SUFFICES ASSUME Init PROVE IInv
    OBVIOUS
<1> USE DEF Init
<1>1. TypeOK
  <2>1. <<>> \in Seq(Futures) /\ Len(<<>>) <= QueueSize
    BY QueueSizeAssumption
  <2>2. 0 \in 0..MaxCalls
    BY MaxCallsAssumption
  <2> QED
    BY <2>1, <2>2 DEF TypeOK, NoFuture
<1>2. CallsInv
  BY DEF CallsInv
<1>3. QueueInv
  BY DEF QueueInv
<1>4. HeldInv
  BY DEF HeldInv, Holding, Served
<1>5. CompletedOnce /\ DeliveredIsComplete
  BY DEF CompletedOnce, DeliveredIsComplete
<1> QED
  BY <1>1, <1>2, <1>3, <1>4, <1>5 DEF IInv

\* Every step keeps the invariant: one case per action, and in it one step per
\* part of the invariant.
LEMMA NextIInv == IInv /\ [Next]_vars => IInv'
<1> SUFFICES ASSUME IInv, [Next]_vars
             PROVE  IInv'
    OBVIOUS
<1> USE DEF Goroutines, callVars, workerVars, futureVars, readVars
<1>1. ASSUME NEW g \in Callers, AppendRefused(g)
     PROVE  IInv'
  <2>a. started + 1 \in Futures /\ started + 1 \in 0..MaxCalls
        /\ result[started + 1] = "none"
    BY <1>1, MaxCallsAssumption DEF AppendRefused, IInv, TypeOK, CallsInv, Futures
  <2>1. TypeOK'
    BY <1>1, <2>a, MaxCallsAssumption
       DEF AppendRefused, IInv, TypeOK, Futures
  <2>2. CallsInv'
    BY <1>1, <2>a, MaxCallsAssumption
       DEF AppendRefused, IInv, TypeOK, CallsInv, QueueInv, HeldInv, Holding, Served, Futures
  <2>3. QueueInv'
    BY <1>1, <2>a
       DEF AppendRefused, IInv, TypeOK, CallsInv, QueueInv, HeldInv, Holding, Served
  <2>4. HeldInv'
    BY <1>1, <2>a
       DEF AppendRefused, IInv, TypeOK, CallsInv, QueueInv, HeldInv, Holding, Served
  <2>5. CompletedOnce'
    BY <1>1, <2>a
       DEF AppendRefused, IInv, TypeOK, CompletedOnce, QueueInv, HeldInv, Holding, Served
  <2>6. DeliveredIsComplete'
    BY <1>1, <2>a
       DEF AppendRefused, IInv, TypeOK, DeliveredIsComplete, QueueInv, HeldInv, Holding, Served, CallsInv
  <2> QED
    BY <2>1, <2>2, <2>3, <2>4, <2>5, <2>6 DEF IInv
<1>2. ASSUME NEW g \in Callers, AppendBegin(g)
     PROVE  IInv'
  <2>a. started + 1 \in Futures /\ started + 1 \in 0..MaxCalls
    BY <1>2, MaxCallsAssumption DEF AppendBegin, IInv, TypeOK, Futures
  <2>1. TypeOK'
    BY <1>2, <2>a, MaxCallsAssumption
       DEF AppendBegin, IInv, TypeOK, Futures
  <2>2. CallsInv'
    BY <1>2, <2>a, MaxCallsAssumption
       DEF AppendBegin, IInv, TypeOK, CallsInv, QueueInv, HeldInv, Holding, Served, Futures
  <2>3. QueueInv'
    BY <1>2, <2>a
       DEF AppendBegin, IInv, TypeOK, CallsInv, QueueInv, HeldInv, Holding, Served
  <2>4. HeldInv'
    BY <1>2, <2>a
       DEF AppendBegin, IInv, TypeOK, CallsInv, QueueInv, HeldInv, Holding, Served
  <2>5. CompletedOnce'
    BY <1>2, <2>a
       DEF AppendBegin, IInv, TypeOK, CompletedOnce, QueueInv, HeldInv, Holding, Served
  <2>6. DeliveredIsComplete'
    BY <1>2, <2>a
       DEF AppendBegin, IInv, TypeOK, DeliveredIsComplete, QueueInv, HeldInv, Holding, Served, CallsInv
  <2> QED
    BY <2>1, <2>2, <2>3, <2>4, <2>5, <2>6 DEF IInv
<1>3. ASSUME NEW g \in Callers, AppendEnqueue(g)
     PROVE  IInv'
  <2>a. /\ reqCh \in Seq(Futures) /\ Len(reqCh) \in Nat /\ Len(reqCh) < QueueSize
        /\ reqCh' = Append(reqCh, cur[g])
        /\ cur[g] \in Futures /\ result[cur[g]] = "none" /\ closes[cur[g]] = 0
    <3>1. cur[g] \in Futures
      BY <1>3, MaxCallsAssumption DEF AppendEnqueue, IInv, TypeOK, CallsInv, Futures
    <3> QED
      BY <1>3, <3>1 DEF AppendEnqueue, IInv, TypeOK, CallsInv
  <2>b. /\ reqCh' \in Seq(Futures) /\ Len(reqCh') <= QueueSize
        /\ Len(reqCh') = Len(reqCh) + 1 /\ Len(reqCh) \in Nat
        /\ \A i \in 1..Len(reqCh') :
              \/ i = Len(reqCh') /\ reqCh'[i] = cur[g]
              \/ i \in 1..Len(reqCh) /\ reqCh'[i] = reqCh[i]
    BY <2>a, SendToChannel, QueueSizeAssumption
  <2>c. \A i \in 1..Len(reqCh) : reqCh[i] # cur[g]
    BY <2>a DEF IInv, QueueInv
  <2>1. TypeOK'
    BY <1>3, <2>a, <2>b, <2>c
       DEF AppendEnqueue, IInv, TypeOK, Futures
  <2>2. CallsInv'
    BY <1>3, <2>a, <2>b, <2>c
       DEF AppendEnqueue, IInv, TypeOK, CallsInv, QueueInv, HeldInv, Holding, Served, Futures
  <2>3. QueueInv'
    BY <1>3, <2>a, <2>b, <2>c
       DEF AppendEnqueue, IInv, TypeOK, CallsInv, QueueInv, HeldInv, Holding, Served
  <2>4. HeldInv'
    BY <1>3, <2>a, <2>b, <2>c
       DEF AppendEnqueue, IInv, TypeOK, CallsInv, QueueInv, HeldInv, Holding, Served
  <2>5. CompletedOnce'
    BY <1>3, <2>a, <2>b, <2>c
       DEF AppendEnqueue, IInv, TypeOK, CompletedOnce, QueueInv, HeldInv, Holding, Served
  <2>6. DeliveredIsComplete'
    BY <1>3, <2>a, <2>b, <2>c
       DEF AppendEnqueue, IInv, TypeOK, DeliveredIsComplete, QueueInv, HeldInv, Holding, Served, CallsInv
  <2> QED
    BY <2>1, <2>2, <2>3, <2>4, <2>5, <2>6 DEF IInv
<1>4. ASSUME NEW g \in Callers, AppendAbort(g)
     PROVE  IInv'
  <2>1. TypeOK'
    BY <1>4
       DEF AppendAbort, IInv, TypeOK, Futures
  <2>2. CallsInv'
    BY <1>4
       DEF AppendAbort, IInv, TypeOK, CallsInv, QueueInv, HeldInv, Holding, Served, Futures
  <2>3. QueueInv'
    BY <1>4
       DEF AppendAbort, IInv, TypeOK, CallsInv, QueueInv, HeldInv, Holding, Served
  <2>4. HeldInv'
    BY <1>4
       DEF AppendAbort, IInv, TypeOK, CallsInv, QueueInv, HeldInv, Holding, Served
  <2>5. CompletedOnce'
    BY <1>4
       DEF AppendAbort, IInv, TypeOK, CompletedOnce, QueueInv, HeldInv, Holding, Served
  <2>6. DeliveredIsComplete'
    BY <1>4
       DEF AppendAbort, IInv, TypeOK, DeliveredIsComplete, QueueInv, HeldInv, Holding, Served, CallsInv
  <2> QED
    BY <2>1, <2>2, <2>3, <2>4, <2>5, <2>6 DEF IInv
<1>5. ASSUME NEW w \in Workers, WorkerTake(w)
     PROVE  IInv'
  <2>a. /\ reqCh \in Seq(Futures) /\ Len(reqCh) \in Nat /\ Len(reqCh) <= QueueSize
        /\ reqCh # <<>> /\ reqCh' = Tail(reqCh)
    BY <1>5 DEF WorkerTake, IInv, TypeOK
  <2>b. /\ Head(reqCh) = reqCh[1] /\ Head(reqCh) \in Futures
        /\ \A i \in 1..Len(reqCh') : reqCh'[i] = reqCh[i + 1] /\ i + 1 \in 1..Len(reqCh)
        /\ 1 \in 1..Len(reqCh)
        /\ reqCh' \in Seq(Futures) /\ Len(reqCh') <= QueueSize
    BY <2>a, ReceiveFromChannel, QueueSizeAssumption
  <2>c. /\ result[Head(reqCh)] = "accepted" /\ closes[Head(reqCh)] = 0
        /\ \A i \in 1..Len(reqCh') : reqCh'[i] # Head(reqCh)
    BY <2>b DEF IInv, QueueInv
  <2>d. \A v \in Workers : Holding(v) => wfut[v] # Head(reqCh)
    BY <2>b DEF IInv, HeldInv
  <2>e. /\ wfut' \in [Workers -> Futures \union {NoFuture}]
        /\ wpc' \in [Workers -> {"select", "send", "close", "deliver", "exited"}]
    BY <1>5, <2>b DEF WorkerTake, IInv, TypeOK
  <2>1. TypeOK'
    BY <1>5, <2>b, <2>c, <2>d, <2>e
       DEF WorkerTake, IInv, TypeOK
  <2>2. CallsInv'
    BY <1>5, <2>b, <2>c, <2>d, <2>e
       DEF WorkerTake, IInv, TypeOK, CallsInv, QueueInv, HeldInv, Holding, Served
  <2>3. QueueInv'
    BY <1>5, <2>b, <2>c, <2>d, <2>e
       DEF WorkerTake, IInv, TypeOK, CallsInv, QueueInv, HeldInv, Holding, Served
  <2>4. HeldInv'
    BY <1>5, <2>b, <2>c, <2>d, <2>e
       DEF WorkerTake, IInv, TypeOK, CallsInv, QueueInv, HeldInv, Holding, Served
  <2>5. CompletedOnce'
    BY <1>5, <2>b, <2>c, <2>d, <2>e
       DEF WorkerTake, IInv, TypeOK, CompletedOnce, QueueInv, HeldInv, Holding, Served
  <2>6. DeliveredIsComplete'
    BY <1>5, <2>b, <2>c, <2>d, <2>e
       DEF WorkerTake, IInv, TypeOK, DeliveredIsComplete, QueueInv, HeldInv, Holding, Served, CallsInv
  <2> QED
    BY <2>1, <2>2, <2>3, <2>4, <2>5, <2>6 DEF IInv
<1>6. ASSUME NEW w \in Workers, WorkerExit(w)
     PROVE  IInv'
  BY <1>6 DEF WorkerExit, IInv, TypeOK, CallsInv, QueueInv, HeldInv, Holding, Served,
     CompletedOnce, DeliveredIsComplete
<1>7. ASSUME NEW w \in Workers, WorkerSent(w)
     PROVE  IInv'
  <2>1. TypeOK'
    BY <1>7
       DEF WorkerSent, IInv, TypeOK
  <2>2. CallsInv'
    BY <1>7
       DEF WorkerSent, IInv, TypeOK, CallsInv, QueueInv, HeldInv, Holding, Served
  <2>3. QueueInv'
    BY <1>7
       DEF WorkerSent, IInv, TypeOK, CallsInv, QueueInv, HeldInv, Holding, Served
  <2>4. HeldInv'
    BY <1>7
       DEF WorkerSent, IInv, TypeOK, CallsInv, QueueInv, HeldInv, Holding, Served
  <2>5. CompletedOnce'
    BY <1>7
       DEF WorkerSent, IInv, TypeOK, CompletedOnce, QueueInv, HeldInv, Holding, Served
  <2>6. DeliveredIsComplete'
    BY <1>7
       DEF WorkerSent, IInv, TypeOK, DeliveredIsComplete, QueueInv, HeldInv, Holding, Served, CallsInv
  <2> QED
    BY <2>1, <2>2, <2>3, <2>4, <2>5, <2>6 DEF IInv
<1>8. ASSUME NEW w \in Workers, WorkerComplete(w)
     PROVE  IInv'
  <2>a. wfut[w] \in Futures /\ closes[wfut[w]] = 0
    BY <1>8 DEF WorkerComplete, IInv, HeldInv, Holding, Served
  <2>b. closes' = [closes EXCEPT ![wfut[w]] = 1] /\ closes' \in [Futures -> Nat]
    BY <1>8, <2>a DEF WorkerComplete, IInv, TypeOK
  <2>1. TypeOK'
    BY <1>8, <2>a, <2>b
       DEF WorkerComplete, IInv, TypeOK
  <2>2. CallsInv'
    BY <1>8, <2>a, <2>b
       DEF WorkerComplete, IInv, TypeOK, CallsInv, QueueInv, HeldInv, Holding, Served
  <2>3. QueueInv'
    BY <1>8, <2>a, <2>b
       DEF WorkerComplete, IInv, TypeOK, CallsInv, QueueInv, HeldInv, Holding, Served
  <2>4. HeldInv'
    BY <1>8, <2>a, <2>b
       DEF WorkerComplete, IInv, TypeOK, CallsInv, QueueInv, HeldInv, Holding, Served
  <2>5. CompletedOnce'
    BY <1>8, <2>a, <2>b
       DEF WorkerComplete, IInv, TypeOK, CompletedOnce, QueueInv, HeldInv, Holding, Served
  <2>6. DeliveredIsComplete'
    BY <1>8, <2>a, <2>b
       DEF WorkerComplete, IInv, TypeOK, DeliveredIsComplete, QueueInv, HeldInv, Holding, Served, CallsInv
  <2> QED
    BY <2>1, <2>2, <2>3, <2>4, <2>5, <2>6 DEF IInv
<1>9. ASSUME NEW w \in Workers, WorkerDeliver(w)
     PROVE  IInv'
  <2>a. /\ doneCh \in Seq(Futures) /\ Len(doneCh) \in Nat /\ Len(doneCh) < QueueSize
        /\ doneCh' = Append(doneCh, wfut[w]) /\ wfut[w] \in Futures
    BY <1>9 DEF WorkerDeliver, IInv, TypeOK, HeldInv, Holding
  <2>b. /\ doneCh' \in Seq(Futures) /\ Len(doneCh') <= QueueSize
        /\ \A i \in 1..Len(doneCh') :
              doneCh'[i] = wfut[w] \/ (i \in 1..Len(doneCh) /\ doneCh'[i] = doneCh[i])
    BY <2>a, SendToChannel, QueueSizeAssumption
  <2>c. closes[wfut[w]] = 1 /\ err[wfut[w]] # "unset"
    BY <1>9 DEF WorkerDeliver, IInv, HeldInv
  <2>1. TypeOK'
    BY <1>9, <2>a, <2>b, <2>c
       DEF WorkerDeliver, IInv, TypeOK
  <2>2. CallsInv'
    BY <1>9, <2>a, <2>b, <2>c
       DEF WorkerDeliver, IInv, TypeOK, CallsInv, QueueInv, HeldInv, Holding, Served
  <2>3. QueueInv'
    BY <1>9, <2>a, <2>b, <2>c
       DEF WorkerDeliver, IInv, TypeOK, CallsInv, QueueInv, HeldInv, Holding, Served
  <2>4. HeldInv'
    BY <1>9, <2>a, <2>b, <2>c
       DEF WorkerDeliver, IInv, TypeOK, CallsInv, QueueInv, HeldInv, Holding, Served
  <2>5. CompletedOnce'
    BY <1>9, <2>a, <2>b, <2>c
       DEF WorkerDeliver, IInv, TypeOK, CompletedOnce, QueueInv, HeldInv, Holding, Served
  <2>6. DeliveredIsComplete'
    BY <1>9, <2>a, <2>b, <2>c
       DEF WorkerDeliver, IInv, TypeOK, DeliveredIsComplete, QueueInv, HeldInv, Holding, Served, CallsInv
  <2> QED
    BY <2>1, <2>2, <2>3, <2>4, <2>5, <2>6 DEF IInv
<1>10. ASSUME NEW w \in Workers, WorkerAbandon(w)
     PROVE  IInv'
  BY <1>10 DEF WorkerAbandon, IInv, TypeOK, CallsInv, QueueInv, HeldInv, Holding, Served,
     CompletedOnce, DeliveredIsComplete
<1>11. ASSUME NEW g \in Closers, CloseFirst(g)
     PROVE  IInv'
  BY <1>11 DEF CloseFirst, IInv, TypeOK, CallsInv, QueueInv, HeldInv, Holding, Served,
     CompletedOnce, DeliveredIsComplete
<1>12. ASSUME NEW g \in Closers, CloseAgain(g)
     PROVE  IInv'
  BY <1>12 DEF CloseAgain, IInv, TypeOK, CallsInv, QueueInv, HeldInv, Holding, Served,
     CompletedOnce, DeliveredIsComplete
<1>13. ASSUME NEW g \in Closers, CloseAgainReturns(g)
     PROVE  IInv'
  BY <1>13 DEF CloseAgainReturns, IInv, TypeOK, CallsInv, QueueInv, HeldInv, Holding, Served,
     CompletedOnce, DeliveredIsComplete
<1>14. ASSUME NEW g \in Closers, CloseWaited(g)
     PROVE  IInv'
  BY <1>14 DEF CloseWaited, IInv, TypeOK, CallsInv, QueueInv, HeldInv, Holding, Served,
     CompletedOnce, DeliveredIsComplete
<1>15. ASSUME NEW g \in Closers, FailPendingOne(g)
     PROVE  IInv'
  <2>a. /\ reqCh \in Seq(Futures) /\ Len(reqCh) \in Nat /\ Len(reqCh) <= QueueSize
        /\ reqCh # <<>> /\ reqCh' = Tail(reqCh)
    BY <1>15 DEF FailPendingOne, IInv, TypeOK
  <2>b. /\ Head(reqCh) = reqCh[1] /\ Head(reqCh) \in Futures
        /\ \A i \in 1..Len(reqCh') : reqCh'[i] = reqCh[i + 1] /\ i + 1 \in 1..Len(reqCh)
        /\ 1 \in 1..Len(reqCh)
        /\ reqCh' \in Seq(Futures) /\ Len(reqCh') <= QueueSize
    BY <2>a, ReceiveFromChannel, QueueSizeAssumption
  <2>c. /\ result[Head(reqCh)] = "accepted" /\ closes[Head(reqCh)] = 0
        /\ \A i \in 1..Len(reqCh') : reqCh'[i] # Head(reqCh)
    BY <2>b DEF IInv, QueueInv
  <2>d. /\ closes' = [closes EXCEPT ![Head(reqCh)] = 1]
        /\ err' = [err EXCEPT ![Head(reqCh)] = "closed"]
        /\ closes' \in [Futures -> Nat]
        /\ err' \in [Futures -> {"unset", "nil", "failed", "closed"}]
    BY <1>15, <2>b, <2>c DEF FailPendingOne, IInv, TypeOK
  <2>e. \A v \in Workers : Holding(v) => wfut[v] # Head(reqCh)
    BY <2>b DEF IInv, HeldInv
  <2>f. doneCh \in Seq(Futures) /\ Len(doneCh) \in Nat /\ Len(doneCh) <= QueueSize
    BY DEF IInv, TypeOK
  <2>g. \/ doneCh' = doneCh
        \/ Len(doneCh) < QueueSize /\ doneCh' = Append(doneCh, Head(reqCh))
    BY <1>15 DEF FailPendingOne
  <2>h. /\ doneCh' \in Seq(Futures) /\ Len(doneCh') <= QueueSize
        /\ \A i \in 1..Len(doneCh') :
              doneCh'[i] = Head(reqCh) \/ (i \in 1..Len(doneCh) /\ doneCh'[i] = doneCh[i])
    <3>1. CASE doneCh' = doneCh
      BY <2>f, <3>1
    <3>2. CASE Len(doneCh) < QueueSize /\ doneCh' = Append(doneCh, Head(reqCh))
      BY <2>b, <2>f, <3>2, SendToChannel, QueueSizeAssumption
    <3> QED
      BY <2>g, <3>1, <3>2
  <2>1. TypeOK'
    BY <1>15, <2>b, <2>c, <2>d, <2>e, <2>h
       DEF FailPendingOne, IInv, TypeOK
  <2>2. CallsInv'
    BY <1>15, <2>b, <2>c, <2>d, <2>e, <2>h
       DEF FailPendingOne, IInv, TypeOK, CallsInv, QueueInv, HeldInv, Holding, Served
  <2>3. QueueInv'
    BY <1>15, <2>b, <2>c, <2>d, <2>e, <2>h
       DEF FailPendingOne, IInv, TypeOK, CallsInv, QueueInv, HeldInv, Holding, Served
  <2>4. HeldInv'
    BY <1>15, <2>b, <2>c, <2>d, <2>e, <2>h
       DEF FailPendingOne, IInv, TypeOK, CallsInv, QueueInv, HeldInv, Holding, Served
  <2>5. CompletedOnce'
    BY <1>15, <2>b, <2>c, <2>d, <2>e, <2>h
       DEF FailPendingOne, IInv, TypeOK, CompletedOnce, QueueInv, HeldInv, Holding, Served
  <2>6. DeliveredIsComplete'
    <3> SUFFICES ASSUME NEW i \in 1..Len(doneCh')
                 PROVE  closes'[doneCh'[i]] = 1 /\ err'[doneCh'[i]] # "unset"
        BY DEF DeliveredIsComplete
    <3>1. CASE doneCh'[i] = Head(reqCh)
      BY <2>b, <2>d, <3>1 DEF IInv, TypeOK
    <3>2. CASE i \in 1..Len(doneCh) /\ doneCh'[i] = doneCh[i]
      <4>1. doneCh[i] \in Futures /\ closes[doneCh[i]] = 1 /\ err[doneCh[i]] # "unset"
        BY <2>f, <3>2 DEF IInv, DeliveredIsComplete
      <4> QED
        BY <2>b, <2>c, <2>d, <3>2, <4>1 DEF IInv, TypeOK
    <3> QED
      BY <2>h, <3>1, <3>2
  <2> QED
    BY <2>1, <2>2, <2>3, <2>4, <2>5, <2>6 DEF IInv
<1>16. ASSUME NEW g \in Closers, FailPendingEnd(g)
     PROVE  IInv'
  BY <1>16 DEF FailPendingEnd, IInv, TypeOK, CallsInv, QueueInv, HeldInv, Holding, Served,
     CompletedOnce, DeliveredIsComplete
<1>17. ASSUME ConsumerReceive
     PROVE  IInv'
  <2>a. /\ doneCh \in Seq(Futures) /\ Len(doneCh) \in Nat /\ Len(doneCh) <= QueueSize
        /\ doneCh # <<>> /\ doneCh' = Tail(doneCh)
        /\ received \in Seq(Futures) /\ received' = Append(received, Head(doneCh))
    BY <1>17 DEF ConsumerReceive, IInv, TypeOK
  <2>b. /\ \A i \in 1..Len(doneCh') : doneCh'[i] = doneCh[i + 1] /\ i + 1 \in 1..Len(doneCh)
        /\ doneCh' \in Seq(Futures) /\ Len(doneCh') <= QueueSize
        /\ received' \in Seq(Futures)
    BY <2>a, ReceiveFromChannel, SendToChannel, QueueSizeAssumption
  <2>1. TypeOK'
    BY <1>17, <2>b
       DEF ConsumerReceive, IInv, TypeOK
  <2>2. CallsInv'
    BY <1>17, <2>b
       DEF ConsumerReceive, IInv, TypeOK, CallsInv, QueueInv, HeldInv, Holding, Served
  <2>3. QueueInv'
    BY <1>17, <2>b
       DEF ConsumerReceive, IInv, TypeOK, CallsInv, QueueInv, HeldInv, Holding, Served
  <2>4. HeldInv'
    BY <1>17, <2>b
       DEF ConsumerReceive, IInv, TypeOK, CallsInv, QueueInv, HeldInv, Holding, Served
  <2>5. CompletedOnce'
    BY <1>17, <2>b
       DEF ConsumerReceive, IInv, TypeOK, CompletedOnce, QueueInv, HeldInv, Holding, Served
  <2>6. DeliveredIsComplete'
    BY <1>17, <2>b
       DEF ConsumerReceive, IInv, TypeOK, DeliveredIsComplete, QueueInv, HeldInv, Holding, Served, CallsInv
  <2> QED
    BY <2>1, <2>2, <2>3, <2>4, <2>5, <2>6 DEF IInv
<1>18. ASSUME ConsumerStop
     PROVE  IInv'
  BY <1>18 DEF ConsumerStop, IInv, TypeOK, CallsInv, QueueInv, HeldInv, Holding, Served,
     CompletedOnce, DeliveredIsComplete
<1>19. CASE UNCHANGED vars
  BY <1>19 DEF vars, IInv, TypeOK, CallsInv, QueueInv, HeldInv, Holding, Served,
     CompletedOnce, DeliveredIsComplete
<1> QED
  BY <1>1, <1>2, <1>3, <1>4, <1>5, <1>6, <1>7, <1>8, <1>9, <1>10, <1>11, <1>12, <1>13, <1>14, <1>15, <1>16, <1>17, <1>18, <1>19
     DEF Next, CallerStep, WorkerStep, CloserStep

-----------------------------------------------------------------------------

\* IInv is an invariant of every pipeline.
LEMMA Invariance == Spec => []IInv
  BY InitIInv, NextIInv, PTL DEF Spec

\* The channels stay within pipelineQueueSize and every variable keeps its type.
THEOREM TypeCorrect == Spec => []TypeOK
<1>1. IInv => TypeOK
  BY DEF IInv
<1> QED
  BY Invariance, <1>1, PTL

\* No done channel is closed twice, for any number of workers, callers and
\* closers: neither worker nor failPending panics.
THEOREM NoDoubleClose == Spec => []CompletedOnce
<1>1. IInv => CompletedOnce
  BY DEF IInv
<1> QED
  BY Invariance, <1>1, PTL

\* A future read from Consumer() answers Response() without blocking.
THEOREM ConsumerNeverBlocks == Spec => []DeliveredIsComplete
<1>1. IInv => DeliveredIsComplete
  BY DEF IInv
<1> QED
  BY Invariance, <1>1, PTL

\* The err field is written before done is closed, never after: a reader
\* of Error() sees one outcome for ever.
THEOREM OutcomeIsNeverRewritten == Spec => OutcomeIsFinal
<1>1. ASSUME IInv, [Next]_vars
      PROVE  [\A f \in Futures : closes[f] >= 1 => err'[f] = err[f]]_vars
  <2> SUFFICES ASSUME NEW f \in Futures, closes[f] >= 1, Next
               PROVE  err'[f] = err[f]
      BY <1>1
  <2>1. ASSUME NEW w \in Workers, WorkerSent(w)
        PROVE  err'[f] = err[f]
    <3>1. closes[wfut[w]] = 0
      BY <1>1, <2>1 DEF WorkerSent, IInv, HeldInv, Served
    <3> QED
      BY <1>1, <2>1, <3>1 DEF WorkerSent, IInv, TypeOK
  <2>2. ASSUME NEW g \in Closers, FailPendingOne(g)
        PROVE  err'[f] = err[f]
    <3>1. Head(reqCh) = reqCh[1] /\ 1 \in 1..Len(reqCh)
      BY <1>1, <2>2, ReceiveFromChannel DEF FailPendingOne, IInv, TypeOK
    <3>2. closes[Head(reqCh)] = 0
      BY <1>1, <3>1 DEF IInv, QueueInv
    <3> QED
      BY <1>1, <2>2, <3>2 DEF FailPendingOne, IInv, TypeOK
  <2>3. ASSUME ~ \E w \in Workers : WorkerSent(w),
               ~ \E g \in Closers : FailPendingOne(g)
        PROVE  err' = err
    BY <1>1, <2>3
       DEF Next, CallerStep, WorkerStep, CloserStep, futureVars,
           AppendRefused, AppendBegin, AppendEnqueue, AppendAbort,
           WorkerTake, WorkerExit, WorkerComplete, WorkerDeliver, WorkerAbandon,
           CloseFirst, CloseAgain, CloseAgainReturns, CloseWaited, FailPendingEnd,
           ConsumerReceive, ConsumerStop
  <2> QED
    BY <2>1, <2>2, <2>3
<1> QED
  BY Invariance, <1>1, PTL DEF Spec, OutcomeIsFinal

-----------------------------------------------------------------------------
(* A pipeline with one owner: nothing is left pending behind Close.        *)

\* Where Close stands, and what it knows of the workers.
CloseInv ==
    /\ once # "new" => shutdown
    /\ \A g \in Goroutines : gpc[g] \in {"wait", "drain"} => shutdown
    /\ \A g \in Goroutines : gpc[g] = "drain" => \A w \in Workers : wpc[w] = "exited"
    /\ once = "done" => \A w \in Workers : wpc[w] = "exited"

\* An accepted future that is not complete is in the queue or in a worker's hands.
PendingInv ==
    \A f \in Futures : result[f] = "accepted" /\ closes[f] = 0 =>
        \/ \E i \in 1..Len(reqCh) : reqCh[i] = f
        \/ \E w \in Workers : Served(w) /\ wfut[w] = f

\* An owner that closes does not append meanwhile, and finds the queue empty.
OwnerInv ==
    OneOwner =>
        /\ once = "running" => \A g \in Goroutines : gpc[g] \in {"wait", "drain"}
        /\ once = "done" => reqCh = <<>> /\ \A g \in Goroutines : gpc[g] = "idle"

CInv == CloseInv /\ PendingInv /\ OwnerInv

LEMMA InitCInv == Init => CInv
  BY DEF Init, CInv, CloseInv, PendingInv, OwnerInv

\* PendingInv by cases on what becomes of the future f: it is accepted, taken,
\* completed, or left where it is.
LEMMA NextPendingInv == IInv /\ PendingInv /\ [Next]_vars => PendingInv'
<1> SUFFICES ASSUME IInv, PendingInv, [Next]_vars,
                    NEW f \in Futures, result'[f] = "accepted", closes'[f] = 0
             PROVE  \/ \E i \in 1..Len(reqCh') : reqCh'[i] = f
                    \/ \E w \in Workers : Served(w)' /\ wfut'[w] = f
    BY DEF PendingInv
<1> DEFINE Queued == \E i \in 1..Len(reqCh) : reqCh[i] = f
           InHand == \E w \in Workers : Served(w) /\ wfut[w] = f
<1> USE DEF Goroutines, callVars, workerVars, futureVars, readVars
<1>0. /\ reqCh \in Seq(Futures) /\ Len(reqCh) \in Nat
      /\ result \in [Futures -> {"none", "accepted", "rejected"}]
      /\ closes \in [Futures -> Nat]
      /\ wpc \in [Workers -> {"select", "send", "close", "deliver", "exited"}]
      /\ wfut \in [Workers -> Futures \union {NoFuture}]
  BY DEF IInv, TypeOK
<1>1. (result[f] = "accepted" /\ closes[f] = 0) => Queued \/ InHand
  BY DEF PendingInv
<1>2. ASSUME NEW g \in Callers, AppendEnqueue(g)
      PROVE  Queued' \/ InHand'
  <2>1. cur[g] \in Futures
    BY <1>2, MaxCallsAssumption DEF AppendEnqueue, IInv, TypeOK, CallsInv, Futures
  <2>2. /\ Len(reqCh') = Len(reqCh) + 1 /\ reqCh'[Len(reqCh')] = cur[g]
        /\ \A i \in 1..Len(reqCh) : i \in 1..Len(reqCh') /\ reqCh'[i] = reqCh[i]
        /\ Len(reqCh') \in 1..Len(reqCh')
    BY <1>0, <1>2, <2>1, SendToChannel DEF AppendEnqueue
  <2>3. CASE f = cur[g]
    BY <2>2, <2>3
  <2>4. CASE f # cur[g]
    BY <1>0, <1>1, <1>2, <2>1, <2>2, <2>4 DEF AppendEnqueue, Served
  <2> QED
    BY <2>3, <2>4
<1>3. ASSUME NEW w \in Workers, WorkerTake(w)
      PROVE  Queued' \/ InHand'
  <2>1. /\ Len(reqCh') = Len(reqCh) - 1 /\ Head(reqCh) = reqCh[1]
        /\ \A i \in 1..Len(reqCh) :
              i = 1 \/ (i - 1 \in 1..Len(reqCh') /\ reqCh'[i - 1] = reqCh[i])
    BY <1>0, <1>3, ReceiveFromChannel DEF WorkerTake
  <2>2. /\ Served(w)' /\ wfut'[w] = Head(reqCh)
        /\ \A v \in Workers : Served(v) => Served(v)' /\ wfut'[v] = wfut[v]
        /\ result' = result /\ closes' = closes
    BY <1>0, <1>3 DEF WorkerTake, Served
  <2> QED
    BY <1>1, <2>1, <2>2
<1>4. ASSUME NEW w \in Workers, WorkerComplete(w)
      PROVE  Queued' \/ InHand'
  <2>1. wfut[w] \in Futures /\ closes[wfut[w]] = 0
    BY <1>4 DEF WorkerComplete, IInv, HeldInv, Holding, Served
  <2>2. f # wfut[w] /\ closes[f] = 0
    BY <1>0, <1>4, <2>1 DEF WorkerComplete
  <2> QED
    BY <1>0, <1>1, <1>4, <2>2 DEF WorkerComplete, Served
<1>5. ASSUME NEW g \in Closers, FailPendingOne(g)
      PROVE  Queued' \/ InHand'
  <2>1. /\ Len(reqCh') = Len(reqCh) - 1 /\ Head(reqCh) = reqCh[1]
        /\ Head(reqCh) \in Futures
        /\ \A i \in 1..Len(reqCh) :
              i = 1 \/ (i - 1 \in 1..Len(reqCh') /\ reqCh'[i - 1] = reqCh[i])
    BY <1>0, <1>5, ReceiveFromChannel DEF FailPendingOne
  <2>2. f # Head(reqCh) /\ closes[f] = 0
    BY <1>0, <1>5, <2>1 DEF FailPendingOne
  <2> QED
    BY <1>1, <1>5, <2>1, <2>2 DEF FailPendingOne, Served
<1>6. ASSUME ~ \E g \in Callers : AppendEnqueue(g),
             ~ \E w \in Workers : WorkerTake(w) \/ WorkerComplete(w),
             ~ \E g \in Closers : FailPendingOne(g)
      PROVE  Queued' \/ InHand'
  <2>1. result[f] = "accepted" /\ closes[f] = 0 /\ reqCh' = reqCh
    BY <1>0, <1>6
       DEF vars, Next, CallerStep, WorkerStep, CloserStep,
           AppendRefused, AppendBegin, AppendAbort, WorkerExit, WorkerSent,
           WorkerDeliver, WorkerAbandon, CloseFirst, CloseAgain,
           CloseAgainReturns, CloseWaited, FailPendingEnd, ConsumerReceive, ConsumerStop
  <2>2. \A w \in Workers : Served(w) => Served(w)' /\ wfut'[w] = wfut[w]
    BY <1>0, <1>6
       DEF vars, Next, CallerStep, WorkerStep, CloserStep, Served,
           AppendRefused, AppendBegin, AppendAbort, WorkerExit, WorkerSent,
           WorkerDeliver, WorkerAbandon, CloseFirst, CloseAgain,
           CloseAgainReturns, CloseWaited, FailPendingEnd, ConsumerReceive, ConsumerStop
  <2> QED
    BY <1>1, <2>1, <2>2
<1> QED
  BY <1>2, <1>3, <1>4, <1>5, <1>6

\* A worker leaves its loop for good, so what Close waited for stays true.
LEMMA NextCloseInv == IInv /\ CloseInv /\ [Next]_vars => CloseInv'
<1> SUFFICES ASSUME IInv, CloseInv, [Next]_vars
             PROVE  CloseInv'
    OBVIOUS
<1> USE DEF Goroutines, callVars, workerVars, futureVars, readVars, CloseInv, IInv, TypeOK
<1>1. ASSUME NEW g \in Callers, AppendRefused(g) \/ AppendBegin(g) \/ CallerStep(g)
      PROVE  CloseInv'
  BY <1>1 DEF CallerStep, AppendRefused, AppendBegin, AppendEnqueue, AppendAbort
<1>2. ASSUME NEW w \in Workers, WorkerStep(w)
      PROVE  CloseInv'
  BY <1>2 DEF WorkerStep, WorkerTake, WorkerExit, WorkerSent, WorkerComplete,
              WorkerDeliver, WorkerAbandon
<1>3. ASSUME NEW g \in Closers, CloseFirst(g) \/ CloseAgain(g) \/ CloserStep(g)
      PROVE  CloseInv'
  <2>1. CASE CloseFirst(g) \/ CloseAgain(g) \/ CloseAgainReturns(g)
    BY <2>1 DEF CloseFirst, CloseAgain, CloseAgainReturns
  <2>2. CASE CloseWaited(g)
    BY <2>2 DEF CloseWaited
  <2>3. CASE FailPendingOne(g)
    BY <2>3 DEF FailPendingOne
  <2>4. CASE FailPendingEnd(g)
    <3>1. \A w \in Workers : wpc[w] = "exited"
      BY <2>4 DEF FailPendingEnd
    <3> QED
      BY <2>4, <3>1 DEF FailPendingEnd
  <2> QED
    BY <1>3, <2>1, <2>2, <2>3, <2>4 DEF CloserStep
<1>4. CASE ConsumerReceive \/ ConsumerStop \/ UNCHANGED vars
  BY <1>4 DEF ConsumerReceive, ConsumerStop, vars
<1> QED
  BY <1>1, <1>2, <1>3, <1>4 DEF Next

\* With one owner nothing is enqueued once Close has begun.
LEMMA NextOwnerInv == IInv /\ CloseInv /\ OwnerInv /\ [Next]_vars => OwnerInv'
<1> SUFFICES ASSUME IInv, CloseInv, OwnerInv, [Next]_vars, OneOwner
             PROVE  OwnerInv'
    BY DEF OwnerInv, OneOwner, Goroutines
<1> USE DEF Goroutines, callVars, workerVars, futureVars, readVars, OwnerInv
<1>1. /\ gpc \in [Goroutines -> {"idle", "append", "wait", "drain", "once"}]
      /\ once \in {"new", "running", "done"}
  BY DEF IInv, TypeOK
<1>2. ASSUME NEW g \in Callers, AppendRefused(g) \/ AppendBegin(g) \/ CallerStep(g)
      PROVE  OwnerInv'
  BY <1>1, <1>2
     DEF CallerStep, AppendRefused, AppendBegin, AppendEnqueue, AppendAbort, CloseInv
<1>3. ASSUME NEW w \in Workers, WorkerStep(w)
      PROVE  OwnerInv'
  BY <1>3 DEF WorkerStep, WorkerTake, WorkerExit, WorkerSent, WorkerComplete,
              WorkerDeliver, WorkerAbandon
<1>4. ASSUME NEW g \in Closers, CloseFirst(g) \/ CloseAgain(g) \/ CloserStep(g)
      PROVE  OwnerInv'
  BY <1>1, <1>4
     DEF CloserStep, CloseFirst, CloseAgain, CloseAgainReturns, CloseWaited,
         FailPendingOne, FailPendingEnd, OneOwner
<1>5. CASE ConsumerReceive \/ ConsumerStop \/ UNCHANGED vars
  BY <1>5 DEF ConsumerReceive, ConsumerStop, vars
<1> QED
  BY <1>2, <1>3, <1>4, <1>5 DEF Next

\* Close's bookkeeping is kept by every step.
LEMMA NextCInv == IInv /\ CInv /\ [Next]_vars => CInv'
  BY NextPendingInv, NextCloseInv, NextOwnerInv DEF CInv

\* What Close waited for and drained leaves no accepted future incomplete.
LEMMA ClosedPending == IInv /\ CInv => ClosedLeavesNonePending
<1> SUFFICES ASSUME IInv, CInv, OneOwner, once = "done",
                    NEW f \in Futures, result[f] = "accepted"
             PROVE  closes[f] = 1
    BY DEF ClosedLeavesNonePending
<1>1. closes[f] \in Nat /\ closes[f] <= 1
  BY DEF IInv, TypeOK, CompletedOnce
<1>2. reqCh = <<>> /\ \A w \in Workers : ~Served(w)
  BY DEF CInv, OwnerInv, CloseInv, Served
<1>3. closes[f] # 0
  BY <1>2 DEF CInv, PendingInv
<1> QED
  BY <1>1, <1>3

\* When the owner's Close has returned, every accepted future has been
\* completed: nobody waits in Error() or Response() for ever.
THEOREM CloseCompletesEverything == Spec => []ClosedLeavesNonePending
  BY Invariance, InitCInv, NextCInv, ClosedPending, PTL DEF Spec

-----------------------------------------------------------------------------
(* What the consumer is handed.                                            *)

\* A future handed over was accepted and completed, and no worker has it.
HandedOver(f) ==
    /\ result[f] = "accepted"
    /\ closes[f] = 1
    /\ \A w \in Workers : Holding(w) => wfut[w] # f

\* What was read and what waits in doneCh was handed over, and is nowhere twice.
DeliveryInv ==
    /\ \A f \in Futures :
          InChannel(f, received) \/ InChannel(f, doneCh) => HandedOver(f)
    /\ \A i, j \in 1..Len(received) : received[i] = received[j] => i = j
    /\ \A i, j \in 1..Len(doneCh) : doneCh[i] = doneCh[j] => i = j
    /\ \A i \in 1..Len(received), j \in 1..Len(doneCh) : received[i] # doneCh[j]

LEMMA InitDeliveryInv == Init => DeliveryInv
  BY DEF Init, DeliveryInv, InChannel

\* No step takes back what was handed over: a call's answer and a completed
\* future stay, and workers take their futures from the queue.
LEMMA HandedOverStays ==
    ASSUME IInv, [Next]_vars, NEW f \in Futures, HandedOver(f)
    PROVE  HandedOver(f)'
<1> USE DEF Goroutines, callVars, workerVars, futureVars, readVars, HandedOver
<1>0. TypeOK
  BY DEF IInv
<1>1. ASSUME NEW g \in Callers, AppendRefused(g) \/ AppendBegin(g) \/ CallerStep(g)
      PROVE  HandedOver(f)'
  <2>1. CASE AppendRefused(g)
    <3>1. f # started + 1
      BY <1>0, <2>1, MaxCallsAssumption DEF AppendRefused, TypeOK, IInv, CallsInv, Futures
    <3> QED
      BY <1>0, <2>1, <3>1 DEF AppendRefused, TypeOK, Holding
  <2>2. CASE AppendBegin(g)
    BY <2>2 DEF AppendBegin, Holding
  <2>3. CASE CallerStep(g)
    <3>1. f # cur[g]
      BY <2>3 DEF CallerStep, AppendEnqueue, AppendAbort, IInv, CallsInv
    <3> QED
      BY <1>0, <2>3, <3>1 DEF CallerStep, AppendEnqueue, AppendAbort, TypeOK, Holding
  <2> QED
    BY <1>1, <2>1, <2>2, <2>3
<1>2. ASSUME NEW w \in Workers, WorkerStep(w)
      PROVE  HandedOver(f)'
  <2>1. CASE WorkerTake(w)
    <3>1. closes[Head(reqCh)] = 0
      BY <1>0, <2>1, ReceiveFromChannel DEF WorkerTake, TypeOK, IInv, QueueInv
    <3>2. f # Head(reqCh)
      BY <3>1
    <3> QED
      BY <1>0, <2>1, <3>2 DEF WorkerTake, TypeOK, Holding
  <2>2. CASE WorkerComplete(w)
    <3>1. f # wfut[w]
      BY <2>2 DEF WorkerComplete, Holding
    <3> QED
      BY <1>0, <2>2, <3>1 DEF WorkerComplete, TypeOK, Holding
  <2>3. CASE WorkerExit(w) \/ WorkerSent(w) \/ WorkerDeliver(w) \/ WorkerAbandon(w)
    BY <1>0, <2>3
       DEF WorkerExit, WorkerSent, WorkerDeliver, WorkerAbandon, TypeOK, Holding
  <2> QED
    BY <1>2, <2>1, <2>2, <2>3 DEF WorkerStep
<1>3. ASSUME NEW g \in Closers, CloseFirst(g) \/ CloseAgain(g) \/ CloserStep(g)
      PROVE  HandedOver(f)'
  <2>1. CASE FailPendingOne(g)
    <3>1. closes[Head(reqCh)] = 0
      BY <1>0, <2>1, ReceiveFromChannel DEF FailPendingOne, TypeOK, IInv, QueueInv
    <3>2. f # Head(reqCh)
      BY <3>1
    <3> QED
      BY <1>0, <2>1, <3>2 DEF FailPendingOne, TypeOK, Holding
  <2>2. CASE ~FailPendingOne(g)
    BY <1>3, <2>2
       DEF CloserStep, CloseFirst, CloseAgain, CloseAgainReturns, CloseWaited,
           FailPendingEnd, Holding
  <2> QED
    BY <2>1, <2>2
<1>4. CASE ConsumerReceive \/ ConsumerStop \/ UNCHANGED vars
  BY <1>4 DEF ConsumerReceive, ConsumerStop, vars, Holding
<1> QED
  BY <1>1, <1>2, <1>3, <1>4 DEF Next

\* A future enters doneCh from a worker that held it or from the queue, and
\* leaves it for received.
LEMMA NextDeliveryInv == IInv /\ DeliveryInv /\ [Next]_vars => DeliveryInv'
<1> SUFFICES ASSUME IInv, DeliveryInv, [Next]_vars
             PROVE  DeliveryInv'
    OBVIOUS
<1> USE DEF Goroutines, callVars, workerVars, futureVars, readVars
<1>0. /\ reqCh \in Seq(Futures) /\ doneCh \in Seq(Futures) /\ received \in Seq(Futures)
      /\ Len(doneCh) \in Nat /\ Len(received) \in Nat
      /\ \A i \in 1..Len(received) : received[i] \in Futures
      /\ \A i \in 1..Len(doneCh) : doneCh[i] \in Futures
  BY DEF IInv, TypeOK
<1>1. \A f \in Futures : HandedOver(f) => HandedOver(f)'
  BY HandedOverStays
<1> DEFINE Enters(f) ==
             /\ f \in Futures /\ HandedOver(f)' /\ ~HandedOver(f)
             /\ doneCh' = Append(doneCh, f) /\ received' = received
<1>2. ASSUME NEW f, Enters(f)
      PROVE  DeliveryInv'
  <2>1. /\ Len(doneCh') = Len(doneCh) + 1 /\ doneCh'[Len(doneCh) + 1] = f
        /\ \A i \in 1..Len(doneCh) : doneCh'[i] = doneCh[i]
    BY <1>0, <1>2, SendToChannel
  <2>2. \A i \in 1..Len(received) : received[i] # f
    BY <1>2 DEF DeliveryInv, InChannel
  <2>3. \A i \in 1..Len(doneCh) : doneCh[i] # f
    BY <1>2 DEF DeliveryInv, InChannel
  <2>4. ASSUME NEW h \in Futures, InChannel(h, received)' \/ InChannel(h, doneCh)'
        PROVE  HandedOver(h)'
    <3>1. h = f \/ InChannel(h, received) \/ InChannel(h, doneCh)
      BY <1>0, <1>2, <2>1, <2>4 DEF InChannel
    <3> QED
      BY <1>1, <1>2, <3>1 DEF DeliveryInv
  <2>5. \A i, j \in 1..Len(doneCh') : doneCh'[i] = doneCh'[j] => i = j
    <3>1. \A i \in 1..Len(doneCh') : i \in 1..Len(doneCh) \/ i = Len(doneCh) + 1
      BY <1>0, <2>1
    <3> QED
      BY <2>1, <2>3, <3>1 DEF DeliveryInv
  <2>6. \A i \in 1..Len(received), j \in 1..Len(doneCh') : received[i] # doneCh'[j]
    <3>1. \A i \in 1..Len(doneCh') : i \in 1..Len(doneCh) \/ i = Len(doneCh) + 1
      BY <1>0, <2>1
    <3> QED
      BY <2>1, <2>2, <3>1 DEF DeliveryInv
  <2>7. received' = received
    BY <1>2
  <2>8. \A i, j \in 1..Len(received') : received'[i] = received'[j] => i = j
    BY <2>7 DEF DeliveryInv
  <2> QED
    BY <2>4, <2>5, <2>6, <2>7, <2>8 DEF DeliveryInv
<1>3. ASSUME doneCh' = doneCh, received' = received
      PROVE  DeliveryInv'
  BY <1>1, <1>3 DEF DeliveryInv, InChannel
<1>4. ASSUME NEW w \in Workers, WorkerDeliver(w)
      PROVE  DeliveryInv'
  <2>1. PICK f \in Futures : f = wfut[w]
    BY <1>4 DEF WorkerDeliver, IInv, HeldInv, Holding
  <2>2. Enters(f)
    BY <1>4, <2>1 DEF WorkerDeliver, IInv, TypeOK, HeldInv, Holding, HandedOver
  <2> QED
    BY <2>2, <1>2
<1>5. ASSUME NEW g \in Closers, FailPendingOne(g)
      PROVE  DeliveryInv'
  <2>1. CASE doneCh' = Append(doneCh, Head(reqCh))
    <3>1. /\ Head(reqCh) \in Futures /\ Head(reqCh) = reqCh[1] /\ 1 \in 1..Len(reqCh)
      BY <1>0, <1>5, ReceiveFromChannel DEF FailPendingOne
    <3>2. closes[Head(reqCh)] = 0 /\ result[Head(reqCh)] = "accepted"
          /\ \A w \in Workers : Holding(w) => wfut[w] # Head(reqCh)
      BY <3>1 DEF IInv, QueueInv, HeldInv
    <3>3. PICK f \in Futures : f = Head(reqCh)
      BY <3>1
    <3>4. Enters(f)
      BY <1>5, <2>1, <3>2, <3>3 DEF FailPendingOne, IInv, TypeOK, Holding, HandedOver
    <3> QED
      BY <3>4, <1>2
  <2>2. CASE doneCh' = doneCh
    BY <1>3, <1>5, <2>2 DEF FailPendingOne
  <2> QED
    BY <1>5, <2>1, <2>2 DEF FailPendingOne
<1>6. CASE ConsumerReceive
  <2>1. /\ Len(doneCh') = Len(doneCh) - 1 /\ Head(doneCh) = doneCh[1] /\ Len(doneCh) >= 1
        /\ \A i \in 1..Len(doneCh') : doneCh'[i] = doneCh[i + 1]
    BY <1>0, <1>6, ReceiveFromChannel DEF ConsumerReceive
  <2>2. /\ Len(received') = Len(received) + 1 /\ received'[Len(received) + 1] = doneCh[1]
        /\ \A i \in 1..Len(received) : received'[i] = received[i]
    BY <1>0, <1>6, <2>1, SendToChannel DEF ConsumerReceive
  <2>3. ASSUME NEW h \in Futures, InChannel(h, received)' \/ InChannel(h, doneCh)'
        PROVE  HandedOver(h)'
    <3>1. CASE InChannel(h, received)'
      <4>1. PICK i \in 1..Len(received') : received'[i] = h
        BY <3>1 DEF InChannel
      <4>2. InChannel(h, received) \/ h = doneCh[1]
        BY <1>0, <2>2, <4>1 DEF InChannel
      <4> QED
        BY <1>0, <1>1, <2>1, <4>2 DEF DeliveryInv, InChannel
    <3>2. CASE InChannel(h, doneCh)'
      <4>1. PICK i \in 1..Len(doneCh') : doneCh'[i] = h
        BY <3>2 DEF InChannel
      <4>2. i + 1 \in 1..Len(doneCh) /\ doneCh[i + 1] = h
        BY <1>0, <2>1, <4>1
      <4> QED
        BY <1>1, <4>2 DEF DeliveryInv, InChannel
    <3> QED
      BY <2>3, <3>1, <3>2
  <2>4. \A i \in 1..Len(received') : i \in 1..Len(received) \/ i = Len(received) + 1
    BY <1>0, <2>2
  <2>5. \A i, j \in 1..Len(doneCh') : doneCh'[i] = doneCh'[j] => i = j
    BY <1>0, <2>1 DEF DeliveryInv
  <2>6. \A i, j \in 1..Len(received') : received'[i] = received'[j] => i = j
    <3>1. 1 \in 1..Len(doneCh)
      BY <1>0, <2>1
    <3> QED
      BY <2>2, <2>4, <3>1 DEF DeliveryInv
  <2>7. \A i \in 1..Len(received'), j \in 1..Len(doneCh') : received'[i] # doneCh'[j]
    <3>1. \A j \in 1..Len(doneCh') : j + 1 \in 1..Len(doneCh) /\ j + 1 # 1
      BY <1>0, <2>1
    <3>2. 1 \in 1..Len(doneCh)
      BY <1>0, <2>1
    <3> QED
      BY <2>1, <2>2, <2>4, <3>1, <3>2 DEF DeliveryInv
  <2> QED
    BY <2>3, <2>5, <2>6, <2>7 DEF DeliveryInv
<1>7. ASSUME ~ConsumerReceive, ~ \E w \in Workers : WorkerDeliver(w),
             ~ \E g \in Closers : FailPendingOne(g)
      PROVE  DeliveryInv'
  <2>1. doneCh' = doneCh /\ received' = received
    BY <1>7
       DEF vars, Next, CallerStep, WorkerStep, CloserStep,
           AppendRefused, AppendBegin, AppendEnqueue, AppendAbort, WorkerTake,
           WorkerExit, WorkerSent, WorkerComplete, WorkerAbandon, CloseFirst, CloseAgain,
           CloseAgainReturns, CloseWaited, FailPendingEnd, ConsumerStop
  <2> QED
    BY <1>3, <2>1
<1> QED
  BY <1>4, <1>5, <1>6, <1>7

\* The consumer is handed no future twice and none whose call was refused.
THEOREM NothingHandedTwice == Spec => []DeliveredOnce
<1>1. IInv /\ DeliveryInv => DeliveredOnce
  <2> SUFFICES ASSUME IInv, DeliveryInv
               PROVE  DeliveredOnce
      OBVIOUS
  <2> DEFINE all == received \o doneCh
  <2>0. received \in Seq(Futures) /\ doneCh \in Seq(Futures)
    BY DEF IInv, TypeOK
  <2>1. /\ Len(received) \in Nat /\ Len(doneCh) \in Nat
        /\ Len(all) = Len(received) + Len(doneCh)
        /\ \A i \in 1..Len(received) : all[i] = received[i]
        /\ \A i \in 1..Len(all) : i > Len(received) =>
              i - Len(received) \in 1..Len(doneCh) /\ all[i] = doneCh[i - Len(received)]
    BY <2>0
  <2> HIDE DEF all
  <2>2. ASSUME NEW i \in 1..Len(all), NEW j \in 1..Len(all), all[i] = all[j]
        PROVE  i = j
    <3>1. CASE i <= Len(received) /\ j <= Len(received)
      BY <2>1, <2>2, <3>1 DEF DeliveryInv
    <3>2. CASE i > Len(received) /\ j > Len(received)
      BY <2>1, <2>2, <3>2 DEF DeliveryInv
    <3>3. CASE i <= Len(received) /\ j > Len(received)
      BY <2>1, <2>2, <3>3 DEF DeliveryInv
    <3>4. CASE i > Len(received) /\ j <= Len(received)
      BY <2>1, <2>2, <3>4 DEF DeliveryInv
    <3> QED
      BY <2>1, <3>1, <3>2, <3>3, <3>4
  <2>3. ASSUME NEW i \in 1..Len(all)
        PROVE  result[all[i]] = "accepted"
    <3>1. CASE i <= Len(received)
      BY <2>0, <2>1, <3>1 DEF DeliveryInv, HandedOver, InChannel
    <3>2. CASE i > Len(received)
      BY <2>0, <2>1, <3>2 DEF DeliveryInv, HandedOver, InChannel
    <3> QED
      BY <2>1, <3>1, <3>2
  <2> QED
    BY <2>2, <2>3 DEF DeliveredOnce, all
<1> QED
  BY InitDeliveryInv, NextDeliveryInv, Invariance, <1>1, PTL DEF Spec

-----------------------------------------------------------------------------
(* A pipeline with one owner implements what raft.AppendPipeline promises. *)

\* The abstract state of all requests.
States == [f \in Futures |-> RequestState(f)]

\* A request's abstract state changes with its own result and completion only.
LEMMA StateOf ==
    ASSUME IInv, NEW f \in Futures
    PROVE  /\ States[f] = RequestState(f)
           /\ RequestState(f) = "new" <=> result[f] = "none"
           /\ RequestState(f) = "refused" <=> result[f] = "rejected"
           /\ RequestState(f) = "pending" <=> result[f] = "accepted" /\ closes[f] = 0
           /\ RequestState(f) = "complete" <=> result[f] = "accepted" /\ closes[f] # 0
<1>1. result[f] \in {"none", "accepted", "rejected"}
  BY DEF IInv, TypeOK
<1> QED
  BY <1>1 DEF States, RequestState

\* One request moves: the rest of the abstract state stays.
LEMMA OneMoves ==
    ASSUME NEW f \in Futures,
           \A h \in Futures : h # f => result'[h] = result[h] /\ closes'[h] = closes[h]
    PROVE  States' = [States EXCEPT ![f] = RequestState(f)']
<1>1. \A h \in Futures : h # f => RequestState(h)' = RequestState(h)
  BY DEF RequestState
<1> QED
  BY <1>1 DEF States

\* Nothing moves.
LEMMA NoneMoves ==
    ASSUME result' = result, closes' = closes
    PROVE  States' = States
  BY DEF States, RequestState

LEMMA InitPromise == Init => Promise!AbsInit
<1> SUFFICES ASSUME Init PROVE Promise!AbsInit
    OBVIOUS
<1>1. \A f \in Futures : RequestState(f) = "new"
  BY DEF Init, RequestState
<1> QED
  BY <1>1 DEF Init, Promise!AbsInit

\* Every step of the pipeline is a step of the promise or leaves it as it is.
LEMMA NextPromise ==
    ASSUME OneOwner, IInv, CInv, DeliveryInv, [Next]_vars, IInv', CInv'
    PROVE  [Promise!AbsNext]_(Promise!absVars)
<1> USE DEF Goroutines, callVars, workerVars, futureVars, readVars
<1> DEFINE Stutters == States' = States /\ received' = received
                       /\ (once' = "done") = (once = "done")
<1>0. TypeOK
  BY DEF IInv
<1>a. ASSUME Stutters
      PROVE  UNCHANGED Promise!absVars
  BY <1>a DEF Promise!absVars, States
<1>1. ASSUME NEW g \in Callers, AppendRefused(g)
      PROVE  Promise!AbsNext
  <2>1. PICK f \in Futures : f = started + 1
    BY <1>0, <1>1, MaxCallsAssumption DEF AppendRefused, TypeOK, Futures
  <2>2. /\ result[f] = "none" /\ result'[f] = "rejected" /\ closes' = closes
        /\ \A h \in Futures : h # f => result'[h] = result[h]
    BY <1>0, <1>1, <2>1, MaxCallsAssumption
       DEF AppendRefused, TypeOK, IInv, CallsInv, Futures
  <2>3. RequestState(f) = "new" /\ RequestState(f)' = "refused"
    BY <2>2 DEF RequestState
  <2>4. States' = [States EXCEPT ![f] = "refused"]
    BY <2>2, <2>3, OneMoves
  <2>5. Promise!Refuse(f)
    BY <1>1, <2>3, <2>4, StateOf DEF AppendRefused, Promise!Refuse, States
  <2> QED
    BY <2>5 DEF Promise!AbsNext
<1>2. ASSUME NEW g \in Callers, AppendBegin(g)
      PROVE  Stutters
  BY <1>2, NoneMoves DEF AppendBegin
<1>3. ASSUME NEW g \in Callers, AppendEnqueue(g)
      PROVE  Promise!AbsNext
  <2>1. PICK f \in Futures : f = cur[g]
    BY <1>0, <1>3, MaxCallsAssumption DEF AppendEnqueue, TypeOK, IInv, CallsInv, Futures
  <2>2. /\ result[f] = "none" /\ result'[f] = "accepted" /\ closes' = closes
        /\ closes[f] = 0
        /\ \A h \in Futures : h # f => result'[h] = result[h]
    BY <1>0, <1>3, <2>1 DEF AppendEnqueue, TypeOK, IInv, CallsInv
  <2>3. RequestState(f) = "new" /\ RequestState(f)' = "pending"
    BY <2>2 DEF RequestState
  <2>4. States' = [States EXCEPT ![f] = "pending"]
    BY <2>2, <2>3, OneMoves
  <2>5. once # "done"
    BY <1>3 DEF AppendEnqueue, CInv, OwnerInv
  <2>6. Promise!Accept(f)
    BY <1>3, <2>3, <2>4, <2>5, StateOf DEF AppendEnqueue, Promise!Accept, States
  <2> QED
    BY <2>6 DEF Promise!AbsNext
<1>4. ASSUME NEW g \in Callers, AppendAbort(g)
      PROVE  Promise!AbsNext
  <2>1. PICK f \in Futures : f = cur[g]
    BY <1>0, <1>4, MaxCallsAssumption DEF AppendAbort, TypeOK, IInv, CallsInv, Futures
  <2>2. /\ result[f] = "none" /\ result'[f] = "rejected" /\ closes' = closes
        /\ \A h \in Futures : h # f => result'[h] = result[h]
    BY <1>0, <1>4, <2>1 DEF AppendAbort, TypeOK, IInv, CallsInv
  <2>3. RequestState(f) = "new" /\ RequestState(f)' = "refused"
    BY <2>2 DEF RequestState
  <2>4. States' = [States EXCEPT ![f] = "refused"]
    BY <2>2, <2>3, OneMoves
  <2>5. Promise!Refuse(f)
    BY <1>4, <2>3, <2>4, StateOf DEF AppendAbort, Promise!Refuse, States
  <2> QED
    BY <2>5 DEF Promise!AbsNext
<1>b. ASSUME NEW f \in Futures, result[f] = "accepted", closes[f] = 0, closes'[f] = 1,
             result' = result, received' = received, once' = once,
             \A h \in Futures : h # f => closes'[h] = closes[h]
      PROVE  Promise!AbsNext
  <2>1. RequestState(f) = "pending" /\ RequestState(f)' = "complete"
    BY <1>b DEF RequestState
  <2>2. States' = [States EXCEPT ![f] = "complete"]
    BY <1>b, <2>1, OneMoves
  <2>3. Promise!Complete(f)
    BY <1>b, <2>1, <2>2, StateOf DEF Promise!Complete, States
  <2> QED
    BY <2>3 DEF Promise!AbsNext
<1>5. ASSUME NEW w \in Workers, WorkerComplete(w)
      PROVE  Promise!AbsNext
  <2>1. PICK f \in Futures : f = wfut[w]
    BY <1>5 DEF WorkerComplete, IInv, HeldInv, Holding
  <2>2. result[f] = "accepted" /\ closes[f] = 0
    BY <1>5, <2>1 DEF WorkerComplete, IInv, HeldInv, Holding, Served
  <2>3. closes'[f] = 1 /\ \A h \in Futures : h # f => closes'[h] = closes[h]
    BY <1>0, <1>5, <2>1, <2>2 DEF WorkerComplete, TypeOK
  <2> QED
    BY <1>b, <1>5, <2>2, <2>3 DEF WorkerComplete
<1>6. ASSUME NEW g \in Closers, FailPendingOne(g)
      PROVE  Promise!AbsNext
  <2>1. /\ Head(reqCh) \in Futures /\ Head(reqCh) = reqCh[1] /\ 1 \in 1..Len(reqCh)
    BY <1>0, <1>6, ReceiveFromChannel DEF FailPendingOne, TypeOK
  <2>2. PICK f \in Futures : f = Head(reqCh)
    BY <2>1
  <2>3. result[f] = "accepted" /\ closes[f] = 0
    BY <2>1, <2>2 DEF IInv, QueueInv
  <2>4. closes'[f] = 1 /\ \A h \in Futures : h # f => closes'[h] = closes[h]
    BY <1>0, <1>6, <2>2, <2>3 DEF FailPendingOne, TypeOK
  <2> QED
    BY <1>b, <1>6, <2>3, <2>4 DEF FailPendingOne
<1>7. CASE ConsumerReceive
  <2>1. /\ Head(doneCh) \in Futures /\ Head(doneCh) = doneCh[1] /\ 1 \in 1..Len(doneCh)
    BY <1>0, <1>7, ReceiveFromChannel DEF ConsumerReceive, TypeOK
  <2>2. PICK f \in Futures : f = Head(doneCh)
    BY <2>1
  <2>3. result[f] = "accepted" /\ closes[f] = 1
    BY <2>1, <2>2 DEF DeliveryInv, HandedOver, InChannel
  <2>4. \A i \in 1..Len(received) : received[i] # f
    BY <2>1, <2>2 DEF DeliveryInv
  <2>5. received' = Append(received, f) /\ States' = States /\ once' = once
    BY <1>7, <2>2, NoneMoves DEF ConsumerReceive
  <2>6. RequestState(f) = "complete"
    BY <2>3 DEF RequestState
  <2>7. Promise!Hand(f)
    BY <2>4, <2>5, <2>6, StateOf DEF Promise!Hand, States
  <2> QED
    BY <2>7 DEF Promise!AbsNext
<1>8. ASSUME NEW g \in Closers, FailPendingEnd(g)
      PROVE  Promise!AbsNext
  <2>1. ClosedLeavesNonePending'
    BY ClosedPending, PTL
  <2>2. \A f \in Futures : States[f] # "pending"
    <3> SUFFICES ASSUME NEW f \in Futures
                 PROVE  States[f] # "pending"
        OBVIOUS
    <3>1. ~(result[f] = "accepted" /\ closes[f] = 0)
      BY <1>8, <2>1 DEF FailPendingEnd, ClosedLeavesNonePending, OneOwner
    <3> QED
      BY <3>1, StateOf
  <2>3. States' = States /\ received' = received /\ once' = "done"
    BY <1>8, NoneMoves DEF FailPendingEnd
  <2>4. Promise!Closed
    BY <2>2, <2>3 DEF Promise!Closed, States
  <2> QED
    BY <2>4 DEF Promise!AbsNext
<1>9. ASSUME NEW w \in Workers,
             \/ WorkerTake(w) \/ WorkerExit(w) \/ WorkerSent(w)
             \/ WorkerDeliver(w) \/ WorkerAbandon(w)
      PROVE  Stutters
  BY <1>9, NoneMoves DEF WorkerTake, WorkerExit, WorkerSent, WorkerDeliver, WorkerAbandon
<1>10. ASSUME NEW g \in Closers,
              CloseFirst(g) \/ CloseAgain(g) \/ CloseAgainReturns(g) \/ CloseWaited(g)
       PROVE  Stutters
  <2>1. States' = States /\ received' = received
    BY <1>10, NoneMoves DEF CloseFirst, CloseAgain, CloseAgainReturns, CloseWaited
  <2>2. (once' = "done") = (once = "done")
    BY <1>10 DEF CloseFirst, CloseAgain, CloseAgainReturns, CloseWaited
  <2> QED
    BY <2>1, <2>2
<1>11. ASSUME ConsumerStop \/ UNCHANGED vars
       PROVE  Stutters
  BY <1>11, NoneMoves DEF ConsumerStop, vars
<1> HIDE DEF Stutters
<1>12. CASE \E w \in Workers : WorkerStep(w)
  BY <1>5, <1>9, <1>12, <1>a DEF WorkerStep
<1>13. CASE \E g \in Callers : AppendRefused(g) \/ AppendBegin(g) \/ CallerStep(g)
  BY <1>1, <1>2, <1>3, <1>4, <1>13, <1>a DEF CallerStep
<1>14. CASE \E g \in Closers : CloseFirst(g) \/ CloseAgain(g) \/ CloserStep(g)
  BY <1>6, <1>8, <1>10, <1>14, <1>a DEF CloserStep
<1> QED
  BY <1>7, <1>11, <1>12, <1>13, <1>14, <1>a DEF Next

\* raft's replication loop, which owns its pipeline, sees an AppendPipeline.
THEOREM ImplementsPromise == ASSUME OneOwner PROVE Spec => KeepsPromise
<1>1. IInv /\ CInv /\ DeliveryInv /\ [Next]_vars /\ IInv' /\ CInv'
         => [Promise!AbsNext]_(Promise!absVars)
  BY NextPromise
<1> QED
  BY InitPromise, InitCInv, InitDeliveryInv, Invariance, NextCInv, NextDeliveryInv, <1>1, PTL
     DEF Spec, KeepsPromise, Promise!AbsSpec

-----------------------------------------------------------------------------
(* How far the workers overtake each other.                                *)

OneCaller == \A g, h \in Callers : g = h

Appending(f) == \E g \in Callers : gpc[g] = "append" /\ cur[g] = f

Held(f) == \E w \in Workers : Holding(w) /\ wfut[w] = f

Answered(f) == InChannel(f, doneCh) \/ InChannel(f, received)

\* Until Close begins, every call that started can still be accounted for.
NoneLostInv ==
    ~shutdown => \A f \in 1..started :
        Appending(f) \/ InChannel(f, reqCh) \/ Held(f) \/ Answered(f)

\* With one caller, requests queue in the order of the calls, and what a worker
\* holds is older than everything in the queue.
OrderInv ==
    OneCaller /\ ~shutdown =>
        /\ \A g \in Callers : gpc[g] = "append" => cur[g] = started
        /\ \A i, j \in 1..Len(reqCh) : i < j => reqCh[i] < reqCh[j]
        /\ \A w \in Workers, i \in 1..Len(reqCh) : Holding(w) => wfut[w] < reqCh[i]

\* The earlier calls that are unanswered when the i-th answer is read.
Skipped(i) ==
    {f \in 1..received[i] - 1 : \A k \in 1..i : received[k] # f}

\* The earlier calls that will be unanswered when the i-th answer in doneCh is.
ToSkip(i) ==
    {f \in 1..doneCh[i] - 1 :
        ~InChannel(f, received) /\ \A k \in 1..i : doneCh[k] # f}

CountInv ==
    OneCaller /\ ~shutdown =>
        /\ \A i \in 1..Len(received) : Cardinality(Skipped(i)) < Cardinality(Workers)
        /\ \A i \in 1..Len(doneCh) : Cardinality(ToSkip(i)) < Cardinality(Workers)

OvertakeInv == NoneLostInv /\ OrderInv /\ CountInv

LEMMA InitOvertakeInv == Init => OvertakeInv
<1> SUFFICES ASSUME Init PROVE OvertakeInv
    OBVIOUS
<1>0. started = 0 /\ reqCh = <<>> /\ gpc = [g \in Goroutines |-> "idle"]
  BY DEF Init
<1>1. NoneLostInv /\ OrderInv
  BY <1>0 DEF NoneLostInv, OrderInv, Goroutines
<1>2. 1..Len(received) = {} /\ 1..Len(doneCh) = {}
  BY DEF Init
<1>3. CountInv
  BY <1>2 DEF CountInv
<1> QED
  BY <1>1, <1>3 DEF OvertakeInv

\* What the other workers hold is fewer than there are workers.
LEMMA OthersHoldFewer ==
    ASSUME NEW w \in Workers, NEW S,
           \A f \in S : \E v \in Workers \ {w} : wfut[v] = f
    PROVE  Cardinality(S) < Cardinality(Workers)
<1> DEFINE holder == [f \in S |-> CHOOSE v \in Workers \ {w} : wfut[v] = f]
<1>1. \A f \in S : holder[f] \in Workers \ {w} /\ wfut[holder[f]] = f
  OBVIOUS
<1>2. holder \in Injection(S, Workers \ {w})
  BY <1>1 DEF Injection, IsInjective
<1>3. /\ IsFiniteSet(Workers \ {w}) /\ Cardinality(Workers) \in Nat
      /\ Cardinality(Workers \ {w}) = Cardinality(Workers) - 1
  BY GoroutinesAssumption, FS_RemoveElement, FS_CardinalityType
<1>4. IsFiniteSet(S) /\ Cardinality(S) <= Cardinality(Workers \ {w})
  BY <1>2, <1>3, FS_Injection
<1>5. Cardinality(S) \in Nat
  BY <1>4, FS_CardinalityType
<1> QED
  BY <1>3, <1>4, <1>5

\* Before Close begins a step belongs to a call, to a worker that serves, or to
\* the consumer.
LEMMA OpenSteps ==
    ASSUME CInv, [Next]_vars, ~shutdown'
    PROVE  /\ ~shutdown
           /\ \/ \E g \in Callers : AppendBegin(g) \/ AppendEnqueue(g)
              \/ \E w \in Workers : \/ WorkerTake(w) \/ WorkerSent(w)
                                    \/ WorkerComplete(w) \/ WorkerDeliver(w)
              \/ ConsumerReceive \/ ConsumerStop \/ UNCHANGED vars
<1> USE DEF Goroutines
<1>1. ASSUME NEW g \in Closers
      PROVE  ~(CloseFirst(g) \/ CloseAgain(g) \/ CloserStep(g))
  BY <1>1 DEF CInv, CloseInv, CloserStep, CloseFirst, CloseAgain, CloseAgainReturns,
              CloseWaited, FailPendingOne, FailPendingEnd
<1>2. ~shutdown
  BY <1>1 DEF Next, CallerStep, WorkerStep, vars,
       AppendRefused, AppendBegin, AppendEnqueue, AppendAbort, WorkerTake, WorkerExit,
       WorkerSent, WorkerComplete, WorkerDeliver, WorkerAbandon, ConsumerReceive, ConsumerStop
<1> QED
  BY <1>1, <1>2 DEF Next, CallerStep, WorkerStep,
       AppendRefused, AppendAbort, WorkerExit, WorkerAbandon

\* A call is appended, queued, held and answered in turn.
LEMMA NextNoneLostInv ==
    IInv /\ CInv /\ NoneLostInv /\ [Next]_vars => NoneLostInv'
<1> SUFFICES ASSUME IInv, CInv, NoneLostInv, [Next]_vars, ~shutdown',
                    NEW f \in 1..started'
             PROVE  (Appending(f) \/ InChannel(f, reqCh) \/ Held(f) \/ Answered(f))'
    BY DEF NoneLostInv
<1> USE DEF Goroutines, callVars, workerVars, futureVars, readVars
<1> DEFINE Known == Appending(f) \/ InChannel(f, reqCh) \/ Held(f) \/ Answered(f)
<1>0. TypeOK /\ ~shutdown /\ (f \in 1..started => Known)
  BY OpenSteps DEF IInv, NoneLostInv
<1>1. ASSUME NEW g \in Callers, AppendBegin(g)
      PROVE  Known'
  <2>1. CASE f = started + 1
    BY <1>0, <1>1, <2>1 DEF AppendBegin, TypeOK, Appending
  <2>2. CASE f \in 1..started
    BY <1>0, <1>1, <2>2
       DEF AppendBegin, TypeOK, Appending, InChannel, Held, Holding, Answered
  <2> QED
    BY <1>0, <1>1, <2>1, <2>2 DEF AppendBegin, TypeOK
<1>2. ASSUME NEW g \in Callers, AppendEnqueue(g)
      PROVE  Known'
  <2>0. /\ Len(reqCh') = Len(reqCh) + 1 /\ reqCh'[Len(reqCh) + 1] = cur[g]
        /\ Len(reqCh) \in Nat
        /\ \A i \in 1..Len(reqCh) : reqCh'[i] = reqCh[i]
    <3>1. cur[g] \in Futures
      BY <1>0, <1>2, MaxCallsAssumption DEF AppendEnqueue, TypeOK, IInv, CallsInv, Futures
    <3> QED
      BY <1>0, <1>2, <3>1, SendToChannel DEF AppendEnqueue, TypeOK
  <2>1. f \in 1..started
    BY <1>2 DEF AppendEnqueue
  <2>2. CASE InChannel(f, reqCh) \/ f = cur[g]
    BY <2>0, <2>2 DEF InChannel
  <2>3. CASE Appending(f) /\ f # cur[g]
    BY <1>0, <1>2, <2>3 DEF AppendEnqueue, Appending, TypeOK
  <2>4. CASE Held(f) \/ Answered(f)
    BY <1>2, <2>4 DEF AppendEnqueue, Held, Holding, Answered, InChannel
  <2> QED
    BY <1>0, <2>1, <2>2, <2>3, <2>4
<1>3. ASSUME NEW w \in Workers, WorkerTake(w)
      PROVE  Known'
  <2>0. /\ Len(reqCh') = Len(reqCh) - 1 /\ Head(reqCh) = reqCh[1]
        /\ \A i \in 1..Len(reqCh) :
              i = 1 \/ (i - 1 \in 1..Len(reqCh') /\ reqCh'[i - 1] = reqCh[i])
    BY <1>0, <1>3, ReceiveFromChannel DEF WorkerTake, TypeOK
  <2>1. f \in 1..started
    BY <1>3 DEF WorkerTake
  <2>2. CASE InChannel(f, reqCh) /\ f # reqCh[1]
    BY <2>0, <2>2 DEF InChannel
  <2>3. CASE f = reqCh[1]
    BY <1>0, <1>3, <2>0, <2>3 DEF WorkerTake, Held, Holding, TypeOK
  <2>4. CASE Held(f)
    BY <1>0, <1>3, <2>4 DEF WorkerTake, Held, Holding, TypeOK
  <2>5. CASE Appending(f) \/ Answered(f)
    BY <1>3, <2>5 DEF WorkerTake, Appending, Answered, InChannel
  <2> QED
    BY <1>0, <2>1, <2>2, <2>3, <2>4, <2>5
<1>4. ASSUME NEW w \in Workers, WorkerSent(w) \/ WorkerComplete(w)
      PROVE  Known'
  BY <1>0, <1>4
     DEF WorkerSent, WorkerComplete, Appending, InChannel, Held, Holding, Answered, TypeOK
<1>5. ASSUME NEW w \in Workers, WorkerDeliver(w)
      PROVE  Known'
  <2>0. /\ Len(doneCh') = Len(doneCh) + 1 /\ doneCh'[Len(doneCh) + 1] = wfut[w]
        /\ Len(doneCh) \in Nat
        /\ \A i \in 1..Len(doneCh) : doneCh'[i] = doneCh[i]
    <3>1. wfut[w] \in Futures
      BY <1>5 DEF WorkerDeliver, IInv, HeldInv, Holding
    <3> QED
      BY <1>0, <1>5, <3>1, SendToChannel DEF WorkerDeliver, TypeOK
  <2>1. f \in 1..started
    BY <1>5 DEF WorkerDeliver
  <2>2. CASE InChannel(f, doneCh) \/ f = wfut[w]
    BY <2>0, <2>2 DEF InChannel, Answered
  <2>3. CASE Held(f) /\ f # wfut[w]
    BY <1>0, <1>5, <2>3 DEF WorkerDeliver, Held, Holding, TypeOK
  <2>4. CASE Appending(f) \/ InChannel(f, reqCh) \/ InChannel(f, received)
    BY <1>5, <2>4 DEF WorkerDeliver, Appending, Answered, InChannel
  <2> QED
    BY <1>0, <2>1, <2>2, <2>3, <2>4 DEF Answered
<1>6. CASE ConsumerReceive
  <2>0. /\ Len(doneCh') = Len(doneCh) - 1 /\ Head(doneCh) = doneCh[1]
        /\ \A i \in 1..Len(doneCh) :
              i = 1 \/ (i - 1 \in 1..Len(doneCh') /\ doneCh'[i - 1] = doneCh[i])
    BY <1>0, <1>6, ReceiveFromChannel DEF ConsumerReceive, TypeOK
  <2>1. /\ Len(received') = Len(received) + 1 /\ received'[Len(received) + 1] = doneCh[1]
        /\ Len(received) \in Nat
        /\ \A i \in 1..Len(received) : received'[i] = received[i]
    BY <1>0, <1>6, <2>0, ReceiveFromChannel, SendToChannel DEF ConsumerReceive, TypeOK
  <2>2. f \in 1..started
    BY <1>6 DEF ConsumerReceive
  <2>3. CASE InChannel(f, doneCh) /\ f # doneCh[1]
    BY <2>0, <2>3 DEF InChannel, Answered
  <2>4. CASE InChannel(f, received) \/ f = doneCh[1]
    BY <2>1, <2>4 DEF InChannel, Answered
  <2>5. CASE Appending(f) \/ InChannel(f, reqCh) \/ Held(f)
    BY <1>6, <2>5 DEF ConsumerReceive, Appending, InChannel, Held, Holding
  <2> QED
    BY <1>0, <2>2, <2>3, <2>4, <2>5 DEF Answered
<1>7. CASE ConsumerStop \/ UNCHANGED vars
  BY <1>0, <1>7 DEF ConsumerStop, vars, Appending, InChannel, Held, Holding, Answered
<1> QED
  BY <1>1, <1>2, <1>3, <1>4, <1>5, <1>6, <1>7, OpenSteps

\* The one caller's requests are numbered, queued and taken in the same order.
LEMMA NextOrderInv ==
    IInv /\ CInv /\ OrderInv /\ [Next]_vars => OrderInv'
<1> SUFFICES ASSUME IInv, CInv, OrderInv, [Next]_vars, ~shutdown', OneCaller
             PROVE  OrderInv'
    BY DEF OrderInv, OneCaller
<1> USE DEF Goroutines, callVars, workerVars, futureVars, readVars, OneCaller
<1>0. TypeOK /\ ~shutdown /\ reqCh \in Seq(Futures) /\ Len(reqCh) \in Nat
  BY OpenSteps DEF IInv, TypeOK
<1>1. /\ \A g \in Callers : gpc[g] = "append" => cur[g] = started
      /\ \A i, j \in 1..Len(reqCh) : i < j => reqCh[i] < reqCh[j]
      /\ \A w \in Workers, i \in 1..Len(reqCh) : Holding(w) => wfut[w] < reqCh[i]
  BY <1>0 DEF OrderInv
<1>2. ASSUME NEW g \in Callers, AppendBegin(g)
      PROVE  OrderInv'
  BY <1>0, <1>1, <1>2 DEF AppendBegin, OrderInv, Holding, TypeOK
<1>3. ASSUME NEW g \in Callers, AppendEnqueue(g)
      PROVE  OrderInv'
  <2>1. cur[g] \in Futures /\ cur[g] = started /\ result[cur[g]] = "none"
    BY <1>0, <1>1, <1>3, MaxCallsAssumption DEF AppendEnqueue, TypeOK, IInv, CallsInv, Futures
  <2>2. /\ Len(reqCh') = Len(reqCh) + 1 /\ reqCh'[Len(reqCh) + 1] = cur[g]
        /\ \A i \in 1..Len(reqCh) : reqCh'[i] = reqCh[i]
    BY <1>0, <1>3, <2>1, SendToChannel DEF AppendEnqueue
  <2>3. \A f \in Futures : result[f] = "accepted" => f < started
    BY <1>0, <2>1 DEF TypeOK, Futures, IInv, CallsInv
  <2>4. \A i \in 1..Len(reqCh) : reqCh[i] < cur[g]
    BY <1>0, <2>1, <2>3 DEF IInv, QueueInv
  <2>5. \A w \in Workers : Holding(w) => wfut[w] < cur[g]
    BY <2>1, <2>3 DEF IInv, HeldInv
  <2>6. \A i \in 1..Len(reqCh') : i \in 1..Len(reqCh) \/ i = Len(reqCh) + 1
    BY <1>0, <2>2
  <2>7. \A i, j \in 1..Len(reqCh') : i < j => reqCh'[i] < reqCh'[j]
    <3> SUFFICES ASSUME NEW i \in 1..Len(reqCh'), NEW j \in 1..Len(reqCh'), i < j
                 PROVE  reqCh'[i] < reqCh'[j]
        OBVIOUS
    <3>1. i \in 1..Len(reqCh)
      BY <1>0, <2>2
    <3> QED
      BY <1>1, <2>2, <2>4, <2>6, <3>1
  <2>8. \A w \in Workers, i \in 1..Len(reqCh') : Holding(w)' => wfut'[w] < reqCh'[i]
    BY <1>1, <1>3, <2>2, <2>5, <2>6 DEF AppendEnqueue, Holding
  <2>9. \A h \in Callers : gpc'[h] = "append" => cur'[h] = started'
    BY <1>0, <1>3 DEF AppendEnqueue, TypeOK
  <2> QED
    BY <2>7, <2>8, <2>9 DEF OrderInv
<1>4. ASSUME NEW w \in Workers, WorkerTake(w)
      PROVE  OrderInv'
  <2>0. /\ Len(reqCh) >= 1 /\ Len(reqCh') = Len(reqCh) - 1 /\ Head(reqCh) = reqCh[1]
        /\ \A i \in 1..Len(reqCh') : reqCh'[i] = reqCh[i + 1]
    BY <1>0, <1>4, ReceiveFromChannel DEF WorkerTake
  <2>1. \A i \in 1..Len(reqCh') : i + 1 \in 1..Len(reqCh) /\ 1 < i + 1
    BY <1>0, <2>0
  <2>2. 1 \in 1..Len(reqCh) /\ \A i, j \in 1..Len(reqCh') : i < j => i + 1 < j + 1
    BY <1>0, <2>0
  <2>3. \A i, j \in 1..Len(reqCh') : i < j => reqCh'[i] < reqCh'[j]
    BY <1>1, <2>0, <2>1, <2>2
  <2>4. \A i \in 1..Len(reqCh') : reqCh[1] < reqCh'[i]
    BY <1>1, <2>0, <2>1, <2>2
  <2>5. \A v \in Workers, i \in 1..Len(reqCh') : Holding(v)' => wfut'[v] < reqCh'[i]
    <3> SUFFICES ASSUME NEW v \in Workers, NEW i \in 1..Len(reqCh'), Holding(v)'
                 PROVE  wfut'[v] < reqCh'[i]
        OBVIOUS
    <3>1. CASE v = w
      BY <1>0, <1>4, <2>0, <2>4, <3>1 DEF WorkerTake, TypeOK
    <3>2. CASE v # w
      BY <1>0, <1>1, <1>4, <2>0, <2>1, <3>2 DEF WorkerTake, TypeOK, Holding
    <3> QED
      BY <3>1, <3>2
  <2> QED
    BY <1>1, <1>4, <2>3, <2>5 DEF WorkerTake, OrderInv
<1>5. ASSUME NEW w \in Workers, WorkerSent(w) \/ WorkerComplete(w) \/ WorkerDeliver(w)
      PROVE  OrderInv'
  <2>1. \A v \in Workers : Holding(v)' => Holding(v) /\ wfut'[v] = wfut[v]
    BY <1>0, <1>5 DEF WorkerSent, WorkerComplete, WorkerDeliver, Holding, TypeOK
  <2> QED
    BY <1>1, <1>5, <2>1 DEF WorkerSent, WorkerComplete, WorkerDeliver, OrderInv
<1>6. CASE ConsumerReceive \/ ConsumerStop \/ UNCHANGED vars
  BY <1>1, <1>6 DEF ConsumerReceive, ConsumerStop, vars, OrderInv, Holding
<1> QED
  BY <1>2, <1>3, <1>4, <1>5, <1>6, OpenSteps

\* An answer overtakes only calls that other workers hold: older ones have left
\* the queue.  Reading it changes nothing about what it overtook.
LEMMA NextCountInv ==
    IInv /\ CInv /\ NoneLostInv /\ OrderInv /\ CountInv /\ [Next]_vars => CountInv'
<1> SUFFICES ASSUME IInv, CInv, NoneLostInv, OrderInv, CountInv, [Next]_vars,
                    ~shutdown', OneCaller
             PROVE  CountInv'
    BY DEF CountInv, OneCaller
<1> USE DEF Goroutines, callVars, workerVars, futureVars, readVars
<1>0. /\ ~shutdown /\ TypeOK
      /\ doneCh \in Seq(Futures) /\ received \in Seq(Futures)
      /\ Len(doneCh) \in Nat /\ Len(received) \in Nat
  BY OpenSteps DEF IInv, TypeOK
<1>1. /\ \A i \in 1..Len(received) : Cardinality(Skipped(i)) < Cardinality(Workers)
      /\ \A i \in 1..Len(doneCh) : Cardinality(ToSkip(i)) < Cardinality(Workers)
  BY <1>0 DEF CountInv
<1>2. ASSUME NEW w \in Workers, WorkerDeliver(w)
      PROVE  CountInv'
  <2>0. wfut[w] \in Futures /\ result[wfut[w]] = "accepted"
    BY <1>2 DEF WorkerDeliver, IInv, HeldInv, Holding
  <2>1. /\ Len(doneCh') = Len(doneCh) + 1 /\ doneCh'[Len(doneCh) + 1] = wfut[w]
        /\ \A i \in 1..Len(doneCh) : doneCh'[i] = doneCh[i]
        /\ received' = received
    BY <1>0, <1>2, <2>0, SendToChannel DEF WorkerDeliver
  <2>2. \A f \in 1..wfut[w] - 1 :
            Answered(f) \/ \E v \in Workers \ {w} : wfut[v] = f
    <3> SUFFICES ASSUME NEW f \in 1..wfut[w] - 1
                 PROVE  Answered(f) \/ \E v \in Workers \ {w} : wfut[v] = f
        OBVIOUS
    <3>0. started \in Nat /\ wfut[w] \in Nat
      BY <1>0, <2>0, MaxCallsAssumption DEF TypeOK, Futures
    <3>1. wfut[w] <= started
      BY <2>0, <3>0 DEF IInv, CallsInv
    <3>2. f \in 1..started /\ f < wfut[w]
      BY <3>0, <3>1
    <3>3. ~Appending(f)
      BY <1>0, <3>0, <3>1, <3>2 DEF Appending, OrderInv
    <3>4. ~InChannel(f, reqCh)
      <4> SUFFICES ASSUME NEW i \in 1..Len(reqCh), reqCh[i] = f
                   PROVE  FALSE
          BY DEF InChannel
      <4>1. wfut[w] < reqCh[i]
        BY <1>0, <1>2 DEF OrderInv, WorkerDeliver, Holding
      <4> QED
        BY <3>0, <3>2, <4>1
    <3>5. Held(f) \/ Answered(f)
      BY <1>0, <3>2, <3>3, <3>4 DEF NoneLostInv
    <3>6. Held(f) => \E v \in Workers \ {w} : wfut[v] = f
      BY <3>0, <3>2 DEF Held
    <3> QED
      BY <3>5, <3>6
  <2>3. ASSUME NEW n, n = Len(doneCh) + 1
        PROVE  Cardinality(ToSkip(n)') < Cardinality(Workers)
    <3>1. ASSUME NEW f, f \in ToSkip(n)'
          PROVE  \E v \in Workers \ {w} : wfut[v] = f
      <4>1. /\ f \in 1..wfut[w] - 1 /\ ~InChannel(f, received)
            /\ \A k \in 1..n : doneCh'[k] # f
        BY <2>1, <2>3, <3>1 DEF ToSkip, InChannel
      <4>2. ~InChannel(f, doneCh)
        BY <1>0, <2>1, <2>3, <4>1 DEF InChannel
      <4> QED
        BY <2>2, <4>1, <4>2 DEF Answered
    <3>2. \A f \in ToSkip(n)' : \E v \in Workers \ {w} : wfut[v] = f
      BY <3>1
    <3> QED
      BY <3>2, OthersHoldFewer
  <2>4. ASSUME NEW i \in 1..Len(doneCh)
        PROVE  ToSkip(i)' = ToSkip(i)
    <3>1. doneCh'[i] = doneCh[i] /\ \A k \in 1..i : doneCh'[k] = doneCh[k]
      BY <1>0, <2>1
    <3> QED
      BY <2>1, <3>1 DEF ToSkip, InChannel
  <2>5. ASSUME NEW i \in 1..Len(received)
        PROVE  Skipped(i)' = Skipped(i)
    BY <2>1 DEF Skipped
  <2>6. ASSUME NEW i, i \in 1..Len(doneCh')
        PROVE  Cardinality(ToSkip(i)') < Cardinality(Workers)
    <3>1. i \in 1..Len(doneCh) \/ i = Len(doneCh) + 1
      BY <1>0, <2>1, <2>6
    <3> QED
      BY <1>1, <2>3, <2>4, <3>1
  <2> QED
    BY <1>1, <2>1, <2>5, <2>6 DEF CountInv
<1>3. CASE ConsumerReceive
  <2>0. /\ Len(doneCh) >= 1 /\ Len(doneCh') = Len(doneCh) - 1 /\ Head(doneCh) = doneCh[1]
        /\ \A i \in 1..Len(doneCh') : doneCh'[i] = doneCh[i + 1]
    BY <1>0, <1>3, ReceiveFromChannel DEF ConsumerReceive
  <2>1. /\ Len(received') = Len(received) + 1 /\ received'[Len(received) + 1] = doneCh[1]
        /\ \A i \in 1..Len(received) : received'[i] = received[i]
    BY <1>0, <1>3, <2>0, ReceiveFromChannel, SendToChannel DEF ConsumerReceive
  <2>2. ASSUME NEW i \in 1..Len(received)
        PROVE  Skipped(i)' = Skipped(i)
    <3>1. \A k \in 1..i : received'[k] = received[k]
      BY <1>0, <2>1
    <3> QED
      BY <2>1, <3>1 DEF Skipped
  <2>3. ASSUME NEW n, n = Len(received) + 1
        PROVE  Skipped(n)' = ToSkip(1)
    <3>1. ASSUME NEW f
          PROVE  (\A k \in 1..n : received'[k] # f)
                   <=> (~InChannel(f, received) /\ \A k \in 1..1 : doneCh[k] # f)
      <4>1. \A k \in 1..n : k \in 1..Len(received) \/ k = n
        BY <1>0, <2>3
      <4>2. n \in 1..n /\ 1..1 = {1} /\ \A k \in 1..Len(received) : k \in 1..n
        BY <1>0, <2>3
      <4> QED
        BY <2>1, <2>3, <4>1, <4>2 DEF InChannel
    <3>2. received'[n] = doneCh[1]
      BY <2>1, <2>3
    <3> QED
      BY <3>1, <3>2 DEF Skipped, ToSkip
  <2>4. ASSUME NEW i \in 1..Len(doneCh')
        PROVE  ToSkip(i)' = ToSkip(i + 1)
    <3>1. ASSUME NEW f
          PROVE  (~InChannel(f, received') /\ \A k \in 1..i : doneCh'[k] # f)
                   <=> (~InChannel(f, received) /\ \A k \in 1..i + 1 : doneCh[k] # f)
      <4>1. \A k \in 1..i + 1 : k = 1 \/ k - 1 \in 1..i
        BY <2>4
      <4>2. \A k \in 1..i : k + 1 \in 1..i + 1 /\ doneCh'[k] = doneCh[k + 1]
        BY <1>0, <2>0, <2>4
      <4>3. \A k \in 1..i + 1 : k = 1 \/ doneCh[k] = doneCh'[k - 1]
        BY <1>0, <2>0, <2>4, <4>1
      <4>4. InChannel(f, received') <=> InChannel(f, received) \/ f = doneCh[1]
        <5>1. \A k \in 1..Len(received') : k \in 1..Len(received) \/ k = Len(received) + 1
          BY <1>0, <2>1
        <5>2. Len(received) + 1 \in 1..Len(received')
              /\ \A k \in 1..Len(received) : k \in 1..Len(received')
          BY <1>0, <2>1
        <5> QED
          BY <2>1, <5>1, <5>2 DEF InChannel
      <4>5. 1 \in 1..i + 1
        BY <2>4
      <4> QED
        BY <4>1, <4>2, <4>3, <4>4, <4>5
    <3>2. doneCh'[i] = doneCh[i + 1]
      BY <2>0
    <3> QED
      BY <3>1, <3>2 DEF ToSkip
  <2>5. ASSUME NEW i, i \in 1..Len(received')
        PROVE  Cardinality(Skipped(i)') < Cardinality(Workers)
    <3>1. i \in 1..Len(received) \/ i = Len(received) + 1
      BY <1>0, <2>1, <2>5
    <3>2. 1 \in 1..Len(doneCh)
      BY <1>0, <2>0
    <3> QED
      BY <1>1, <2>2, <2>3, <3>1, <3>2
  <2>6. ASSUME NEW i \in 1..Len(doneCh')
        PROVE  Cardinality(ToSkip(i)') < Cardinality(Workers)
    <3>1. i + 1 \in 1..Len(doneCh)
      BY <1>0, <2>0
    <3> QED
      BY <1>1, <2>4, <3>1
  <2> QED
    BY <2>5, <2>6 DEF CountInv
<1>4. ASSUME UNCHANGED <<doneCh, received>>
      PROVE  CountInv'
  <2>1. ASSUME NEW i
        PROVE  Skipped(i)' = Skipped(i) /\ ToSkip(i)' = ToSkip(i)
    BY <1>4 DEF Skipped, ToSkip, InChannel
  <2> QED
    BY <1>1, <1>4, <2>1 DEF CountInv
<1>5. CASE \E g \in Callers : AppendBegin(g) \/ AppendEnqueue(g)
  BY <1>4, <1>5 DEF AppendBegin, AppendEnqueue
<1>6. CASE \E w \in Workers : WorkerTake(w) \/ WorkerSent(w) \/ WorkerComplete(w)
  BY <1>4, <1>6 DEF WorkerTake, WorkerSent, WorkerComplete
<1>7. CASE ConsumerStop \/ UNCHANGED vars
  BY <1>4, <1>7 DEF ConsumerStop, vars
<1> QED
  BY <1>2, <1>3, <1>5, <1>6, <1>7, OpenSteps

\* With one caller and an open pipeline, an answer is read before fewer earlier
\* calls than there are workers.
THEOREM OvertakingIsBounded == Spec => []OvertakingBounded
<1>1. IInv /\ CountInv => OvertakingBounded
  <2> SUFFICES ASSUME IInv, CountInv, Cardinality(Callers) = 1, ~shutdown,
                      NEW i \in 1..Len(received)
               PROVE  Cardinality({f \in 1..received[i] - 1 :
                                     ~InChannel(f, SubSeq(received, 1, i))})
                        < Cardinality(Workers)
      BY DEF OvertakingBounded
  <2>1. OneCaller
    BY GoroutinesAssumption, FS_Singleton DEF OneCaller
  <2>2. received \in Seq(Futures) /\ i \in 1..Len(received)
    BY DEF IInv, TypeOK
  <2>3. Len(SubSeq(received, 1, i)) = i
        /\ \A k \in 1..i : SubSeq(received, 1, i)[k] = received[k]
    BY <2>2
  <2>4. {f \in 1..received[i] - 1 : ~InChannel(f, SubSeq(received, 1, i))} = Skipped(i)
    BY <2>3 DEF Skipped, InChannel
  <2> QED
    BY <2>1, <2>4 DEF CountInv
<1>2. IInv /\ CInv /\ OvertakeInv /\ [Next]_vars => OvertakeInv'
  BY NextNoneLostInv, NextOrderInv, NextCountInv DEF OvertakeInv
<1>3. OvertakeInv => CountInv
  BY DEF OvertakeInv
<1> QED
  BY Invariance, InitCInv, NextCInv, InitOvertakeInv,
     <1>1, <1>2, <1>3, PTL DEF Spec

=============================================================================
