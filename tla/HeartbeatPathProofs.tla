-------------------------- MODULE HeartbeatPathProofs --------------------------
(***************************************************************************)
(* For any number of streams, entries and requests: whichever goroutine    *)
(* handles which request when, the FSM is never handed an entry before the *)
(* ones that precede it, nor one that the leader has not committed.        *)
(***************************************************************************)
EXTENDS HeartbeatPath, TLAPS

Handed(x) == \E i \in 1..Len(fsm) : fsm[i] = x

\* The follower's log has no gaps, because no request asks it to make one.
LogInv ==
    /\ \E n \in Index : log = 1..n
    /\ \A s \in Streams : \E k \in Index :
          req[s].prev <= k /\ req[s].entries = req[s].prev + 1..k

\* A request never carries a commit index that the leader has not reached.
CommitInv == \A s \in Streams : req[s].commit <= lcommit

\* A goroutine hands over entries of the log, from one after an entry that was
\* handed over, and raises lastApplied when it has done so.
BatchInv ==
    /\ applied = 0 \/ Handed(applied)
    /\ \A s \in Streams : lo[s] = 0 \/ Handed(lo[s])
    /\ \A s \in Streams : spc[s] = "push" =>
          lo[s] < req[s].commit /\ req[s].commit \in log
    /\ \A s \in Streams : spc[s] = "mark" => Handed(req[s].commit)

IInv == TypeOK /\ LogInv /\ CommitInv /\ BatchInv /\ NothingSkipped

-----------------------------------------------------------------------------
(* What the operators of the model return.                                 *)

\* The last index of a log without gaps.
LEMMA LastOfPrefix == \A n \in Index : log = 1..n => LastLog = n
<1> SUFFICES ASSUME NEW n \in Index, log = 1..n
             PROVE  LastLog = n
    OBVIOUS
<1> USE BoundsAssumption DEF Index
<1>1. n \in log \union {0} /\ \A y \in log \union {0} : n >= y
  OBVIOUS
<1>2. \A x \in log \union {0} :
          x \in Int /\ ((\A y \in log \union {0} : x >= y) => x = n)
  BY <1>1
<1> QED
  BY <1>1, <1>2 DEF LastLog, Max

\* A batch is a sequence of consecutive indexes.
LEMMA BatchIsSequence ==
    ASSUME NEW a \in Index, NEW b \in Index, a <= b
    PROVE  /\ [i \in 1..b - a |-> a + i] \in Seq(Index)
           /\ Len([i \in 1..b - a |-> a + i]) = b - a
  BY BoundsAssumption DEF Index

\* Handing over a batch appends it to what was handed over.
LEMMA HandOver ==
    ASSUME NEW q \in Seq(Index), NEW r \in Seq(Index)
    PROVE  /\ q \o r \in Seq(Index)
           /\ Len(q \o r) = Len(q) + Len(r)
           /\ Len(q) \in Nat /\ Len(r) \in Nat
           /\ \A i \in 1..Len(q) : (q \o r)[i] = q[i]
           /\ \A i \in 1..Len(r) : (q \o r)[Len(q) + i] = r[i]
  OBVIOUS

-----------------------------------------------------------------------------

\* Initially the log is empty and nothing was handed over.
LEMMA InitIInv == Init => IInv
<1> SUFFICES ASSUME Init PROVE IInv
    OBVIOUS
<1> USE BoundsAssumption DEF Init, Index
<1>1. TypeOK
  BY DEF TypeOK, Request, Phases
<1>2. LogInv
  <2>1. log = 1..0 /\ 0 \in Index
    <3>1. 1..0 = {}
      BY SMT
    <3> QED
      BY <3>1
  <2>2. \A s \in Streams : req[s].prev <= 0 /\ req[s].entries = req[s].prev + 1..0
    <3>1. 0 + 1..0 = {}
      BY SMT
    <3>2. \A s \in Streams : req[s].prev = 0 /\ req[s].entries = {}
      OBVIOUS
    <3> QED
      BY <3>1, <3>2
  <2> QED
    BY <2>1, <2>2 DEF LogInv
<1>3. CommitInv /\ BatchInv /\ NothingSkipped
  BY DEF CommitInv, BatchInv, NothingSkipped
<1> QED
  BY <1>1, <1>2, <1>3 DEF IInv

\* Every step keeps the types: what is sent is a request, what is handed over
\* a sequence of indexes.
LEMMA NextTypeOK == IInv /\ [Next]_vars => TypeOK'
<1> SUFFICES ASSUME IInv, [Next]_vars
             PROVE  TypeOK'
    OBVIOUS
<1> USE BoundsAssumption DEF TypeOK, Request, Phases, Index, leaderVars, raftVars
<1>0. TypeOK
  BY DEF IInv
<1>1. PICK n \in Index : log = 1..n /\ LastLog = n
  BY LastOfPrefix DEF IInv, LogInv
<1>2. CASE LeaderCommits
  <2>1. lcommit' \in Index
    BY <1>0, <1>2 DEF LeaderCommits
  <2> QED
    BY <1>0, <1>2, <2>1 DEF LeaderCommits
<1>3. ASSUME NEW s \in Streams, Send(s)
      PROVE  TypeOK'
  <2>1. PICK last \in next - 1..MaxIndex :
             /\ req' = [req EXCEPT ![s] =
                    [prev |-> next - 1, entries |-> next..last, commit |-> lcommit]]
             /\ next' = last + 1
    BY <1>3 DEF Send
  <2>2. next..last \in SUBSET Index /\ next - 1 \in Index /\ last + 1 \in 1..MaxIndex + 1
    BY <1>0
  <2>3. req' \in [Streams -> Request]
    BY <1>0, <2>1, <2>2
  <2>4. sends' \in 0..MaxSends /\ next' \in 1..MaxIndex + 1
    BY <1>0, <1>3, <2>1, <2>2 DEF Send
  <2> QED
    BY <1>0, <1>3, <2>3, <2>4 DEF Send, Goto
<1>4. ASSUME NEW s \in Streams, FastPath(s) \/ Queue(s) \/ Check(s)
      PROVE  TypeOK'
  <2>1. CASE FastPath(s)
    BY <1>0, <2>1 DEF FastPath, Goto
  <2>2. CASE Queue(s)
    BY <1>0, <2>2 DEF Queue, Goto
  <2>3. CASE Check(s)
    BY <1>0, <2>3 DEF Check, Goto, Respond
  <2> QED
    BY <1>4, <2>1, <2>2, <2>3
<1>5. CASE MainTakes
  BY <1>0, <1>5 DEF MainTakes, Goto
<1>6. ASSUME NEW s \in Streams, Refuse(s)
      PROVE  TypeOK'
  BY <1>0, <1>1, <1>6 DEF Refuse, Goto, Respond
<1>7. ASSUME NEW s \in Streams, Store(s)
      PROVE  TypeOK'
  <2>1. PICK k \in Index : req[s].prev <= k /\ req[s].entries = req[s].prev + 1..k
    BY DEF IInv, LogInv
  <2>2. req[s].prev \in Index
    BY <1>0
  <2>3. log' \subseteq 1..MaxIndex
    <3>1. req[s].entries \subseteq 1..MaxIndex
      BY <2>1, <2>2
    <3> QED
      BY <1>0, <1>7, <3>1 DEF Store
  <2> QED
    BY <1>0, <1>7, <2>3 DEF Store, Goto
<1>8. ASSUME NEW s \in Streams, SetCommit(s)
      PROVE  TypeOK'
  <2>1. Target(s) \in Index /\ req[s] \in Request
    BY <1>0, <1>1 DEF Target
  <2> QED
    BY <1>0, <1>8, <2>1 DEF SetCommit, Goto, Respond
<1>9. ASSUME NEW s \in Streams, Push(s)
      PROVE  TypeOK'
  <2>1. lo[s] \in Index /\ req[s].commit \in Index /\ lo[s] <= req[s].commit
    BY <1>0, <1>9 DEF Push, IInv, BatchInv
  <2>2. fsm' \in Seq(Index)
    BY <1>0, <1>9, <2>1, BatchIsSequence, HandOver DEF Push
  <2> QED
    BY <1>0, <1>9, <2>2 DEF Push, Goto
<1>10. ASSUME NEW s \in Streams, Mark(s)
      PROVE  TypeOK'
  BY <1>0, <1>10 DEF Mark, Goto, Respond
<1>11. CASE UNCHANGED vars
  BY <1>0, <1>11 DEF vars
<1> QED
  BY <1>2, <1>3, <1>4, <1>5, <1>6, <1>7, <1>8, <1>9, <1>10, <1>11 DEF Next, Handle

\* Only Store changes the log, and only Send the place of a request's entries:
\* what it stores follows on what is there.
LEMMA NextLogInv == IInv /\ [Next]_vars => LogInv'
<1> SUFFICES ASSUME IInv, [Next]_vars
             PROVE  LogInv'
    OBVIOUS
<1> USE BoundsAssumption DEF Index, leaderVars, raftVars
<1>0. TypeOK /\ LogInv
  BY DEF IInv
<1>1. PICK n \in Index : log = 1..n /\ LastLog = n
  BY <1>0, LastOfPrefix DEF LogInv
<1>2. ASSUME NEW s \in Streams, Send(s)
      PROVE  LogInv'
  <2>1. PICK last \in next - 1..MaxIndex :
             req' = [req EXCEPT ![s] =
                 [prev |-> next - 1, entries |-> next..last, commit |-> lcommit]]
    BY <1>2 DEF Send
  <2>2. last \in Index /\ req'[s].prev <= last /\ req'[s].entries = req'[s].prev + 1..last
    BY <1>0, <2>1 DEF TypeOK
  <2>3. \A t \in Streams \ {s} : req'[t] = req[t]
    BY <1>0, <2>1 DEF TypeOK
  <2> QED
    BY <1>0, <1>2, <2>2, <2>3 DEF Send, LogInv
<1>3. ASSUME NEW s \in Streams, Store(s)
      PROVE  LogInv'
  <2>1. PICK k \in Index : req[s].prev <= k /\ req[s].entries = req[s].prev + 1..k
    BY <1>0 DEF LogInv
  <2>2. req[s].prev \in Index /\ req[s].prev <= n
    BY <1>0, <1>1, <1>3 DEF Store, TypeOK, Request
  <2>3. \E m \in Index : log' = 1..m
    <3>1. CASE k <= n
      BY <1>1, <1>3, <2>1, <2>2, <3>1 DEF Store
    <3>2. CASE k > n
      BY <1>1, <1>3, <2>1, <2>2, <3>2 DEF Store
    <3> QED
      BY <3>1, <3>2
  <2> QED
    BY <1>0, <1>3, <2>3 DEF Store, LogInv
<1>4. ASSUME NEW s \in Streams, SetCommit(s)
      PROVE  LogInv'
  <2>1. \A t \in Streams : req'[t].prev = req[t].prev /\ req'[t].entries = req[t].entries
    BY <1>0, <1>4 DEF SetCommit, TypeOK, Request
  <2> QED
    BY <1>0, <1>4, <2>1 DEF SetCommit, LogInv
<1>5. ASSUME ~ \E s \in Streams : Send(s) \/ Store(s) \/ SetCommit(s)
      PROVE  log' = log /\ req' = req
  BY <1>5 DEF Next, Handle, vars, LeaderCommits, FastPath, Queue, MainTakes, Refuse, Check,
              Push, Mark
<1> QED
  BY <1>0, <1>2, <1>3, <1>4, <1>5 DEF LogInv

\* A request is sent with the leader's commit index, which never falls, and the
\* follower at most lowers it to its own last index.
LEMMA NextCommitInv == IInv /\ [Next]_vars => CommitInv'
<1> SUFFICES ASSUME IInv, [Next]_vars
             PROVE  CommitInv'
    OBVIOUS
<1> USE BoundsAssumption DEF Index, leaderVars, raftVars, CommitInv
<1>0. TypeOK /\ CommitInv
  BY DEF IInv
<1>1. PICK n \in Index : LastLog = n
  BY LastOfPrefix DEF IInv, LogInv
<1>2. CASE LeaderCommits
  BY <1>0, <1>2 DEF LeaderCommits, TypeOK, Request
<1>3. ASSUME NEW s \in Streams, Send(s)
      PROVE  CommitInv'
  BY <1>0, <1>3 DEF Send, TypeOK, Request
<1>4. ASSUME NEW s \in Streams, SetCommit(s)
      PROVE  CommitInv'
  <2>1. req[s].commit \in Index /\ Target(s) <= req[s].commit
    BY <1>0, <1>1 DEF Target, TypeOK, Request
  <2> QED
    BY <1>0, <1>1, <1>4, <2>1 DEF SetCommit, TypeOK, Request, Target
<1>5. ASSUME ~ LeaderCommits, ~ \E s \in Streams : Send(s) \/ SetCommit(s)
      PROVE  lcommit' = lcommit /\ req' = req
  BY <1>5 DEF Next, Handle, vars, FastPath, Queue, MainTakes, Refuse, Store, Check,
              Push, Mark
<1> QED
  BY <1>0, <1>2, <1>3, <1>4, <1>5

\* What was handed over stays handed over, and a push hands over the batch of
\* its request: in order, from one after an entry that was handed over before.
LEMMA PushHandsOver ==
    ASSUME IInv, NEW s \in Streams, Push(s)
    PROVE  /\ \A x \in Index : Handed(x) => Handed(x)'
           /\ Handed(req[s].commit)'
           /\ \A i \in 1..Len(fsm') :
                 \/ i \in 1..Len(fsm) /\ fsm'[i] = fsm[i]
                 \/ /\ fsm'[i] \in lo[s] + 1..req[s].commit
                    /\ fsm'[i] > lo[s] + 1 => i - 1 \in 1..Len(fsm') /\ fsm'[i - 1] = fsm'[i] - 1
           /\ \A i \in 1..Len(fsm) : i \in 1..Len(fsm') /\ fsm'[i] = fsm[i]
           /\ Len(fsm) \in Nat /\ Len(fsm') \in Nat
           /\ \A i \in 1..Len(fsm') : i \notin 1..Len(fsm) => i > Len(fsm)
<1> DEFINE a == lo[s]
           b == req[s].commit
           batch == [i \in 1..b - a |-> a + i]
<1>1. a \in Nat /\ b \in Nat /\ a \in Index /\ b \in Index /\ a < b
  BY BoundsAssumption DEF Push, IInv, TypeOK, BatchInv, Request, Index
<1>2. fsm \in Seq(Index) /\ batch \in Seq(Index) /\ Len(batch) = b - a
  <2>1. a <= b
    BY <1>1
  <2>2. batch \in Seq(Index) /\ Len(batch) = b - a
    BY Zenon, <1>1, <2>1, BatchIsSequence
  <2> QED
    BY <2>2 DEF IInv, TypeOK
<1>3. fsm' = fsm \o batch
  BY Zenon DEF Push
<1> HIDE DEF a, b
<1>4. \A i \in 1..b - a : batch[i] = a + i
  OBVIOUS
<1> HIDE DEF batch
<1>5. /\ Len(fsm') = Len(fsm) + (b - a) /\ Len(fsm) \in Nat
      /\ \A i \in 1..Len(fsm) : fsm'[i] = fsm[i]
      /\ \A i \in 1..b - a : fsm'[Len(fsm) + i] = a + i
  <2>1. /\ Len(fsm \o batch) = Len(fsm) + Len(batch) /\ Len(fsm) \in Nat
        /\ \A i \in 1..Len(fsm) : (fsm \o batch)[i] = fsm[i]
        /\ \A i \in 1..Len(batch) : (fsm \o batch)[Len(fsm) + i] = batch[i]
    BY <1>2, HandOver
  <2>2. Len(batch) = b - a
    BY <1>2
  <2>3. /\ Len(fsm') = Len(fsm) + Len(batch) /\ Len(fsm) \in Nat
        /\ \A i \in 1..Len(fsm) : fsm'[i] = fsm[i]
        /\ \A i \in 1..Len(batch) : fsm'[Len(fsm) + i] = batch[i]
    BY <1>3, <2>1
  <2> QED
    BY <1>4, <2>2, <2>3
<1>6. \A i \in 1..Len(fsm) : i \in 1..Len(fsm') /\ fsm'[i] = fsm[i]
  BY <1>1, <1>5
<1>7. ASSUME NEW i \in 1..Len(fsm'), i \notin 1..Len(fsm)
      PROVE  /\ i > Len(fsm)
             /\ fsm'[i] \in a + 1..b
             /\ fsm'[i] > a + 1 => i - 1 \in 1..Len(fsm') /\ fsm'[i - 1] = fsm'[i] - 1
  <2>1. PICK j \in 1..b - a : i = Len(fsm) + j
    <3>1. i - Len(fsm) \in 1..b - a /\ i = Len(fsm) + (i - Len(fsm))
      BY <1>1, <1>5, <1>7
    <3> QED
      BY <3>1
  <2>2. fsm'[i] = a + j
    BY <1>5, <2>1
  <2>3. CASE j = 1
    BY <1>1, <1>5, <2>1, <2>2, <2>3
  <2>4. CASE j > 1
    <3>1. j - 1 \in 1..b - a /\ i - 1 = Len(fsm) + (j - 1)
      BY <1>1, <1>5, <2>1, <2>4
    <3>2. fsm'[Len(fsm) + (j - 1)] = a + (j - 1)
      BY <1>5, <3>1
    <3> QED
      BY <1>1, <1>5, <2>1, <2>2, <3>1, <3>2
  <2>5. i > Len(fsm) /\ fsm'[i] \in a + 1..b
    BY <1>1, <1>5, <2>1, <2>2
  <2> QED
    BY <1>1, <2>1, <2>3, <2>4, <2>5
<1>8. Handed(b)'
  <2>1. b - a \in 1..b - a /\ Len(fsm) + (b - a) \in 1..Len(fsm') /\ a + (b - a) = b
    BY <1>1, <1>5
  <2>2. fsm'[Len(fsm) + (b - a)] = a + (b - a)
    BY <1>5, <2>1
  <2>3. \E i \in 1..Len(fsm') : fsm'[i] = b
    BY <2>1, <2>2
  <2>4. req' = req
    BY DEF Push
  <2> QED
    BY <2>3, <2>4 DEF Handed, b
<1>9. \A x \in Index : Handed(x) => Handed(x)'
  BY <1>6 DEF Handed
<1> QED
  BY <1>1, <1>5, <1>6, <1>7, <1>8, <1>9 DEF a, b

\* A batch starts after an entry that was handed over and ends in the log, and
\* lastApplied follows when it was handed over.
LEMMA NextBatchInv == IInv /\ [Next]_vars => BatchInv'
<1> SUFFICES ASSUME IInv, [Next]_vars
             PROVE  BatchInv'
    OBVIOUS
<1> USE BoundsAssumption DEF Index, leaderVars, raftVars, Goto, Respond
<1>0. TypeOK /\ BatchInv
  BY DEF IInv
<1>1. PICK n \in Index : log = 1..n /\ LastLog = n
  BY LastOfPrefix DEF IInv, LogInv
<1>2. ASSUME NEW s \in Streams, Send(s)
      PROVE  BatchInv'
  <2>1. \A t \in Streams \ {s} : req'[t] = req[t] /\ spc'[t] = spc[t]
    BY <1>0, <1>2 DEF Send, TypeOK
  <2>2. spc'[s] = "wire"
    BY <1>0, <1>2 DEF Send, TypeOK
  <2>3. UNCHANGED <<raftVars, lo>>
    BY <1>2 DEF Send
  <2> QED
    BY <1>0, <2>1, <2>2, <2>3 DEF BatchInv, Handed
<1>3. CASE LeaderCommits \/ UNCHANGED vars
  BY <1>0, <1>3 DEF LeaderCommits, vars, BatchInv, Handed
<1>4. ASSUME NEW s \in Streams, FastPath(s) \/ Queue(s) \/ Refuse(s) \/ Check(s)
      PROVE  BatchInv'
  <2>1. UNCHANGED <<raftVars, req, lo>>
    BY <1>4 DEF FastPath, Queue, Refuse, Check
  <2>2. \A t \in Streams : spc'[t] = spc[t] \/ spc'[t] \notin {"push", "mark"}
    BY <1>0, <1>4 DEF FastPath, Queue, Refuse, Check, TypeOK
  <2> QED
    BY <1>0, <2>1, <2>2 DEF BatchInv, Handed
<1>5. CASE MainTakes
  <2>1. UNCHANGED <<raftVars, req, lo>>
    BY <1>5 DEF MainTakes
  <2>2. \A t \in Streams : spc'[t] = spc[t] \/ spc'[t] \notin {"push", "mark"}
    BY <1>0, <1>5 DEF MainTakes, TypeOK
  <2> QED
    BY <1>0, <2>1, <2>2 DEF BatchInv, Handed
<1>6. ASSUME NEW s \in Streams, Store(s)
      PROVE  BatchInv'
  <2>1. UNCHANGED <<req, lo, applied, fsm>> /\ log \subseteq log'
    BY <1>6 DEF Store
  <2>2. \A t \in Streams : spc'[t] = spc[t] \/ spc'[t] \notin {"push", "mark"}
    BY <1>0, <1>6 DEF Store, TypeOK
  <2> QED
    BY <1>0, <2>1, <2>2 DEF BatchInv, Handed
<1>7. ASSUME NEW s \in Streams, SetCommit(s)
      PROVE  BatchInv'
  <2>1. UNCHANGED <<log, applied, fsm>>
    BY <1>7 DEF SetCommit
  <2>2. \A t \in Streams \ {s} : req'[t] = req[t] /\ spc'[t] = spc[t] /\ lo'[t] = lo[t]
    BY <1>0, <1>7 DEF SetCommit, TypeOK
  <2>3. /\ lo'[s] = applied /\ req'[s].commit = Target(s) /\ spc'[s] # "mark"
        /\ spc'[s] = "push" => Target(s) > applied
    BY <1>0, <1>7 DEF SetCommit, TypeOK, Request
  <2>4. /\ Target(s) \in Index /\ applied \in Index /\ Target(s) <= n
    BY <1>0, <1>1 DEF Target, TypeOK, Request
  <2>5. spc'[s] = "push" => lo'[s] < req'[s].commit /\ req'[s].commit \in log
    BY <1>1, <2>3, <2>4
  <2> QED
    BY <1>0, <2>1, <2>2, <2>3, <2>5 DEF BatchInv, Handed
<1>8. ASSUME NEW s \in Streams, Push(s)
      PROVE  BatchInv'
  <2>1. UNCHANGED <<log, applied, req, lo>>
    BY <1>8 DEF Push
  <2>2. \A t \in Streams \ {s} : spc'[t] = spc[t]
    BY <1>0, <1>8 DEF Push, TypeOK
  <2>3. spc'[s] = "mark"
    BY <1>0, <1>8 DEF Push, TypeOK
  <2>4. /\ \A x \in Index : Handed(x) => \E i \in 1..Len(fsm') : fsm'[i] = x
        /\ \E i \in 1..Len(fsm') : fsm'[i] = req'[s].commit
    BY <1>8, PushHandsOver DEF Handed
  <2>5. applied \in Index /\ \A t \in Streams : lo[t] \in Index /\ req[t].commit \in Index
    BY <1>0 DEF TypeOK, Request
  <2> QED
    BY <1>0, <2>1, <2>2, <2>3, <2>4, <2>5 DEF BatchInv, Handed
<1>9. ASSUME NEW s \in Streams, Mark(s)
      PROVE  BatchInv'
  <2>1. UNCHANGED <<log, fsm, req, lo>> /\ applied' = req[s].commit
    BY <1>9 DEF Mark
  <2>2. Handed(req[s].commit)
    BY <1>0, <1>9 DEF Mark, BatchInv
  <2>3. \A t \in Streams : spc'[t] = spc[t] \/ spc'[t] \notin {"push", "mark"}
    BY <1>0, <1>9 DEF Mark, TypeOK
  <2> QED
    BY <1>0, <2>1, <2>2, <2>3 DEF BatchInv, Handed
<1> QED
  BY <1>2, <1>3, <1>4, <1>5, <1>6, <1>7, <1>8, <1>9 DEF Next, Handle

\* What a push hands over is in the log and committed, and each entry comes
\* after its predecessor: within the batch, or before it.
LEMMA NextNothingSkipped == IInv /\ [Next]_vars => NothingSkipped'
<1> SUFFICES ASSUME IInv, [Next]_vars
             PROVE  NothingSkipped'
    OBVIOUS
<1> USE BoundsAssumption DEF Index, leaderVars, raftVars
<1>0. TypeOK /\ NothingSkipped /\ BatchInv /\ CommitInv
  BY DEF IInv
<1>1. PICK n \in Index : log = 1..n
  BY DEF IInv, LogInv
<1>2. lcommit <= lcommit' /\ log \subseteq log'
  BY <1>0 DEF Next, Handle, vars, LeaderCommits, Send, FastPath, Queue, MainTakes, Refuse,
              Store, Check, SetCommit, Push, Mark, TypeOK
<1>3. lcommit \in Index /\ lcommit' \in Index /\ fsm \in Seq(Index)
  BY <1>0, NextTypeOK DEF TypeOK
<1>4. ASSUME NEW s \in Streams, Push(s)
      PROVE  NothingSkipped'
  <2>1. lo[s] \in Index /\ req[s].commit \in 1..n /\ req[s].commit <= lcommit
    BY <1>0, <1>1, <1>4 DEF Push, TypeOK, BatchInv, CommitInv
  <2>2. lo[s] = 0 \/ \E j \in 1..Len(fsm) : fsm[j] = lo[s]
    BY <1>0 DEF BatchInv, Handed
  <2> SUFFICES ASSUME NEW i \in 1..Len(fsm')
               PROVE  /\ fsm'[i] \in log'
                      /\ fsm'[i] <= lcommit'
                      /\ fsm'[i] > 1 => \E j \in 1..i - 1 : fsm'[j] = fsm'[i] - 1
      BY DEF NothingSkipped
  <2>3. \A j \in 1..Len(fsm) : j \in 1..Len(fsm') /\ fsm'[j] = fsm[j]
    BY <1>4, PushHandsOver
  <2>4. CASE i \in 1..Len(fsm)
    <3>1. /\ fsm[i] \in log /\ fsm[i] <= lcommit /\ fsm[i] \in Index
          /\ fsm[i] > 1 => \E j \in 1..i - 1 : fsm[j] = fsm[i] - 1
      BY <1>0, <1>3, <2>4 DEF NothingSkipped
    <3>2. \A j \in 1..i - 1 : j \in 1..Len(fsm)
      BY <1>3, <2>4
    <3> QED
      BY <1>2, <1>3, <2>3, <2>4, <3>1, <3>2
  <2>5. CASE i \notin 1..Len(fsm)
    <3>1. /\ fsm'[i] \in lo[s] + 1..req[s].commit
          /\ fsm'[i] > lo[s] + 1 => i - 1 \in 1..Len(fsm') /\ fsm'[i - 1] = fsm'[i] - 1
          /\ i > Len(fsm) /\ Len(fsm) \in Nat
      BY <1>4, <2>5, PushHandsOver
    <3>2. fsm'[i] \in log' /\ fsm'[i] <= lcommit'
      BY <1>1, <1>2, <1>3, <2>1, <3>1
    <3>3. CASE fsm'[i] > lo[s] + 1
      BY <3>1, <3>2, <3>3
    <3>4. CASE fsm'[i] = lo[s] + 1
      <4>1. \A j \in 1..Len(fsm) : j \in 1..i - 1
        BY <3>1
      <4> QED
        BY <2>1, <2>2, <2>3, <3>2, <3>4, <4>1
    <3> QED
      BY <2>1, <3>1, <3>3, <3>4
  <2> QED
    BY <2>4, <2>5
<1>5. ASSUME ~ \E s \in Streams : Push(s)
      PROVE  fsm' = fsm
  BY <1>5 DEF Next, Handle, vars, LeaderCommits, Send, FastPath, Queue, MainTakes, Refuse,
              Store, Check, SetCommit, Mark
<1>6. CASE fsm' = fsm
  <2>1. \A i \in 1..Len(fsm) : fsm[i] \in Index
    BY <1>3
  <2> QED
    BY <1>0, <1>2, <1>3, <1>6, <2>1 DEF NothingSkipped
<1> QED
  BY <1>4, <1>5, <1>6

-----------------------------------------------------------------------------

\* IInv is an invariant of every follower.
LEMMA Invariance == Spec => []IInv
<1>1. IInv /\ [Next]_vars => IInv'
  BY NextTypeOK, NextLogInv, NextCommitInv, NextBatchInv, NextNothingSkipped DEF IInv
<1> QED
  BY InitIInv, <1>1, PTL DEF Spec

\* The indexes on both sides stay within the leader's log, and what waits for
\* raft's main loop are streams.
THEOREM TypeCorrect == Spec => []TypeOK
<1>1. IInv => TypeOK
  BY DEF IInv
<1> QED
  BY Invariance, <1>1, PTL

\* Although two goroutines run raft's handler at once, the FSM is handed only
\* committed entries of the follower's log, none before its predecessor, for
\* any number of streams and any log.
THEOREM FsmGetsPrefixes == Spec => []NothingSkipped
<1>1. IInv => NothingSkipped
  BY DEF IInv
<1> QED
  BY Invariance, <1>1, PTL

=============================================================================
