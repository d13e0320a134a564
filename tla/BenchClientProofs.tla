-------------------------- MODULE BenchClientProofs --------------------------
(***************************************************************************)
(* For every cluster, any number of writes, of changes of leader and of    *)
(* lost requests: what the counters of run_benchmark stand for, and what a *)
(* write that the client counts has done.                                  *)
(***************************************************************************)
EXTENDS BenchClient, TLAPS, FiniteSetTheorems

\* Where the client can be in its benchmarks, and what is out meanwhile.
PlaceInv ==
    /\ pc = "search" <=> phase = "start"
    /\ phase = "start" => i = 1 /\ attempt = 1 /\ ~recovered
    /\ phase = "write" => i \in 1..Writes
    /\ phase = "done" => pc = "send"
    /\ phase = "write" /\ pc = "find" => attempt < MaxAttempts
    /\ phase = "seed" => attempt <= SeedAttempts
    /\ pc = "await" <=> req.state # "none"

\* The first write that is not over.
Now == CASE phase = "start" -> 1
         [] phase = "write" -> i
         [] OTHER -> Writes + 1

\* How often the write that is under way has failed.
Failures == IF phase = "write" THEN attempt - 1 + (IF pc = "find" THEN 1 ELSE 0) ELSE 0

\* The counters agree with what the writes were counted as.
CountInv ==
    /\ \A w \in 1..Writes : w >= Now => result[w] = "none"
    /\ \A k \in {"ok"} \union Kinds : counts[k] = CountOf({k})
    /\ counts["errors"] = CountOf(Kinds)
    /\ recovered => Failures > 0 \/ phase # "write"
    /\ counts["retry_recovered"] <= counts["ok"]
    /\ counts["retry_recovered"] + (MaxAttempts - 1) * counts["errors"] + Failures
           <= counts["retries"]

\* An attempt that is answered, or given up.
Spent == pc = "find" \/ (pc = "await" /\ req.state \in Answers)

\* Each attempt leaves at most one entry, and a write counted as done has one.
EntryInv ==
    /\ \A w \in 1..Writes :
          /\ applied[w] \in Nat /\ late[w] \in Nat
          /\ applied[w] + late[w] <= MaxAttempts
          /\ w >= Now /\ ~(phase = "write" /\ w = i) =>
                applied[w] = 0 /\ late[w] = 0 /\ ~unrest[w]
          /\ result[w] = "ok" => applied[w] >= 1
    /\ phase = "write" =>
          /\ applied[i] + late[i] <= attempt - 1 + (IF Spent THEN 1 ELSE 0)
          /\ req.state = "ok" => applied[i] >= 1

\* A write that nothing has disturbed is on its way to the leader, which it
\* reaches with its second attempt at the latest.
CalmInv ==
    /\ phase = "write" /\ ~unrest[i] =>
          /\ Calm
          /\ late[i] = 0 /\ applied[i] = IF req.state = "ok" THEN 1 ELSE 0
          /\ attempt = 1 \/ requestIp = leader
          /\ req.state \in {"none", "sent", "appended", "ok", "503"}
          /\ req.state = "appended" => requestIp = leader /\ req.epoch = changes
          /\ req.state = "503" => attempt = 1 /\ req.hint = leader
          /\ pc = "find" => attempt = 1 /\ leaderIp = leader /\ requestIp = leader
    /\ CalmWritesOnce

IInv == TypeOK /\ PlaceInv /\ CountInv /\ EntryInv /\ CalmInv

-----------------------------------------------------------------------------

\* The list of nodes is not empty, and a search asks finitely many of them.
LEMMA Numbers ==
    /\ Len(NodeList) \in Nat \ {0} /\ First \in Nodes
    /\ \A k \in 1..Len(NodeList) : NodeList[k] \in Nodes
    /\ Rounds * Len(NodeList) \in Nat
    /\ NoNode \notin Nodes
<1>1. /\ NodeList \in Seq(Nodes) /\ NodeList # <<>> /\ DOMAIN NodeList = 1..Len(NodeList)
      /\ Rounds \in Nat /\ NoNode \notin Nodes
  BY NodesAssumption, BoundsAssumption
<1>2. Len(NodeList) \in Nat \ {0}
  BY <1>1
<1>3. \A k \in 1..Len(NodeList) : NodeList[k] \in Nodes
  BY <1>1
<1> QED
  BY <1>1, <1>2, <1>3 DEF First

\* A flag per write stays one when one of them is set.
LEMMA FlagIsSet ==
    \A f \in [1..Writes -> BOOLEAN], w \in 1..Writes, b \in BOOLEAN :
        [f EXCEPT ![w] = b] \in [1..Writes -> BOOLEAN]
  BY Zenon

\* The writes that were counted as one of S.
Counted(f, S) == {w \in 1..Writes : f[w] \in S}

\* One write more is counted as done, or as an error of a kind.
LEMMA CountStep ==
    ASSUME NEW S, "none" \notin S
    PROVE  \A f, g : \A w \in 1..Writes :
              f[w] = "none" /\ (\A v \in 1..Writes : v # w => g[v] = f[v]) =>
                 /\ Cardinality(Counted(f, S)) \in Nat
                 /\ Cardinality(Counted(g, S)) =
                       Cardinality(Counted(f, S)) + (IF g[w] \in S THEN 1 ELSE 0)
<1> SUFFICES ASSUME NEW f, NEW g, NEW w \in 1..Writes,
                    f[w] = "none", \A v \in 1..Writes : v # w => g[v] = f[v]
             PROVE  /\ Cardinality(Counted(f, S)) \in Nat
                    /\ Cardinality(Counted(g, S)) =
                          Cardinality(Counted(f, S)) + (IF g[w] \in S THEN 1 ELSE 0)
    OBVIOUS
<1> DEFINE old == Counted(f, S)
           new == Counted(g, S)
<1>1. IsFiniteSet(1..Writes)
  BY FS_Interval, BoundsAssumption
<1>2. IsFiniteSet(old) /\ Cardinality(old) \in Nat
  BY <1>1, FS_Subset, FS_CardinalityType DEF Counted
<1>3. w \notin old
  BY DEF Counted
<1>4. CASE g[w] \in S
  <2>1. new = old \union {w}
    BY <1>4 DEF Counted
  <2> HIDE DEF old, new
  <2>2. Cardinality(old \union {w}) = Cardinality(old) + 1
    BY <1>2, <1>3, FS_AddElement
  <2>3. Cardinality(new) = Cardinality(old) + 1
    BY <2>1, <2>2, Zenon
  <2> QED
    BY <1>2, <1>4, <2>3 DEF old, new
<1>5. CASE g[w] \notin S
  <2>1. new = old
    BY <1>5 DEF Counted
  <2> HIDE DEF old, new
  <2>2. Cardinality(new) = Cardinality(old)
    BY <2>1, Zenon
  <2> QED
    BY <1>2, <1>5, <2>2 DEF old, new
<1> QED
  BY <1>4, <1>5

LEMMA InitIInv == Init => IInv
<1> SUFFICES ASSUME Init PROVE IInv
    OBVIOUS
<1> USE DEF Init
<1>1. TypeOK
  <2>1. /\ 0 \in 0..MaxChanges /\ 0 \in 0..MaxFaults /\ 0 \in 0..Rounds * Len(NodeList)
        /\ 1 \in 1..MaxAttempts /\ 0 \in 0..MaxAttempts
    BY Numbers, BoundsAssumption DEF MaxAttempts
  <2>2. req \in [state : Waiting \union {"appended"} \union Answers,
                 epoch : 0..MaxChanges, hint : Nodes \union {NoNode}]
    BY <2>1 DEF NoReq, Waiting
  <2> QED
    BY <2>1, <2>2, Numbers DEF TypeOK
<1>2. PlaceInv
  BY DEF PlaceInv, NoReq
<1>3. CountInv
  <2>1. \A S : "none" \notin S => CountOf(S) = 0
    <3> SUFFICES ASSUME NEW S, "none" \notin S PROVE CountOf(S) = 0
        OBVIOUS
    <3>1. {w \in 1..Writes : result[w] \in S} = {}
      OBVIOUS
    <3> QED
      BY <3>1, FS_EmptySet DEF CountOf
  <2> QED
    BY <2>1 DEF CountInv, Counters, Kinds, Failures, MaxAttempts
<1>4. EntryInv
  BY BoundsAssumption DEF EntryInv, MaxAttempts
<1>5. CalmInv
  BY DEF CalmInv, CalmWritesOnce, Finished
<1> QED
  BY <1>1, <1>2, <1>3, <1>4, <1>5 DEF IInv

\* What is disturbed is the write that is under way, which is not over.
LEMMA DisturbedIsMarked ==
    ASSUME IInv, Disturbed
    PROVE  /\ unrest' \in [1..Writes -> BOOLEAN]
           /\ phase = "write" => unrest'[i]
           /\ \A w \in 1..Writes : w # i \/ phase # "write" => (unrest'[w] <=> unrest[w])
<1>1. unrest \in [1..Writes -> BOOLEAN] /\ (phase = "write" => i \in 1..Writes)
  BY DEF IInv, TypeOK, PlaceInv
<1>2. CASE phase = "write"
  <2>1. unrest' = [unrest EXCEPT ![i] = TRUE]
    BY <1>2 DEF Disturbed
  <2>2. unrest' \in [1..Writes -> BOOLEAN]
    BY <1>1, <1>2, <2>1, FlagIsSet
  <2> QED
    BY <1>1, <1>2, <2>1, <2>2, Zenon
<1>3. CASE phase # "write"
  BY <1>1, <1>3 DEF Disturbed
<1> QED
  BY <1>2, <1>3

\* The leadership moves.
LEMMA NextCluster ==
    ASSUME IInv, StepsDown \/ \E n \in Nodes : Elected(n) \/ Learns(n)
    PROVE  IInv'
<1> USE DEF clientVars, entryVars
<1>0. TypeOK /\ PlaceInv /\ CountInv /\ EntryInv /\ CalmInv
  BY DEF IInv
<1>1. UNCHANGED <<clientVars, req, entryVars, faults>> /\ Disturbed
  BY DEF StepsDown, Elected, Learns
<1>2. /\ unrest' \in [1..Writes -> BOOLEAN]
      /\ phase = "write" => unrest'[i]
      /\ \A w \in 1..Writes : w # i \/ phase # "write" => (unrest'[w] <=> unrest[w])
  BY <1>1, DisturbedIsMarked
<1>3. TypeOK'
  <2>1. /\ leader' \in Nodes \union {NoNode} /\ view' \in [Nodes -> Nodes \union {NoNode}]
        /\ changes' \in 0..MaxChanges
    <3>1. /\ leader \in Nodes \union {NoNode} /\ view \in [Nodes -> Nodes \union {NoNode}]
          /\ changes \in 0..MaxChanges /\ MaxChanges \in Nat
      BY <1>0, BoundsAssumption DEF TypeOK
    <3>2. changes' \in 0..MaxChanges
      BY <3>1 DEF StepsDown, Elected, Learns
    <3> QED
      BY <3>1, <3>2 DEF StepsDown, Elected, Learns
  <2> QED
    BY <1>0, <1>1, <1>2, <2>1 DEF TypeOK
<1>4. PlaceInv'
  BY <1>0, <1>1 DEF PlaceInv
<1>5. CountInv'
  BY <1>0, <1>1 DEF CountInv, CountOf, Now, Failures
<1>6. EntryInv'
  <2>1. Now' = Now /\ Spent' = Spent
    BY <1>1 DEF Now, Spent
  <2> QED
    BY <1>0, <1>1, <1>2, <2>1 DEF EntryInv
<1>7. CalmInv'
  <2>1. CalmWritesOnce'
    <3> SUFFICES ASSUME NEW w \in 1..Writes, result[w] # "none", ~unrest'[w]
                 PROVE  result[w] = "ok" /\ applied[w] = 1 /\ late[w] = 0
        BY <1>1 DEF CalmWritesOnce, Finished
    <3>1. w # i \/ phase # "write"
      BY <1>2
    <3> QED
      BY <1>0, <1>2, <3>1 DEF CalmInv, CalmWritesOnce, Finished
  <2> QED
    BY <1>1, <1>2, <2>1 DEF CalmInv
<1> QED
  BY <1>3, <1>4, <1>5, <1>6, <1>7 DEF IInv

\* An entry whose answer was lost is settled.
LEMMA NextLateEntry ==
    ASSUME IInv, NEW w \in 1..Writes, LateEntry(w)
    PROVE  IInv'
<1> USE DEF clusterVars, clientVars, LateEntry
<1>0. TypeOK /\ PlaceInv /\ CountInv /\ EntryInv /\ CalmInv
  BY DEF IInv
<1>1. /\ applied[w] \in Nat /\ late[w] \in Nat /\ applied[w] + late[w] <= MaxAttempts
      /\ late[w] > 0 /\ MaxAttempts \in Nat
  BY <1>0 DEF EntryInv, MaxAttempts
<1>2. /\ \A v \in 1..Writes : v # w => applied'[v] = applied[v] /\ late'[v] = late[v]
      /\ late'[w] = late[w] - 1 /\ applied'[w] \in {applied[w], applied[w] + 1}
  BY <1>0 DEF TypeOK
<1>3. TypeOK'
  <2>1. late' \in [1..Writes -> 0..MaxAttempts]
    <3>1. late[w] - 1 \in 0..MaxAttempts
      BY <1>1
    <3> QED
      BY <1>0, <3>1 DEF TypeOK
  <2>2. applied' \in [1..Writes -> 0..MaxAttempts]
    <3>1. applied[w] + 1 \in 0..MaxAttempts
      BY <1>1
    <3> QED
      BY <1>0, <3>1 DEF TypeOK
  <2> QED
    BY <1>0, <2>1, <2>2 DEF TypeOK
<1>4. PlaceInv'
  BY <1>0 DEF PlaceInv
<1>5. CountInv'
  BY <1>0 DEF CountInv, CountOf, Now, Failures
<1>6. EntryInv'
  <2>1. Now' = Now /\ (Spent' <=> Spent)
    BY DEF Now, Spent
  <2>2. ASSUME NEW v \in 1..Writes
        PROVE  /\ applied'[v] \in Nat /\ late'[v] \in Nat
               /\ applied'[v] + late'[v] <= applied[v] + late[v]
               /\ applied'[v] >= applied[v]
               /\ late[v] = 0 => applied'[v] = applied[v] /\ late'[v] = 0
    BY <1>0, <1>1, <1>2 DEF EntryInv
  <2>3. \A v \in 1..Writes : applied[v] \in Nat /\ late[v] \in Nat
    BY <1>0 DEF EntryInv
  <2>4. ASSUME NEW v \in 1..Writes
        PROVE  /\ applied'[v] \in Nat /\ late'[v] \in Nat
               /\ applied'[v] + late'[v] <= MaxAttempts
               /\ v >= Now /\ ~(phase = "write" /\ v = i) =>
                     applied'[v] = 0 /\ late'[v] = 0 /\ ~unrest[v]
               /\ result[v] = "ok" => applied'[v] >= 1
    BY <1>0, <1>1, <2>2, <2>3 DEF EntryInv
  <2>5. phase = "write" =>
          /\ applied'[i] + late'[i] <= attempt - 1 + (IF Spent THEN 1 ELSE 0)
          /\ req.state = "ok" => applied'[i] >= 1
    <3> SUFFICES ASSUME phase = "write"
                 PROVE  /\ applied'[i] + late'[i] <= attempt - 1 + (IF Spent THEN 1 ELSE 0)
                        /\ req.state = "ok" => applied'[i] >= 1
        OBVIOUS
    <3>1. i \in 1..Writes /\ attempt \in Nat
      BY <1>0 DEF PlaceInv, TypeOK, MaxAttempts
    <3> QED
      BY <1>0, <2>2, <2>3, <3>1 DEF EntryInv
  <2> QED
    BY <2>1, <2>4, <2>5 DEF EntryInv
<1>7. CalmInv'
  <2>1. phase = "write" => i \in 1..Writes
    BY <1>0 DEF PlaceInv
  <2>2. phase = "write" /\ ~unrest[i] => i # w
    BY <1>0, <1>1 DEF CalmInv
  <2>3. (Calm)' <=> Calm
    BY DEF Calm
  <2>4. CalmWritesOnce'
    BY <1>0, <1>1, <1>2 DEF CalmInv, CalmWritesOnce, Finished
  <2> QED
    BY <1>0, <1>2, <2>1, <2>2, <2>3, <2>4 DEF CalmInv
<1> QED
  BY <1>3, <1>4, <1>5, <1>6, <1>7 DEF IInv

\* What the servers and the network may do to the request that is out.
LEMMA RequestMoves ==
    ASSUME IInv, Server \/ Network
    PROVE  /\ UNCHANGED <<clusterVars, clientVars>>
           /\ faults' \in 0..MaxFaults
           /\ UNCHANGED unrest \/ Disturbed
           /\ req' \in [state : Waiting \union {"appended"} \union Answers,
                        epoch : 0..MaxChanges, hint : Nodes \union {NoNode}]
           /\ req.state \in {"sent", "appended"} /\ req'.state \in {"appended"} \union Answers
<1> USE DEF Server, Network, Fault
<1>0. TypeOK
  BY DEF IInv
<1>1. UNCHANGED <<clusterVars, clientVars>> /\ (UNCHANGED unrest \/ Disturbed)
  BY DEF Refuse, AppendEntry, Commit, LosesLeadership, ServeRead, NeverCommits, Refused, TimesOut
<1>2. faults' \in 0..MaxFaults
  <2>1. faults \in 0..MaxFaults /\ MaxFaults \in Nat
    BY <1>0, BoundsAssumption DEF TypeOK
  <2> QED
    BY <2>1
       DEF Refuse, AppendEntry, Commit, LosesLeadership, ServeRead, NeverCommits, Refused, TimesOut
<1>3. req.state \in {"sent", "appended"}
  BY DEF Refuse, AppendEntry, Commit, LosesLeadership, ServeRead, NeverCommits, Refused, TimesOut,
         StillLeads
<1>4. /\ req \in [state : Waiting \union {"appended"} \union Answers,
                  epoch : 0..MaxChanges, hint : Nodes \union {NoNode}]
      /\ changes \in 0..MaxChanges /\ 0 \in 0..MaxChanges
      /\ view[requestIp] \in Nodes \union {NoNode}
  BY <1>0, BoundsAssumption DEF TypeOK
<1>5. \/ \E what \in Answers, hint \in Nodes \union {NoNode} : Answer(what, hint)
      \/ \E e \in 0..MaxChanges :
            req' = [req EXCEPT !.state = "appended", !.epoch = e]
  <2>1. CASE AppendEntry
    BY <1>4, <2>1 DEF AppendEntry
  <2>2. CASE Refuse
    BY <1>4, <2>2 DEF Refuse, Answers, Kinds
  <2>3. CASE ~AppendEntry /\ ~Refuse
    BY <2>3
       DEF Commit, LosesLeadership, ServeRead, NeverCommits, Refused, TimesOut, Answers, Kinds
  <2> QED
    BY <2>1, <2>2, <2>3
<1>6. /\ req' \in [state : Waiting \union {"appended"} \union Answers,
                   epoch : 0..MaxChanges, hint : Nodes \union {NoNode}]
      /\ req'.state \in {"appended"} \union Answers
  BY <1>4, <1>5 DEF Answer
<1> QED
  BY <1>1, <1>2, <1>3, <1>6

\* What they do to the entries.
LEMMA EntryMoves ==
    ASSUME IInv, Server \/ Network
    PROVE  /\ \A w \in 1..Writes : w # i \/ phase # "write" =>
                 applied'[w] = applied[w] /\ late'[w] = late[w]
           /\ DOMAIN applied' = 1..Writes /\ DOMAIN late' = 1..Writes
           /\ phase = "write" =>
                 /\ applied'[i] \in {applied[i], applied[i] + 1}
                 /\ late'[i] \in {late[i], late[i] + 1}
                 /\ applied'[i] = applied[i] \/ late'[i] = late[i]
                 /\ req'.state = "appended" => applied'[i] = applied[i] /\ late'[i] = late[i]
                 /\ req'.state = "ok" => applied'[i] = applied[i] + 1 /\ late'[i] = late[i]
                 /\ req'.state = "503" => applied'[i] = applied[i] /\ late'[i] = late[i]
           /\ applied' \in [1..Writes -> Nat] /\ late' \in [1..Writes -> Nat]
<1> USE DEF Server, Network, Fault, IsWrite
<1>0. TypeOK /\ PlaceInv
  BY DEF IInv
<1>1. /\ applied \in [1..Writes -> Nat] /\ late \in [1..Writes -> Nat]
      /\ phase = "write" => i \in 1..Writes
      /\ req \in [state : Waiting \union {"appended"} \union Answers,
                  epoch : 0..MaxChanges, hint : Nodes \union {NoNode}]
  <2>1. 0..MaxAttempts \subseteq Nat
    BY DEF MaxAttempts
  <2> QED
    BY <1>0, <2>1 DEF TypeOK, PlaceInv
<1>2. CASE Refuse \/ AppendEntry \/ ServeRead \/ Refused
  <2>1. UNCHANGED <<applied, late>>
    BY <1>2 DEF Refuse, AppendEntry, ServeRead, Refused, entryVars
  <2>2. phase = "write" => req'.state # "ok"
    BY <1>1, <1>2 DEF Refuse, AppendEntry, ServeRead, Refused, Answer
  <2> QED
    BY <1>1, <2>1, <2>2
<1>3. CASE Commit
  <2>1. req'.state = "ok" /\ late' = late
        /\ applied' = IF phase = "write" THEN [applied EXCEPT ![i] = @ + 1] ELSE applied
    BY <1>1, <1>3 DEF Commit, Answer
  <2> QED
    BY <1>1, <2>1
<1>4. CASE LosesLeadership \/ TimesOut \/ NeverCommits
  <2>1. req'.state \in {"500", "timeout"} /\ applied' = applied
    BY <1>1, <1>4 DEF LosesLeadership, TimesOut, NeverCommits, Answer
  <2>2. late' = late \/ (phase = "write" /\ late' = [late EXCEPT ![i] = @ + 1])
    BY <1>4 DEF LosesLeadership, TimesOut, NeverCommits, Abandon
  <2>3. CASE late' = late
    BY <1>1, <2>1, <2>3
  <2>4. CASE phase = "write" /\ late' = [late EXCEPT ![i] = @ + 1]
    <3>1. late[i] \in Nat /\ late[i] + 1 \in Nat /\ late' \in [1..Writes -> Nat]
      BY <1>1, <2>4
    <3>2. late'[i] = late[i] + 1 /\ \A w \in 1..Writes : w # i => late'[w] = late[w]
      BY <1>1, <2>4
    <3> QED
      BY <1>1, <2>1, <2>4, <3>1, <3>2
  <2> QED
    BY <2>2, <2>3, <2>4
<1> QED
  BY <1>2, <1>3, <1>4

\* In calm, the leader commits what it is sent, and the others point to it.
LEMMA CalmRequest ==
    ASSUME IInv, Server \/ Network, phase = "write", ~unrest'[i]
    PROVE  /\ req'.state \in {"appended", "ok", "503"}
           /\ req'.state = "appended" => requestIp = leader /\ req'.epoch = changes
           /\ req'.state = "503" => attempt = 1 /\ req'.hint = leader
<1>0. TypeOK /\ PlaceInv /\ CalmInv
  BY DEF IInv
<1>1. ~Disturbed
  BY DisturbedIsMarked
<1>2. ~unrest[i] /\ unrest' = unrest
  BY <1>1, RequestMoves
<1>3. /\ leader \in Nodes /\ \A n \in Nodes : view[n] = leader
      /\ requestIp \in Nodes
      /\ attempt = 1 \/ requestIp = leader
      /\ req.state = "appended" => requestIp = leader /\ req.epoch = changes
      /\ req \in [state : Waiting \union {"appended"} \union Answers,
                  epoch : 0..MaxChanges, hint : Nodes \union {NoNode}]
  BY <1>0, <1>2 DEF CalmInv, Calm, TypeOK
<1>4. Refuse \/ AppendEntry \/ Commit
  BY <1>1, <1>3
     DEF Server, Network, Fault, LosesLeadership, ServeRead, NeverCommits, Refused, TimesOut,
         StillLeads, Claims
<1> QED
  BY <1>3, <1>4 DEF Refuse, AppendEntry, Commit, Answer, Claims

LEMMA NextRequest ==
    ASSUME IInv, Server \/ Network
    PROVE  IInv'
<1> USE DEF clusterVars, clientVars
<1>0. TypeOK /\ PlaceInv /\ CountInv /\ EntryInv /\ CalmInv
  BY DEF IInv
<1>1. /\ UNCHANGED <<clusterVars, clientVars>>
      /\ faults' \in 0..MaxFaults
      /\ UNCHANGED unrest \/ Disturbed
      /\ req' \in [state : Waiting \union {"appended"} \union Answers,
                   epoch : 0..MaxChanges, hint : Nodes \union {NoNode}]
      /\ req.state \in {"sent", "appended"} /\ req'.state \in {"appended"} \union Answers
  BY RequestMoves
<1>2. /\ unrest' \in [1..Writes -> BOOLEAN]
      /\ phase = "write" /\ ~unrest'[i] => ~unrest[i]
      /\ \A w \in 1..Writes : w # i \/ phase # "write" => (unrest'[w] <=> unrest[w])
  <2>1. CASE UNCHANGED unrest
    BY <1>0, <2>1 DEF TypeOK
  <2>2. CASE Disturbed
    BY <2>2, DisturbedIsMarked
  <2> QED
    BY <1>1, <2>1, <2>2
<1>3. pc = "await" /\ (phase = "write" => i \in 1..Writes)
  BY <1>0, <1>1 DEF PlaceInv
<1>4. PlaceInv'
  BY <1>0, <1>1, <1>3 DEF PlaceInv, Answers, Kinds
<1>5. CountInv'
  <2>1. UNCHANGED <<phase, i, attempt, pc, recovered, counts, result>>
    BY <1>1
  <2> QED
    BY <1>0, <2>1 DEF CountInv, CountOf, Now, Failures
<1>6. EntryInv'
  <2>1. /\ Now' = Now /\ ~Spent /\ (Spent' <=> req'.state \in Answers)
    BY <1>1, <1>3 DEF Now, Spent, Answers, Kinds
  <2>2. ASSUME NEW w \in 1..Writes
        PROVE  /\ applied'[w] \in Nat /\ late'[w] \in Nat
               /\ applied'[w] + late'[w] <= MaxAttempts
               /\ w >= Now /\ ~(phase = "write" /\ w = i) =>
                     applied'[w] = 0 /\ late'[w] = 0 /\ ~unrest'[w]
               /\ result[w] = "ok" => applied'[w] >= 1
    <3>1. /\ applied[w] \in Nat /\ late[w] \in Nat
          /\ applied[w] + late[w] <= MaxAttempts
          /\ w >= Now /\ ~(phase = "write" /\ w = i) =>
                applied[w] = 0 /\ late[w] = 0 /\ ~unrest[w]
          /\ result[w] = "ok" => applied[w] >= 1
      BY <1>0 DEF EntryInv
    <3>2. CASE phase = "write" /\ w = i
      <4>1. applied[i] + late[i] <= attempt - 1 /\ attempt \in 1..MaxAttempts
            /\ MaxAttempts \in Nat
        BY <1>0, <2>1, <3>2 DEF EntryInv, TypeOK, MaxAttempts
      <4> QED
        BY <3>1, <3>2, <4>1, EntryMoves
    <3>3. CASE ~(phase = "write" /\ w = i)
      BY <1>2, <3>1, <3>3, EntryMoves
    <3> QED
      BY <3>2, <3>3
  <2>3. phase = "write" =>
          /\ applied'[i] + late'[i] <= attempt - 1 + (IF req'.state \in Answers THEN 1 ELSE 0)
          /\ req'.state = "ok" => applied'[i] >= 1
    <3> SUFFICES ASSUME phase = "write"
                 PROVE  /\ applied'[i] + late'[i] <= attempt - 1 +
                                                   (IF req'.state \in Answers THEN 1 ELSE 0)
                        /\ req'.state = "ok" => applied'[i] >= 1
        OBVIOUS
    <3>1. /\ applied[i] \in Nat /\ late[i] \in Nat /\ attempt \in Nat
          /\ applied[i] + late[i] <= attempt - 1
      BY <1>0, <1>3, <2>1 DEF EntryInv, TypeOK, MaxAttempts
    <3>2. req'.state \in Answers \/ req'.state = "appended"
      BY <1>1
    <3> QED
      BY <3>1, <3>2, EntryMoves
  <2> QED
    BY <1>1, <2>1, <2>2, <2>3 DEF EntryInv
<1>7. TypeOK'
  <2>1. ASSUME NEW w \in 1..Writes
        PROVE  applied'[w] \in 0..MaxAttempts /\ late'[w] \in 0..MaxAttempts
    BY <1>6 DEF EntryInv, MaxAttempts
  <2>2. applied' \in [1..Writes -> 0..MaxAttempts] /\ late' \in [1..Writes -> 0..MaxAttempts]
    BY <2>1, EntryMoves
  <2> QED
    BY <1>0, <1>1, <1>2, <2>2 DEF TypeOK
<1>8. CalmInv'
  <2>1. CalmWritesOnce'
    <3> SUFFICES ASSUME NEW w \in 1..Writes, result[w] # "none", ~unrest'[w]
                 PROVE  result[w] = "ok" /\ applied'[w] = 1 /\ late'[w] = 0
        BY <1>1 DEF CalmWritesOnce, Finished
    <3>1. w # i \/ phase # "write"
      BY <1>0, <1>3 DEF CountInv, Now
    <3> QED
      BY <1>0, <1>2, <3>1, EntryMoves DEF CalmInv, CalmWritesOnce, Finished
  <2>2. ASSUME phase = "write", ~unrest'[i]
        PROVE  /\ Calm /\ (attempt = 1 \/ requestIp = leader)
               /\ late'[i] = 0 /\ applied'[i] = IF req'.state = "ok" THEN 1 ELSE 0
    <3>1. /\ Calm /\ (attempt = 1 \/ requestIp = leader)
          /\ late[i] = 0 /\ applied[i] = 0
      BY <1>0, <1>1, <1>2, <2>2 DEF CalmInv
    <3>2. req'.state \in {"appended", "ok", "503"}
      BY <2>2, CalmRequest
    <3> QED
      BY <2>2, <3>1, <3>2, EntryMoves
  <2>3. (Calm)' <=> Calm
    BY <1>1 DEF Calm
  <2> QED
    BY <1>1, <1>3, <2>1, <2>2, <2>3, CalmRequest DEF CalmInv
<1> QED
  BY <1>4, <1>5, <1>6, <1>7, <1>8 DEF IInv

-----------------------------------------------------------------------------
(* The client.                                                             *)

\* What an operation leaves to the next one.
Fresh(target) ==
    /\ pc' = "send" /\ attempt' = 1 /\ ~recovered' /\ recovered' \in BOOLEAN
    /\ requestIp' = target
    /\ phase' \in {"write", "latency", "seed", "read", "done"} /\ i' \in Nat
    /\ phase' = "write" =>
          /\ phase = "write" /\ i' = i + 1 /\ i' \in 1..Writes
          /\ unrest' = [unrest EXCEPT ![i'] = ~Calm]
    /\ phase' # "write" =>
          /\ unrest' = unrest
          /\ phase = "write" => i = Writes

LEMMA OperationEnds ==
    ASSUME IInv, NEW target \in Nodes, NextOperation(target),
           phase \in {"write", "latency", "seed", "read"}
    PROVE  Fresh(target)
<1>1. i \in Nat /\ (phase = "write" => i \in 1..Writes) /\ Writes \in Nat
  BY BoundsAssumption DEF IInv, TypeOK, PlaceInv
<1>2. /\ pc' = "send" /\ attempt' = 1 /\ recovered' = FALSE /\ requestIp' = target
      /\ phase' = IF i >= SizeOf[phase] THEN PhaseAfter[phase] ELSE phase
      /\ i' = IF i >= SizeOf[phase] THEN 1 ELSE i + 1
      /\ unrest' = IF phase' = "write" THEN [unrest EXCEPT ![i'] = ~Calm] ELSE unrest
  BY DEF NextOperation
<1>5. /\ phase' = "write" => unrest' = [unrest EXCEPT ![i'] = ~Calm]
      /\ phase' # "write" => unrest' = unrest
      /\ ~recovered' /\ recovered' \in BOOLEAN
  BY <1>2, Zenon
<1>3. CASE phase = "write"
  <2>1. SizeOf[phase] = Writes /\ PhaseAfter[phase] = "latency"
    BY <1>3 DEF SizeOf, PhaseAfter
  <2>2. /\ pc' = "send" /\ attempt' = 1 /\ requestIp' = target
        /\ phase' \in {"write", "latency"} /\ i' \in Nat
        /\ phase' = "write" => i' = i + 1 /\ i' \in 1..Writes
        /\ phase' # "write" => i = Writes
    BY <1>1, <1>2, <1>3, <2>1
  <2> QED
    BY <1>3, <1>5, <2>2 DEF Fresh
<1>4. CASE phase \in {"latency", "seed", "read"}
  <2>1. PhaseAfter[phase] \in {"seed", "read", "done"}
    BY <1>4 DEF PhaseAfter
  <2>2. /\ pc' = "send" /\ attempt' = 1 /\ requestIp' = target
        /\ phase' \in {"latency", "seed", "read", "done"} /\ i' \in Nat
    BY <1>1, <1>2, <1>4, <2>1
  <2> QED
    BY <1>4, <1>5, <2>2 DEF Fresh
<1> QED
  BY <1>3, <1>4

\* The next write starts with nothing behind it.
LEMMA FreshUnrest ==
    ASSUME IInv, NEW target \in Nodes, Fresh(target)
    PROVE  /\ unrest' \in [1..Writes -> BOOLEAN]
           /\ phase' = "write" => (unrest'[i'] <=> ~Calm)
           /\ \A w \in 1..Writes : w # i' \/ phase' # "write" => (unrest'[w] <=> unrest[w])
<1>1. unrest \in [1..Writes -> BOOLEAN] /\ Calm \in BOOLEAN
  BY DEF IInv, TypeOK, Calm
<1>2. CASE phase' = "write"
  <2>1. PICK j \in 1..Writes : j = i'
    BY <1>2 DEF Fresh
  <2>2. unrest' = [unrest EXCEPT ![j] = ~Calm]
    BY <1>2, <2>1 DEF Fresh
  <2>3. unrest' \in [1..Writes -> BOOLEAN]
    BY <1>1, <2>2, FlagIsSet
  <2>4. (unrest'[j] <=> ~Calm) /\ \A w \in 1..Writes : w # j => (unrest'[w] <=> unrest[w])
    BY <1>1, <2>2, Zenon
  <2> QED
    BY <1>2, <2>1, <2>3, <2>4
<1>3. CASE phase' # "write"
  BY <1>1, <1>3 DEF Fresh
<1> QED
  BY <1>2, <1>3

LEMMA NextSend ==
    ASSUME IInv, Send
    PROVE  IInv'
<1> USE DEF clusterVars, entryVars
<1>0. TypeOK /\ PlaceInv /\ CountInv /\ EntryInv /\ CalmInv
  BY DEF IInv
<1>1. /\ req' = [state |-> "sent", epoch |-> 0, hint |-> NoNode] /\ pc' = "await"
      /\ UNCHANGED <<clusterVars, faults, phase, i, attempt, asked, leaderIp, requestIp,
                     recovered, counts, result, unrest, entryVars>>
      /\ pc = "send" /\ phase # "done"
  BY DEF Send, NoReq
<1>2. req.state = "none" /\ req'.state = "sent"
  BY <1>0, <1>1 DEF PlaceInv
<1>3. TypeOK'
  <2>1. 0 \in 0..MaxChanges
    BY BoundsAssumption
  <2>2. req' \in [state : Waiting \union {"appended"} \union Answers,
                  epoch : 0..MaxChanges, hint : Nodes \union {NoNode}]
    BY <1>1, <2>1 DEF Waiting
  <2> QED
    BY <1>0, <1>1, <2>2 DEF TypeOK
<1>4. PlaceInv'
  <2>1. /\ pc' = "await" /\ pc = "send" /\ phase # "done"
        /\ UNCHANGED <<phase, i, attempt, recovered>>
    BY <1>1
  <2> QED
    BY <1>0, <1>2, <2>1 DEF PlaceInv
<1>5. CountInv'
  BY <1>0, <1>1 DEF CountInv, CountOf, Now, Failures
<1>6. EntryInv'
  <2>1. Now' = Now /\ (Spent' <=> Spent) /\ req'.state # "ok"
    BY <1>1 DEF Now, Spent, Answers, Kinds
  <2> QED
    BY <1>0, <1>1, <2>1 DEF EntryInv
<1>7. CalmInv'
  <2>1. CalmWritesOnce' /\ ((Calm)' <=> Calm)
    BY <1>0, <1>1 DEF CalmInv, CalmWritesOnce, Finished, Calm
  <2> QED
    BY <1>0, <1>1, <1>2, <2>1 DEF CalmInv
<1> QED
  BY <1>3, <1>4, <1>5, <1>6, <1>7 DEF IInv

\* The end of a search: the first one starts the writes, the others give the
\* operation up or try it again.
Found(ip) ==
    LET target == IF ip = NoNode THEN requestIp ELSE ip
    IN \/ /\ phase = "start" /\ phase' = "write" /\ pc' = "send"
          /\ leaderIp' = target /\ requestIp' = target
          /\ unrest' = [unrest EXCEPT ![1] = ~Calm]
          /\ UNCHANGED <<i, attempt, recovered>>
       \/ /\ phase \in {"latency", "seed", "read"}
          /\ leaderIp' = ip
          /\ Fresh(target)
       \/ /\ phase \in {"write", "seed"} /\ pc = "find"
          /\ phase = "seed" => attempt < SeedAttempts
          /\ pc' = "send" /\ attempt' = attempt + 1
          /\ leaderIp' = ip /\ requestIp' = target
          /\ UNCHANGED <<phase, i, recovered, unrest>>

LEMMA SearchEnds ==
    ASSUME IInv, NEW ip \in Nodes \union {NoNode}, AfterSearch(ip), pc \in {"search", "find"}
    PROVE  Found(ip)
<1> DEFINE target == IF ip = NoNode THEN requestIp ELSE ip
<1>0. TypeOK /\ PlaceInv /\ target \in Nodes
  BY DEF IInv, TypeOK
<1>1. CASE pc = "search"
  BY <1>0, <1>1 DEF AfterSearch, Found, PlaceInv
<1>2. CASE pc = "find" /\ phase \in {"latency", "read"}
  <2>1. leaderIp' = ip /\ NextOperation(target)
    BY <1>2 DEF AfterSearch
  <2> HIDE DEF target
  <2>2. Fresh(target)
    BY <1>0, <1>2, <2>1, OperationEnds
  <2> QED
    BY <1>2, <2>1, <2>2 DEF Found, target
<1>3. CASE pc = "find" /\ phase = "seed" /\ attempt = SeedAttempts
  <2>1. leaderIp' = ip /\ NextOperation(target)
    BY <1>3 DEF AfterSearch
  <2> HIDE DEF target
  <2>2. Fresh(target)
    BY <1>0, <1>3, <2>1, OperationEnds
  <2> QED
    BY <1>3, <2>1, <2>2 DEF Found, target
<1>4. CASE /\ pc = "find" /\ phase \notin {"latency", "read"}
           /\ ~(phase = "seed" /\ attempt = SeedAttempts)
  <2>1. /\ pc' = "send" /\ attempt' = attempt + 1
        /\ leaderIp' = ip /\ requestIp' = target
        /\ UNCHANGED <<phase, i, recovered, unrest>>
    BY <1>4 DEF AfterSearch
  <2>2. phase \in {"write", "seed"} /\ (phase = "seed" => attempt < SeedAttempts)
    BY <1>0, <1>4 DEF PlaceInv, TypeOK, SeedAttempts, MaxAttempts
  <2> QED
    BY <1>4, <2>1, <2>2 DEF Found
<1> QED
  BY <1>1, <1>2, <1>3, <1>4

\* The first write starts with nothing behind it.
LEMMA FoundUnrest ==
    ASSUME IInv, NEW ip \in Nodes \union {NoNode}, Found(ip)
    PROVE  /\ unrest' \in [1..Writes -> BOOLEAN]
           /\ phase = "start" => (unrest'[1] <=> ~Calm)
           /\ \A w \in 1..Writes : w # 1 \/ phase # "start" => (unrest'[w] <=> unrest[w])
<1>0. unrest \in [1..Writes -> BOOLEAN] /\ Calm \in BOOLEAN /\ 1 \in 1..Writes
  BY BoundsAssumption DEF IInv, TypeOK, Calm
<1>1. CASE phase = "start"
  <2>1. unrest' = [unrest EXCEPT ![1] = ~Calm]
    BY <1>1 DEF Found
  <2>2. unrest' \in [1..Writes -> BOOLEAN]
    BY <1>0, <2>1, FlagIsSet
  <2> QED
    BY <1>0, <1>1, <2>1, <2>2, Zenon
<1>2. CASE phase # "start"
  <2>1. unrest' = unrest
    BY <1>2 DEF Found, Fresh
  <2> QED
    BY <1>0, <1>2, <2>1
<1> QED
  BY <1>1, <1>2

\* A search that is over.
LEMMA NextFound ==
    ASSUME IInv, NEW ip \in Nodes \union {NoNode}, Found(ip),
           pc \in {"search", "find"}, asked' = 0,
           pc = "search" => ip \in Nodes,
           phase = "write" /\ ~unrest[i] => ip = leader,
           UNCHANGED <<clusterVars, faults, req, counts, result, entryVars>>
    PROVE  IInv'
<1> USE DEF clusterVars, entryVars
<1>0. TypeOK /\ PlaceInv /\ CountInv /\ EntryInv /\ CalmInv
  BY DEF IInv
<1>1. /\ unrest' \in [1..Writes -> BOOLEAN]
      /\ phase = "start" => (unrest'[1] <=> ~Calm)
      /\ \A w \in 1..Writes : w # 1 \/ phase # "start" => (unrest'[w] <=> unrest[w])
  BY FoundUnrest
<1>2. /\ req.state = "none" /\ pc' = "send"
      /\ attempt \in 1..MaxAttempts /\ i \in Nat /\ recovered \in BOOLEAN
      /\ requestIp \in Nodes /\ 1 \in 1..Writes /\ Writes \in Nat
  BY <1>0, BoundsAssumption DEF PlaceInv, Found, Fresh, TypeOK
<1>3. \/ /\ phase = "start" /\ phase' = "write" /\ i = 1 /\ i' = 1
         /\ attempt = 1 /\ attempt' = 1 /\ ~recovered /\ ~recovered'
      \/ /\ phase \notin {"start", "write"} /\ phase' \notin {"start", "write"}
         /\ phase' \in {"latency", "seed", "read", "done"} /\ i' \in Nat
         /\ attempt' \in 1..SeedAttempts
      \/ /\ phase = "write" /\ phase' = "write" /\ i' = i /\ pc = "find"
         /\ attempt < MaxAttempts /\ attempt' = attempt + 1
         /\ requestIp' = (IF ip = NoNode THEN requestIp ELSE ip)
         /\ UNCHANGED <<recovered, unrest>>
  <2>1. CASE phase = "start"
    BY <1>0, <2>1 DEF Found, PlaceInv
  <2>2. CASE phase = "write"
    BY <1>0, <2>2 DEF Found, PlaceInv
  <2>3. CASE phase \notin {"start", "write"}
    <3>1. CASE Fresh(IF ip = NoNode THEN requestIp ELSE ip)
      BY <2>3, <3>1 DEF Fresh, SeedAttempts
    <3>2. CASE /\ phase = "seed" /\ attempt < SeedAttempts /\ attempt' = attempt + 1
               /\ UNCHANGED <<phase, i, recovered, unrest>>
      BY <1>2, <3>2 DEF SeedAttempts, MaxAttempts
    <3> QED
      BY <2>3, <3>1, <3>2 DEF Found
  <2> QED
    BY <2>1, <2>2, <2>3
<1>4. /\ leaderIp' \in Nodes \union {NoNode} /\ requestIp' \in Nodes
      /\ recovered' \in BOOLEAN
  BY <1>2 DEF Found, Fresh
<1>5. TypeOK'
  <2>1. attempt' \in 1..MaxAttempts
    BY <1>2, <1>3 DEF MaxAttempts, SeedAttempts
  <2>2. phase' \in {"start", "write", "latency", "seed", "read", "done"} /\ i' \in Nat
    BY <1>2, <1>3
  <2>3. asked' \in 0..Rounds * Len(NodeList)
    BY Numbers
  <2> QED
    BY <1>0, <1>1, <1>2, <1>4, <2>1, <2>2, <2>3 DEF TypeOK
<1>6. PlaceInv'
  BY <1>0, <1>2, <1>3 DEF PlaceInv, SeedAttempts
<1>7. Now' = Now /\ (phase' = "write" => Failures' = Failures)
  BY <1>2, <1>3 DEF Now, Failures, MaxAttempts
<1>8. CountInv'
  <2>1. phase' # "write" => Failures' = 0 /\ Failures = 0 /\ phase # "write"
    BY <1>3 DEF Failures
  <2>2. recovered' => (Failures' > 0 \/ phase' # "write")
    BY <1>0, <1>3, <1>7, <2>1 DEF CountInv
  <2> QED
    BY <1>0, <1>7, <2>1, <2>2 DEF CountInv, CountOf
<1>9. EntryInv'
  <2>1. ASSUME NEW w \in 1..Writes
        PROVE  w >= Now' /\ ~(phase' = "write" /\ w = i') =>
                 applied[w] = 0 /\ late[w] = 0 /\ ~unrest'[w]
    BY <1>0, <1>1, <1>3, <1>7 DEF EntryInv
  <2>2. phase' = "write" => applied[i'] + late[i'] <= attempt' - 1 + (IF Spent' THEN 1 ELSE 0)
    <3>1. ~Spent'
      BY <1>2 DEF Spent
    <3>2. CASE phase = "start" /\ phase' = "write"
      <4>1. applied[1] = 0 /\ late[1] = 0
        BY <1>0, <1>2, <3>2 DEF EntryInv, Now
      <4> QED
        BY <1>3, <3>1, <3>2, <4>1
    <3>3. CASE phase = "write"
      <4>1. Spent
        BY <1>3, <3>3 DEF Spent
      <4> QED
        BY <1>0, <1>2, <1>3, <3>1, <3>3, <4>1 DEF EntryInv, MaxAttempts
    <3> QED
      BY <1>3, <3>2, <3>3
  <2> QED
    BY <1>0, <1>2, <1>3, <2>1, <2>2 DEF EntryInv
<1>10. CalmInv'
  <2>1. CalmWritesOnce'
    <3> SUFFICES ASSUME NEW w \in 1..Writes, result[w] # "none", ~unrest'[w]
                 PROVE  result[w] = "ok" /\ applied[w] = 1 /\ late[w] = 0
        BY DEF CalmWritesOnce, Finished
    <3>1. w # 1 \/ phase # "start"
      BY <1>0, <1>2 DEF CountInv, Now
    <3> QED
      BY <1>0, <1>1, <3>1 DEF CalmInv, CalmWritesOnce, Finished
  <2>2. ASSUME phase' = "write", ~unrest'[i']
        PROVE  /\ Calm /\ applied[i'] = 0 /\ late[i'] = 0
               /\ attempt' = 1 \/ requestIp' = leader
    <3>1. CASE phase = "start"
      <4>1. applied[1] = 0 /\ late[1] = 0
        BY <1>0, <1>2, <3>1 DEF EntryInv, Now
      <4> QED
        BY <1>1, <1>3, <2>2, <3>1, <4>1
    <3>2. CASE phase = "write"
      <4>1. ~unrest[i] /\ i' = i /\ ip = leader
        BY <1>3, <2>2, <3>2
      <4>2. Calm /\ late[i] = 0 /\ applied[i] = 0 /\ leader # NoNode
        BY <1>0, <1>2, <3>2, <4>1 DEF CalmInv, Calm
      <4> QED
        BY <1>3, <3>2, <4>1, <4>2
    <3> QED
      BY <1>3, <2>2, <3>1, <3>2
  <2>3. (Calm)' <=> Calm
    BY DEF Calm
  <2> QED
    BY <1>2, <2>1, <2>2, <2>3 DEF CalmInv
<1> QED
  BY <1>5, <1>6, <1>8, <1>9, <1>10 DEF IInv

\* A search asks one node more, or is over.
LEMMA NextSearch ==
    ASSUME IInv, AskStatus \/ NotFound
    PROVE  IInv'
<1> USE DEF clusterVars, entryVars
<1>0. TypeOK /\ PlaceInv /\ CountInv /\ EntryInv /\ CalmInv
  BY DEF IInv
<1>1. /\ pc \in {"search", "find"}
      /\ UNCHANGED <<clusterVars, req, counts, result, entryVars>>
  BY DEF AskStatus, NotFound
<1>2. phase = "write" /\ ~unrest[i] => Calm /\ leaderIp = leader
  BY <1>0, <1>1 DEF PlaceInv, CalmInv
<1>3. CASE NotFound
  <2> DEFINE ip == IF pc = "search" THEN First ELSE leaderIp
  <2>1. ip \in Nodes \union {NoNode} /\ (pc = "search" => ip \in Nodes)
    BY <1>0, Numbers DEF TypeOK
  <2>2. AfterSearch(ip) /\ asked' = 0 /\ UNCHANGED faults
    BY <1>3 DEF NotFound
  <2>3. phase = "write" /\ ~unrest[i] => ip = leader
    BY <1>0, <1>2 DEF PlaceInv
  <2> HIDE DEF ip
  <2> QED
    BY <1>1, <2>1, <2>2, <2>3, SearchEnds, NextFound
<1>4. CASE AskStatus
  <2> DEFINE n == NodeList[(asked % Len(NodeList)) + 1]
  <2>1. n \in Nodes
    <3>1. asked % Len(NodeList) \in 0..Len(NodeList) - 1
      BY <1>0, Numbers DEF TypeOK
    <3>2. (asked % Len(NodeList)) + 1 \in 1..Len(NodeList)
      BY <3>1, Numbers
    <3> QED
      BY <3>2, Numbers
  <2>2. \/ Claims(n) /\ AfterSearch(n) /\ asked' = 0 /\ UNCHANGED faults
        \/ /\ asked' = asked + 1 /\ asked < Rounds * Len(NodeList)
           /\ UNCHANGED <<phase, i, attempt, pc, leaderIp, requestIp, recovered>>
           /\ UNCHANGED <<faults, unrest>> \/ Fault
    BY <1>4 DEF AskStatus
  <2> HIDE DEF n
  <2>3. CASE Claims(n) /\ AfterSearch(n) /\ asked' = 0 /\ UNCHANGED faults
    <3>1. phase = "write" /\ ~unrest[i] => n = leader
      BY <1>2, <2>1, <2>3 DEF Calm, Claims
    <3> QED
      BY <1>1, <2>1, <2>3, <3>1, SearchEnds, NextFound
  <2>4. CASE /\ asked' = asked + 1 /\ asked < Rounds * Len(NodeList)
             /\ UNCHANGED <<phase, i, attempt, pc, leaderIp, requestIp, recovered>>
             /\ UNCHANGED <<faults, unrest>> \/ Fault
    <3>1. /\ unrest' \in [1..Writes -> BOOLEAN]
          /\ phase = "write" /\ ~unrest'[i] => ~unrest[i]
          /\ \A w \in 1..Writes : w # i \/ phase # "write" => (unrest'[w] <=> unrest[w])
      <4>1. CASE UNCHANGED unrest
        BY <1>0, <4>1 DEF TypeOK
      <4>2. CASE Disturbed
        BY <4>2, DisturbedIsMarked
      <4> QED
        BY <2>4, <4>1, <4>2 DEF Fault
    <3>2. faults' \in 0..MaxFaults
      <4>1. faults \in 0..MaxFaults /\ MaxFaults \in Nat
        BY <1>0, BoundsAssumption DEF TypeOK
      <4> QED
        BY <2>4, <4>1 DEF Fault
    <3>3. asked' \in 0..Rounds * Len(NodeList)
      <4>1. asked \in 0..Rounds * Len(NodeList) /\ Rounds * Len(NodeList) \in Nat
        BY <1>0, Numbers DEF TypeOK
      <4> QED
        BY <2>4, <4>1
    <3>4. TypeOK'
      BY <1>0, <1>1, <2>4, <3>1, <3>2, <3>3 DEF TypeOK
    <3>5. PlaceInv'
      BY <1>0, <1>1, <2>4 DEF PlaceInv
    <3>6. CountInv'
      BY <1>0, <1>1, <2>4 DEF CountInv, CountOf, Now, Failures
    <3>7. EntryInv'
      <4>1. Now' = Now /\ (Spent' <=> Spent)
        BY <1>1, <2>4 DEF Now, Spent
      <4> QED
        BY <1>0, <1>1, <2>4, <3>1, <4>1 DEF EntryInv
    <3>8. CalmInv'
      <4>1. CalmWritesOnce'
        <5> SUFFICES ASSUME NEW w \in 1..Writes, result[w] # "none", ~unrest'[w]
                     PROVE  result[w] = "ok" /\ applied[w] = 1 /\ late[w] = 0
            BY <1>1 DEF CalmWritesOnce, Finished
        <5>1. w # i \/ phase # "write"
          BY <1>0 DEF CountInv, Now, PlaceInv
        <5> QED
          BY <1>0, <3>1, <5>1 DEF CalmInv, CalmWritesOnce, Finished
      <4>2. (Calm)' <=> Calm
        BY <1>1 DEF Calm
      <4> QED
        BY <1>0, <1>1, <2>4, <3>1, <4>1, <4>2 DEF CalmInv
    <3> QED
      BY <3>4, <3>5, <3>6, <3>7, <3>8 DEF IInv
  <2> QED
    BY <2>2, <2>3, <2>4
<1> QED
  BY <1>3, <1>4

\* A request that is answered is put away.
LEMMA PutAway ==
    req' = NoReq => /\ req'.state = "none"
                    /\ req' \in [state : Waiting \union {"appended"} \union Answers,
                                 epoch : 0..MaxChanges, hint : Nodes \union {NoNode}]
<1>1. 0 \in 0..MaxChanges
  BY BoundsAssumption
<1> QED
  BY <1>1 DEF NoReq, Waiting

\* The counters stay numbers.
LEMMA BumpCounts ==
    ASSUME TypeOK, NEW cs, Bump(cs)
    PROVE  /\ counts' \in [Counters -> Nat]
           /\ \A c \in Counters : /\ counts[c] \in Nat
                                  /\ c \in cs => counts'[c] = counts[c] + 1
                                  /\ c \notin cs => counts'[c] = counts[c]
  BY DEF TypeOK, Bump

LEMMA TargetIsNode == TypeOK => Target \in Nodes
  BY Numbers DEF TypeOK, Target

\* A write is over, done or given up.
LEMMA NextWriteOver ==
    ASSUME IInv, WriteOk \/ WriteFails
    PROVE  IInv'
<1> USE DEF clusterVars, entryVars
<1> DEFINE s == req.state
           cs == IF req.state = "ok" THEN {"ok"} \union IF recovered THEN {"retry_recovered"} ELSE {}
                                     ELSE {"errors", req.state}
<1>0. TypeOK /\ PlaceInv /\ CountInv /\ EntryInv /\ CalmInv
  BY DEF IInv
<1>1. /\ phase = "write" /\ pc = "await" /\ s \in Answers
      /\ Bump(cs) /\ result' = [result EXCEPT ![i] = s]
      /\ NextOperation(Target) /\ req' = NoReq
      /\ s = "ok" \/ attempt = MaxAttempts
      /\ UNCHANGED <<clusterVars, faults, asked, leaderIp, entryVars>>
  BY DEF WriteOk, WriteFails, Received, IsWrite
<1>2. Fresh(Target) /\ Target \in Nodes
  BY <1>0, <1>1, TargetIsNode, OperationEnds
<1>3. /\ unrest' \in [1..Writes -> BOOLEAN]
      /\ phase' = "write" => (unrest'[i'] <=> ~Calm)
      /\ \A w \in 1..Writes : w # i' \/ phase' # "write" => (unrest'[w] <=> unrest[w])
  BY <1>2, FreshUnrest
<1>4. /\ i \in 1..Writes /\ Writes \in Nat /\ Now = i /\ result[i] = "none"
      /\ result \in [1..Writes -> Answers \union {"none"}]
  BY <1>0, <1>1, BoundsAssumption DEF PlaceInv, Now, CountInv, TypeOK
<1>5. Now' = i + 1
  BY <1>1, <1>2, <1>4 DEF Fresh, Now
<1>6. /\ counts' \in [Counters -> Nat]
      /\ \A c \in Counters : /\ counts[c] \in Nat
                             /\ c \in cs => counts'[c] = counts[c] + 1
                             /\ c \notin cs => counts'[c] = counts[c]
  BY <1>0, <1>1, BumpCounts
<1>7. /\ result'[i] = s /\ \A w \in 1..Writes : w # i => result'[w] = result[w]
      /\ result' \in [1..Writes -> Answers \union {"none"}]
  BY <1>1, <1>4
<1>8. TypeOK'
  <2>1. /\ attempt' \in 1..MaxAttempts /\ pc' \in {"search", "send", "await", "find"}
        /\ requestIp' \in Nodes /\ recovered' \in BOOLEAN /\ i' \in Nat
        /\ phase' \in {"start", "write", "latency", "seed", "read", "done"}
    BY <1>2 DEF Fresh, MaxAttempts
  <2> QED
    BY <1>0, <1>1, <1>3, <1>6, <1>7, <2>1, PutAway DEF TypeOK
<1>9. PlaceInv'
  BY <1>1, <1>2, PutAway DEF Fresh, PlaceInv, SeedAttempts
<1>10. CountInv'
  <2>1. \A w \in 1..Writes : w >= Now' => result'[w] = "none"
    BY <1>0, <1>4, <1>5, <1>7 DEF CountInv
  <2>2. ASSUME NEW k \in {"ok"} \union Kinds PROVE counts'[k] = CountOf({k})'
    <3>1. k \in Counters /\ k # "none" /\ (k \in cs <=> k = s)
      BY <1>1 DEF Counters, Answers, Kinds
    <3>2. /\ CountOf({k}) \in Nat
          /\ CountOf({k})' = CountOf({k}) + (IF s \in {k} THEN 1 ELSE 0)
      <4> HIDE DEF s, cs
      <4>1. PICK g \in [1..Writes -> Answers \union {"none"}] : g = result'
        BY <1>7
      <4>3. /\ g[i] = s /\ \A w \in 1..Writes : w # i => g[w] = result[w]
            /\ "none" \notin {k}
        BY <1>7, <3>1, <4>1
      <4>2. /\ Cardinality(Counted(result, {k})) \in Nat
            /\ Cardinality(Counted(g, {k})) =
                  Cardinality(Counted(result, {k})) + (IF s \in {k} THEN 1 ELSE 0)
        BY <1>4, <4>3, CountStep
      <4> QED
        BY <4>1, <4>2 DEF CountOf, Counted
    <3> HIDE DEF s, cs
    <3> QED
      BY <1>0, <1>6, <3>1, <3>2 DEF CountInv
  <2>3. counts'["errors"] = CountOf(Kinds)'
    <3>1. "errors" \in Counters /\ ("errors" \in cs <=> s \in Kinds) /\ "none" \notin Kinds
      BY <1>1 DEF Counters, Answers, Kinds
    <3>2. /\ CountOf(Kinds) \in Nat
          /\ CountOf(Kinds)' = CountOf(Kinds) + (IF s \in Kinds THEN 1 ELSE 0)
      <4> HIDE DEF s, cs
      <4>1. PICK g \in [1..Writes -> Answers \union {"none"}] : g = result'
        BY <1>7
      <4>3. /\ g[i] = s /\ \A w \in 1..Writes : w # i => g[w] = result[w]
            /\ "none" \notin Kinds
        BY <1>7, <3>1, <4>1
      <4>2. /\ Cardinality(Counted(result, Kinds)) \in Nat
            /\ Cardinality(Counted(g, Kinds)) =
                  Cardinality(Counted(result, Kinds)) + (IF s \in Kinds THEN 1 ELSE 0)
        BY <1>4, <4>3, CountStep
      <4> QED
        BY <4>1, <4>2 DEF CountOf, Counted
    <3> HIDE DEF s, cs
    <3> QED
      BY <1>0, <1>6, <3>1, <3>2 DEF CountInv
  <2>4. /\ counts'["retry_recovered"] <= counts'["ok"]
        /\ counts'["retry_recovered"] + (MaxAttempts - 1) * counts'["errors"] + Failures'
               <= counts'["retries"]
    <3>1. {"ok", "errors", "retries", "retry_recovered"} \subseteq Counters
      BY DEF Counters
    <3>2. /\ "retries" \notin cs /\ ("ok" \in cs <=> s = "ok") /\ ("errors" \in cs <=> s # "ok")
          /\ "retry_recovered" \in cs <=> s = "ok" /\ recovered
      BY <1>1 DEF Answers, Kinds
    <3>3. /\ counts["retry_recovered"] <= counts["ok"]
          /\ counts["retry_recovered"] + 3 * counts["errors"] + Failures <= counts["retries"]
          /\ recovered => Failures > 0
      BY <1>0, <1>1 DEF CountInv, MaxAttempts
    <3>4. Failures = attempt - 1 /\ Failures \in Nat /\ (s # "ok" => Failures = 3)
      BY <1>0, <1>1 DEF Failures, TypeOK, MaxAttempts
    <3>5. Failures' = 0
      BY <1>2 DEF Failures, Fresh
    <3>6. /\ counts'["ok"] = counts["ok"] + (IF s = "ok" THEN 1 ELSE 0)
          /\ counts'["errors"] = counts["errors"] + (IF s = "ok" THEN 0 ELSE 1)
          /\ counts'["retries"] = counts["retries"]
          /\ counts'["retry_recovered"] =
                counts["retry_recovered"] + (IF s = "ok" /\ recovered THEN 1 ELSE 0)
          /\ counts["ok"] \in Nat /\ counts["errors"] \in Nat /\ counts["retries"] \in Nat
          /\ counts["retry_recovered"] \in Nat
      BY <1>6, <3>1, <3>2
    <3> HIDE DEF s, cs
    <3> QED
      BY <3>3, <3>4, <3>5, <3>6 DEF MaxAttempts
  <2> QED
    BY <1>2, <2>1, <2>2, <2>3, <2>4 DEF CountInv, Fresh
<1>11. EntryInv'
  <2>1. ASSUME NEW w \in 1..Writes
        PROVE  /\ w >= Now' /\ ~(phase' = "write" /\ w = i') =>
                     applied[w] = 0 /\ late[w] = 0 /\ ~unrest'[w]
               /\ result'[w] = "ok" => applied[w] >= 1
    BY <1>0, <1>1, <1>3, <1>4, <1>5, <1>7 DEF EntryInv
  <2>2. phase' = "write" => applied[i'] = 0 /\ late[i'] = 0 /\ attempt' = 1
    BY <1>0, <1>2, <1>4 DEF EntryInv, Fresh
  <2>3. ~Spent' /\ req'.state = "none"
    BY <1>1, <1>2, PutAway DEF Fresh, Spent
  <2> QED
    BY <1>0, <1>1, <2>1, <2>2, <2>3 DEF EntryInv
<1>12. CalmInv'
  <2>1. CalmWritesOnce'
    <3> SUFFICES ASSUME NEW w \in 1..Writes, result'[w] # "none", ~unrest'[w]
                 PROVE  result'[w] = "ok" /\ applied[w] = 1 /\ late[w] = 0
        BY <1>1 DEF CalmWritesOnce, Finished
    <3>1. CASE w = i
      <4>1. ~unrest[i]
        BY <1>2, <1>3, <1>4, <3>1 DEF Fresh
      <4> QED
        BY <1>0, <1>1, <1>7, <3>1, <4>1 DEF CalmInv, Answers, Kinds, MaxAttempts
    <3>2. CASE w # i
      <4>1. result[w] # "none" /\ w < i
        BY <1>0, <1>4, <1>7, <3>2 DEF CountInv
      <4>2. ~unrest[w]
        BY <1>2, <1>3, <1>4, <4>1 DEF Fresh
      <4> QED
        BY <1>0, <1>7, <3>2, <4>1, <4>2 DEF CalmInv, CalmWritesOnce, Finished
    <3> QED
      BY <3>1, <3>2
  <2>2. phase' = "write" => applied[i'] = 0 /\ late[i'] = 0
    BY <1>0, <1>2, <1>4 DEF EntryInv, Fresh
  <2>3. (Calm)' <=> Calm
    BY <1>1 DEF Calm
  <2> QED
    BY <1>1, <1>2, <1>3, <2>1, <2>2, <2>3, PutAway DEF CalmInv, Fresh
<1> QED
  BY <1>8, <1>9, <1>10, <1>11, <1>12 DEF IInv

\* A write is tried again, where the answer points or a search leads.
LEMMA NextWriteRetries ==
    ASSUME IInv, WriteRetries
    PROVE  IInv'
<1> USE DEF clusterVars, entryVars
<1>0. TypeOK /\ PlaceInv /\ CountInv /\ EntryInv /\ CalmInv
  BY DEF IInv
<1>1. /\ phase = "write" /\ pc = "await" /\ req.state \in Answers /\ req.state # "ok"
      /\ attempt < MaxAttempts /\ Bump({"retries"}) /\ recovered' = TRUE
      /\ pc' = "find" /\ asked' = 0 /\ leaderIp' = Hinted
      /\ requestIp' = (IF req.hint = NoNode THEN requestIp ELSE req.hint) /\ req' = NoReq
      /\ UNCHANGED <<clusterVars, faults, phase, i, attempt, result, unrest, entryVars>>
  BY DEF WriteRetries, Received, IsWrite, Searching
<1>2. /\ counts' \in [Counters -> Nat]
      /\ \A c \in Counters : counts[c] \in Nat /\ counts'[c] = counts[c] + (IF c = "retries" THEN 1 ELSE 0)
  BY <1>0, <1>1, BumpCounts
<1>3. TypeOK'
  <2>1. req.hint \in Nodes \union {NoNode} /\ leaderIp' \in Nodes \union {NoNode}
        /\ requestIp' \in Nodes
    BY <1>0, <1>1 DEF TypeOK, Hinted
  <2>2. asked' \in 0..Rounds * Len(NodeList)
    BY <1>1, Numbers
  <2> QED
    BY <1>0, <1>1, <1>2, <2>1, <2>2, PutAway DEF TypeOK
<1>4. PlaceInv'
  BY <1>0, <1>1, PutAway DEF PlaceInv
<1>5. CountInv'
  <2>1. Now' = Now /\ Failures = attempt - 1 /\ Failures' = attempt /\ attempt \in Nat
        /\ Failures' > 0
    BY <1>0, <1>1 DEF Now, Failures, TypeOK, MaxAttempts
  <2>2. \A S : CountOf(S)' = CountOf(S)
    BY <1>1 DEF CountOf
  <2>3. ASSUME NEW k \in {"ok"} \union Kinds PROVE counts'[k] = CountOf({k})
    <3>1. k \in Counters /\ k # "retries"
      BY DEF Counters, Kinds
    <3>2. counts[k] \in Nat /\ counts'[k] = counts[k]
      BY <1>2, <3>1
    <3>3. counts[k] = CountOf({k})
      BY <1>0 DEF CountInv
    <3> QED
      BY <3>2, <3>3
  <2>4. counts'["errors"] = CountOf(Kinds) /\ counts'["retry_recovered"] <= counts'["ok"]
    BY <1>0, <1>2 DEF CountInv, Counters
  <2>5. counts'["retry_recovered"] + (MaxAttempts - 1) * counts'["errors"] + Failures'
            <= counts'["retries"]
    <3>1. /\ counts["retry_recovered"] + 3 * counts["errors"] + Failures <= counts["retries"]
          /\ counts'["retry_recovered"] = counts["retry_recovered"]
          /\ counts'["errors"] = counts["errors"]
          /\ counts'["retries"] = counts["retries"] + 1
          /\ counts["errors"] \in Nat /\ counts["retries"] \in Nat
          /\ counts["retry_recovered"] \in Nat
      BY <1>0, <1>2 DEF CountInv, Counters, MaxAttempts
    <3> QED
      BY <2>1, <3>1 DEF MaxAttempts
  <2> QED
    BY <1>0, <1>1, <2>1, <2>2, <2>3, <2>4, <2>5 DEF CountInv
<1>6. EntryInv'
  <2>1. Now' = Now /\ Spent /\ Spent'
    BY <1>1 DEF Now, Spent
  <2> QED
    BY <1>0, <1>1, <2>1, PutAway DEF EntryInv
<1>7. CalmInv'
  <2>1. CalmWritesOnce' /\ ((Calm)' <=> Calm)
    BY <1>0, <1>1 DEF CalmInv, CalmWritesOnce, Finished, Calm
  <2>2. ASSUME ~unrest[i]
        PROVE  /\ attempt = 1 /\ leaderIp' = leader /\ requestIp' = leader
               /\ late[i] = 0 /\ applied[i] = 0
    <3>1. req.state = "503" /\ req.hint = leader /\ attempt = 1 /\ leader # NoNode
          /\ late[i] = 0 /\ applied[i] = 0
      BY <1>0, <1>1, <2>2 DEF CalmInv, Calm, Answers, Kinds
    <3> QED
      BY <1>1, <3>1 DEF Hinted
  <2> QED
    BY <1>0, <1>1, <2>1, <2>2, PutAway DEF CalmInv
<1> QED
  BY <1>3, <1>4, <1>5, <1>6, <1>7 DEF IInv

\* The other benchmarks write nothing that is counted.
LEMMA NextOther ==
    ASSUME IInv, OtherReply \/ OtherFails
    PROVE  IInv'
<1> USE DEF clusterVars, entryVars
<1>0. TypeOK /\ PlaceInv /\ CountInv /\ EntryInv /\ CalmInv
  BY DEF IInv
<1>1. /\ pc = "await" /\ phase \in {"latency", "seed", "read"} /\ req' = NoReq
      /\ UNCHANGED <<clusterVars, faults, counts, result, entryVars>>
  BY <1>0 DEF OtherReply, OtherFails, Received, IsWrite, PlaceInv, TypeOK
<1>2. /\ phase' \in {"latency", "seed", "read", "done"} /\ i' \in Nat
      /\ attempt' \in 1..MaxAttempts /\ (phase' = "seed" => attempt' <= SeedAttempts)
      /\ pc' \in {"send", "find"} /\ (phase' = "done" => pc' = "send")
      /\ recovered' \in BOOLEAN /\ requestIp' \in Nodes
      /\ unrest' = unrest
      /\ asked' \in 0..Rounds * Len(NodeList) /\ leaderIp' \in Nodes \union {NoNode}
  <2>1. CASE OtherReply /\ NextOperation(Target)
    <3>1. Fresh(Target) /\ Target \in Nodes
      BY <1>0, <1>1, <2>1, TargetIsNode, OperationEnds
    <3>2. UNCHANGED <<asked, leaderIp>>
      BY <2>1 DEF OtherReply
    <3> QED
      BY <1>0, <1>1, <3>1, <3>2 DEF Fresh, TypeOK, MaxAttempts, SeedAttempts
  <2>2. CASE /\ OtherReply /\ phase = "seed" /\ attempt < SeedAttempts
             /\ pc' = "send" /\ attempt' = attempt + 1
             /\ UNCHANGED <<phase, i, recovered, requestIp, unrest>>
    <3>1. UNCHANGED <<asked, leaderIp>>
      BY <2>2 DEF OtherReply
    <3> QED
      BY <1>0, <2>2, <3>1 DEF TypeOK, MaxAttempts, SeedAttempts
  <2>3. CASE OtherFails
    <3>1. /\ pc' = "find" /\ asked' = 0 /\ leaderIp' = Hinted
          /\ UNCHANGED <<phase, i, attempt, requestIp, recovered, unrest>>
      BY <2>3 DEF OtherFails, Searching
    <3>2. Hinted \in Nodes \union {NoNode} /\ 0 \in 0..Rounds * Len(NodeList)
      BY <1>0, Numbers DEF TypeOK, Hinted
    <3> QED
      BY <1>0, <1>1, <3>1, <3>2 DEF TypeOK, PlaceInv
  <2> QED
    BY <2>1, <2>2, <2>3 DEF OtherReply
<1>3. TypeOK'
  BY <1>0, <1>1, <1>2, PutAway DEF TypeOK
<1>4. PlaceInv'
  BY <1>1, <1>2, PutAway DEF PlaceInv
<1>5. Now' = Now /\ Now = Writes + 1 /\ Failures = 0 /\ Failures' = 0
  BY <1>1, <1>2 DEF Now, Failures
<1>6. CountInv'
  BY <1>0, <1>1, <1>2, <1>5 DEF CountInv, CountOf
<1>7. EntryInv'
  BY <1>0, <1>1, <1>2, <1>5 DEF EntryInv
<1>8. CalmInv'
  BY <1>0, <1>1, <1>2 DEF CalmInv, CalmWritesOnce, Finished
<1> QED
  BY <1>3, <1>4, <1>6, <1>7, <1>8 DEF IInv

LEMMA NextIInv == IInv /\ [Next]_vars => IInv'
<1> SUFFICES ASSUME IInv, [Next]_vars PROVE IInv'
    OBVIOUS
<1>1. CASE UNCHANGED vars
  <2> USE DEF vars, clusterVars, clientVars, entryVars
  <2>1. TypeOK' /\ PlaceInv'
    BY <1>1 DEF IInv, TypeOK, PlaceInv
  <2>2. CountInv'
    BY <1>1 DEF IInv, CountInv, CountOf, Now, Failures
  <2>3. EntryInv'
    BY <1>1 DEF IInv, EntryInv, Now, Spent
  <2>4. CalmInv'
    BY <1>1 DEF IInv, CalmInv, CalmWritesOnce, Finished, Calm
  <2> QED
    BY <2>1, <2>2, <2>3, <2>4 DEF IInv
<1>2. CASE Next
  BY <1>1, <1>2, NextCluster, NextLateEntry, NextRequest, NextSearch, NextSend,
     NextWriteOver, NextWriteRetries, NextOther
     DEF Next, Raft, Client, Done
<1> QED
  BY <1>1, <1>2

LEMMA AlwaysIInv == Spec => []IInv
  BY InitIInv, NextIInv, PTL DEF Spec

\* What run_benchmark reports agrees with what became of the writes, for any
\* number of writes, of changes of leader and of lost requests.
THEOREM ReportAddsUp == Spec => []CountersAddUp
<1>1. ASSUME IInv PROVE CountersAddUp
  <2>1. Failures \in Nat /\ counts \in [Counters -> Nat]
    BY <1>1 DEF IInv, TypeOK, Failures, MaxAttempts
  <2>2. /\ \A k \in {"ok"} \union Kinds : counts[k] = CountOf({k})
        /\ counts["errors"] = CountOf(Kinds)
        /\ counts["retry_recovered"] <= counts["ok"]
        /\ counts["retry_recovered"] + (MaxAttempts - 1) * counts["errors"] + Failures
               <= counts["retries"]
    BY <1>1 DEF IInv, CountInv
  <2>3. /\ counts["retry_recovered"] \in Nat /\ counts["errors"] \in Nat
        /\ counts["retries"] \in Nat
    BY <2>1 DEF Counters
  <2>4. counts["retry_recovered"] + (MaxAttempts - 1) * counts["errors"] <= counts["retries"]
    BY <2>1, <2>2, <2>3 DEF MaxAttempts
  <2>5. counts["ok"] = CountOf({"ok"}) /\ \A k \in Kinds : counts[k] = CountOf({k})
    BY <2>2
  <2> QED
    BY <2>2, <2>4, <2>5 DEF CountersAddUp
<1> QED
  BY <1>1, AlwaysIInv, PTL

\* A write that is counted as done was applied, whatever leader took it.
THEOREM CountedIsApplied == Spec => []CountedWritesApplied
<1>1. IInv => CountedWritesApplied
  BY DEF IInv, EntryInv, CountedWritesApplied
<1> QED
  BY <1>1, AlwaysIInv, PTL

\* A write that nothing disturbs succeeds and is applied once, in a cluster of
\* any size and wherever the client starts it.
THEOREM CalmIsOnce == Spec => []CalmWritesOnce
<1>1. IInv => CalmWritesOnce
  BY DEF IInv, CalmInv
<1> QED
  BY <1>1, AlwaysIInv, PTL

=============================================================================
