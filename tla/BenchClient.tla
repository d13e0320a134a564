----------------------------- MODULE BenchClient -----------------------------
(***************************************************************************)
(* DistributedBenchmark.run_benchmark (scripts/distributed_benchmark.py)   *)
(* against a cluster whose leader changes: the client looks for the leader,*)
(* writes with up to four attempts each, measures latency, seeds keys and  *)
(* reads them, following the redirects of the servers' HTTP handlers       *)
(* (cmd/raftd/main.go, cmd/tcp-server/main.go).                            *)
(*                                                                         *)
(* Raft is external: an entry that the leader has appended commits, or     *)
(* survives a change of leader, or does not.  The client is one thread     *)
(* with one request out at a time.                                         *)
(***************************************************************************)
EXTENDS Integers, Sequences, FiniteSets

CONSTANTS
    NodeList,       \* the cluster's nodes in the order in which they are asked
    NoNode,
    Rounds,         \* bound: rounds of a search (45, 25, 12 or 10 in the code)
    Writes,         \* -writes
    Ticks,          \* bound: rounds of the latency benchmark
    Reads,          \* reads of the read benchmark
    MaxChanges,     \* bound: changes of the leader
    MaxFaults       \* bound: requests that are refused or time out

Nodes == {NodeList[k] : k \in DOMAIN NodeList}
First == NodeList[1]

ASSUME NodesAssumption == NodeList \in Seq(Nodes) /\ NodeList # <<>> /\ NoNode \notin Nodes
ASSUME BoundsAssumption ==
    /\ Writes \in Nat \ {0} /\ Ticks \in Nat \ {0} /\ Reads \in Nat \ {0}
    /\ MaxChanges \in Nat /\ MaxFaults \in Nat /\ Rounds \in Nat \ {0}

MaxAttempts == 4
SeedAttempts == 3

VARIABLES
    leader,      \* the node that can commit
    view,        \* whom each node takes for the leader
    changes, faults,
    phase,       \* which benchmark the client runs
    i,           \* which operation of it
    attempt,     \* which attempt at that operation
    pc,          \* what the client does
    asked,       \* how many nodes a search has asked, all rounds together
    leaderIp,    \* self.leader_ips
    requestIp,
    recovered,   \* the write has failed before
    req,         \* what became of the request that is out
    counts,      \* the counters of the write benchmark
    result,      \* history: what each write was counted as
    unrest,      \* history: the leadership was unsettled or a request lost meanwhile
    applied,     \* how often the entry of each write was applied
    late         \* entries of each write that may still commit, or be lost

clusterVars == <<leader, view, changes>>
clientVars == <<phase, i, attempt, pc, asked, leaderIp, requestIp, recovered, counts, result>>
entryVars == <<applied, late>>
vars == <<clusterVars, faults, clientVars, req, unrest, entryVars>>

Kinds == {"503", "500", "timeout", "other"}
Counters == {"ok", "errors", "retries", "retry_recovered"} \union Kinds
Claims(n) == view[n] = n
Calm == leader # NoNode /\ \A n \in Nodes : view[n] = leader

\* A request is out, in the log of the server since the given change of leader,
\* or answered.
Waiting == {"none", "sent"}
Answers == {"ok"} \union Kinds
NoReq == [state |-> "none", epoch |-> 0, hint |-> NoNode]

TypeOK ==
    /\ leader \in Nodes \union {NoNode}
    /\ view \in [Nodes -> Nodes \union {NoNode}]
    /\ changes \in 0..MaxChanges /\ faults \in 0..MaxFaults
    /\ phase \in {"start", "write", "latency", "seed", "read", "done"}
    /\ i \in Nat
    /\ attempt \in 1..MaxAttempts
    /\ pc \in {"search", "send", "await", "find"}
    /\ asked \in 0..Rounds * Len(NodeList)
    /\ leaderIp \in Nodes \union {NoNode} /\ requestIp \in Nodes
    /\ recovered \in BOOLEAN
    /\ req \in [state : Waiting \union {"appended"} \union Answers,
                epoch : 0..MaxChanges, hint : Nodes \union {NoNode}]
    /\ counts \in [Counters -> Nat]
    /\ result \in [1..Writes -> Answers \union {"none"}]
    /\ unrest \in [1..Writes -> BOOLEAN]
    /\ applied \in [1..Writes -> 0..MaxAttempts]
    /\ late \in [1..Writes -> 0..MaxAttempts]

Init ==
    /\ leader = NoNode /\ view = [n \in Nodes |-> NoNode]
    /\ changes = 0 /\ faults = 0
    /\ phase = "start" /\ i = 1 /\ attempt = 1 /\ pc = "search" /\ asked = 0
    /\ leaderIp = NoNode /\ requestIp = First /\ recovered = FALSE
    /\ req = NoReq
    /\ counts = [c \in Counters |-> 0]
    /\ result = [w \in 1..Writes |-> "none"]
    /\ unrest = [w \in 1..Writes |-> FALSE]
    /\ applied = [w \in 1..Writes |-> 0]
    /\ late = [w \in 1..Writes |-> 0]

-----------------------------------------------------------------------------
(* The cluster                                                             *)

Disturbed ==
    unrest' = IF phase = "write" THEN [unrest EXCEPT ![i] = TRUE] ELSE unrest

\* A node wins an election and knows it; the others learn of it in time.
Elected(n) ==
    /\ changes < MaxChanges /\ n # leader /\ view[n] # n
    /\ changes' = changes + 1
    /\ leader' = n
    /\ view' = [view EXCEPT ![n] = n]
    /\ Disturbed
    /\ UNCHANGED <<faults, clientVars, req, entryVars>>

\* The leader's lease runs out.
StepsDown ==
    /\ changes < MaxChanges /\ leader # NoNode
    /\ changes' = changes + 1
    /\ leader' = NoNode
    /\ view' = [view EXCEPT ![leader] = NoNode]
    /\ Disturbed
    /\ UNCHANGED <<faults, clientVars, req, entryVars>>

Learns(n) ==
    /\ view[n] # leader
    /\ view' = [view EXCEPT ![n] = leader]
    /\ Disturbed
    /\ UNCHANGED <<leader, changes, faults, clientVars, req, entryVars>>

\* An entry whose answer was lost commits after all, or is overwritten.
LateEntry(w) ==
    /\ late[w] > 0
    /\ late' = [late EXCEPT ![w] = @ - 1]
    /\ \/ applied' = [applied EXCEPT ![w] = @ + 1]
       \/ UNCHANGED applied
    /\ UNCHANGED <<clusterVars, faults, clientVars, req, unrest>>

-----------------------------------------------------------------------------
(* handleSet and handleGet of the node that the request is for             *)

Answer(what, hint) == req' = [req EXCEPT !.state = what, !.hint = hint]
IsWrite == phase = "write"

\* handleSet on a node that is not leader: 503, and whom it takes for it.
Refuse ==
    /\ req.state = "sent" /\ phase # "read" /\ ~Claims(requestIp)
    /\ Answer("503", view[requestIp])
    /\ UNCHANGED <<clusterVars, faults, clientVars, unrest, entryVars>>

\* Raft.Apply on a node that takes itself for the leader.
AppendEntry ==
    /\ req.state = "sent" /\ phase # "read" /\ Claims(requestIp)
    /\ req' = [req EXCEPT !.state = "appended",
                          !.epoch = IF requestIp = leader THEN changes ELSE 0]
    /\ UNCHANGED <<clusterVars, faults, clientVars, unrest, entryVars>>

\* The entry was appended by a leader who has not changed since.
StillLeads == req.state = "appended" /\ leader = requestIp /\ req.epoch = changes

Commit ==
    /\ StillLeads
    /\ Answer("ok", NoNode)
    /\ applied' = IF IsWrite THEN [applied EXCEPT ![i] = @ + 1] ELSE applied
    /\ UNCHANGED <<clusterVars, faults, clientVars, unrest, late>>

\* What is left of an entry whose answer is not "ok": one that the real leader
\* appended, or may still append, can be on other nodes.
Abandon ==
    late' = IF IsWrite /\ (req.state = "sent" \/ req.epoch > 0)
            THEN [late EXCEPT ![i] = @ + 1] ELSE late

\* Mutant: handleSet does not look at the error of the future.
LosesLeadership_Ok ==
    /\ req.state = "appended" /\ ~StillLeads
    /\ Claims(requestIp) => requestIp = leader
    /\ Answer("ok", NoNode)
    /\ Abandon
    /\ UNCHANGED <<clusterVars, faults, clientVars, unrest, applied>>

\* The node has learnt that it no longer leads, or has been elected anew since:
\* Apply's future fails.
LosesLeadership ==
    /\ req.state = "appended" /\ ~StillLeads
    /\ Claims(requestIp) => requestIp = leader
    /\ Answer("500", NoNode)
    /\ Abandon
    /\ UNCHANGED <<clusterVars, faults, clientVars, unrest, applied>>

\* handleGet answers 200 or 404 from the local map.
ServeRead ==
    /\ req.state = "sent" /\ phase = "read"
    /\ Answer("ok", NoNode)
    /\ UNCHANGED <<clusterVars, faults, clientVars, unrest, entryVars>>

Fault == faults < MaxFaults /\ faults' = faults + 1 /\ Disturbed

\* urlopen raises: there is no connection.
Refused ==
    /\ Fault /\ req.state = "sent"
    /\ Answer("other", NoNode)
    /\ UNCHANGED <<clusterVars, clientVars, entryVars>>

\* urlopen raises: the answer does not come in time.
TimesOut ==
    /\ Fault /\ req.state \in {"sent", "appended"}
    /\ Answer("timeout", NoNode)
    /\ Abandon
    /\ UNCHANGED <<clusterVars, clientVars, applied>>

\* A deposed leader that does not learn of it keeps the client waiting.
NeverCommits ==
    /\ req.state = "appended" /\ Claims(requestIp) /\ requestIp # leader
    /\ Answer("timeout", NoNode)
    /\ Abandon
    /\ Disturbed
    /\ UNCHANGED <<clusterVars, faults, clientVars, applied>>

-----------------------------------------------------------------------------
(* The client                                                              *)

\* _current_target_ip
Target == IF leaderIp = NoNode THEN First ELSE leaderIp

PhaseAfter == [write |-> "latency", latency |-> "seed", seed |-> "read", read |-> "done"]
SizeOf == [write |-> Writes, latency |-> Ticks, seed |-> Reads, read |-> Reads]

\* Mutant: recovered is not reset for the next write.
NextOperation_KeepsRecovered(target) ==
    LET last == i >= SizeOf[phase]
        next == IF last THEN PhaseAfter[phase] ELSE phase
        j == IF last THEN 1 ELSE i + 1
    IN /\ phase' = next /\ i' = j
       /\ pc' = "send" /\ attempt' = 1 /\ UNCHANGED recovered
       /\ requestIp' = target
       /\ unrest' = IF next = "write" THEN [unrest EXCEPT ![j] = ~Calm] ELSE unrest

\* The operation is over: the next one starts with a fresh target.  A write
\* that starts while the leadership is unsettled is marked.
NextOperation(target) ==
    LET last == i >= SizeOf[phase]
        next == IF last THEN PhaseAfter[phase] ELSE phase
        j == IF last THEN 1 ELSE i + 1
    IN /\ phase' = next /\ i' = j
       /\ pc' = "send" /\ attempt' = 1 /\ recovered' = FALSE
       /\ requestIp' = target
       /\ unrest' = IF next = "write" THEN [unrest EXCEPT ![j] = ~Calm] ELSE unrest

Searching(fresh) == pc' = "find" /\ asked' = 0 /\ leaderIp' = fresh

\* Mutant: the loop over the attempts does not end.
AfterSearch_Endless(ip) ==
    LET target == IF ip = NoNode THEN requestIp ELSE ip
    IN CASE pc = "search" ->
              /\ phase' = "write" /\ pc' = "send"
              /\ leaderIp' = target /\ requestIp' = target
              /\ unrest' = [unrest EXCEPT ![1] = ~Calm]
              /\ UNCHANGED <<i, attempt, recovered>>
         [] pc = "find" /\ phase \in {"latency", "read"} ->
              leaderIp' = ip /\ NextOperation(target)
         [] OTHER ->
              /\ pc' = "send" /\ UNCHANGED attempt
              /\ leaderIp' = ip /\ requestIp' = target
              /\ UNCHANGED <<phase, i, recovered, unrest>>

\* The search is over with leader_ips as given.
AfterSearch(ip) ==
    LET target == IF ip = NoNode THEN requestIp ELSE ip
    IN CASE pc = "search" ->
              /\ phase' = "write" /\ pc' = "send"
              /\ leaderIp' = target /\ requestIp' = target
              /\ unrest' = [unrest EXCEPT ![1] = ~Calm]
              /\ UNCHANGED <<i, attempt, recovered>>
         [] pc = "find" /\ phase \in {"latency", "read"} ->
              leaderIp' = ip /\ NextOperation(target)
         [] pc = "find" /\ phase = "seed" /\ attempt = SeedAttempts ->
              leaderIp' = ip /\ NextOperation(target)
         [] OTHER ->
              /\ pc' = "send" /\ attempt' = attempt + 1
              /\ leaderIp' = ip /\ requestIp' = target
              /\ UNCHANGED <<phase, i, recovered, unrest>>

\* _find_leader asks one node after the other for its /status.
AskStatus ==
    /\ pc \in {"search", "find"} /\ asked < Rounds * Len(NodeList)
    /\ LET n == NodeList[(asked % Len(NodeList)) + 1]
       IN \/ /\ Claims(n)
             /\ AfterSearch(n)
             /\ asked' = 0
             /\ UNCHANGED faults
          \/ /\ ~Claims(n)
             /\ asked' = asked + 1
             /\ UNCHANGED <<faults, phase, i, attempt, pc, leaderIp, requestIp, recovered, unrest>>
          \/ /\ Fault
             /\ asked' = asked + 1
             /\ UNCHANGED <<phase, i, attempt, pc, leaderIp, requestIp, recovered>>
    /\ UNCHANGED <<clusterVars, req, counts, result, entryVars>>

\* Nobody claims to lead: the first search falls back to the first node, the
\* others leave leader_ips alone.
NotFound ==
    /\ pc \in {"search", "find"} /\ asked = Rounds * Len(NodeList)
    /\ AfterSearch(IF pc = "search" THEN First ELSE leaderIp)
    /\ asked' = 0
    /\ UNCHANGED <<clusterVars, faults, req, counts, result, entryVars>>

Send ==
    /\ pc = "send" /\ phase # "done"
    /\ req' = [NoReq EXCEPT !.state = "sent"]
    /\ pc' = "await"
    /\ UNCHANGED <<clusterVars, faults, phase, i, attempt, asked, leaderIp, requestIp,
                   recovered, counts, result, unrest, entryVars>>

Received == pc = "await" /\ req.state \in Answers
Bump(cs) == counts' = [c \in Counters |-> counts[c] + IF c \in cs THEN 1 ELSE 0]
Hinted == IF req.hint = NoNode THEN leaderIp ELSE req.hint

\* Mutant: no break after a write that succeeded.
WriteOk_NoBreak ==
    /\ Received /\ IsWrite /\ req.state = "ok"
    /\ Bump({"ok"} \union IF recovered THEN {"retry_recovered"} ELSE {})
    /\ result' = [result EXCEPT ![i] = "ok"]
    /\ IF attempt < MaxAttempts
       THEN /\ pc' = "send" /\ attempt' = attempt + 1
            /\ UNCHANGED <<phase, i, recovered, requestIp, unrest>>
       ELSE NextOperation(Target)
    /\ req' = NoReq
    /\ UNCHANGED <<clusterVars, faults, asked, leaderIp, entryVars>>

WriteOk ==
    /\ Received /\ IsWrite /\ req.state = "ok"
    /\ Bump({"ok"} \union IF recovered THEN {"retry_recovered"} ELSE {})
    /\ result' = [result EXCEPT ![i] = "ok"]
    /\ NextOperation(Target)
    /\ req' = NoReq
    /\ UNCHANGED <<clusterVars, faults, asked, leaderIp, entryVars>>

WriteFails ==
    /\ Received /\ IsWrite /\ req.state # "ok" /\ attempt = MaxAttempts
    /\ Bump({"errors", req.state})
    /\ result' = [result EXCEPT ![i] = req.state]
    /\ NextOperation(Target)
    /\ req' = NoReq
    /\ UNCHANGED <<clusterVars, faults, asked, leaderIp, entryVars>>

WriteRetries ==
    /\ Received /\ IsWrite /\ req.state # "ok" /\ attempt < MaxAttempts
    /\ Bump({"retries"})
    /\ recovered' = TRUE
    /\ Searching(Hinted)
    /\ requestIp' = IF req.hint = NoNode THEN requestIp ELSE req.hint
    /\ req' = NoReq
    /\ UNCHANGED <<clusterVars, faults, phase, i, attempt, result, unrest, entryVars>>

\* The other benchmarks take a success, or a 500, without a search.
OtherReply ==
    /\ Received /\ ~IsWrite /\ req.state \in {"ok", "500"}
    /\ IF phase = "seed" /\ req.state = "500" /\ attempt < SeedAttempts
       THEN /\ pc' = "send" /\ attempt' = attempt + 1
            /\ UNCHANGED <<phase, i, recovered, requestIp, unrest>>
       ELSE NextOperation(Target)
    /\ req' = NoReq
    /\ UNCHANGED <<clusterVars, faults, asked, leaderIp, counts, result, entryVars>>

OtherFails ==
    /\ Received /\ ~IsWrite /\ req.state \in {"503", "timeout", "other"}
    /\ Searching(Hinted)
    /\ req' = NoReq
    /\ UNCHANGED <<clusterVars, faults, phase, i, attempt, requestIp, recovered,
                   counts, result, unrest, entryVars>>

-----------------------------------------------------------------------------
Raft == StepsDown \/ (\E n \in Nodes : Elected(n) \/ Learns(n)) \/ \E w \in 1..Writes : LateEntry(w)
Server == Refuse \/ AppendEntry \/ Commit \/ LosesLeadership \/ ServeRead \/ NeverCommits
Network == Refused \/ TimesOut
Client == AskStatus \/ NotFound \/ Send \/ WriteOk \/ WriteFails \/ WriteRetries
          \/ OtherReply \/ OtherFails
Done == phase = "done" /\ UNCHANGED vars

Next == Raft \/ Server \/ Network \/ Client \/ Done

Spec == Init /\ [][Next]_vars

\* A server that is alive answers, and the client's loops run.
FairSpec == Spec /\ WF_vars(Server) /\ WF_vars(Client)

-----------------------------------------------------------------------------
(* Properties                                                              *)

Finished == {w \in 1..Writes : result[w] # "none"}
CountOf(S) == Cardinality({w \in 1..Writes : result[w] \in S})

\* What run_benchmark reports agrees with what became of the writes: every
\* finished write is one success or one error of one kind, only writes that
\* succeed after a failure count as recovered, and a write that is given up has
\* been retried three times.
CountersAddUp ==
    /\ counts["ok"] = CountOf({"ok"}) /\ counts["errors"] = CountOf(Kinds)
    /\ \A k \in Kinds : counts[k] = CountOf({k})
    /\ counts["retry_recovered"] <= counts["ok"]
    /\ counts["retry_recovered"] + (MaxAttempts - 1) * counts["errors"] <= counts["retries"]

\* A write that the client counts as done has been applied, whatever leader
\* took it and whatever was retried before.
CountedWritesApplied == \A w \in 1..Writes : result[w] = "ok" => applied[w] >= 1

\* A write that met a settled leadership and no lost request throughout is not
\* an error and is applied exactly once, even if the client starts it at a node
\* that has not led for long: redirects lead to the leader within the four
\* attempts, and 503 never stands for a write that happened.
CalmWritesOnce ==
    \A w \in Finished : ~unrest[w] => result[w] = "ok" /\ applied[w] = 1 /\ late[w] = 0

\* However the leader moves, run_benchmark comes to its end.
BenchmarkEnds == <>(phase = "done")

=============================================================================
