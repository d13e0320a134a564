--------------------------- MODULE HeartbeatPath ---------------------------
(***************************************************************************)
(* AppendEntries requests of one leader on their way into a follower: the  *)
(* pipeline sends each on a stream of its own, handleStream                *)
(* (transport/transport.go) calls the heartbeat handler on the stream's    *)
(* goroutine for every request without entries, and queues the others for  *)
(* raft's main loop.                                                       *)
(*                                                                         *)
(* Raft's appendEntries and processLogs, which both goroutines run, are    *)
(* external.  They are modelled for one leader and one term, in which an   *)
(* entry is identified by its index.                                       *)
(***************************************************************************)
EXTENDS Integers, Sequences, FiniteSetsExt

CONSTANTS
    Streams,       \* streams that can be open at once
    MaxIndex,      \* bound: length of the leader's log
    MaxSends       \* bound: AppendEntries requests sent

ASSUME BoundsAssumption == MaxIndex \in Nat /\ MaxSends \in Nat

VARIABLES
    lcommit,     \* the leader's commit index
    next,        \* the next index the leader sends to this follower
    sends,       \* requests sent so far
    req,         \* the request on each stream
    spc,         \* where its handling is
    consumeCh,   \* streams whose request waits for raft's main loop
    main,        \* the stream whose request the main loop handles
    log,         \* the entries in the follower's log
    commit,      \* its commit index
    applied,     \* its lastApplied
    lo,          \* lastApplied as each goroutine has read it
    fsm          \* the log indexes handed to the FSM, in order

vars == <<lcommit, next, sends, req, spc, consumeCh, main, log, commit,
          applied, lo, fsm>>
leaderVars == <<lcommit, next, sends>>
raftVars == <<log, commit, applied, fsm>>

Index == 0..MaxIndex
NoStream == "none"
Request == [prev : Index, entries : SUBSET Index, commit : Index]
Phases == {"free", "wire", "queued", "store", "check", "set", "push", "mark"}

TypeOK ==
    /\ lcommit \in Index /\ next \in 1..MaxIndex + 1 /\ sends \in 0..MaxSends
    /\ req \in [Streams -> Request]
    /\ spc \in [Streams -> Phases]
    /\ consumeCh \in Seq(Streams)
    /\ main \in Streams \union {NoStream}
    /\ log \subseteq 1..MaxIndex /\ commit \in Index /\ applied \in Index
    /\ lo \in [Streams -> Index]
    /\ fsm \in Seq(Index)

Init ==
    /\ lcommit = 0 /\ next = 1 /\ sends = 0
    /\ req = [s \in Streams |-> [prev |-> 0, entries |-> {}, commit |-> 0]]
    /\ spc = [s \in Streams |-> "free"]
    /\ consumeCh = <<>> /\ main = NoStream
    /\ log = {} /\ commit = 0 /\ applied = 0
    /\ lo = [s \in Streams |-> 0]
    /\ fsm = <<>>

LastLog == Max(log \union {0})

Goto(s, to) == spc' = [spc EXCEPT ![s] = to]

-----------------------------------------------------------------------------
(* The leader                                                              *)

\* The rest of the cluster commits without this follower.
LeaderCommits ==
    /\ lcommit < MaxIndex
    /\ lcommit' = lcommit + 1
    /\ UNCHANGED <<next, sends, req, spc, consumeCh, main, raftVars, lo>>

\* Mutant: the index of the previous entry is lost on the way.
Send_NoPrev(s) ==
    /\ spc[s] = "free" /\ sends < MaxSends
    /\ \E last \in next - 1..MaxIndex :
          /\ req' = [req EXCEPT ![s] =
                 [prev |-> 0, entries |-> next..last, commit |-> lcommit]]
          /\ next' = last + 1
    /\ sends' = sends + 1
    /\ Goto(s, "wire")
    /\ UNCHANGED <<lcommit, consumeCh, main, raftVars, lo>>

\* A worker of the pipeline opens a stream for the next request.  Every
\* CommitTimeout raft sends one that has no entries, only a commit index.
Send(s) ==
    /\ spc[s] = "free" /\ sends < MaxSends
    /\ \E last \in next - 1..MaxIndex :
          /\ req' = [req EXCEPT ![s] =
                 [prev |-> next - 1, entries |-> next..last, commit |-> lcommit]]
          /\ next' = last + 1
    /\ sends' = sends + 1
    /\ Goto(s, "wire")
    /\ UNCHANGED <<lcommit, consumeCh, main, raftVars, lo>>

-----------------------------------------------------------------------------
(* handleStream                                                            *)

\* isHeartbeat: a request with a term and no entries.
IsHeartbeat(r) == r.entries = {}

\* The stream's goroutine itself runs raft's handler.
FastPath(s) ==
    /\ spc[s] = "wire" /\ IsHeartbeat(req[s])
    /\ Goto(s, "store")
    /\ UNCHANGED <<leaderVars, req, consumeCh, main, raftVars, lo>>

Queue(s) ==
    /\ spc[s] = "wire" /\ ~IsHeartbeat(req[s])
    /\ consumeCh' = Append(consumeCh, s)
    /\ Goto(s, "queued")
    /\ UNCHANGED <<leaderVars, req, main, raftVars, lo>>

\* Raft's main loop reads Consumer().
MainTakes ==
    /\ main = NoStream /\ consumeCh # <<>>
    /\ main' = Head(consumeCh)
    /\ consumeCh' = Tail(consumeCh)
    /\ Goto(Head(consumeCh), "store")
    /\ UNCHANGED <<leaderVars, req, raftVars, lo>>

-----------------------------------------------------------------------------
(* Raft's appendEntries and processLogs, on either goroutine               *)

Respond(s) ==
    /\ Goto(s, "free")
    /\ main' = IF main = s THEN NoStream ELSE main

\* The previous entry is missing: refuse, and the leader sends again from there.
Refuse(s) ==
    /\ spc[s] = "store" /\ req[s].prev > LastLog
    /\ next' = IF next > LastLog + 1 THEN LastLog + 1 ELSE next
    /\ Respond(s)
    /\ UNCHANGED <<lcommit, sends, req, consumeCh, raftVars, lo>>

Store(s) ==
    /\ spc[s] = "store" /\ req[s].prev <= LastLog
    /\ log' = log \union req[s].entries
    /\ Goto(s, "check")
    /\ UNCHANGED <<leaderVars, req, consumeCh, main, commit, applied, fsm, lo>>

\* Compare the leader's commit index with our own.
Check(s) ==
    /\ spc[s] = "check"
    /\ IF req[s].commit > commit
         THEN Goto(s, "set") /\ UNCHANGED main
         ELSE Respond(s)
    /\ UNCHANGED <<leaderVars, req, consumeCh, raftVars, lo>>

Target(s) == IF req[s].commit < LastLog THEN req[s].commit ELSE LastLog

\* Set the commit index; processLogs starts by reading lastApplied.
SetCommit(s) ==
    /\ spc[s] = "set"
    /\ commit' = Target(s)
    /\ lo' = [lo EXCEPT ![s] = applied]
    /\ req' = [req EXCEPT ![s].commit = Target(s)]
    /\ IF Target(s) > applied
         THEN Goto(s, "push") /\ UNCHANGED main
         ELSE Respond(s)
    /\ UNCHANGED <<leaderVars, consumeCh, log, applied, fsm>>

\* Hand the batch to the FSM goroutine, which applies batches in that order.
Push(s) ==
    /\ spc[s] = "push"
    /\ fsm' = fsm \o [i \in 1..req[s].commit - lo[s] |-> lo[s] + i]
    /\ Goto(s, "mark")
    /\ UNCHANGED <<leaderVars, req, consumeCh, main, log, commit, applied, lo>>

Mark(s) ==
    /\ spc[s] = "mark"
    /\ applied' = req[s].commit
    /\ Respond(s)
    /\ UNCHANGED <<leaderVars, req, consumeCh, log, commit, fsm, lo>>

-----------------------------------------------------------------------------

Handle(s) ==
    \/ FastPath(s) \/ Queue(s) \/ Refuse(s) \/ Store(s)
    \/ Check(s) \/ SetCommit(s) \/ Push(s) \/ Mark(s)

Next ==
    \/ LeaderCommits
    \/ \E s \in Streams : Send(s) \/ Handle(s)
    \/ MainTakes

Spec == Init /\ [][Next]_vars

-----------------------------------------------------------------------------
(* Properties                                                              *)

\* Whatever the reordering and the two paths, no entry is skipped: an entry
\* reaches the FSM only from the follower's log, after all entries before it,
\* and when the leader has committed it.
NothingSkipped ==
    \A i \in 1..Len(fsm) :
        /\ fsm[i] \in log
        /\ fsm[i] <= lcommit
        /\ fsm[i] > 1 => \E j \in 1..i - 1 : fsm[j] = fsm[i] - 1

Quiet == \A s \in Streams : spc[s] = "free"

\* test_cluster.sh:115, "Read Consistency Across All Nodes": once nothing is
\* under way, what the follower serves for a key is the last write it was told
\* to apply, as on every other node.  Each entry sets the key to its own index.
ReadConsistency == Quiet => \A i \in 1..Len(fsm) : fsm[i] <= fsm[Len(fsm)]

=============================================================================
