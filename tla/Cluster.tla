------------------------------- MODULE Cluster -------------------------------
(***************************************************************************)
(* The life of a cluster as cmd/raftd/main.go and node/node.go start it:   *)
(* the node without -join bootstraps a cluster of one at every start, the  *)
(* others ask that node over HTTP to be added, and every node keeps its    *)
(* log, its term and its vote in memory only, so that a restart forgets    *)
(* them.                                                                   *)
(*                                                                         *)
(* Raft is external.  An election, with the answers of a quorum, is one    *)
(* step, and so is one exchange of AppendEntries up to the first match;    *)
(* what each step does to terms and logs is what raft does.                *)
(***************************************************************************)
EXTENDS Integers, Sequences, FiniteSets, FiniteSetsExt

CONSTANTS
    Nodes,
    Boot,          \* the node that is started without -join
    Restartable,   \* nodes that are started again after they stopped
    JoinRetries,   \* -join-retries
    MaxTerm,       \* bound: raft terms
    MaxWrites,     \* bound: writes sent to /set
    MaxCrashes     \* bound: processes that die

ASSUME BootAssumption == IsFiniteSet(Nodes) /\ Boot \in Nodes /\ Restartable \subseteq Nodes
ASSUME BoundsAssumption ==
    JoinRetries \in Nat \ {0} /\ MaxTerm \in Nat \ {0} /\ MaxWrites \in Nat /\ MaxCrashes \in Nat

VARIABLES
    proc,      \* state of each process
    starts,    \* whether it was started before
    tries,     \* failed join attempts of each process
    term, role, log, commit,   \* raft's state on each node
    match,     \* what each leader knows of each follower's log
    writes,    \* writes sent so far
    acked,     \* writes answered with "ok"
    crashes

vars == <<proc, starts, tries, term, role, log, commit, match, writes, acked, crashes>>
raftVars == <<term, role, log, commit, match>>
clientVars == <<writes, acked>>

Entries == [term : 1..MaxTerm, kind : {"config", "noop", "write"},
            members : SUBSET Nodes, write : 0..MaxWrites]
ConfigEntry(t, members) == [term |-> t, kind |-> "config", members |-> members, write |-> 0]
NoopEntry(t)            == [term |-> t, kind |-> "noop", members |-> {}, write |-> 0]
WriteEntry(t, w)        == [term |-> t, kind |-> "write", members |-> {}, write |-> w]

TypeOK ==
    /\ proc \in [Nodes -> {"down", "joining", "awaiting", "serving"}]
    /\ starts \in [Nodes -> BOOLEAN]
    /\ tries \in [Nodes -> 0..JoinRetries]
    /\ term \in [Nodes -> 0..MaxTerm]
    /\ role \in [Nodes -> {"follower", "leader"}]
    /\ log \in [Nodes -> Seq(Entries)]
    /\ commit \in [Nodes -> Nat] /\ \A n \in Nodes : commit[n] <= Len(log[n])
    /\ match \in [Nodes -> [Nodes -> Nat]]
    /\ writes \in 0..MaxWrites /\ acked \subseteq 1..MaxWrites
    /\ crashes \in 0..MaxCrashes

NoMatch == [f \in Nodes |-> 0]

Init ==
    /\ proc = [n \in Nodes |-> "down"]
    /\ starts = [n \in Nodes |-> FALSE]
    /\ tries = [n \in Nodes |-> 0]
    /\ term = [n \in Nodes |-> 0]
    /\ role = [n \in Nodes |-> "follower"]
    /\ log = [n \in Nodes |-> <<>>]
    /\ commit = [n \in Nodes |-> 0]
    /\ match = [n \in Nodes |-> NoMatch]
    /\ writes = 0 /\ acked = {}
    /\ crashes = 0

-----------------------------------------------------------------------------
(* What raft knows                                                         *)

Alive(n) == proc[n] # "down"

ConfigAt(n) ==
    Max({i \in 1..Len(log[n]) : log[n][i].kind = "config"} \union {0})

Members(n) == IF ConfigAt(n) = 0 THEN {} ELSE log[n][ConfigAt(n)].members

IsQuorum(Q, members) == 2 * Cardinality(Q) > Cardinality(members)

LastTerm(l) == IF l = <<>> THEN 0 ELSE l[Len(l)].term

UpToDate(l, m) ==
    \/ LastTerm(l) > LastTerm(m)
    \/ LastTerm(l) = LastTerm(m) /\ Len(l) >= Len(m)

\* The last index at which two logs have entries of the same term.
LastMatch(l, m) ==
    Max({i \in 1..Len(l) : i <= Len(m) /\ l[i].term = m[i].term} \union {0})

-----------------------------------------------------------------------------
(* Processes                                                               *)

\* main without -join: New bootstraps a cluster of this node alone, and the
\* HTTP API is served at once.
StartBoot ==
    /\ proc[Boot] = "down"
    /\ starts[Boot] => Boot \in Restartable
    /\ proc' = [proc EXCEPT ![Boot] = "serving"]
    /\ starts' = [starts EXCEPT ![Boot] = TRUE]
    /\ term' = [term EXCEPT ![Boot] = 1]
    /\ log' = [log EXCEPT ![Boot] = <<ConfigEntry(1, {Boot})>>]
    /\ UNCHANGED <<tries, role, commit, match, clientVars, crashes>>

\* Mutant: a node that joins bootstraps as well.
StartJoiner_Bootstraps(n) ==
    /\ n # Boot /\ proc[n] = "down"
    /\ starts[n] => n \in Restartable
    /\ proc' = [proc EXCEPT ![n] = "joining"]
    /\ starts' = [starts EXCEPT ![n] = TRUE]
    /\ tries' = [tries EXCEPT ![n] = 0]
    /\ term' = [term EXCEPT ![n] = 1]
    /\ log' = [log EXCEPT ![n] = <<ConfigEntry(1, {n})>>]
    /\ UNCHANGED <<role, commit, match, clientVars, crashes>>

\* main with -join: raft runs without a configuration, HTTP is not served yet.
StartJoiner(n) ==
    /\ n # Boot /\ proc[n] = "down"
    /\ starts[n] => n \in Restartable
    /\ proc' = [proc EXCEPT ![n] = "joining"]
    /\ starts' = [starts EXCEPT ![n] = TRUE]
    /\ tries' = [tries EXCEPT ![n] = 0]
    /\ UNCHANGED <<raftVars, clientVars, crashes>>

Forget(n) ==
    /\ term' = [term EXCEPT ![n] = 0]
    /\ role' = [role EXCEPT ![n] = "follower"]
    /\ log' = [log EXCEPT ![n] = <<>>]
    /\ commit' = [commit EXCEPT ![n] = 0]
    /\ match' = [match EXCEPT ![n] = NoMatch]

\* The process dies; the log store and the stable store are memory.
Crash(n) ==
    /\ Alive(n) /\ crashes < MaxCrashes
    /\ crashes' = crashes + 1
    /\ proc' = [proc EXCEPT ![n] = "down"]
    /\ Forget(n)
    /\ UNCHANGED <<starts, tries, clientVars>>

-----------------------------------------------------------------------------
(* JoinCluster and handleJoin                                              *)

BootLeads == proc[Boot] = "serving" /\ role[Boot] = "leader"

\* handleJoin finds itself leader and calls AddVoter; raft appends the new
\* configuration once the one before is committed.
JoinAccepted(n) ==
    /\ proc[n] = "joining" /\ BootLeads
    /\ ConfigAt(Boot) <= commit[Boot] /\ log[Boot][commit[Boot]].term = term[Boot]
    /\ log' = [log EXCEPT ![Boot] =
                  Append(@, ConfigEntry(term[Boot], Members(Boot) \union {n}))]
    /\ proc' = [proc EXCEPT ![n] = "awaiting"]
    /\ UNCHANGED <<starts, tries, term, role, commit, match, clientVars, crashes>>

\* AddVoter's future returns when the configuration is committed; the joiner
\* then serves HTTP.
JoinConfirmed(n) ==
    /\ proc[n] = "awaiting" /\ BootLeads
    /\ n \in Members(Boot) /\ ConfigAt(Boot) <= commit[Boot]
    /\ proc' = [proc EXCEPT ![n] = "serving"]
    /\ UNCHANGED <<starts, tries, raftVars, clientVars, crashes>>

\* Mutant: a node whose join has failed for the last time goes on.
JoinFails_Serves(n) ==
    /\ proc[n] = "joining" \/ (proc[n] = "awaiting" /\ ~BootLeads)
    /\ tries' = [tries EXCEPT ![n] = @ + 1]
    /\ proc' = [proc EXCEPT ![n] = IF tries[n] + 1 < JoinRetries THEN "joining" ELSE "serving"]
    /\ UNCHANGED <<starts, raftVars, clientVars, crashes>>

\* The request fails: nobody answers at the address, or who does is not leader (any
\* more), or has a full queue until AddVoter's timeout.  The last failure ends the
\* process.
JoinFails(n) ==
    /\ proc[n] = "joining" \/ (proc[n] = "awaiting" /\ ~BootLeads)
    /\ tries' = [tries EXCEPT ![n] = @ + 1]
    /\ IF tries[n] + 1 < JoinRetries
         THEN /\ proc' = [proc EXCEPT ![n] = "joining"]
              /\ UNCHANGED raftVars
         ELSE /\ proc' = [proc EXCEPT ![n] = "down"]
              /\ Forget(n)
    /\ UNCHANGED <<starts, clientVars, crashes>>

-----------------------------------------------------------------------------
(* Raft                                                                    *)

\* n asks for votes in term t and a quorum Q of its configuration grants them.
Elect(n, t, Q) ==
    /\ Alive(n) /\ role[n] = "follower"
    /\ n \in Q /\ Q \subseteq Members(n) /\ IsQuorum(Q, Members(n))
    /\ \A v \in Q : Alive(v) /\ term[v] < t /\ UpToDate(log[n], log[v])
    /\ term' = [v \in Nodes |-> IF v \in Q THEN t ELSE term[v]]
    /\ role' = [v \in Nodes |-> CASE v = n -> "leader"
                                  [] v \in Q \ {n} -> "follower"
                                  [] OTHER -> role[v]]
    /\ log' = [log EXCEPT ![n] = Append(@, NoopEntry(t))]
    /\ match' = [match EXCEPT ![n] = NoMatch]
    /\ UNCHANGED <<proc, starts, tries, commit, clientVars, crashes>>

\* Leader l brings follower f up to its own log.
Replicate(l, f) ==
    /\ Alive(l) /\ role[l] = "leader"
    /\ f \in Members(l) \ {l} /\ Alive(f) /\ term[f] <= term[l]
    /\ LET p   == LastMatch(log[l], log[f])
           new == IF p = Len(log[l]) THEN log[f]
                  ELSE SubSeq(log[f], 1, p) \o SubSeq(log[l], p + 1, Len(log[l]))
       IN  /\ log' = [log EXCEPT ![f] = new]
           /\ commit' = [commit EXCEPT ![f] = Max({@, Min({commit[l], Len(new)})})]
    /\ match' = [match EXCEPT ![l][f] = Len(log[l])]
    /\ term' = [term EXCEPT ![f] = term[l]]
    /\ role' = [role EXCEPT ![f] = "follower"]
    /\ UNCHANGED <<proc, starts, tries, clientVars, crashes>>

\* A leader that hears of a higher term steps down.
StepDown(l, f) ==
    /\ Alive(l) /\ role[l] = "leader" /\ Alive(f) /\ f \in Members(l)
    /\ term[f] > term[l]
    /\ term' = [term EXCEPT ![l] = term[f]]
    /\ role' = [role EXCEPT ![l] = "follower"]
    /\ UNCHANGED <<proc, starts, tries, log, commit, match, clientVars, crashes>>

\* A leader's entries of its own term commit on a quorum, and the futures of
\* its writes among them return: handleSet answers "ok".
AdvanceCommit(l, i) ==
    /\ Alive(l) /\ role[l] = "leader"
    /\ i \in commit[l] + 1..Len(log[l]) /\ log[l][i].term = term[l]
    /\ IsQuorum({f \in Members(l) : f = l \/ match[l][f] >= i}, Members(l))
    /\ commit' = [commit EXCEPT ![l] = i]
    /\ acked' = acked \union
          {log[l][j].write : j \in {k \in commit[l] + 1..i :
                log[l][k].kind = "write" /\ log[l][k].term = term[l]}}
    /\ UNCHANGED <<proc, starts, tries, term, role, log, match, writes, crashes>>

-----------------------------------------------------------------------------

\* handleSet on a leader appends the write.
Write(l) ==
    /\ proc[l] = "serving" /\ role[l] = "leader" /\ writes < MaxWrites
    /\ writes' = writes + 1
    /\ log' = [log EXCEPT ![l] = Append(@, WriteEntry(term[l], writes + 1))]
    /\ UNCHANGED <<proc, starts, tries, term, role, commit, match, acked, crashes>>

Next ==
    \/ StartBoot
    \/ \E n \in Nodes : StartJoiner(n) \/ Crash(n) \/ Write(n)
    \/ \E n \in Nodes : JoinAccepted(n) \/ JoinConfirmed(n) \/ JoinFails(n)
    \/ \E n \in Nodes, t \in 1..MaxTerm, Q \in SUBSET Nodes : term[n] < t /\ Elect(n, t, Q)
    \/ \E l, f \in Nodes : Replicate(l, f) \/ StepDown(l, f)
    \/ \E l \in Nodes, i \in 1..MaxWrites + MaxTerm + 2 * Cardinality(Nodes) : AdvanceCommit(l, i)

Spec == Init /\ [][Next]_vars

-----------------------------------------------------------------------------
(* Properties                                                              *)

\* test_cluster.sh:207: "Restarted node ... has consistent data after recovery":
\* two nodes never disagree on an entry both have applied.
ConsistentData ==
    \A n, m \in Nodes : \A i \in 1..Min({commit[n], commit[m]}) : log[n][i] = log[m][i]

\* A leader that can still have anything committed: a quorum of its voters would
\* answer it.
CanCommit(l) ==
    /\ role[l] = "leader"
    /\ \E Q \in SUBSET Members(l) :
          IsQuorum(Q, Members(l)) /\ \A v \in Q : Alive(v) /\ term[v] <= term[l]

\* However many processes have ended, and with them their logs: a write answered
\* with "ok" is in the log of every leader that can still have anything committed.
AckedWritesSurvive ==
    \A l \in Nodes : CanCommit(l) =>
        \A w \in acked : \E i \in 1..Len(log[l]) : log[l][i].write = w

\* A node that serves HTTP because its join was confirmed is not lost to the
\* cluster: every such leader has it as a voter.
ServingIsMember ==
    \A l \in Nodes : CanCommit(l) =>
        {n \in Nodes : proc[n] = "serving"} \subseteq Members(l)

=============================================================================
