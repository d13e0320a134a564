--------------------------- MODULE MetricsMonitor ---------------------------
(***************************************************************************)
(* scripts/collect_metrics.py: a daemon thread that samples every node in  *)
(* turn, round after round until its duration is over, and a main thread   *)
(* that joins it, and only then saves what was collected.  Ctrl-C asks the *)
(* thread to stop; a second one, or SIGTERM, ends the process.             *)
(*                                                                         *)
(* A sample is abstracted to what became of one of its fields: measured,   *)
(* recorded as 0, or left out of the row.                                  *)
(***************************************************************************)
EXTENDS Integers, Sequences, SequencesExt

CONSTANTS
    WatchList,      \* the nodes, in the order of --nodes
    Kinds,          \* what is collected of a node: a sequence of kinds
    MaxPolls,       \* bound: polls of a command until its deadline
    MaxRounds,      \* bound: rounds within the duration
    MaxFailing      \* bound: commands that fail

Watched == {WatchList[k] : k \in DOMAIN WatchList}
KindSet == {Kinds[k] : k \in DOMAIN Kinds}

\* The nodes are the keys of a dictionary made from --nodes, which names at least one.
ASSUME WatchAssumption ==
    /\ WatchList \in Seq(Watched) /\ WatchList # <<>>
    /\ \A j, k \in 1..Len(WatchList) : WatchList[j] = WatchList[k] => j = k
ASSUME KindsAssumption ==
    /\ KindSet \subseteq {"system", "raft", "network", "quic_bench", "tcp_bench"}
    /\ Kinds \in Seq(KindSet) /\ Kinds # <<>>
    /\ \A j, k \in 1..Len(Kinds) : Kinds[j] = Kinds[k] => j = k
ASSUME RoundsAssumption == {MaxPolls, MaxRounds, MaxFailing} \subseteq Nat

VARIABLES
    collector,      \* the main thread
    running,        \* self.running
    thread,         \* the monitor thread: "none", "test", "collect", "sleep", "over"
    spot, round,    \* its position within a round, the rounds begun
    history,        \* metrics_history
    stored,         \* the CSV files, the history when they were written
    interrupts, failing

monitorVars == <<collector, running, thread, spot, round, history, stored, interrupts, failing>>

\* What the variables range over.
MonitorTypeOK ==
    /\ collector \in {"start", "join", "stopping", "save", "done", "lost"}
    /\ running \in BOOLEAN
    /\ thread \in {"none", "test", "collect", "sleep", "over"}
    /\ spot \in 1..Len(WatchList) * Len(Kinds) /\ round \in 0..MaxRounds
    /\ history \in [Watched \X KindSet -> Seq({"measured", "zero", "absent"})]
    /\ interrupts \in 0..2 /\ failing \in 0..MaxFailing

MonitorInit ==
    /\ collector = "start" /\ running = FALSE
    /\ thread = "none" /\ spot = 1 /\ round = 0
    /\ history = [x \in Watched \X KindSet |-> <<>>]
    /\ stored = <<>>
    /\ interrupts = 0 /\ failing = 0

-----------------------------------------------------------------------------
(* The monitor thread                                                      *)

StartMonitoring ==
    /\ collector = "start"
    /\ collector' = "join" /\ running' = TRUE /\ thread' = "test"
    /\ UNCHANGED <<spot, round, history, stored, interrupts, failing>>

\* Mutant: the thread goes on until both its time is over and it is stopped.
LoopTest_Or ==
    /\ thread = "test"
    /\ \/ /\ round < MaxRounds
          /\ thread' = "collect" /\ spot' = 1 /\ round' = round + 1
       \/ ~running /\ thread' = "over" /\ UNCHANGED <<spot, round>>
    /\ UNCHANGED <<collector, running, history, stored, interrupts, failing>>

\* The flag and the clock are looked at between rounds only; the time may be
\* over after any number of them.
LoopTest ==
    /\ thread = "test"
    /\ \/ /\ running /\ round < MaxRounds
          /\ thread' = "collect" /\ spot' = 1 /\ round' = round + 1
       \/ thread' = "over" /\ UNCHANGED <<spot, round>>
    /\ UNCHANGED <<collector, running, history, stored, interrupts, failing>>

\* _ssm_exec: what the polls of a command see, until the first terminal status
\* or the deadline.  "Silent" is a success without output.
PollStatus == {"call failed", "InProgress", "Success", "Silent", "Failed"}
SsmExec(polls) ==
    LET end == SelectInSeq(polls, LAMBDA s : s \in {"Success", "Silent", "Failed"})
    IN IF end > 0 /\ polls[end] = "Success" THEN "text" ELSE "empty"

\* _remote_exec: SSM answers with a text, empty when anything went wrong (no
\* poll: send-command failed); over SSH a timeout is an exception.  So is a text
\* that is not what the command should print, where it is parsed.
Replies ==
    {SsmExec(polls) : polls \in UNION {[1..k -> PollStatus] : k \in 0..MaxPolls}}
        \union {"text", "empty", "exception"}

\* What a field becomes: the CPU usage, the term, the loss of packets, and the
\* latency of a write, whose curl the collector runs itself.
System(reply) == IF reply = "text" THEN "measured" ELSE "zero"
Raft(reply) == IF reply = "text" THEN "measured" ELSE "absent"
Network(reply) ==
    IF reply = "text" THEN "measured" ELSE IF reply = "empty" THEN "absent" ELSE "zero"
Latency(reply) == Network(reply)

Field(kind, reply) ==
    CASE kind = "system" -> System(reply)
      [] kind = "raft" -> Raft(reply)
      [] kind = "network" -> Network(reply)
      [] kind \in {"quic_bench", "tcp_bench"} -> Latency(reply)

Spots == Len(WatchList) * Len(Kinds)
NodeAt(k) == WatchList[((k - 1) \div Len(Kinds)) + 1]
KindAt(k) == Kinds[((k - 1) % Len(Kinds)) + 1]
NextSpot ==
    IF spot = Spots THEN thread' = "sleep" /\ UNCHANGED spot
    ELSE spot' = spot + 1 /\ UNCHANGED thread

\* Mutant: an exception of one command is caught around the whole loop only.
Collect_Uncaught ==
    /\ thread = "collect"
    /\ \/ /\ \E reply \in Replies :
                /\ failing' = IF reply = "text" THEN failing ELSE failing + 1
                /\ failing' <= MaxFailing
                /\ history' = [history EXCEPT ![<<NodeAt(spot), KindAt(spot)>>] =
                                 Append(@, Field(KindAt(spot), reply))]
          /\ NextSpot
       \/ /\ thread' = "over" /\ failing < MaxFailing /\ failing' = failing + 1
          /\ UNCHANGED <<spot, history>>
    /\ UNCHANGED <<collector, running, round, stored, interrupts>>

\* collect_system_metrics, collect_raft_metrics, collect_network_metrics and
\* collect_benchmark_metrics catch every exception of theirs.
Collect ==
    /\ thread = "collect"
    /\ \E reply \in Replies :
          /\ failing' = IF reply = "text" THEN failing ELSE failing + 1
          /\ failing' <= MaxFailing
          /\ history' = [history EXCEPT ![<<NodeAt(spot), KindAt(spot)>>] =
                           Append(@, Field(KindAt(spot), reply))]
    /\ NextSpot
    /\ UNCHANGED <<collector, running, round, stored, interrupts>>

Sleep ==
    /\ thread = "sleep"
    /\ thread' = "test"
    /\ UNCHANGED <<collector, running, spot, round, history, stored, interrupts, failing>>

-----------------------------------------------------------------------------
(* The main thread                                                         *)

Joined ==
    /\ collector \in {"join", "stopping"} /\ thread = "over"
    /\ collector' = "save"
    /\ UNCHANGED <<running, thread, spot, round, history, stored, interrupts, failing>>

\* Ctrl-C: the first one while the thread is joined stops it; any other is not
\* caught, and the daemon thread ends with the process.
InterruptMonitor ==
    /\ interrupts < 2 /\ collector \in {"join", "stopping", "save"}
    /\ interrupts' = interrupts + 1
    /\ IF collector = "join"
         THEN collector' = "stopping" /\ running' = FALSE /\ UNCHANGED thread
         ELSE collector' = "lost" /\ thread' = "over" /\ UNCHANGED running
    /\ UNCHANGED <<spot, round, history, stored, failing>>

\* kill, as the test runner does it: there is no handler.
Terminate ==
    /\ collector \in {"join", "stopping", "save"}
    /\ collector' = "lost" /\ thread' = "over"
    /\ UNCHANGED <<running, spot, round, history, stored, interrupts, failing>>

\* save_metrics writes a file per node and kind that has samples; get_summary
\* then averages what is a number, the zeros of failed commands included.
SaveMetrics ==
    /\ collector = "save"
    /\ collector' = "done"
    /\ stored' = [x \in {x \in DOMAIN history : history[x] # <<>>} |-> history[x]]
    /\ UNCHANGED <<running, thread, spot, round, history, interrupts, failing>>

MonitorStep == StartMonitoring \/ LoopTest \/ Collect \/ Sleep \/ Joined \/ SaveMetrics
MonitorNext == MonitorStep \/ InterruptMonitor \/ Terminate

MonitorSpec == MonitorInit /\ [][MonitorNext]_monitorVars

-----------------------------------------------------------------------------
(* Properties                                                              *)

\* What is saved is the whole history, of finished rounds only: every node has
\* one sample of every kind for each round that was begun, whatever its commands
\* returned and wherever in a round Ctrl-C came, and the thread adds no more.
SavedIsWhole ==
    collector = "done" =>
        /\ thread = "over"
        /\ \A x \in DOMAIN history : Len(history[x]) = round
        /\ DOMAIN stored = (IF round = 0 THEN {} ELSE DOMAIN history)
        /\ \A x \in DOMAIN stored : stored[x] = history[x]

\* A collector that was started ends, after its duration or Ctrl-C at the
\* latest, with its samples saved or the process gone.
CollectorEnds == collector = "join" ~> collector \in {"done", "lost"}

=============================================================================
