--------------------------- MODULE KVStateMachine ---------------------------
(***************************************************************************)
(* fsm/fsm.go: the key-value store that raft drives.                       *)
(*                                                                         *)
(* Raft's FSM goroutine calls Apply, Snapshot and Restore one at a time;   *)
(* the snapshot it got is encoded by Persist on another goroutine, while   *)
(* further commands are applied.  A restarted process restores the newest  *)
(* snapshot of its file store and is then sent the log from there on.      *)
(***************************************************************************)
EXTENDS Integers, Sequences

CONSTANTS
    Keys, Values,
    Absent,        \* stands for a key that is not in the map
    MaxLog,        \* bound: commands in the log
    MaxRestarts    \* bound: restarts of the process

ASSUME AbsentAssumption == Absent \notin Values
ASSUME BoundsAssumption == MaxLog \in Nat /\ MaxRestarts \in Nat

VARIABLES
    log,        \* the commands committed by the cluster
    applied,    \* how many of them the map reflects, as raft counts
    data,       \* k.data
    persist,    \* the snapshot Persist is encoding
    encoded,    \* the part of it written to the sink
    stored,     \* the newest snapshot in the snapshot store
    restarts

vars == <<log, applied, data, persist, encoded, stored, restarts>>

Maps == [Keys -> Values \union {Absent}]
Empty == [k \in Keys |-> Absent]
Commands ==
    [op : {"set"}, key : Keys, value : Values] \union [op : {"del", "other"}, key : Keys]
Partial == UNION {[K -> Values \union {Absent}] : K \in SUBSET Keys}

\* A snapshot with the index it was taken at; Idle where there is none.
Snapshots == [index : 0..MaxLog, map : Maps]
Idle == [index |-> -1, map |-> Empty]

TypeOK ==
    /\ log \in Seq(Commands) /\ Len(log) <= MaxLog
    /\ applied \in 0..Len(log)
    /\ data \in Maps
    /\ persist \in Snapshots \union {Idle}
    /\ encoded \in Partial
    /\ stored \in Snapshots \union {Idle}
    /\ restarts \in 0..MaxRestarts

Init ==
    /\ log = <<>> /\ applied = 0
    /\ data = Empty
    /\ persist = Idle /\ encoded = <<>>
    /\ stored = Idle
    /\ restarts = 0

-----------------------------------------------------------------------------

\* The cluster commits a command.
Commit ==
    /\ Len(log) < MaxLog
    /\ \E c \in Commands : log' = Append(log, c)
    /\ UNCHANGED <<applied, data, persist, encoded, stored, restarts>>

\* What a command does to a map; an unknown op is an error and changes nothing.
Execute(m, c) ==
    CASE c.op = "set" -> [m EXCEPT ![c.key] = c.value]
      [] c.op = "del" -> [m EXCEPT ![c.key] = Absent]
      [] OTHER        -> m

Apply ==
    /\ applied < Len(log)
    /\ data' = Execute(data, log[applied + 1])
    /\ applied' = applied + 1
    /\ UNCHANGED <<log, persist, encoded, stored, restarts>>

\* Snapshot copies the map under the lock.
Snapshot ==
    /\ persist = Idle
    /\ persist' = [index |-> applied, map |-> data]
    /\ encoded' = <<>>
    /\ UNCHANGED <<log, applied, data, stored, restarts>>

\* Mutant: the snapshot shares the map with the state machine.
EncodeKey_Shared(k) ==
    /\ persist # Idle /\ k \notin DOMAIN encoded
    /\ encoded' = [j \in DOMAIN encoded \union {k} |->
                      IF j = k THEN data[k] ELSE encoded[j]]
    /\ UNCHANGED <<log, applied, data, persist, stored, restarts>>

\* Persist encodes the copy, one key after another.
EncodeKey(k) ==
    /\ persist # Idle /\ k \notin DOMAIN encoded
    /\ encoded' = [j \in DOMAIN encoded \union {k} |->
                      IF j = k THEN persist.map[k] ELSE encoded[j]]
    /\ UNCHANGED <<log, applied, data, persist, stored, restarts>>

\* The sink is closed; the newest snapshot is the one with the highest index.
PersistDone ==
    /\ persist # Idle /\ DOMAIN encoded = Keys
    /\ stored' = IF persist.index > stored.index
                 THEN [index |-> persist.index, map |-> encoded] ELSE stored
    /\ persist' = Idle /\ encoded' = <<>>
    /\ UNCHANGED <<log, applied, data, restarts>>

\* Mutant: a failed snapshot is closed instead of cancelled.
PersistFails_Closes ==
    /\ persist # Idle
    /\ stored' = [index |-> persist.index,
                  map |-> [k \in Keys |-> IF k \in DOMAIN encoded THEN encoded[k] ELSE Absent]]
    /\ persist' = Idle /\ encoded' = <<>>
    /\ UNCHANGED <<log, applied, data, restarts>>

\* A write to the sink fails and the snapshot is cancelled.
PersistFails ==
    /\ persist # Idle
    /\ persist' = Idle /\ encoded' = <<>>
    /\ UNCHANGED <<log, applied, data, stored, restarts>>

\* What the map is after the first n commands: the reference definition.
Replay[n \in 0..MaxLog] ==
    IF n = 0 THEN Empty ELSE Execute(Replay[n - 1], log[n])

\* Mutant: Restore adds what it decodes to the map it has.
InstallSnapshot_Merge(n) ==
    /\ n \in applied + 1..Len(log)
    /\ data' = [k \in Keys |-> IF Replay[n][k] = Absent THEN data[k] ELSE Replay[n][k]]
    /\ applied' = n
    /\ stored' = [index |-> n, map |-> Replay[n]]
    /\ UNCHANGED <<log, persist, encoded, restarts>>

\* The leader sends a snapshot: raft stores it, and Restore replaces the map
\* as a whole.
InstallSnapshot(n) ==
    /\ n \in applied + 1..Len(log)
    /\ data' = Replay[n]
    /\ applied' = n
    /\ stored' = [index |-> n, map |-> Replay[n]]
    /\ UNCHANGED <<log, persist, encoded, restarts>>

\* The process restarts: New, and Restore of the newest snapshot if there is one.
Restart ==
    /\ restarts < MaxRestarts
    /\ restarts' = restarts + 1
    /\ persist' = Idle /\ encoded' = <<>>
    /\ IF stored = Idle
         THEN data' = Empty /\ applied' = 0
         ELSE data' = stored.map /\ applied' = stored.index
    /\ UNCHANGED <<log, stored>>

\* A snapshot that does not decode, on the way or on the disk, changes nothing:
\* Restore returns the error before it takes the lock, which is a stuttering step.
Next ==
    \/ Commit \/ Apply
    \/ Snapshot \/ PersistDone \/ PersistFails
    \/ \E k \in Keys : EncodeKey(k)
    \/ \E n \in 1..MaxLog : InstallSnapshot(n)
    \/ Restart

Spec == Init /\ [][Next]_vars

-----------------------------------------------------------------------------
(* Properties                                                              *)

\* What Get reads is exactly the effect of a prefix of the log, through every
\* snapshot, restore and restart.
DataIsReplay == data = Replay[applied]

\* A stored snapshot is the map as it was when Snapshot was called, although
\* commands went on being applied while it was encoded.
SnapshotIsConsistent == stored # Idle => stored.map = Replay[stored.index]

=============================================================================
