------------------------- MODULE KVStateMachineProofs -------------------------
(***************************************************************************)
(* For any keys, values and commands: the map is the effect of a prefix of *)
(* the log, through every snapshot, restore and restart, and a stored      *)
(* snapshot is the map at the moment when Snapshot was called.             *)
(*                                                                         *)
(* The reference definition Replay is recursive.  What is needed of it     *)
(* (that it exists, and depends on a prefix of the log only) is proved     *)
(* from the least number for which it fails.                               *)
(***************************************************************************)
EXTENDS KVStateMachine, WellFoundedInduction, TLAPS

\* Every set of natural numbers that is not empty has a least element.
LEMMA LeastNumber ==
    ASSUME NEW T, T \subseteq Nat, T # {}
    PROVE  \E x \in T : \A y \in T : x <= y
<1> DEFINE R == OpToRel(<, Nat)
<1>1. IsWellFoundedOn(R, Nat)
  BY NatLessThanWellFounded
<1>2. \E x \in T : \A y \in T : ~ (<<y, x>> \in R)
  BY <1>1, WFMin
<1>3. \A x, y \in T : ~ (<<y, x>> \in R) => x <= y
  BY DEF OpToRel
<1> QED
  BY <1>2, <1>3

-----------------------------------------------------------------------------
(* The reference definition.                                               *)

\* One step of Replay, on the log l; Replay is ReplayOf(log).
Replayed(f, l, n) == IF n = 0 THEN Empty ELSE Execute(f[n - 1], l[n])
ReplayOf(l) == CHOOSE f : f = [n \in 0..MaxLog |-> Replayed(f, l, n)]

\* The recursion has a solution: were there a first length without one, the
\* solution for the length before could be extended.
LEMMA ReplayExists ==
    ASSUME NEW l
    PROVE  \E f : f = [n \in 0..MaxLog |-> Replayed(f, l, n)]
<1> DEFINE Solves(f, m) == f = [n \in 0..m |-> Replayed(f, l, n)]
           T == {m \in Nat : ~ \E f : Solves(f, m)}
<1> SUFFICES T = {}
    BY BoundsAssumption
<1> SUFFICES ASSUME T # {} PROVE FALSE
    OBVIOUS
<1>1. PICK m \in T : \A y \in T : m <= y
  <2>1. T \subseteq Nat
    OBVIOUS
  <2> HIDE DEF T
  <2> QED
    BY <2>1, LeastNumber
<1>2. CASE m = 0
  <2> DEFINE g == [n \in 0..0 |-> Empty]
  <2>1. \A n \in 0..0 : Replayed(g, l, n) = Empty
    BY DEF Replayed
  <2>2. g = [n \in 0..0 |-> Replayed(g, l, n)]
    BY <2>1
  <2> QED
    BY <1>1, <1>2, <2>2
<1>3. CASE m # 0
  <2>1. m \in Nat /\ m - 1 \in Nat /\ m - 1 \notin T
    BY <1>1, <1>3
  <2>2. PICK f : Solves(f, m - 1)
    BY <2>1
  <2> DEFINE g == [n \in 0..m |-> IF n = m THEN Replayed(f, l, m) ELSE f[n]]
  <2>3. \A n \in 0..m - 1 : f[n] = Replayed(f, l, n)
    BY <2>2
  <2>a. g[m] = Replayed(f, l, m) /\ \A n \in 0..m - 1 : g[n] = f[n]
    BY <2>1
  <2>4. ASSUME NEW n \in 0..m
        PROVE  g[n] = Replayed(g, l, n)
    <3>1. n = 0 \/ g[n - 1] = f[n - 1]
      <4>1. n = 0 \/ n - 1 \in 0..m - 1
        BY <2>1
      <4> QED
        BY <2>a, <4>1
    <3>2. Replayed(g, l, n) = Replayed(f, l, n)
      BY <3>1 DEF Replayed
    <3>3. g[n] = Replayed(f, l, n)
      BY <2>1, <2>3, <2>a
    <3> QED
      BY <3>2, <3>3
  <2>5. Solves(g, m)
    BY <2>4
  <2> QED
    BY <1>1, <2>5
<1> QED
  BY <1>2, <1>3

\* So it unfolds as its definition says.
LEMMA ReplayUnfolds ==
    ASSUME NEW l
    PROVE  /\ ReplayOf(l)[0] = Empty
           /\ \A n \in 1..MaxLog : ReplayOf(l)[n] = Execute(ReplayOf(l)[n - 1], l[n])
<1> DEFINE r == ReplayOf(l)
<1>1. r = [n \in 0..MaxLog |-> Replayed(r, l, n)]
  BY ReplayExists DEF ReplayOf
<1> HIDE DEF r
<1>2. \A n \in 0..MaxLog : r[n] = Replayed(r, l, n)
  BY <1>1
<1>3. r[0] = Empty /\ \A n \in 1..MaxLog : r[n] = Execute(r[n - 1], l[n])
  BY <1>2, BoundsAssumption DEF Replayed
<1> QED
  BY <1>3 DEF r

\* Logs that agree on their first k commands have the same effect up to there.
LEMMA ReplayOfPrefix ==
    ASSUME NEW l, NEW m, NEW k \in 0..MaxLog, \A n \in 1..k : l[n] = m[n]
    PROVE  \A n \in 0..k : ReplayOf(l)[n] = ReplayOf(m)[n]
<1> DEFINE T == {n \in 0..k : ReplayOf(l)[n] # ReplayOf(m)[n]}
<1> SUFFICES ASSUME T # {} PROVE FALSE
    OBVIOUS
<1>1. PICK n \in T : \A y \in T : n <= y
  <2>1. T \subseteq Nat
    OBVIOUS
  <2> HIDE DEF T
  <2> QED
    BY <2>1, LeastNumber
<1>2. n # 0
  BY <1>1, ReplayUnfolds
<1>3. /\ n \in 1..k /\ n \in 1..MaxLog
      /\ ReplayOf(l)[n - 1] = ReplayOf(m)[n - 1]
  BY <1>1, <1>2, BoundsAssumption
<1>4. ReplayOf(l)[n] = Execute(ReplayOf(l)[n - 1], l[n])
  BY <1>3, ReplayUnfolds
<1>5. ReplayOf(m)[n] = Execute(ReplayOf(m)[n - 1], m[n])
  BY <1>3, ReplayUnfolds
<1> QED
  BY <1>1, <1>3, <1>4, <1>5

\* A command takes a map to a map.
LEMMA ExecuteType ==
    ASSUME NEW m \in Maps, NEW c \in Commands
    PROVE  Execute(m, c) \in Maps
<1>1. CASE c.op = "set"
  <2>1. c.value \in Values
    BY <1>1 DEF Commands
  <2> QED
    BY <1>1, <2>1 DEF Execute, Maps
<1>2. CASE c.op # "set"
  BY <1>2 DEF Execute, Maps
<1> QED
  BY <1>1, <1>2

\* What the reference gives for a prefix of a log is a map.
LEMMA ReplayType ==
    ASSUME NEW l \in Seq(Commands), Len(l) <= MaxLog
    PROVE  \A n \in 0..Len(l) : ReplayOf(l)[n] \in Maps
<1> DEFINE T == {n \in 0..Len(l) : ReplayOf(l)[n] \notin Maps}
<1> SUFFICES ASSUME T # {} PROVE FALSE
    OBVIOUS
<1>0. Len(l) \in Nat
  OBVIOUS
<1>1. PICK n \in T : \A y \in T : n <= y
  <2>1. T \subseteq Nat
    BY <1>0
  <2> HIDE DEF T
  <2> QED
    BY <2>1, LeastNumber
<1>2. n # 0
  BY <1>1, ReplayUnfolds DEF Empty, Maps
<1>3. /\ n \in 1..Len(l) /\ n \in 1..MaxLog
      /\ ReplayOf(l)[n - 1] \in Maps
  BY <1>0, <1>1, <1>2, BoundsAssumption
<1>4. ReplayOf(l)[n] = Execute(ReplayOf(l)[n - 1], l[n])
  BY <1>3, ReplayUnfolds
<1>5. l[n] \in Commands
  BY <1>3
<1> QED
  BY <1>1, <1>3, <1>4, <1>5, ExecuteType

\* As long as the log is only appended to, what Replay gives for the prefixes
\* that there are stays what it is.
LEMMA ReplayStays ==
    ASSUME TypeOK, [Next]_vars
    PROVE  /\ Len(log) \in 0..MaxLog /\ Len(log) <= Len(log')
           /\ \A n \in 0..Len(log) : Replay'[n] = Replay[n]
<1>1. Len(log) \in 0..MaxLog /\ log \in Seq(Commands)
  BY BoundsAssumption DEF TypeOK
<1>2. Len(log) <= Len(log') /\ \A n \in 1..Len(log) : log'[n] = log[n]
  <2>1. CASE Commit
    <3>1. PICK c \in Commands : log' = Append(log, c)
      BY <2>1 DEF Commit
    <3> QED
      BY <1>1, <3>1
  <2>2. CASE log' = log
    BY <1>1, <2>2
  <2> QED
    BY <2>1, <2>2 DEF Next, vars, Apply, Snapshot, PersistDone, PersistFails, EncodeKey,
                      InstallSnapshot, Restart
<1>3. Replay = ReplayOf(log) /\ Replay' = ReplayOf(log')
  BY DEF Replay, ReplayOf, Replayed
<1>4. \A n \in 0..Len(log) : ReplayOf(log)[n] = ReplayOf(log')[n]
  BY <1>1, <1>2, ReplayOfPrefix
<1> QED
  BY <1>1, <1>2, <1>3, <1>4

\* The reference, as far as the log goes, is a map that each command changes.
LEMMA ReplayIsMap ==
    ASSUME TypeOK
    PROVE  /\ Replay[0] = Empty
           /\ \A n \in 0..Len(log) : Replay[n] \in Maps
           /\ \A n \in 0..Len(log) - 1 : Replay[n + 1] = Execute(Replay[n], log[n + 1])
<1>1. Len(log) \in 0..MaxLog /\ log \in Seq(Commands)
  BY BoundsAssumption DEF TypeOK
<1>2. Replay = ReplayOf(log)
  BY DEF Replay, ReplayOf, Replayed
<1>3. \A n \in 0..Len(log) : ReplayOf(log)[n] \in Maps
  BY <1>1, ReplayType
<1>4. ASSUME NEW n \in 0..Len(log) - 1
      PROVE  ReplayOf(log)[n + 1] = Execute(ReplayOf(log)[n], log[n + 1])
  <2>1. n + 1 \in 1..MaxLog /\ (n + 1) - 1 = n
    BY <1>1, BoundsAssumption
  <2>2. ReplayOf(log)[n + 1] = Execute(ReplayOf(log)[(n + 1) - 1], log[n + 1])
    BY <2>1, ReplayUnfolds
  <2> QED
    BY <2>1, <2>2
<1>5. ReplayOf(log)[0] = Empty
  BY ReplayUnfolds
<1> QED
  BY <1>2, <1>3, <1>4, <1>5

-----------------------------------------------------------------------------

\* The copy that Persist encodes is the map as Snapshot saw it, however far the
\* state machine has gone on, and what is written to the sink is of that copy.
PersistInv ==
    persist # Idle =>
        /\ persist.index <= Len(log)
        /\ persist.map = Replay[persist.index]
        /\ \A k \in DOMAIN encoded : encoded[k] = persist.map[k]

\* A stored snapshot is of a prefix of the log.
StoredInv == stored # Idle => stored.index <= Len(log)

IInv == TypeOK /\ PersistInv /\ StoredInv /\ DataIsReplay /\ SnapshotIsConsistent

\* A snapshot is told from none by its index.
LEMMA SnapshotTypes ==
    \A s \in Snapshots \union {Idle} : s # Idle <=> s \in Snapshots
<1>1. Idle \notin Snapshots
  BY BoundsAssumption DEF Idle, Snapshots
<1> QED
  BY <1>1

\* Initially the map is empty, which is the effect of no command.
LEMMA InitIInv == Init => IInv
<1> SUFFICES ASSUME Init PROVE IInv
    OBVIOUS
<1>1. TypeOK
  <2>1. encoded \in [{} -> Values \union {Absent}] /\ {} \in SUBSET Keys
    BY DEF Init
  <2>2. encoded \in Partial
    BY <2>1 DEF Partial
  <2> QED
    BY <2>2, BoundsAssumption DEF Init, TypeOK, Empty, Maps, Idle
<1>2. Replay[0] = Empty
  BY <1>1, ReplayIsMap
<1> QED
  BY <1>1, <1>2 DEF Init, IInv, PersistInv, StoredInv, DataIsReplay, SnapshotIsConsistent

\* Encoding one more key keeps the part a function on keys.
LEMMA EncodeType ==
    ASSUME TypeOK, NEW k \in Keys, EncodeKey(k)
    PROVE  encoded' \in Partial
<1>1. PICK K \in SUBSET Keys : encoded \in [K -> Values \union {Absent}]
  BY DEF TypeOK, Partial
<1>2. persist.map[k] \in Values \union {Absent}
  BY SnapshotTypes DEF TypeOK, EncodeKey, Snapshots, Maps
<1>3. encoded' \in [K \union {k} -> Values \union {Absent}]
  BY <1>1, <1>2 DEF EncodeKey
<1> QED
  BY <1>1, <1>3 DEF Partial

\* When all keys are encoded, the sink holds the copy.
LEMMA EncodedIsCopy ==
    ASSUME TypeOK, PersistInv, PersistDone
    PROVE  encoded = persist.map
<1>1. PICK K \in SUBSET Keys : encoded \in [K -> Values \union {Absent}]
  BY DEF TypeOK, Partial
<1>2. encoded \in [Keys -> Values \union {Absent}]
  BY <1>1 DEF PersistDone
<1>3. persist.map \in [Keys -> Values \union {Absent}]
  BY SnapshotTypes DEF TypeOK, PersistDone, Snapshots, Maps
<1>4. \A k \in Keys : encoded[k] = persist.map[k]
  BY DEF PersistInv, PersistDone
<1> QED
  BY <1>2, <1>3, <1>4

\* Every step keeps the types.
LEMMA NextTypeOK == IInv /\ [Next]_vars => TypeOK'
<1> SUFFICES ASSUME IInv, [Next]_vars
             PROVE  TypeOK'
    OBVIOUS
<1> USE BoundsAssumption DEF TypeOK
<1>0. /\ TypeOK /\ PersistInv /\ StoredInv
      /\ log \in Seq(Commands) /\ Len(log) \in 0..MaxLog
  BY DEF IInv
<1>e. <<>> \in Partial
  <2>1. <<>> \in [{} -> Values \union {Absent}]
    OBVIOUS
  <2> QED
    BY <2>1 DEF Partial
<1>1. CASE Commit
  <2>1. PICK c \in Commands : log' = Append(log, c)
    BY <1>1 DEF Commit
  <2>2. log' \in Seq(Commands) /\ Len(log') <= MaxLog /\ Len(log') = Len(log) + 1
    BY <1>0, <1>1, <2>1 DEF Commit
  <2> QED
    BY <1>0, <1>1, <2>2 DEF Commit
<1>2. CASE Apply
  <2>1. applied + 1 \in 1..Len(log)
    BY <1>0, <1>2 DEF Apply
  <2>2. data' \in Maps
    BY <1>0, <1>2, <2>1, ExecuteType DEF Apply
  <2> QED
    BY <1>0, <1>2, <2>1, <2>2 DEF Apply
<1>3. CASE Snapshot
  <2>1. persist' \in Snapshots
    BY <1>0, <1>3 DEF Snapshot, Snapshots
  <2> QED
    BY <1>0, <1>e, <1>3, <2>1 DEF Snapshot
<1>4. ASSUME NEW k \in Keys, EncodeKey(k)
      PROVE  TypeOK'
  BY <1>0, <1>4, EncodeType DEF EncodeKey
<1>5. CASE PersistDone
  <2>1. persist \in Snapshots
    BY <1>0, <1>5, SnapshotTypes DEF PersistDone
  <2>2. [index |-> persist.index, map |-> encoded] \in Snapshots
    BY <1>0, <1>5, <2>1, EncodedIsCopy DEF Snapshots
  <2> QED
    BY <1>0, <1>e, <1>5, <2>2 DEF PersistDone
<1>6. CASE PersistFails
  BY <1>0, <1>e, <1>6 DEF PersistFails
<1>7. ASSUME NEW n \in 1..MaxLog, InstallSnapshot(n)
      PROVE  TypeOK'
  <2>1. n \in 0..Len(log) /\ n \in 0..MaxLog
    BY <1>0, <1>7 DEF InstallSnapshot
  <2>2. Replay[n] \in Maps
    BY <1>0, <2>1, ReplayIsMap
  <2>3. stored' \in Snapshots
    BY <1>7, <2>1, <2>2 DEF InstallSnapshot, Snapshots
  <2> QED
    BY <1>0, <1>7, <2>1, <2>2, <2>3 DEF InstallSnapshot
<1>8. CASE Restart
  <2>1. data' \in Maps /\ applied' \in 0..Len(log)
    <3>1. CASE stored = Idle
      BY <1>0, <1>8, <3>1 DEF Restart, Empty, Maps
    <3>2. CASE stored # Idle
      BY <1>0, <1>8, <3>2, SnapshotTypes DEF Restart, Snapshots, StoredInv
    <3> QED
      BY <3>1, <3>2
  <2> QED
    BY <1>0, <1>e, <1>8, <2>1 DEF Restart
<1>9. CASE UNCHANGED vars
  BY <1>0, <1>9 DEF vars
<1> QED
  BY <1>1, <1>2, <1>3, <1>4, <1>5, <1>6, <1>7, <1>8, <1>9 DEF Next

\* Every step keeps the map equal to the effect of the prefix it counts, and
\* the copy and the stored snapshot equal to theirs.
LEMMA NextIInv == IInv /\ [Next]_vars => IInv'
<1> SUFFICES ASSUME IInv, [Next]_vars
             PROVE  IInv'
    OBVIOUS
<1>0. /\ TypeOK /\ PersistInv /\ StoredInv /\ DataIsReplay /\ SnapshotIsConsistent
      /\ applied \in 0..Len(log)
  BY DEF IInv, TypeOK
<1>t. TypeOK'
  BY NextTypeOK
<1>r. /\ Len(log) \in 0..MaxLog /\ Len(log) <= Len(log') /\ Len(log') \in Nat
      /\ \A n \in 0..Len(log) : Replay'[n] = Replay[n]
  BY <1>0, <1>t, ReplayStays DEF TypeOK
<1>s. /\ persist # Idle => persist.index \in 0..Len(log)
      /\ stored # Idle => stored.index \in 0..Len(log)
  BY <1>0, <1>r, SnapshotTypes, BoundsAssumption DEF TypeOK, Snapshots, PersistInv, StoredInv
<1>1. PersistInv'
  <2>1. CASE Snapshot
    BY <1>0, <1>r, <2>1 DEF Snapshot, PersistInv, DataIsReplay
  <2>2. ASSUME NEW k \in Keys, EncodeKey(k)
        PROVE  PersistInv'
    <3>1. \A j \in DOMAIN encoded' : encoded'[j] = persist.map[j]
      BY <1>0, <2>2 DEF EncodeKey, PersistInv
    <3> QED
      BY <1>0, <1>r, <1>s, <2>2, <3>1 DEF EncodeKey, PersistInv
  <2>3. CASE PersistDone \/ PersistFails \/ Restart
    BY <2>3 DEF PersistDone, PersistFails, Restart, PersistInv
  <2>4. CASE UNCHANGED <<persist, encoded>>
    BY <1>0, <1>r, <1>s, <2>4 DEF PersistInv
  <2> QED
    BY <2>1, <2>2, <2>3, <2>4 DEF Next, vars, Commit, Apply, InstallSnapshot
<1>2. StoredInv' /\ SnapshotIsConsistent'
  <2>1. CASE PersistDone
    <3>1. encoded = persist.map
      BY <1>0, <2>1, EncodedIsCopy
    <3> QED
      BY <1>0, <1>r, <1>s, <2>1, <3>1
         DEF PersistDone, PersistInv, StoredInv, SnapshotIsConsistent
  <2>2. ASSUME NEW n \in 1..MaxLog, InstallSnapshot(n)
        PROVE  StoredInv' /\ SnapshotIsConsistent'
    BY <1>0, <1>r, <2>2 DEF InstallSnapshot, StoredInv, SnapshotIsConsistent
  <2>3. CASE stored' = stored
    BY <1>0, <1>r, <1>s, <2>3 DEF StoredInv, SnapshotIsConsistent
  <2> QED
    BY <2>1, <2>2, <2>3 DEF Next, vars, Commit, Apply, Snapshot, EncodeKey, PersistFails,
                            Restart
<1>3. DataIsReplay'
  <2>1. CASE Apply
    <3>1. /\ applied \in 0..Len(log) - 1 /\ applied + 1 \in 0..Len(log)
          /\ Replay[applied + 1] = Execute(Replay[applied], log[applied + 1])
      BY <1>0, <1>r, <2>1, ReplayIsMap DEF Apply
    <3> QED
      BY <1>0, <1>r, <2>1, <3>1 DEF Apply, DataIsReplay
  <2>2. ASSUME NEW n \in 1..MaxLog, InstallSnapshot(n)
        PROVE  DataIsReplay'
    BY <1>0, <1>r, <2>2 DEF InstallSnapshot, DataIsReplay
  <2>3. CASE Restart
    <3>1. CASE stored = Idle
      BY <1>0, <1>r, <2>3, <3>1, ReplayIsMap DEF Restart, DataIsReplay
    <3>2. CASE stored # Idle
      BY <1>0, <1>r, <1>s, <2>3, <3>2 DEF Restart, DataIsReplay, SnapshotIsConsistent
    <3> QED
      BY <3>1, <3>2
  <2>4. CASE UNCHANGED <<data, applied>>
    BY <1>0, <1>r, <2>4 DEF DataIsReplay
  <2> QED
    BY <2>1, <2>2, <2>3, <2>4 DEF Next, vars, Commit, Snapshot, EncodeKey, PersistDone,
                                  PersistFails
<1> QED
  BY <1>t, <1>1, <1>2, <1>3 DEF IInv

-----------------------------------------------------------------------------

\* IInv is an invariant of every state machine.
LEMMA Invariance == Spec => []IInv
  BY InitIInv, NextIInv, PTL DEF Spec

\* Get reads the effect of exactly the commands that raft counts as applied, for
\* any log: no snapshot, install, failure of Persist or restart loses a command
\* or applies one twice.
THEOREM GetReadsPrefix == Spec => []DataIsReplay
<1>1. IInv => DataIsReplay
  BY DEF IInv
<1> QED
  BY Invariance, <1>1, PTL

\* Persist writes the map as it was when Snapshot was called, although commands
\* are applied while it encodes one key after another.
THEOREM PersistWritesCopy == Spec => []SnapshotIsConsistent
<1>1. IInv => SnapshotIsConsistent
  BY DEF IInv
<1> QED
  BY Invariance, <1>1, PTL

=============================================================================
