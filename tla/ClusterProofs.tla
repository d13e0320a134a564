---------------------------- MODULE ClusterProofs ----------------------------
(***************************************************************************)
(* Safety of a cluster whose processes are not started again, for any      *)
(* number of nodes, terms, writes and processes that die: nodes agree on   *)
(* what they have applied, and a leader that can still have anything       *)
(* committed has every acknowledged write and every confirmed voter.       *)
(*                                                                         *)
(* The argument is raft's, for configurations that grow by one voter at a  *)
(* time and logs that die with their processes.  What a dead process knew  *)
(* counts as kept, since it votes for nobody any more.  The decided log    *)
(* (d below) is the longest that was ever committed; no process need hold  *)
(* it.                                                                     *)
(***************************************************************************)
EXTENDS Cluster, FiniteSetTheorems, SequenceTheorems, WellFoundedInduction, TLAPS

\* A process that has ended, and is not started again.
Dead(v) == starts[v] /\ proc[v] = "down"

\* What is compared: the nodes' logs, and the longest log that was ever committed.
Logs(d) == {log[n] : n \in Nodes} \union {d}

\* L has an entry of term t at index i.
Has(L, i, t) == i \in 1..Len(L) /\ L[i].term = t

\* L goes on in a term after t.
Later(L, t) == \E k \in 1..Len(L) : L[k].term > t

\* c is where the latest configuration of L up to index i is.
Latest(L, i, c) ==
    c \in 1..i /\ L[c].kind = "config" /\ \A j \in c + 1..i : L[j].kind # "config"

\* That configuration: whom a node counts whose log ends at i.
Conf(L, i) == L[CHOOSE c \in 1..i : Latest(L, i, c)].members

\* A log begins with the boot node's configuration (unless it is empty), its terms
\* never fall, and each of its configurations includes the ones before.
Formed(L) ==
    /\ L \in Seq(Entries)
    /\ L # <<>> => L[1] = ConfigEntry(1, {Boot})
    /\ \A j \in 1..Len(L) : L[j].kind = "write" => L[j].write > 0
    /\ \A j, k \in 1..Len(L) : j <= k =>
          /\ L[j].term <= L[k].term
          /\ L[j].kind = "config" /\ L[k].kind = "config" => L[j].members \subseteq L[k].members

\* Where L has an entry of a term that M has there or later, the two are the same up
\* to it.
Match(L, M) ==
    \A j \in 1..Len(L), k \in 1..Len(M) :
        j <= k /\ L[j].term = M[k].term => \A h \in 1..j : L[h] = M[h]

\* All logs are formed, and any two match.
LogsInv(d) == \A L, M \in Logs(d) : Formed(L) /\ Match(L, M)

\* Entry i of L is in every log that goes on in a later term.
Complete(d, L, i) == \A M \in Logs(d) : Later(M, L[i].term) => Has(M, i, L[i].term)

\* A quorum of D has entry i of L, or has ended with it.
Cert(L, i, D) ==
    \E Q \in SUBSET D : IsQuorum(Q, D) /\ \A v \in Q : Dead(v) \/ Has(log[v], i, L[i].term)

\* Entry i of L is complete, and a quorum of its own configuration keeps it.
Exact(d, L, i) == Complete(d, L, i) /\ Cert(L, i, Conf(L, i))

\* No configuration between i (exclusive) and j.
NoConfig(L, i, j) == \A k \in i + 1..j : L[k].kind # "config"

\* What is committed.  Either the entry is exact, or it comes after an exact entry of
\* its term, and a quorum of its configuration with one more voter keeps it: the
\* leader counts by its latest configuration, which may be one that it has appended
\* after the entry.
Safe(d, L, i) ==
    \/ Exact(d, L, i)
    \/ /\ Complete(d, L, i)
       /\ \E x \in Nodes : Cert(L, i, Conf(L, i) \union {x})
       /\ \E h \in 1..i - 1 : L[h].term = L[i].term /\ NoConfig(L, h, i) /\ Exact(d, L, h)

\* The configuration at c goes one voter beyond the one at i, in the same term and
\* with none between.
Rooted(L, c, i) ==
    /\ L[i].term = L[c].term
    /\ NoConfig(L, i, c - 1)
    /\ \E x \in Nodes : L[c].members = Conf(L, i) \union {x}

\* Every configuration but the first is appended upon an exact entry of its term
\* (the guard of JoinAccepted), which its leader has committed.
ConfigInv(d) ==
    \A L \in Logs(d) : \A c \in 2..Len(L) : L[c].kind = "config" =>
        \E i \in 1..c - 1 :
            /\ Rooted(L, c, i) /\ Exact(d, L, i)
            /\ \A l \in Nodes : role[l] = "leader" /\ term[l] = L[c].term => i <= commit[l]

\* A process that is down has no raft state, one that joins has tries left, and before
\* the boot node has started no log has an entry.
ProcInv(d) ==
    /\ \A n \in Nodes : proc[n] # "down" => starts[n]
    /\ \A n \in Nodes : proc[n] = "down" => term[n] = 0 /\ role[n] = "follower" /\ log[n] = <<>>
    /\ \A n \in Nodes : proc[n] \in {"joining", "awaiting"} => tries[n] < JoinRetries
    /\ ~starts[Boot] => \A L \in Logs(d) : L = <<>>

\* The types that the other parts build on.
Typed ==
    /\ proc \in [Nodes -> {"down", "joining", "awaiting", "serving"}]
    /\ starts \in [Nodes -> BOOLEAN] /\ tries \in [Nodes -> 0..JoinRetries]
    /\ term \in [Nodes -> 0..MaxTerm] /\ role \in [Nodes -> {"follower", "leader"}]
    /\ log \in [Nodes -> Seq(Entries)] /\ commit \in [Nodes -> Nat]
    /\ match \in [Nodes -> [Nodes -> Nat]]
    /\ writes \in 0..MaxWrites /\ crashes \in 0..MaxCrashes

\* No log is ahead of its node's term.
TermInv ==
    \A n \in Nodes : \A k \in 1..Len(log[n]) : log[n][k].term <= term[n]

\* A leader's log ends in its term and has every entry of that term, and nobody else
\* leads in it.
LeaderInv(d) ==
    \A l \in Nodes : role[l] = "leader" =>
        /\ Has(log[l], Len(log[l]), term[l])
        /\ \A M \in Logs(d) : \A k \in 1..Len(M) : M[k].term = term[l] => Has(log[l], k, term[l])
        /\ \A m \in Nodes : role[m] = "leader" /\ term[m] = term[l] => m = l

\* A leader knows of a follower only what the follower has, unless it has ended or
\* was brought up by a later leader.
MatchInv ==
    \A l, f \in Nodes : role[l] = "leader" /\ match[l][f] > 0 =>
        /\ match[l][f] <= Len(log[l])
        /\ \/ Dead(f)
           \/ /\ term[f] >= term[l]
              /\ \/ Has(log[f], match[l][f], log[l][match[l][f]].term)
                 \/ Later(log[f], term[l])

\* v has voted for the leader whose first entry is at k of L.  What v had told leaders
\* of terms before then, L has as well, or goes on in a term after it.
Voted(L, k, v) ==
    /\ Dead(v) \/ term[v] >= L[k].term
    /\ \A l \in Nodes : role[l] = "leader" /\ term[l] < L[k].term =>
          \A i \in 1..match[l][v] : log[l][i].term = term[l] =>
              L[k - 1].term > term[l] \/ (i < k /\ L[i].term = term[l])

\* Behind every first entry of a term is a quorum of the configuration before it.
VoteInv(d) ==
    \A L \in Logs(d) : \A k \in 2..Len(L) : L[k - 1].term < L[k].term =>
        \E Q \in SUBSET Conf(L, k - 1) :
            IsQuorum(Q, Conf(L, k - 1)) /\ \A v \in Q : Voted(L, k, v)

\* What a node has committed is safe and decided; what is decided is safe.
CommitInv(d) ==
    /\ \A n \in Nodes : commit[n] > 0 =>
          /\ commit[n] <= Len(log[n]) /\ Safe(d, log[n], commit[n])
          /\ Has(d, commit[n], log[n][commit[n]].term)
    /\ d # <<>> => Safe(d, d, Len(d))

\* What was acknowledged is decided, and who serves HTTP is a voter of the decided log.
ClientInv(d) ==
    /\ acked \subseteq 1..MaxWrites
    /\ \A w \in acked : \E i \in 1..Len(d) : d[i].write = w
    /\ \A n \in Nodes \ {Boot} : proc[n] = "serving" => d # <<>> /\ n \in Conf(d, Len(d))

\* The inductive invariant, for the longest log d that was ever committed.
ClusterInv(d) ==
    /\ Typed /\ ProcInv(d) /\ LogsInv(d) /\ TermInv /\ LeaderInv(d)
    /\ MatchInv /\ VoteInv(d) /\ ConfigInv(d) /\ CommitInv(d) /\ ClientInv(d)

-----------------------------------------------------------------------------
(* Quorums and logs                                                        *)

\* Every set of natural numbers that is not empty has a least element.
LEMMA LeastNumber ==
    ASSUME NEW T, T \subseteq Nat, T # {}
    PROVE  \E x \in T : \A y \in T : x <= y
<1> DEFINE R == OpToRel(<, Nat)
<1>1. IsWellFoundedOn(R, Nat)
  BY NatLessThanWellFounded
<1>2. \E x \in T : \A y \in T : ~ (<<y, x>> \in R)
  BY <1>1, WFMin
<1>3. \A x, y \in T : ~ (<<y, x>> \in R) => x <= y
  BY DEF OpToRel
<1> QED
  BY <1>2, <1>3

\* The types in a formed log, whose first entry is the boot node's configuration.
LEMMA LogIsFormed ==
    ASSUME NEW L, Formed(L)
    PROVE  /\ Len(L) \in Nat
           /\ \A j \in 1..Len(L) : /\ L[j] \in Entries /\ L[j].term \in Nat
                                  /\ L[j].members \in SUBSET Nodes
                                  /\ 1 \in 1..Len(L) /\ L # <<>>
           /\ L # <<>> => 1 \in 1..Len(L) /\ L[1] = ConfigEntry(1, {Boot})
           /\ 1 \in 1..Len(L) => L[1] = ConfigEntry(1, {Boot})
  <1>1. Len(L) \in Nat /\ \A j \in 1..Len(L) : L[j] \in Entries
    BY DEF Formed
  <1>2. \A e \in Entries : e.term \in Nat /\ e.members \in SUBSET Nodes
    BY BoundsAssumption DEF Entries
  <1>3. \A j \in 1..Len(L) : 1 \in 1..Len(L) /\ L # <<>>
    BY <1>1
  <1>4. L # <<>> => 1 \in 1..Len(L)
    BY <1>1 DEF Formed
  <1> QED BY <1>1, <1>2, <1>3, <1>4 DEF Formed

\* Configurations that are the same but for one voter.
Near(A, B) == A = B \/ \E x \in Nodes : B = A \union {x} \/ A = B \union {x}

\* Quorums of such configurations meet.
LEMMA QuorumsMeet ==
    ASSUME NEW A \in SUBSET Nodes, NEW B \in SUBSET Nodes, Near(A, B),
           NEW Q \in SUBSET A, NEW R \in SUBSET B, IsQuorum(Q, A), IsQuorum(R, B)
    PROVE  Q \intersect R # {}
  <1>1. /\ IsFiniteSet(A) /\ IsFiniteSet(B) /\ IsFiniteSet(Q) /\ IsFiniteSet(R)
        /\ Cardinality(A) \in Nat /\ Cardinality(B) \in Nat
        /\ Cardinality(Q) \in Nat /\ Cardinality(R) \in Nat
    BY BootAssumption, FS_Subset, FS_CardinalityType
  <1>2. CASE A = B
    BY <1>1, <1>2, FS_MajoritiesIntersect DEF IsQuorum
  <1>3. ASSUME NEW C, NEW D, NEW x, D = C \union {x}, IsFiniteSet(C)
        PROVE  Cardinality(D) <= Cardinality(C) + 1 /\ Cardinality(D) \in Nat
               /\ Cardinality(C) \in Nat /\ IsFiniteSet(D)
    BY <1>3, FS_AddElement, FS_CardinalityType
  <1>4. ASSUME NEW x, B = A \union {x}
        PROVE  Q \intersect R # {}
    <2>1. Cardinality(B) <= Cardinality(A) + 1
      BY <1>1, <1>3, <1>4
    <2>2. Cardinality(Q) + Cardinality(R) > Cardinality(B)
      BY <1>1, <2>1 DEF IsQuorum
    <2> QED BY <1>1, <1>4, <2>2, FS_MajoritiesIntersect
  <1>5. ASSUME NEW x, A = B \union {x}
        PROVE  Q \intersect R # {}
    <2>1. Cardinality(A) <= Cardinality(B) + 1
      BY <1>1, <1>3, <1>5
    <2>2. Cardinality(Q) + Cardinality(R) > Cardinality(A)
      BY <1>1, <2>1 DEF IsQuorum
    <2> QED BY <1>1, <1>5, <2>2, FS_MajoritiesIntersect
  <1> QED BY <1>2, <1>4, <1>5 DEF Near

\* Conf is the latest configuration: there is only one.
LEMMA LatestIsConf ==
    ASSUME NEW L, NEW i \in Nat, NEW c, Latest(L, i, c)
    PROVE  Conf(L, i) = L[c].members
  <1>1. \A b \in 1..i : Latest(L, i, b) => b = c
    BY DEF Latest
  <1> QED BY <1>1 DEF Conf, Latest

\* A log begins with a configuration, so there is a latest one at each index.
LEMMA LatestExists ==
    ASSUME NEW L, Formed(L), NEW i \in 1..Len(L)
    PROVE  \E c \in 1..i : Latest(L, i, c)
  <1> DEFINE T == {k \in Nat : k < i /\ L[i - k].kind = "config"}
  <1>0. Len(L) \in Nat /\ L # <<>>
    BY DEF Formed
  <1>1. i - 1 \in T
    BY <1>0 DEF Formed, ConfigEntry
  <1>2. PICK k \in T : \A y \in T : k <= y
    BY <1>1, LeastNumber
  <1>3. \A j \in i - k + 1..i : L[j].kind # "config"
    <2> SUFFICES ASSUME NEW j \in i - k + 1..i, L[j].kind = "config" PROVE FALSE
      OBVIOUS
    <2>1. i - j \in T
      <3>1. i - (i - j) = j /\ i - j \in Nat /\ i - j < i
        BY <1>0, <1>2
      <3> QED BY <3>1
    <2>2. k <= i - j /\ k \in Nat
      BY <1>2, <2>1
    <2> QED BY <1>0, <2>2
  <1> QED BY <1>0, <1>2, <1>3 DEF Latest

\* A log's configuration at an index is the member set of one of its entries.
LEMMA ConfIsMembers ==
    ASSUME NEW L, Formed(L), NEW i \in 1..Len(L)
    PROVE  /\ \E c \in 1..i : Latest(L, i, c) /\ Conf(L, i) = L[c].members
           /\ Conf(L, i) \in SUBSET Nodes
  <1>1. PICK c \in 1..i : Latest(L, i, c)
    BY LatestExists
  <1>2. Len(L) \in Nat /\ c \in 1..Len(L) /\ L[c] \in Entries
    BY DEF Formed
  <1> QED BY <1>1, <1>2, LatestIsConf DEF Entries

\* What a node takes for its configuration is the latest of its log.
LEMMA MembersIsConf ==
    ASSUME NEW n \in Nodes, Formed(log[n])
    PROVE  /\ log[n] = <<>> => Members(n) = {}
           /\ log[n] # <<>> => /\ Latest(log[n], Len(log[n]), ConfigAt(n))
                               /\ Members(n) = Conf(log[n], Len(log[n]))
                               /\ Members(n) \in SUBSET Nodes
  <1> DEFINE L == log[n]
             S == {i \in 1..Len(L) : L[i].kind = "config"} \union {0}
  <1>0. Len(L) \in Nat
    BY DEF Formed
  <1>1. ASSUME L = <<>> PROVE Members(n) = {}
    <2>1. S = {0}
      BY <1>1
    <2>2. Max(S) = 0
      BY <2>1 DEF Max
    <2> QED BY <2>2 DEF Members, ConfigAt
  <1>2. ASSUME L # <<>>
        PROVE  Latest(L, Len(L), ConfigAt(n)) /\ Members(n) = Conf(L, Len(L))
               /\ Members(n) \in SUBSET Nodes
    <2>1. Len(L) \in 1..Len(L)
      BY <1>0, <1>2 DEF Formed
    <2>2. PICK c \in 1..Len(L) : Latest(L, Len(L), c) /\ Conf(L, Len(L)) = L[c].members
      BY <2>1, ConfIsMembers
    <2>3. c \in S /\ \A y \in S : c >= y
      BY <1>0, <2>2 DEF Latest
    <2>4. \A b \in S : (\A y \in S : b >= y) => b = c
      BY <1>0, <2>3
    <2>5. Max(S) = c
      BY <2>3, <2>4 DEF Max
    <2>6. ConfigAt(n) = c
      BY <2>5 DEF ConfigAt
    <2> QED BY <2>1, <2>2, <2>6, ConfIsMembers DEF Members
  <1> QED BY <1>1, <1>2

\* What is held up to an index is held at every index before it.
LEMMA HasBefore ==
    ASSUME NEW L, NEW M, Formed(L), Formed(M), Match(L, M), NEW i \in 1..Len(L),
           Has(M, i, L[i].term), NEW j \in 1..i
    PROVE  Has(M, j, L[j].term) /\ M[j] = L[j]
  <1>1. Len(L) \in Nat /\ Len(M) \in Nat
    BY DEF Formed
  <1> QED BY <1>1 DEF Match, Has

\* Logs that agree have the same latest configuration.
LEMMA SameConf ==
    ASSUME NEW L, NEW M, Formed(L), NEW i \in 1..Len(L), i \in 1..Len(M),
           \A j \in 1..i : M[j] = L[j]
    PROVE  Conf(M, i) = Conf(L, i)
  <1>1. PICK c \in 1..i : Latest(L, i, c) /\ Conf(L, i) = L[c].members
    BY ConfIsMembers
  <1>2. i \in Nat /\ c \in Nat
    BY <1>1 DEF Formed
  <1>3. Latest(M, i, c)
    BY <1>1, <1>2 DEF Latest
  <1> QED BY <1>1, <1>2, <1>3, LatestIsConf

\* Where no configuration comes in between, the configuration is the same.
LEMMA ConfStays ==
    ASSUME NEW L, Formed(L), NEW i \in 1..Len(L), NEW j \in i..Len(L), NoConfig(L, i, j)
    PROVE  Conf(L, j) = Conf(L, i)
  <1>0. Len(L) \in Nat
    BY DEF Formed
  <1>1. PICK c \in 1..i : Latest(L, i, c) /\ Conf(L, i) = L[c].members
    BY ConfIsMembers
  <1>2. Latest(L, j, c)
    BY <1>0, <1>1 DEF Latest, NoConfig
  <1> QED BY <1>0, <1>1, <1>2, LatestIsConf

\* Every configuration that N has up to a rests on an entry that L has up to b.
RootsIn(N, a, L, b) ==
    \A c \in 2..a : N[c].kind = "config" =>
        \E i \in 1..c - 1 : Rooted(N, c, i) /\ i <= b /\ Has(L, i, N[i].term)

\* The latest configuration of one of two logs is in the other, or goes beyond the
\* other's by one voter.
LEMMA OneConfigAhead ==
    ASSUME NEW A, NEW B, Formed(A), Formed(B), Match(A, B), Match(B, A),
           NEW m \in 1..Len(A), NEW k \in 1..Len(B), RootsIn(A, m, B, k), RootsIn(B, k, A, m),
           NEW ca \in 1..m, Latest(A, m, ca), NEW cb \in 1..k, Latest(B, k, cb),
           ~ (ca <= k /\ Has(B, ca, A[ca].term))
    PROVE  \E x \in Nodes : A[ca].members = B[cb].members \union {x}
  <1>0. /\ Len(A) \in Nat /\ Len(B) \in Nat /\ A[1] = B[1] /\ 1 \in 1..Len(A) /\ 1 \in 1..Len(B)
        /\ ca \in 1..Len(A) /\ cb \in 1..Len(B)
        /\ A[ca].kind = "config" /\ B[cb].kind = "config"
        /\ \A j \in 1..Len(A) : A[j].term \in Nat
        /\ \A j \in 1..Len(B) : B[j].term \in Nat
    BY LogIsFormed DEF Latest
  <1>1. ca # 1
    BY <1>0 DEF Has
  <1>2. PICK i \in 1..ca - 1 : Rooted(A, ca, i) /\ i <= k /\ Has(B, i, A[i].term)
    BY <1>0, <1>1 DEF RootsIn
  <1>3. i \in 1..Len(A) /\ i \in Nat
    BY <1>0
  <1>4. \A j \in 1..i : B[j] = A[j]
    BY <1>2, <1>3, HasBefore
  <1>5. cb <= m /\ Has(A, cb, B[cb].term)
    <2> SUFFICES ASSUME ~ (cb <= m /\ Has(A, cb, B[cb].term)) PROVE FALSE
      OBVIOUS
    <2>1. cb # 1
      BY <1>0 DEF Has
    <2>2. PICK h \in 1..cb - 1 : Rooted(B, cb, h) /\ h <= m /\ Has(A, h, B[h].term)
      BY <1>0, <2>1 DEF RootsIn
    <2>3. h \in 1..Len(B) /\ h \in 1..Len(A)
      BY <1>0, <2>2 DEF Has
    <2>4. A[i].term = A[ca].term /\ B[h].term = B[cb].term
      BY <1>2, <2>2 DEF Rooted
    <2>5. CASE A[ca].term = B[cb].term
      <3>1. CASE ca <= cb
        <4>1. A[ca] = B[ca]
          <5>1. ca \in 1..Len(A) /\ cb \in 1..Len(B) /\ ca \in 1..ca
            BY <1>0
          <5>2. \A g \in 1..ca : A[g] = B[g]
            BY <5>1, <2>5, <3>1 DEF Match
          <5> QED BY <5>1, <5>2
        <4>2. ca <= k /\ ca \in 1..Len(B)
          BY <1>0, <3>1
        <4> QED BY <4>1, <4>2 DEF Has
      <3>2. CASE cb <= ca
        <4>1. A[cb] = B[cb]
          <5>1. ca \in 1..Len(A) /\ cb \in 1..Len(B) /\ cb \in 1..cb
            BY <1>0
          <5>2. \A g \in 1..cb : B[g] = A[g]
            BY <5>1, <2>5, <3>2 DEF Match
          <5> QED BY <5>1, <5>2
        <4>2. cb <= m /\ cb \in 1..Len(A)
          BY <1>0, <3>2
        <4> QED BY <4>1, <4>2 DEF Has
      <3> QED BY <1>0, <3>1, <3>2
    <2>6. CASE A[ca].term < B[cb].term
      <3>1. A[h].term = B[h].term
        BY <2>2 DEF Has
      <3>2. ~ (h <= ca)
        <4> SUFFICES ASSUME h <= ca PROVE FALSE
          OBVIOUS
        <4>1. A[h].term <= A[ca].term
          BY <1>0, <2>3 DEF Formed
        <4> QED BY <1>0, <2>3, <2>4, <2>6, <3>1, <4>1
      <3>3. ca \in 1..h
        BY <1>0, <2>3, <3>2
      <3>4. A[ca] = B[ca]
        BY <2>2, <2>3, <3>3, HasBefore
      <3>5. ca <= k /\ ca \in 1..Len(B)
        BY <1>0, <2>3, <3>3
      <3> QED BY <3>4, <3>5 DEF Has
    <2>7. CASE A[ca].term > B[cb].term
      <3>1. A[i].term = B[i].term /\ i \in 1..Len(B)
        BY <1>2 DEF Has
      <3>2. ~ (i <= cb)
        <4> SUFFICES ASSUME i <= cb PROVE FALSE
          OBVIOUS
        <4>1. B[i].term <= B[cb].term
          BY <1>0, <3>1 DEF Formed
        <4> QED BY <1>0, <1>3, <2>4, <2>7, <3>1, <4>1
      <3>3. cb \in 1..i
        BY <1>0, <1>3, <3>2
      <3>4. A[cb] = B[cb]
        BY <1>4, <3>3
      <3>5. cb <= m /\ cb \in 1..Len(A)
        BY <1>0, <1>3, <3>3
      <3> QED BY <3>4, <3>5 DEF Has
    <2> QED BY <1>0, <2>5, <2>6, <2>7
  <1>6. \A j \in 1..cb : A[j] = B[j]
    BY <1>0, <1>5, HasBefore
  <1>7. cb <= ca /\ cb # ca
    <2>1. cb \in Nat /\ ca \in Nat /\ m \in Nat /\ k \in Nat /\ A[cb] = B[cb] /\ cb <= m
      BY <1>0, <1>5, <1>6
    <2>2. ~ (cb \in ca + 1..m)
      BY <1>0, <2>1 DEF Latest
    <2>3. cb # ca
      BY <1>0, <2>1 DEF Has
    <2> QED BY <2>1, <2>2, <2>3
  <1>8. cb <= i
    BY <1>0, <1>2, <1>3, <1>6, <1>7 DEF Rooted, NoConfig
  <1>9. Latest(A, i, cb)
    <2>1. \A j \in cb + 1..i : A[j].kind # "config"
      BY <1>0, <1>2, <1>3, <1>4 DEF Latest
    <2> QED BY <1>0, <1>3, <1>6, <1>8, <2>1 DEF Latest
  <1>10. Conf(A, i) = B[cb].members
    BY <1>0, <1>3, <1>6, <1>9, LatestIsConf
  <1> QED BY <1>2, <1>10 DEF Rooted

\* Two logs neither of which lacks what the other's configurations rest on have
\* configurations that differ by one voter at most.
LEMMA ConfigsAreNear ==
    ASSUME NEW N, NEW L, Formed(N), Formed(L), Match(N, L), Match(L, N),
           NEW a \in 1..Len(N), NEW b \in 1..Len(L),
           RootsIn(N, a, L, b), RootsIn(L, b, N, a)
    PROVE  Near(Conf(N, a), Conf(L, b))
  <1>0. Len(L) \in Nat /\ Len(N) \in Nat
    BY DEF Formed
  <1>1. PICK cn \in 1..a : Latest(N, a, cn) /\ Conf(N, a) = N[cn].members
    BY ConfIsMembers
  <1>2. PICK cl \in 1..b : Latest(L, b, cl) /\ Conf(L, b) = L[cl].members
    BY ConfIsMembers
  <1>3. CASE ~ (cn <= b /\ Has(L, cn, N[cn].term))
    <2>1. \E x \in Nodes : N[cn].members = L[cl].members \union {x}
      BY <1>1, <1>2, <1>3, OneConfigAhead
    <2> QED BY <1>1, <1>2, <2>1 DEF Near
  <1>4. CASE ~ (cl <= a /\ Has(N, cl, L[cl].term))
    <2>1. \E x \in Nodes : L[cl].members = N[cn].members \union {x}
      BY <1>1, <1>2, <1>4, OneConfigAhead
    <2> QED BY <1>1, <1>2, <2>1 DEF Near
  <1>5. CASE cn <= b /\ Has(L, cn, N[cn].term) /\ cl <= a /\ Has(N, cl, L[cl].term)
    <2>1. cn \in 1..Len(N) /\ cl \in 1..Len(L)
      BY <1>0
    <2>2. L[cn] = N[cn]
      BY <1>0, <1>5, <2>1, HasBefore
    <2>3. N[cl] = L[cl]
      BY <1>0, <1>5, <2>1, HasBefore
    <2>4. cn <= cl /\ cl <= cn
      BY <1>0, <1>1, <1>2, <1>5, <2>2, <2>3 DEF Latest
    <2>5. cn = cl
      BY <1>0, <2>4
    <2> QED BY <1>1, <1>2, <2>2, <2>5 DEF Near
  <1> QED BY <1>3, <1>4, <1>5

-----------------------------------------------------------------------------
(* What a live quorum keeps                                                *)

\* An entry of an earlier term is at an earlier index.
LEMMA TermsRise ==
    ASSUME NEW L, Formed(L), NEW j \in 1..Len(L), NEW k \in 1..Len(L), L[j].term < L[k].term
    PROVE  j < k
  <1>1. j \in Nat /\ k \in Nat /\ L[j].term \in Nat /\ L[k].term \in Nat
    BY LogIsFormed
  <1>2. CASE k <= j
    BY <1>1, <1>2 DEF Formed
  <1> QED BY <1>1, <1>2

\* n has a quorum that is alive, none of whose members has a complete entry that n
\* lacks.
Backed(d, n, R) ==
    /\ R \in SUBSET Members(n) /\ IsQuorum(R, Members(n))
    /\ \A v \in R : Alive(v)
    /\ \A v \in R, L \in Logs(d) : \A i \in 1..Len(L) :
          Complete(d, L, i) /\ Has(log[v], i, L[i].term) => Has(log[n], i, L[i].term)

\* A quorum has a member.
LEMMA QuorumIsNotEmpty ==
    ASSUME NEW D \in SUBSET Nodes, NEW Q \in SUBSET D, IsQuorum(Q, D)
    PROVE  Q # {} /\ D # {}
  <1>1. IsFiniteSet(D) /\ Cardinality(D) \in Nat
    BY BootAssumption, FS_Subset, FS_CardinalityType
  <1>2. Q # {}
    <2>1. ASSUME Q = {} PROVE Cardinality(Q) = 0
      BY <2>1, FS_EmptySet
    <2> QED BY <1>1, <2>1 DEF IsQuorum
  <1> QED BY <1>2

\* Such a node has a log, and goes by that log's configuration.
LEMMA BackedHasLog ==
    ASSUME NEW d, LogsInv(d), NEW n \in Nodes, NEW R, Backed(d, n, R)
    PROVE  /\ log[n] \in Logs(d) /\ Formed(log[n]) /\ log[n] # <<>>
           /\ Len(log[n]) \in 1..Len(log[n])
           /\ Members(n) = Conf(log[n], Len(log[n])) /\ Members(n) \in SUBSET Nodes
  <1>1. log[n] \in Logs(d) /\ Formed(log[n])
    BY DEF Logs, LogsInv
  <1>2. log[n] # <<>>
    <2> SUFFICES ASSUME log[n] = <<>> PROVE FALSE
      OBVIOUS
    <2>1. Members(n) = {}
      BY <1>1, MembersIsConf
    <2> QED BY <2>1, QuorumIsNotEmpty DEF Backed
  <1> QED BY <1>1, <1>2, MembersIsConf, LogIsFormed

\* Such a node lacks no entry that a quorum of that entry's configuration keeps: at
\* the first that it lacked its configuration would be near that one.
LEMMA BackedHasExact ==
    ASSUME NEW d, LogsInv(d), ConfigInv(d), NEW n \in Nodes, NEW R, Backed(d, n, R),
           NEW L \in Logs(d), NEW e \in 1..Len(L), Exact(d, L, e)
    PROVE  Has(log[n], e, L[e].term)
  <1> DEFINE N == log[n]
             Lacking == {i \in 1..Len(L) : Exact(d, L, i) /\ ~Has(N, i, L[i].term)}
  <1> SUFFICES ASSUME e \in Lacking PROVE FALSE
    OBVIOUS
  <1>0. /\ Formed(L) /\ Formed(N) /\ Match(L, N) /\ Match(N, L) /\ N \in Logs(d)
        /\ Len(L) \in Nat /\ Len(N) \in 1..Len(N) /\ N # <<>>
        /\ Members(n) = Conf(N, Len(N)) /\ Members(n) \in SUBSET Nodes
    BY BackedHasLog, LogIsFormed DEF LogsInv
  <1>1. PICK i \in Lacking : \A y \in Lacking : i <= y
    <2>1. Lacking \subseteq Nat /\ Lacking # {}
      BY <1>0
    <2> HIDE DEF Lacking
    <2> QED BY <2>1, LeastNumber
  <1> DEFINE T == L[i].term
  <1>2. /\ i \in 1..Len(L) /\ Exact(d, L, i) /\ ~Has(N, i, T) /\ T \in Nat
        /\ i \in Nat /\ Len(N) \in Nat
    BY <1>0, <1>1, LogIsFormed
  <1>3. ~Later(N, T)
    BY <1>0, <1>2 DEF Exact, Complete
  <1>4. RootsIn(N, Len(N), L, i)
    <2> SUFFICES ASSUME NEW c \in 2..Len(N), N[c].kind = "config"
                 PROVE  \E h \in 1..c - 1 : Rooted(N, c, h) /\ h <= i /\ Has(L, h, N[h].term)
      BY DEF RootsIn
    <2>1. PICK h \in 1..c - 1 : Rooted(N, c, h) /\ Exact(d, N, h)
      BY <1>0 DEF ConfigInv
    <2>2. h \in 1..Len(N) /\ N[h].term \in Nat
      BY <1>0, <1>2, LogIsFormed
    <2>3. N[h].term <= T
      BY <1>2, <1>3, <2>2 DEF Later
    <2>4. CASE N[h].term < T
      <3>1. Later(L, N[h].term)
        BY <1>2, <2>4 DEF Later
      <3>2. Has(L, h, N[h].term)
        BY <2>1, <3>1 DEF Exact, Complete
      <3>3. h < i
        BY <1>0, <1>2, <2>4, <3>2, TermsRise DEF Has
      <3> QED BY <2>1, <1>2, <2>2, <3>2, <3>3
    <2>5. CASE N[h].term = T
      <3>1. h <= i
        <4> SUFFICES ASSUME i <= h PROVE FALSE
          BY <1>2, <2>2
        <4>1. L[i] = N[i]
          BY <1>0, <1>2, <2>2, <2>5 DEF Match
        <4>2. i \in 1..Len(N)
          BY <1>2, <2>2
        <4> QED BY <1>2, <4>1, <4>2 DEF Has
      <3>2. N[h] = L[h] /\ h \in 1..Len(L)
        BY <1>0, <1>2, <2>2, <2>5, <3>1 DEF Match
      <3> QED BY <2>1, <3>1, <3>2 DEF Has
    <2> QED BY <1>2, <2>2, <2>3, <2>4, <2>5
  <1>5. RootsIn(L, i, N, Len(N))
    <2> SUFFICES ASSUME NEW c \in 2..i, L[c].kind = "config"
                 PROVE  \E h \in 1..c - 1 : Rooted(L, c, h) /\ h <= Len(N) /\ Has(N, h, L[h].term)
      BY DEF RootsIn
    <2>1. c \in 2..Len(L)
      BY <1>0, <1>2
    <2>2. PICK h \in 1..c - 1 : Rooted(L, c, h) /\ Exact(d, L, h)
      BY <2>1 DEF ConfigInv
    <2>3. h \in 1..Len(L) /\ ~ (i <= h)
      BY <1>0, <1>2
    <2>4. Has(N, h, L[h].term)
      BY <1>1, <2>2, <2>3
    <2> QED BY <2>2, <2>4 DEF Has
  <1>6. Near(Members(n), Conf(L, i)) /\ Conf(L, i) \in SUBSET Nodes
    BY <1>0, <1>2, <1>4, <1>5, ConfigsAreNear, ConfIsMembers
  <1>7. PICK Q \in SUBSET Conf(L, i) :
            IsQuorum(Q, Conf(L, i)) /\ \A v \in Q : Dead(v) \/ Has(log[v], i, T)
    BY <1>2 DEF Exact, Cert
  <1>8. PICK v \in R \intersect Q : TRUE
    BY <1>0, <1>6, <1>7, QuorumsMeet DEF Backed
  <1>9. Has(log[v], i, T)
    BY <1>7, <1>8 DEF Backed, Alive, Dead
  <1> QED BY <1>2, <1>8, <1>9 DEF Backed, Exact

\* Nor does it lack a safe entry: it has the exact one before, of the same term, and
\* its configuration is near that of the entry with the one voter more.
LEMMA BackedHasSafe ==
    ASSUME NEW d, LogsInv(d), ConfigInv(d), NEW n \in Nodes, NEW R, Backed(d, n, R),
           NEW L \in Logs(d), NEW i \in 1..Len(L), Safe(d, L, i)
    PROVE  Has(log[n], i, L[i].term)
  <1> DEFINE N == log[n]
             T == L[i].term
  <1>0. /\ Formed(L) /\ Formed(N) /\ Match(L, N) /\ Match(N, L) /\ N \in Logs(d)
        /\ Len(L) \in Nat /\ Len(N) \in 1..Len(N) /\ N # <<>> /\ Len(N) \in Nat /\ T \in Nat
        /\ Members(n) = Conf(N, Len(N)) /\ Members(n) \in SUBSET Nodes
    BY BackedHasLog, LogIsFormed DEF LogsInv
  <1> SUFFICES ASSUME ~Has(N, i, T) PROVE FALSE
    OBVIOUS
  <1>1. ~Exact(d, L, i)
    BY BackedHasExact
  <1>2. /\ Complete(d, L, i)
        /\ \E x \in Nodes : Cert(L, i, Conf(L, i) \union {x})
        /\ \E h \in 1..i - 1 : L[h].term = T /\ NoConfig(L, h, i) /\ Exact(d, L, h)
    BY <1>1 DEF Safe
  <1>3. PICK h \in 1..i - 1 : L[h].term = T /\ NoConfig(L, h, i) /\ Exact(d, L, h)
    BY <1>2
  <1>4. h \in 1..Len(L) /\ h \in Nat /\ i \in Nat
    BY <1>0
  <1>5. Has(N, h, T)
    BY <1>3, <1>4, BackedHasExact
  <1>6. ~Later(N, T)
    BY <1>0, <1>2 DEF Complete
  <1>7. N[Len(N)].term = T
    <2>1. N[h].term = T /\ h \in 1..Len(N)
      BY <1>5 DEF Has
    <2>2. N[h].term <= N[Len(N)].term
      BY <1>0, <2>1 DEF Formed
    <2>3. N[Len(N)].term <= T /\ N[Len(N)].term \in Nat
      BY <1>0, <1>6, LogIsFormed DEF Later
    <2> QED BY <1>0, <2>1, <2>2, <2>3
  <1>8. Len(N) < i
    <2> SUFFICES ASSUME i <= Len(N) PROVE FALSE
      BY <1>0, <1>4
    <2>1. L[i] = N[i]
      BY SMTT(20), <1>0, <1>4, <1>7 DEF Match
    <2> QED BY <1>0, <1>4, <2>1 DEF Has
  <1>9. \A j \in 1..Len(N) : N[j] = L[j]
    <2>1. Len(N) <= i /\ N[Len(N)].term = L[i].term
      BY <1>0, <1>4, <1>7, <1>8
    <2> QED BY <1>0, <1>4, <2>1 DEF Match
  <1>10. Len(N) \in 1..Len(L) /\ h <= Len(N)
    BY <1>0, <1>4, <1>5, <1>8 DEF Has
  <1>11. Conf(N, Len(N)) = Conf(L, Len(N))
    BY <1>0, <1>9, <1>10, SameConf
  <1>12. NoConfig(L, Len(N), i) /\ i \in Len(N)..Len(L)
    BY <1>0, <1>3, <1>4, <1>8, <1>10 DEF NoConfig
  <1>13. Members(n) = Conf(L, i)
    BY <1>0, <1>10, <1>11, <1>12, ConfStays
  <1>14. PICK x \in Nodes : Cert(L, i, Conf(L, i) \union {x})
    BY <1>2
  <1>15. PICK Q \in SUBSET (Conf(L, i) \union {x}) :
            /\ IsQuorum(Q, Conf(L, i) \union {x})
            /\ \A v \in Q : Dead(v) \/ Has(log[v], i, T)
    BY <1>14 DEF Cert
  <1>16. Near(Members(n), Conf(L, i) \union {x})
    BY <1>13 DEF Near
  <1>17. PICK v \in R \intersect Q : TRUE
    BY <1>0, <1>13, <1>15, <1>16, QuorumsMeet DEF Backed
  <1>18. Has(log[v], i, T)
    BY <1>15, <1>17 DEF Backed, Alive, Dead
  <1> QED BY <1>2, <1>17, <1>18 DEF Backed

-----------------------------------------------------------------------------
(* What every step leaves as it is                                         *)

\* M is a prefix of L.
Prefix(M, L) == M \in Seq(Entries) /\ Len(M) <= Len(L) /\ \A j \in 1..Len(M) : M[j] = L[j]

\* Whoever appends in a term has every entry of that term, and every safe one of the
\* terms before.
NewEntry(d, K, x) ==
    /\ K \in Logs(d) /\ Formed(Append(K, x))
    /\ \A M \in Logs(d) : \A k \in 1..Len(M) : M[k].term = x.term => Has(K, k, x.term)
    /\ \A L \in Logs(d) : \A i \in 1..Len(L) :
          Safe(d, L, i) /\ L[i].term < x.term => Has(K, i, L[i].term)

\* A step forgets the log of a process that ends, copies a leader's, or appends x to
\* the log K.
LogStep(d, e, K, x) ==
    /\ \A v \in Nodes : Dead(v) => Dead(v)'
    /\ \A v \in Nodes :
          \/ Dead(v)'
          \/ Prefix(log[v], log'[v])
          \/ \E l \in Nodes : role[l] = "leader" /\ term[v] <= term[l] /\ log'[v] = log[l]
    /\ \A M \in Logs(e)' :
          \/ \E J \in Logs(d) : Prefix(M, J)
          \/ NewEntry(d, K, x) /\ M = Append(K, x)

\* What Append does to a log.
LEMMA AppendedLog ==
    ASSUME NEW L \in Seq(Entries), NEW x
    PROVE  /\ Len(Append(L, x)) = Len(L) + 1 /\ Append(L, x)[Len(L) + 1] = x
           /\ \A j \in 1..Len(L) : Append(L, x)[j] = L[j]
  OBVIOUS

\* A prefix of a formed log is formed.
LEMMA PrefixIsFormed ==
    ASSUME NEW M, NEW L, Formed(L), Prefix(M, L)
    PROVE  Formed(M) /\ \A j \in 1..Len(M) : j \in 1..Len(L)
  <1>1. Len(L) \in Nat /\ Len(M) \in Nat /\ \A j \in 1..Len(M) : j \in 1..Len(L)
    BY DEF Formed, Prefix
  <1>2. M # <<>> => M[1] = ConfigEntry(1, {Boot})
    <2>1. M # <<>> => 1 \in 1..Len(M)
      BY <1>1 DEF Prefix
    <2> QED BY <1>1, <2>1, LogIsFormed DEF Prefix
  <1> QED BY <1>1, <1>2 DEF Formed, Prefix

\* A step leaves the logs formed and matching.
LEMMA LogsStay ==
    ASSUME NEW d, NEW e, NEW K, NEW x, LogsInv(d), LogStep(d, e, K, x)
    PROVE  LogsInv(e)'
  <1> DEFINE Old(M) == \E J \in Logs(d) : Prefix(M, J)
             New(M) == NewEntry(d, K, x) /\ M = Append(K, x)
  <1>1. ASSUME NEW M \in Logs(e)' PROVE Old(M) \/ New(M)
    BY <1>1 DEF LogStep
  <1>2. ASSUME NEW M, Old(M) \/ New(M) PROVE Formed(M)
    BY <1>2, PrefixIsFormed DEF NewEntry, LogsInv
  <1>3. ASSUME NEW L, NEW M, Old(L), Old(M) PROVE Match(L, M)
    <2>1. PICK I \in Logs(d) : Prefix(L, I)
      BY <1>3
    <2>2. PICK J \in Logs(d) : Prefix(M, J)
      BY <1>3
    <2>3. Match(I, J) /\ Formed(I) /\ Formed(J) /\ Formed(L) /\ Formed(M)
      BY <2>1, <2>2, PrefixIsFormed DEF LogsInv
    <2> SUFFICES ASSUME NEW j \in 1..Len(L), NEW k \in 1..Len(M), j <= k, L[j].term = M[k].term,
                        NEW h \in 1..j
                 PROVE  L[h] = M[h]
      BY DEF Match
    <2>4. /\ j \in 1..Len(I) /\ k \in 1..Len(J) /\ h \in 1..Len(L) /\ h \in 1..Len(M)
          /\ I[j] = L[j] /\ J[k] = M[k]
      BY <2>1, <2>2, <2>3, LogIsFormed DEF Prefix
    <2>5. I[h] = J[h]
      BY <2>3, <2>4 DEF Match
    <2> QED BY <2>1, <2>2, <2>4, <2>5 DEF Prefix
  <1>4. ASSUME NEW L, NEW M, Old(L), New(M) PROVE Match(L, M) /\ Match(M, L)
    <2>1. PICK J \in Logs(d) : Prefix(L, J)
      BY <1>4
    <2>2. /\ Match(J, K) /\ Match(K, J) /\ Formed(J) /\ Formed(K) /\ Formed(L) /\ Formed(M)
          /\ Len(L) \in Nat /\ Len(J) \in Nat /\ Len(K) \in Nat
      BY <1>2, <1>4, <2>1, LogIsFormed, PrefixIsFormed DEF LogsInv, NewEntry
    <2>3. /\ Len(M) = Len(K) + 1 /\ M[Len(K) + 1] = x
          /\ \A j \in 1..Len(K) : M[j] = K[j]
      BY <1>4, <2>2, AppendedLog DEF Formed
    <2>4. \A j \in 1..Len(L) : j \in 1..Len(J) /\ L[j] = J[j]
      BY <2>1, <2>2, PrefixIsFormed DEF Prefix
    <2>5. \A k \in 1..Len(J) : J[k].term = x.term => Has(K, k, x.term)
      BY <1>4, <2>1 DEF NewEntry
    <2>6. ASSUME NEW j \in 1..Len(L), NEW k \in 1..Len(M), j <= k, L[j].term = M[k].term,
                 NEW h \in 1..j
          PROVE  L[h] = M[h]
      <3>1. h \in 1..Len(L) /\ h \in Nat /\ j \in Nat /\ k \in Nat
        BY <2>2
      <3>2. CASE k \in 1..Len(K)
        <4>1. J[h] = K[h]
          BY <2>2, <2>3, <2>4, <2>6, <3>2 DEF Match
        <4> QED BY <2>2, <2>3, <2>4, <2>6, <3>1, <3>2, <4>1
      <3>3. CASE k = Len(K) + 1
        <4>1. Has(K, j, x.term) /\ J[j].term = x.term
          BY <2>3, <2>4, <2>5, <2>6, <3>3
        <4>2. j \in 1..Len(K) /\ K[j].term = J[j].term
          BY <4>1 DEF Has
        <4>3. J[h] = K[h]
          BY <2>2, <2>4, <4>2 DEF Match
        <4> QED BY <2>2, <2>3, <2>4, <3>1, <4>2, <4>3
      <3> QED BY <2>2, <2>3, <3>2, <3>3
    <2>7. ASSUME NEW j \in 1..Len(M), NEW k \in 1..Len(L), j <= k, M[j].term = L[k].term,
                 NEW h \in 1..j
          PROVE  M[h] = L[h]
      <3>1. h \in 1..Len(L) /\ h \in Nat /\ j \in Nat /\ k \in Nat
        BY <2>2, <2>3, <2>7
      <3>2. CASE j \in 1..Len(K)
        <4>1. k \in 1..Len(J) /\ K[j].term = J[k].term /\ j <= k
          BY <2>3, <2>4, <2>7, <3>2
        <4>2. K[h] = J[h]
          BY <2>2, <3>2, <4>1 DEF Match
        <4>3. h \in 1..Len(K)
          BY <2>2, <3>1, <3>2
        <4> QED BY <2>3, <2>4, <3>1, <4>2, <4>3
      <3>3. CASE j = Len(K) + 1
        <4>1. Has(K, k, x.term)
          BY <2>3, <2>4, <2>5, <2>7, <3>3
        <4> QED BY <2>2, <2>7, <3>1, <3>3, <4>1 DEF Has
      <3> QED BY <2>2, <2>3, <3>2, <3>3
    <2> QED BY <2>6, <2>7 DEF Match
  <1>5. ASSUME NEW L, NEW M, New(L), New(M) PROVE Match(L, M)
    BY <1>5 DEF Match
  <1> QED BY <1>1, <1>2, <1>3, <1>4, <1>5 DEF LogsInv

\* A safe entry stays complete: whoever appends in a later term has it.
LEMMA CompleteStays ==
    ASSUME NEW d, NEW e, NEW K, NEW x, LogsInv(d), LogStep(d, e, K, x),
           NEW L \in Logs(d), NEW i \in 1..Len(L), Safe(d, L, i)
    PROVE  Complete(e, L, i)'
  <1> DEFINE T == L[i].term
  <1>1. Complete(d, L, i) /\ T \in Nat
    BY LogIsFormed DEF Safe, Exact, LogsInv
  <1> SUFFICES ASSUME NEW M \in Logs(e)', Later(M, T)
               PROVE  Has(M, i, T)
    BY DEF Complete
  <1>2. ASSUME NEW J \in Logs(d), Prefix(M, J) PROVE Has(M, i, T)
    <2>1. Formed(J) /\ Formed(M) /\ Len(M) \in Nat /\ i \in Nat
      BY <1>2, PrefixIsFormed, LogIsFormed DEF LogsInv
    <2>2. PICK k \in 1..Len(M) : M[k].term > T
      BY DEF Later
    <2>3. k \in 1..Len(J) /\ J[k] = M[k]
      BY <1>2, <2>1, PrefixIsFormed DEF Prefix
    <2>4. Has(J, i, T)
      BY <1>1, <2>2, <2>3 DEF Complete, Later
    <2>5. i < k
      BY <1>1, <2>1, <2>2, <2>3, <2>4, TermsRise DEF Has
    <2>6. i \in 1..Len(M)
      BY <2>1, <2>4, <2>5 DEF Has
    <2> QED BY <1>2, <2>4, <2>6 DEF Has, Prefix
  <1>3. CASE NewEntry(d, K, x) /\ M = Append(K, x)
    <2>1. K \in Seq(Entries) /\ Len(K) \in Nat
      BY <1>3, LogIsFormed DEF NewEntry, LogsInv, Formed
    <2>2. /\ Len(M) = Len(K) + 1 /\ M[Len(K) + 1] = x
          /\ \A j \in 1..Len(K) : M[j] = K[j]
      BY <1>3, <2>1, AppendedLog
    <2>3. PICK k \in 1..Len(M) : M[k].term > T
      BY DEF Later
    <2>4. Has(K, i, T)
      <3>1. CASE k \in 1..Len(K)
        BY <1>1, <1>3, <2>2, <2>3, <3>1 DEF Complete, Later, NewEntry
      <3>2. CASE k = Len(K) + 1
        BY <1>3, <2>2, <2>3, <3>2 DEF NewEntry
      <3> QED BY <2>1, <2>2, <3>1, <3>2
    <2> QED BY <2>1, <2>2, <2>4 DEF Has
  <1> QED BY <1>2, <1>3 DEF LogStep

\* Who keeps a complete entry goes on keeping it: its log is overwritten only by a
\* leader that has the entry too.
LEMMA KeptStays ==
    ASSUME NEW d, NEW e, NEW K, NEW x, LogsInv(d), TermInv, LeaderInv(d), term \in [Nodes -> Nat],
           LogStep(d, e, K, x), NEW L \in Logs(d), NEW i \in 1..Len(L), Complete(d, L, i),
           NEW v \in Nodes, Dead(v) \/ Has(log[v], i, L[i].term)
    PROVE  (Dead(v) \/ Has(log[v], i, L[i].term))'
  <1> DEFINE T == L[i].term
  <1>1. T \in Nat /\ Formed(log[v])
    BY LogIsFormed DEF LogsInv, Logs
  <1>2. CASE Dead(v)
    BY <1>2 DEF LogStep
  <1>3. CASE Has(log[v], i, T) /\ Prefix(log[v], log'[v])
    <2>1. i \in 1..Len(log'[v])
      BY <1>1, <1>3, LogIsFormed DEF Prefix, Has
    <2> QED BY <1>3, <2>1 DEF Has, Prefix
  <1>4. ASSUME Has(log[v], i, T), NEW l \in Nodes,
               role[l] = "leader", term[v] <= term[l], log'[v] = log[l]
        PROVE  Has(log'[v], i, T)
    <2>1. T <= term[v] /\ term[v] \in Nat /\ term[l] \in Nat
      BY <1>4 DEF Has, TermInv
    <2>2. Has(log[l], Len(log[l]), term[l]) /\ log[l] \in Logs(d)
      BY <1>4 DEF LeaderInv, Logs
    <2>3. CASE T = term[l]
      BY <1>4, <2>3 DEF LeaderInv
    <2>4. CASE T < term[l]
      <3>1. Later(log[l], T)
        BY <2>2, <2>4 DEF Has, Later
      <3> QED BY <1>4, <2>2, <3>1 DEF Complete
    <2> QED BY <1>1, <1>4, <2>1, <2>3, <2>4
  <1> QED BY <1>2, <1>3, <1>4 DEF LogStep

\* An exact entry stays exact, and so does a quorum behind a complete one.
LEMMA ExactStays ==
    ASSUME NEW d, NEW e, NEW K, NEW x, LogsInv(d), TermInv, LeaderInv(d), term \in [Nodes -> Nat],
           LogStep(d, e, K, x), NEW L \in Logs(d), NEW i \in 1..Len(L)
    PROVE  /\ \A D \in SUBSET Nodes : Complete(d, L, i) /\ Cert(L, i, D) => Cert(L, i, D)'
           /\ Exact(d, L, i) => Exact(e, L, i)'
  <1>1. ASSUME NEW D \in SUBSET Nodes, Complete(d, L, i), Cert(L, i, D)
        PROVE  Cert(L, i, D)'
    <2>1. PICK Q \in SUBSET D : /\ IsQuorum(Q, D)
                                /\ \A v \in Q : Dead(v) \/ Has(log[v], i, L[i].term)
      BY <1>1 DEF Cert
    <2>2. \A v \in Q : (Dead(v) \/ Has(log[v], i, L[i].term))'
      BY <1>1, <2>1, KeptStays
    <2> QED BY <2>1, <2>2 DEF Cert, IsQuorum
  <1>2. ASSUME Exact(d, L, i) PROVE Exact(e, L, i)'
    <2>1. Complete(e, L, i)'
      BY <1>2, CompleteStays DEF Safe
    <2>2. Conf(L, i) \in SUBSET Nodes
      BY ConfIsMembers DEF LogsInv
    <2> QED BY <1>1, <1>2, <2>1, <2>2 DEF Exact
  <1> QED BY <1>1, <1>2

\* A safe entry stays safe.
LEMMA SafeStays ==
    ASSUME NEW d, NEW e, NEW K, NEW x, LogsInv(d), TermInv, LeaderInv(d), term \in [Nodes -> Nat],
           LogStep(d, e, K, x), NEW L \in Logs(d), NEW i \in 1..Len(L), Safe(d, L, i)
    PROVE  Safe(e, L, i)'
  <1>1. CASE Exact(d, L, i)
    BY <1>1, ExactStays DEF Safe
  <1>2. CASE ~Exact(d, L, i)
    <2>1. Complete(d, L, i) /\ Complete(e, L, i)'
      BY <1>2, CompleteStays DEF Safe
    <2>2. PICK y \in Nodes : Cert(L, i, Conf(L, i) \union {y})
      BY <1>2 DEF Safe
    <2>3. Conf(L, i) \union {y} \in SUBSET Nodes
      BY ConfIsMembers DEF LogsInv
    <2>4. Cert(L, i, Conf(L, i) \union {y})'
      BY <2>1, <2>2, <2>3, ExactStays
    <2>5. PICK h \in 1..i - 1 : L[h].term = L[i].term /\ NoConfig(L, h, i) /\ Exact(d, L, h)
      BY <1>2 DEF Safe
    <2>6. h \in 1..Len(L)
      BY LogIsFormed DEF LogsInv
    <2>7. Exact(e, L, h)'
      BY <2>5, <2>6, ExactStays
    <2> QED BY <2>1, <2>4, <2>5, <2>7 DEF Safe
  <1> QED BY <1>1, <1>2

\* Without an append, nothing is new.
LEMMA NothingNew ==
    ASSUME NEW d PROVE ~NewEntry(d, <<>>, NoopEntry(0))
  <1> SUFFICES ASSUME NewEntry(d, <<>>, NoopEntry(0)) PROVE FALSE
    OBVIOUS
  <1> DEFINE L == Append(<<>>, NoopEntry(0))
  <1>1. Len(L) = 1 /\ L[1] = NoopEntry(0)
    OBVIOUS
  <1>2. L[1] \in Entries
    BY <1>1, LogIsFormed DEF NewEntry
  <1> QED BY <1>1, <1>2 DEF Entries, NoopEntry

\* What is kept of an entry depends on the log up to it only.
LEMMA SafePrefix ==
    ASSUME NEW d, NEW L, NEW M, Formed(L), NEW i \in 1..Len(L), i \in 1..Len(M),
           \A j \in 1..i : M[j] = L[j]
    PROVE  /\ Exact(d, L, i)' => Exact(d, M, i)'
           /\ Safe(d, L, i)' => Safe(d, M, i)'
  <1>0. Len(L) \in Nat /\ i \in Nat /\ M[i] = L[i]
    BY LogIsFormed
  <1>1. ASSUME NEW h \in 1..i
        PROVE  /\ M[h] = L[h] /\ Conf(M, h) = Conf(L, h)
               /\ Complete(d, L, h)' => Complete(d, M, h)'
               /\ \A D : Cert(L, h, D)' => Cert(M, h, D)'
               /\ Exact(d, L, h)' => Exact(d, M, h)'
    <2>1. h \in 1..Len(L) /\ h \in 1..Len(M) /\ M[h] = L[h] /\ \A j \in 1..h : M[j] = L[j]
      BY <1>0
    <2>2. Conf(M, h) = Conf(L, h)
      BY <2>1, SameConf
    <2> QED BY <2>1, <2>2 DEF Complete, Cert, Exact
  <1>2. ASSUME Safe(d, L, i)', ~Exact(d, L, i)' PROVE Safe(d, M, i)'
    <2>1. i \in 1..i /\ Complete(d, L, i)'
      BY <1>0, <1>2 DEF Safe
    <2>2. PICK x \in Nodes : Cert(L, i, Conf(L, i) \union {x})'
      BY <1>2 DEF Safe
    <2>3. Complete(d, M, i)' /\ Cert(M, i, Conf(M, i) \union {x})'
      BY <1>1, <2>1, <2>2
    <2>4. PICK h \in 1..i - 1 : L[h].term = L[i].term /\ NoConfig(L, h, i) /\ Exact(d, L, h)'
      BY <1>2 DEF Safe
    <2>5. h \in 1..i
      BY <1>0
    <2>6. NoConfig(M, h, i)
      BY <1>0, <2>4, <2>5 DEF NoConfig
    <2>7. M[h].term = M[i].term /\ Exact(d, M, h)'
      BY <1>0, <1>1, <2>4, <2>5
    <2> QED BY <2>3, <2>6, <2>7 DEF Safe
  <1>3. Exact(d, L, i)' => Exact(d, M, i)' /\ Safe(d, M, i)'
    BY <1>0, <1>1 DEF Safe
  <1> QED BY <1>2, <1>3

\* The root of a configuration depends on the log up to it only.
LEMMA RootedPrefix ==
    ASSUME NEW L, NEW M, Formed(L), NEW c \in 1..Len(L), c \in 1..Len(M),
           \A j \in 1..c : M[j] = L[j], NEW i \in 1..c - 1, Rooted(L, c, i)
    PROVE  Rooted(M, c, i)
  <1>0. Len(L) \in Nat /\ i \in 1..Len(L) /\ c \in Nat /\ i \in 1..c
    BY LogIsFormed
  <1>1. i \in 1..Len(M) /\ \A j \in 1..i : M[j] = L[j]
    BY <1>0
  <1>2. Conf(M, i) = Conf(L, i)
    BY <1>0, <1>1, SameConf
  <1>3. NoConfig(M, i, c - 1)
    BY <1>0 DEF Rooted, NoConfig
  <1>4. M[c] = L[c] /\ M[i] = L[i]
    BY <1>0
  <1> QED BY <1>2, <1>3, <1>4 DEF Rooted

\* No term falls but that of a process that ends, and what a leader of a step's end
\* knows of a follower it knew before, or it brings the follower up to its log.
LeaderStep ==
    /\ \A v \in Nodes : term'[v] \in Nat /\ (Dead(v)' \/ term'[v] >= term[v])
    /\ \A l \in Nodes : role'[l] = "leader" =>
          \/ match'[l] = NoMatch
          \/ /\ role[l] = "leader" /\ term'[l] = term[l] /\ Prefix(log[l], log'[l])
             /\ \A v \in Nodes :
                   \/ match'[l][v] = match[l][v]
                   \/ /\ Alive(v) /\ term[v] <= term[l] /\ term'[v] >= term[l]
                      /\ match'[l][v] <= Len(log[l]) /\ Prefix(log[l], log'[v])

\* A vote stays one: a leader of an earlier term learns nothing more of a voter, which
\* has gone on to the later term.
LEMMA VoteStays ==
    ASSUME NEW d, LogsInv(d), MatchInv, Typed, LeaderStep, \A v \in Nodes : Dead(v) => Dead(v)',
           NEW L \in Logs(d), NEW k \in 2..Len(L), NEW v \in Nodes, Voted(L, k, v)
    PROVE  Voted(L, k, v)'
  <1>0. L[k].term \in Nat /\ term[v] \in Nat
    <2>1. k \in 1..Len(L)
      BY LogIsFormed DEF LogsInv
    <2> QED BY <2>1, LogIsFormed, BoundsAssumption DEF LogsInv, Typed
  <1>1. Dead(v)' \/ term'[v] >= L[k].term
    <2>1. CASE Dead(v)
      BY <2>1
    <2>2. CASE term[v] >= L[k].term /\ term'[v] >= term[v]
      BY <1>0, <2>2 DEF LeaderStep
    <2> QED BY <2>1, <2>2 DEF Voted, LeaderStep
  <1>2. ASSUME NEW l \in Nodes, role'[l] = "leader", term'[l] < L[k].term,
               NEW i \in 1..match'[l][v], log'[l][i].term = term'[l]
        PROVE  L[k - 1].term > term'[l] \/ (i < k /\ L[i].term = term'[l])
    <2>1. match'[l] # NoMatch
      <3>1. ASSUME match'[l] = NoMatch PROVE match'[l][v] = 0
        BY <3>1 DEF NoMatch
      <3> QED BY <1>2, <3>1
    <2>2. role[l] = "leader" /\ term'[l] = term[l] /\ Prefix(log[l], log'[l])
      BY <1>2, <2>1 DEF LeaderStep
    <2>3. CASE match'[l][v] = match[l][v]
      <3>1. match[l][v] \in Nat
        BY DEF Typed
      <3>2. match[l][v] <= Len(log[l])
        <4>1. match[l][v] > 0
          BY <1>2, <2>3, <3>1
        <4> QED BY <2>2, <4>1 DEF MatchInv
      <3>3. i \in 1..Len(log[l])
        BY <1>2, <2>3, <3>1, <3>2, LogIsFormed DEF LogsInv, Logs
      <3>4. log[l][i].term = term[l]
        BY <1>2, <2>2, <3>3 DEF Prefix
      <3> QED BY <1>2, <2>2, <2>3, <3>4 DEF Voted
    <2>4. CASE Alive(v) /\ term[v] <= term[l]
      <3>1. ~Dead(v)
        BY <2>4 DEF Dead, Alive
      <3>2. term[l] \in Nat
        BY BoundsAssumption DEF Typed
      <3> QED BY <1>0, <1>2, <2>2, <2>4, <3>1, <3>2 DEF Voted
    <2> QED BY <1>2, <2>1, <2>3, <2>4 DEF LeaderStep
  <1> QED BY <1>1, <1>2 DEF Voted

\* The votes behind the entries of a log that M agrees with.
LEMMA VotedPrefix ==
    ASSUME NEW L, NEW M, NEW k \in 2..Len(L), Len(L) \in Nat,
           \A j \in 1..k : M[j] = L[j], NEW v, Voted(L, k, v)'
    PROVE  Voted(M, k, v)'
  <1>1. M[k] = L[k] /\ M[k - 1] = L[k - 1]
    OBVIOUS
  <1>2. \A l \in Nodes : \A i \in 1..match'[l][v] : i < k => M[i] = L[i]
    OBVIOUS
  <1> QED BY <1>1, <1>2 DEF Voted

\* A new term's first entry has a quorum behind it, and the votes for the entries
\* before stay.
FirstEntryVoted(d, K, x) ==
    NewEntry(d, K, x) /\ K # <<>> /\ K[Len(K)].term < x.term =>
        \E Q \in SUBSET Conf(K, Len(K)) :
            /\ IsQuorum(Q, Conf(K, Len(K)))
            /\ \A v \in Q : Voted(Append(K, x), Len(K) + 1, v)'

\* A step leaves every first entry of a term with its votes.
LEMMA VotesStay ==
    ASSUME NEW d, NEW e, NEW K, NEW x, LogsInv(d), VoteInv(d), MatchInv, Typed,
           LogStep(d, e, K, x), LeaderStep, FirstEntryVoted(d, K, x)
    PROVE  VoteInv(e)'
  <1> SUFFICES ASSUME NEW M \in Logs(e)', NEW k \in 2..Len(M), M[k - 1].term < M[k].term
               PROVE  \E Q \in SUBSET Conf(M, k - 1) :
                         IsQuorum(Q, Conf(M, k - 1)) /\ \A v \in Q : Voted(M, k, v)'
    BY DEF VoteInv, IsQuorum
  <1>1. ASSUME NEW J \in Logs(d), k \in 2..Len(J), \A j \in 1..k : M[j] = J[j], Len(M) \in Nat
        PROVE  \E Q \in SUBSET Conf(M, k - 1) :
                  IsQuorum(Q, Conf(M, k - 1)) /\ \A v \in Q : Voted(M, k, v)'
    <2>1. /\ Formed(J) /\ Len(J) \in Nat /\ k - 1 \in 1..Len(J) /\ k - 1 \in 1..Len(M) /\ k \in Nat
          /\ \A j \in 1..k - 1 : M[j] = J[j]
          /\ M[k] = J[k] /\ M[k - 1] = J[k - 1]
      BY <1>1, LogIsFormed DEF LogsInv
    <2>2. Conf(M, k - 1) = Conf(J, k - 1) /\ Conf(J, k - 1) \in SUBSET Nodes
      BY <2>1, SameConf, ConfIsMembers
    <2>3. PICK Q \in SUBSET Conf(J, k - 1) :
              IsQuorum(Q, Conf(J, k - 1)) /\ \A v \in Q : Voted(J, k, v)
      BY <1>1, <2>1 DEF VoteInv
    <2>4. ASSUME NEW v \in Q PROVE Voted(M, k, v)'
      <3>1. v \in Nodes /\ Voted(J, k, v)
        BY <2>2, <2>3
      <3>2. Voted(J, k, v)'
        BY <1>1, <3>1, VoteStays DEF LogStep
      <3> QED BY <1>1, <2>1, <3>2, VotedPrefix
    <2> QED BY <2>2, <2>3, <2>4
  <1>2. ASSUME NEW J \in Logs(d), Prefix(M, J)
        PROVE  \E Q \in SUBSET Conf(M, k - 1) :
                  IsQuorum(Q, Conf(M, k - 1)) /\ \A v \in Q : Voted(M, k, v)'
    <2>1. Formed(J) /\ Len(J) \in Nat /\ Len(M) \in Nat /\ Len(M) <= Len(J)
      BY <1>2, LogIsFormed DEF LogsInv, Prefix
    <2>2. k \in 2..Len(J) /\ \A j \in 1..k : M[j] = J[j]
      BY <1>2, <2>1 DEF Prefix
    <2> QED BY <1>1, <1>2, <2>1, <2>2
  <1>3. CASE NewEntry(d, K, x) /\ M = Append(K, x)
    <2>1. K \in Logs(d) /\ K \in Seq(Entries) /\ Len(K) \in Nat
      BY <1>3, LogIsFormed DEF NewEntry, LogsInv, Formed
    <2>2. /\ Len(M) = Len(K) + 1 /\ M[Len(K) + 1] = x
          /\ \A j \in 1..Len(K) : M[j] = K[j]
      BY <1>3, <2>1, AppendedLog
    <2>3. CASE k \in 2..Len(K)
      <3>1. \A j \in 1..k : M[j] = K[j]
        BY <2>1, <2>2, <2>3
      <3> QED BY <1>1, <2>1, <2>2, <2>3, <3>1
    <2>4. CASE k = Len(K) + 1
      <3>1. /\ K # <<>> /\ Formed(K) /\ k - 1 = Len(K)
            /\ Len(K) \in 1..Len(K) /\ Len(K) \in 1..Len(M)
            /\ M[k] = x /\ M[k - 1] = K[Len(K)]
        BY <2>1, <2>2, <2>4 DEF LogsInv
      <3>2. Conf(M, Len(K)) = Conf(K, Len(K))
        BY <2>2, <3>1, SameConf
      <3>3. PICK Q \in SUBSET Conf(K, Len(K)) :
              /\ IsQuorum(Q, Conf(K, Len(K)))
              /\ \A v \in Q : Voted(Append(K, x), Len(K) + 1, v)'
        BY <1>3, <3>1 DEF FirstEntryVoted
      <3> QED BY <1>3, <2>4, <3>1, <3>2, <3>3
    <2> QED BY <2>1, <2>2, <2>3, <2>4
  <1> QED BY <1>2, <1>3 DEF LogStep

\* A configuration that is appended goes one voter beyond one that is kept.
NewRoot(d, K, x) ==
    NewEntry(d, K, x) /\ K # <<>> /\ x.kind = "config" =>
        \E i \in 1..Len(K) :
            /\ Rooted(Append(K, x), Len(K) + 1, i) /\ Exact(d, K, i)
            /\ \A l \in Nodes : role'[l] = "leader" /\ term'[l] = x.term => i <= commit'[l]

\* A leader of a step's end was one before, or leads in a term no log has.
TermIsOwn(d) ==
    \A l \in Nodes : role'[l] = "leader" =>
        \/ role[l] = "leader" /\ term'[l] = term[l] /\ commit'[l] >= commit[l]
        \/ \A J \in Logs(d) : \A k \in 1..Len(J) : J[k].term # term'[l]

\* A step leaves every configuration with its root.
LEMMA ConfigsStay ==
    ASSUME NEW d, NEW e, NEW K, NEW x, LogsInv(d), TermInv, LeaderInv(d), Typed, ConfigInv(d),
           LogStep(d, e, K, x), TermIsOwn(d), NewRoot(d, K, x), commit' \in [Nodes -> Nat]
    PROVE  ConfigInv(e)'
  <1> DEFINE Root(M, c, i) ==
                /\ Rooted(M, c, i) /\ Exact(e, M, i)'
                /\ \A l \in Nodes : role'[l] = "leader" /\ term'[l] = M[c].term => i <= commit'[l]
  <1>0. /\ \A L \in Logs(d), i \in Nat : i \in 1..Len(L) /\ Exact(d, L, i) => Exact(e, L, i)'
        /\ commit \in [Nodes -> Nat]
    <2>1. term \in [Nodes -> Nat]
      BY BoundsAssumption DEF Typed
    <2> QED BY <2>1, ExactStays DEF Typed
  <1> SUFFICES ASSUME NEW M \in Logs(e)', NEW c \in 2..Len(M), M[c].kind = "config"
               PROVE  \E i \in 1..c - 1 : Root(M, c, i)
    BY DEF ConfigInv, Rooted
  <1>1. ASSUME NEW J \in Logs(d), c \in 2..Len(J), \A j \in 1..c : M[j] = J[j], Len(M) \in Nat
        PROVE  \E i \in 1..c - 1 : Root(M, c, i)
    <2>1. Formed(J) /\ Len(J) \in Nat /\ c \in 1..Len(J) /\ c \in 1..Len(M) /\ M[c] = J[c] /\ c \in Nat
      BY <1>1, LogIsFormed DEF LogsInv
    <2>2. PICK i \in 1..c - 1 :
              /\ Rooted(J, c, i) /\ Exact(d, J, i)
              /\ \A l \in Nodes : role[l] = "leader" /\ term[l] = J[c].term => i <= commit[l]
      BY <1>1, <2>1 DEF ConfigInv
    <2>3. Rooted(M, c, i)
      BY <1>1, <2>1, <2>2, RootedPrefix
    <2>4. i \in 1..Len(J) /\ i \in 1..Len(M) /\ i \in Nat /\ \A j \in 1..i : M[j] = J[j]
      BY <1>1, <2>1
    <2>5. Exact(e, J, i)'
      BY <1>0, <2>2, <2>4
    <2>6. Exact(e, M, i)'
      BY <2>1, <2>4, <2>5, SafePrefix
    <2>7. ASSUME NEW l \in Nodes, role'[l] = "leader", term'[l] = M[c].term
          PROVE  i <= commit'[l]
      <3>1. role[l] = "leader" /\ term'[l] = term[l] /\ commit'[l] >= commit[l]
        BY <1>1, <2>1, <2>7 DEF TermIsOwn
      <3> QED BY <1>0, <2>1, <2>2, <2>4, <2>7, <3>1
    <2> QED BY <2>3, <2>6, <2>7
  <1>2. ASSUME NEW J \in Logs(d), Prefix(M, J)
        PROVE  \E i \in 1..c - 1 : Root(M, c, i)
    <2>1. Formed(J) /\ Len(J) \in Nat /\ Len(M) \in Nat /\ Len(M) <= Len(J)
      BY <1>2, LogIsFormed DEF LogsInv, Prefix
    <2>2. c \in 2..Len(J) /\ \A j \in 1..c : M[j] = J[j]
      BY <1>2, <2>1 DEF Prefix
    <2> QED BY <1>1, <1>2, <2>1, <2>2
  <1>3. CASE NewEntry(d, K, x) /\ M = Append(K, x)
    <2>1. K \in Logs(d) /\ K \in Seq(Entries) /\ Len(K) \in Nat /\ Formed(K)
      BY <1>3, LogIsFormed DEF NewEntry, LogsInv, Formed
    <2>2. /\ Len(M) = Len(K) + 1 /\ M[Len(K) + 1] = x
          /\ \A j \in 1..Len(K) : M[j] = K[j]
      BY <1>3, <2>1, AppendedLog
    <2>3. CASE c \in 2..Len(K)
      <3>1. \A j \in 1..c : M[j] = K[j]
        BY <2>1, <2>2, <2>3
      <3> QED BY <1>1, <2>1, <2>2, <2>3, <3>1
    <2>4. CASE c = Len(K) + 1
      <3>1. K # <<>> /\ M[c] = x /\ c - 1 = Len(K)
        BY <2>1, <2>2, <2>4
      <3>2. PICK i \in 1..Len(K) :
              /\ Rooted(M, c, i) /\ Exact(d, K, i)
              /\ \A l \in Nodes : role'[l] = "leader" /\ term'[l] = x.term => i <= commit'[l]
        BY <1>3, <2>4, <3>1 DEF NewRoot
      <3>3. i \in 1..Len(K) /\ i \in 1..Len(M) /\ i \in Nat /\ \A j \in 1..i : M[j] = K[j]
        BY <2>1, <2>2
      <3>4. Exact(e, K, i)'
        BY <1>0, <2>1, <3>2, <3>3
      <3>5. Exact(e, M, i)'
        BY <2>1, <3>3, <3>4, SafePrefix
      <3> QED BY <3>1, <3>2, <3>5
    <2> QED BY <2>1, <2>2, <2>3, <2>4
  <1> QED BY <1>2, <1>3 DEF LogStep

\* What a node takes for committed was so before, on this node or on another.
LEMMA CommitStays ==
    ASSUME NEW d, NEW e, NEW K, NEW x, LogsInv(d), TermInv, LeaderInv(d), Typed,
           LogStep(d, e, K, x), d \in Logs(d), Prefix(d, e), NEW n \in Nodes,
           NEW L \in Logs(d), NEW i \in 1..Len(L),
           Safe(d, L, i), Has(d, i, L[i].term), Formed(log'[n]),
           i <= Len(log'[n]), \A j \in 1..i : log'[n][j] = L[j]
    PROVE  Safe(e, log[n], i)' /\ Has(e, i, log'[n][i].term)
  <1>1. Formed(L) /\ Len(L) \in Nat /\ Len(log'[n]) \in Nat /\ i \in Nat /\ i \in 1..Len(log'[n])
    BY LogIsFormed DEF LogsInv
  <1>2. Safe(e, L, i)'
    <2>1. term \in [Nodes -> Nat]
      BY BoundsAssumption DEF Typed
    <2> QED BY <2>1, SafeStays
  <1>3. Safe(e, log[n], i)'
    <2>1. PICK M : M = log'[n]
      OBVIOUS
    <2>2. i \in 1..Len(M) /\ \A j \in 1..i : M[j] = L[j]
      BY <1>1, <2>1
    <2>3. Safe(e, M, i)'
      BY <1>1, <1>2, <2>2, SafePrefix
    <2> QED BY <2>1, <2>3
  <1>4. Len(d) \in Nat /\ i \in 1..Len(d) /\ i \in 1..Len(e)
    BY LogIsFormed DEF LogsInv, Has, Prefix
  <1> QED BY <1>1, <1>3, <1>4 DEF Has, Prefix

\* A leader of a step's end led in that term before, and nobody appends in its term;
\* or it is the one that appends.
OwnLog(d, K, x, a) ==
    \A l \in Nodes : role'[l] = "leader" =>
        \/ /\ role[l] = "leader" /\ term'[l] = term[l] /\ log'[l] = log[l]
           /\ NewEntry(d, K, x) => x.term # term[l]
        \/ NewEntry(d, K, x) /\ l = a /\ log'[l] = Append(K, x) /\ term'[l] = x.term

\* A step leaves each leader with the log of its term.
LEMMA LeadersStay ==
    ASSUME NEW d, NEW e, NEW K, NEW x, NEW a, LogsInv(d), LeaderInv(d), LogStep(d, e, K, x),
           OwnLog(d, K, x, a)
    PROVE  LeaderInv(e)'
  <1> DEFINE Stays(l) == /\ role[l] = "leader" /\ term'[l] = term[l] /\ log'[l] = log[l]
                         /\ NewEntry(d, K, x) => x.term # term[l]
             Appends(l) == /\ NewEntry(d, K, x) /\ l = a
                           /\ log'[l] = Append(K, x) /\ term'[l] = x.term
  <1>1. \A l \in Nodes : role'[l] = "leader" => Stays(l) \/ Appends(l)
    BY DEF OwnLog
  <1>2. ASSUME NewEntry(d, K, x)
        PROVE  /\ Len(K) \in Nat /\ Len(Append(K, x)) = Len(K) + 1
               /\ Append(K, x)[Len(K) + 1] = x
               /\ \A j \in 1..Len(K) : Append(K, x)[j] = K[j]
               /\ \A j : Has(K, j, x.term) => Has(Append(K, x), j, x.term)
               /\ Has(Append(K, x), Len(K) + 1, x.term)
    <2>1. K \in Seq(Entries) /\ Len(K) \in Nat
      BY <1>2, LogIsFormed DEF NewEntry, LogsInv, Formed
    <2>2. /\ Len(Append(K, x)) = Len(K) + 1 /\ Append(K, x)[Len(K) + 1] = x
          /\ \A j \in 1..Len(K) : Append(K, x)[j] = K[j]
      BY <2>1, AppendedLog
    <2> QED BY <2>1, <2>2 DEF Has
  <1>3. ASSUME NEW l \in Nodes, role'[l] = "leader"
        PROVE  Has(log'[l], Len(log'[l]), term'[l])
    <2>1. CASE Stays(l)
      BY <1>3, <2>1 DEF LeaderInv
    <2>2. CASE Appends(l)
      BY <1>2, <2>2
    <2> QED BY <1>1, <1>3, <2>1, <2>2
  <1>4. ASSUME NEW l \in Nodes, role'[l] = "leader", NEW M \in Logs(e)',
               NEW k \in 1..Len(M), M[k].term = term'[l]
        PROVE  Has(log'[l], k, term'[l])
    <2>1. ASSUME NEW J \in Logs(d), k \in 1..Len(J), J[k].term = term'[l]
          PROVE  Has(log'[l], k, term'[l])
      <3>1. CASE Stays(l)
        BY <2>1, <3>1 DEF LeaderInv
      <3>2. CASE Appends(l)
        BY <1>2, <2>1, <3>2 DEF NewEntry
      <3> QED BY <1>1, <1>4, <3>1, <3>2
    <2>2. CASE \E J \in Logs(d) : Prefix(M, J)
      <3>1. PICK J \in Logs(d) : Prefix(M, J)
        BY <2>2
      <3>2. Len(J) \in Nat /\ Len(M) \in Nat /\ k \in 1..Len(J) /\ J[k] = M[k]
        BY <3>1, LogIsFormed DEF Prefix, LogsInv
      <3> QED BY <1>4, <2>1, <3>2
    <2>3. CASE NewEntry(d, K, x) /\ M = Append(K, x)
      <3>1. CASE k \in 1..Len(K)
        <4>1. K \in Logs(d) /\ K[k].term = term'[l]
          BY <1>2, <1>4, <2>3, <3>1 DEF NewEntry
        <4> QED BY <2>1, <3>1, <4>1
      <3>2. CASE k = Len(K) + 1
        <4>1. x.term = term'[l]
          BY <1>2, <1>4, <2>3, <3>2
        <4>2. Appends(l)
          BY <1>1, <1>4, <2>3, <4>1
        <4> QED BY <1>2, <2>3, <3>2, <4>2
      <3> QED BY <1>2, <2>3, <3>1, <3>2
    <2> QED BY <2>2, <2>3 DEF LogStep
  <1>5. ASSUME NEW l \in Nodes, role'[l] = "leader", NEW m \in Nodes,
               role'[m] = "leader", term'[m] = term'[l]
        PROVE  m = l
    <2>1. CASE Stays(l) /\ Stays(m)
      BY <1>5, <2>1 DEF LeaderInv
    <2>2. CASE ~(Stays(l) /\ Stays(m))
      BY <1>1, <1>5, <2>2
    <2> QED BY <2>1, <2>2
  <1> QED BY <1>3, <1>4, <1>5 DEF LeaderInv

\* A step leaves what leaders know of followers true.
LEMMA MatchesStay ==
    ASSUME NEW d, NEW e, NEW K, NEW x, LogsInv(d), LeaderInv(d), TermInv, MatchInv, Typed,
           LogStep(d, e, K, x), LeaderStep, \A v \in Nodes : Formed(log'[v]),
           match' \in [Nodes -> [Nodes -> Nat]]
    PROVE  MatchInv'
  <1> SUFFICES ASSUME NEW l \in Nodes, NEW f \in Nodes, role'[l] = "leader", match'[l][f] > 0
               PROVE  /\ match'[l][f] <= Len(log'[l])
                      /\ \/ Dead(f)'
                         \/ /\ term'[f] >= term'[l]
                            /\ \/ Has(log'[f], match'[l][f], log'[l][match'[l][f]].term)
                               \/ Later(log'[f], term'[l])
    BY DEF MatchInv
  <1>1. match'[l] # NoMatch
    <2>1. ASSUME match'[l] = NoMatch PROVE match'[l][f] = 0
      BY <2>1 DEF NoMatch
    <2> QED BY <2>1
  <1>2. /\ role[l] = "leader" /\ term'[l] = term[l] /\ Prefix(log[l], log'[l])
        /\ \/ match'[l][f] = match[l][f]
           \/ /\ Alive(f) /\ term[f] <= term[l] /\ term'[f] >= term[l]
              /\ match'[l][f] <= Len(log[l]) /\ Prefix(log[l], log'[f])
    BY <1>1 DEF LeaderStep
  <1>3. /\ log[l] \in Logs(d) /\ log[f] \in Logs(d) /\ Formed(log[l]) /\ Formed(log[f])
        /\ Len(log[l]) \in Nat /\ Len(log[f]) \in Nat
        /\ Len(log'[l]) \in Nat /\ Len(log'[f]) \in Nat
        /\ Len(log[l]) <= Len(log'[l])
        /\ match[l][f] \in Nat /\ term[l] \in Nat /\ term[f] \in Nat
    <2>1. log[l] \in Logs(d) /\ log[f] \in Logs(d)
      BY DEF Logs
    <2>2. Formed(log[l]) /\ Formed(log[f]) /\ Formed(log'[l]) /\ Formed(log'[f])
      BY <2>1 DEF LogsInv
    <2>3. match[l][f] \in Nat /\ term[l] \in Nat /\ term[f] \in Nat
      BY BoundsAssumption DEF Typed
    <2> QED BY <1>2, <2>1, <2>2, <2>3, LogIsFormed DEF Prefix
  <1>4. CASE match'[l][f] = match[l][f]
    <2> DEFINE i == match[l][f]
               T == log[l][i].term
    <2>1. /\ i \in 1..Len(log[l]) /\ log'[l][i] = log[l][i]
          /\ \/ Dead(f)
             \/ term[f] >= term[l] /\ (Has(log[f], i, T) \/ Later(log[f], term[l]))
      BY <1>2, <1>3, <1>4 DEF MatchInv, Prefix
    <2>2. CASE Dead(f)'
      BY <1>3, <1>4, <2>1, <2>2
    <2>3. CASE ~Dead(f)'
      <3>1. /\ term[f] >= term[l] /\ (Has(log[f], i, T) \/ Later(log[f], term[l]))
            /\ term'[f] >= term[f] /\ term'[f] \in Nat
        BY <2>1, <2>3 DEF LogStep, LeaderStep
      <3>2. ASSUME Prefix(log[f], log'[f])
            PROVE  Has(log'[f], i, T) \/ Later(log'[f], term[l])
        <4>1. Has(log[f], i, T) => Has(log'[f], i, T)
          <5>1. \A j \in 1..Len(log[f]) : j \in 1..Len(log'[f]) /\ log'[f][j] = log[f][j]
            BY <1>3, <3>2 DEF Prefix
          <5> QED BY <5>1 DEF Has
        <4>2. Later(log[f], term[l]) => Later(log'[f], term[l])
          <5>1. \A k \in 1..Len(log[f]) : k \in 1..Len(log'[f]) /\ log'[f][k] = log[f][k]
            BY <1>3, <3>2 DEF Prefix
          <5> QED BY <5>1 DEF Later
        <4> QED BY <3>1, <4>1, <4>2
      <3>3. ASSUME NEW m \in Nodes, role[m] = "leader", term[f] <= term[m], log'[f] = log[m]
            PROVE  Has(log'[f], i, T) \/ Later(log'[f], term[l])
        <4>1. term[m] \in Nat /\ Has(log[m], Len(log[m]), term[m])
          BY <3>3, BoundsAssumption DEF LeaderInv, Typed
        <4>2. CASE term[m] > term[l]
          BY <3>3, <4>1, <4>2 DEF Later, Has
        <4>3. CASE term[m] = term[l]
          <5>1. m = l
            BY <1>2, <3>3, <4>3 DEF LeaderInv
          <5> QED BY <2>1, <3>3, <5>1 DEF Has
        <4>4. term[m] > term[l] \/ term[m] = term[l]
          <5>1. term[l] \in Nat /\ term[f] \in Nat /\ term[m] \in Nat
            BY <1>3, <4>1
          <5>2. term[f] >= term[l] /\ term[f] <= term[m]
            BY <3>1, <3>3
          <5>3. \A a, b, c \in Nat : a <= b /\ b <= c => c > a \/ c = a
            OBVIOUS
          <5> QED BY <5>1, <5>2, <5>3
        <4> QED BY <4>2, <4>3, <4>4
      <3>4. Has(log'[f], i, T) \/ Later(log'[f], term[l])
        BY <2>3, <3>1, <3>2, <3>3 DEF LogStep
      <3>5. term'[f] >= term'[l] /\ i <= Len(log'[l])
        <4>1. term'[f] >= term'[l]
          BY <1>2, <1>3, <3>1
        <4>2. i <= Len(log'[l])
          BY <1>3, <2>1
        <4> QED BY <4>1, <4>2
      <3> QED BY <1>2, <1>4, <2>1, <3>4, <3>5
    <2> QED BY <2>2, <2>3
  <1>5. CASE /\ Alive(f) /\ term[f] <= term[l] /\ term'[f] >= term[l]
             /\ match'[l][f] <= Len(log[l]) /\ Prefix(log[l], log'[f])
    <2>1. match'[l][f] \in Nat
      OBVIOUS
    <2>2. match'[l][f] \in 1..Len(log[l]) /\ match'[l][f] \in 1..Len(log'[f])
      BY <1>3, <1>5, <2>1 DEF Prefix
    <2>3. log'[f][match'[l][f]] = log[l][match'[l][f]] /\ log'[l][match'[l][f]] = log[l][match'[l][f]]
      BY <1>2, <1>5, <2>2 DEF Prefix
    <2> QED BY <1>2, <1>3, <1>5, <2>2, <2>3 DEF Has
  <1> QED BY <1>2, <1>4, <1>5

-----------------------------------------------------------------------------
(* A step that commits nothing new                                         *)

\* What a node has committed after the step, it or another had committed before.
CommitStep(d) ==
    \A n \in Nodes : commit'[n] > 0 =>
        \E L \in Logs(d) :
            /\ commit'[n] \in 1..Len(L) /\ commit'[n] <= Len(log'[n])
            /\ \A j \in 1..commit'[n] : log'[n][j] = L[j]
            /\ Safe(d, L, commit'[n]) /\ Has(d, commit'[n], L[commit'[n]].term)

\* Nothing new is acknowledged, and a node that begins to serve is a decided voter.
ClientStep(d) ==
    /\ acked' = acked
    /\ \A n \in Nodes \ {Boot} : proc'[n] = "serving" =>
          proc[n] = "serving" \/ (d # <<>> /\ n \in Conf(d, Len(d)))

\* The decided log is a log like the nodes' own.
LEMMA DecidedIsLog ==
    ASSUME NEW d, LogsInv(d)
    PROVE  /\ d \in Logs(d) /\ Formed(d) /\ Prefix(d, d) /\ Len(d) \in Nat
           /\ d # <<>> => Len(d) \in 1..Len(d)
           /\ \A n \in Nodes : log[n] \in Logs(d) /\ Formed(log[n]) /\ Len(log[n]) \in Nat
                               /\ log[n] \in Seq(Entries) /\ Prefix(log[n], log[n])
  <1>1. d \in Logs(d) /\ \A n \in Nodes : log[n] \in Logs(d)
    BY DEF Logs
  <1>2. Formed(d) /\ \A n \in Nodes : Formed(log[n])
    BY <1>1 DEF LogsInv
  <1>3. \A L : Formed(L) => Prefix(L, L) /\ L \in Seq(Entries) /\ Len(L) \in Nat
    BY DEF Prefix, Formed
  <1>4. d # <<>> => Len(d) \in 1..Len(d)
    BY <1>2, LogIsFormed
  <1> QED BY <1>1, <1>2, <1>3, <1>4

\* A step that is like this in every respect keeps the invariant.
LEMMA StepKeeps ==
    ASSUME NEW d, NEW K, NEW x, NEW a, ClusterInv(d), LogStep(d, d, K, x), LeaderStep,
           FirstEntryVoted(d, K, x), TermIsOwn(d), NewRoot(d, K, x), OwnLog(d, K, x, a),
           CommitStep(d), ClientStep(d), Typed', ProcInv(d)', TermInv'
    PROVE  ClusterInv(d)'
  <1>0. /\ Typed /\ ProcInv(d) /\ LogsInv(d) /\ TermInv /\ LeaderInv(d)
        /\ MatchInv /\ VoteInv(d) /\ ConfigInv(d) /\ CommitInv(d) /\ ClientInv(d)
        /\ term \in [Nodes -> Nat] /\ commit' \in [Nodes -> Nat]
        /\ match' \in [Nodes -> [Nodes -> Nat]]
    BY BoundsAssumption DEF ClusterInv, Typed
  <1>1. LogsInv(d)'
    BY <1>0, LogsStay
  <1>2. \A n \in Nodes : Formed(log'[n])
    <2>1. \A n \in Nodes : log'[n] \in Logs(d)'
      BY DEF Logs
    <2> QED BY <1>1, <2>1 DEF LogsInv
  <1>3. LeaderInv(d)'
    BY <1>0, LeadersStay
  <1>4. MatchInv'
    BY <1>0, <1>2, MatchesStay
  <1>5. VoteInv(d)'
    BY <1>0, VotesStay
  <1>6. ConfigInv(d)'
    BY <1>0, ConfigsStay
  <1>7. CommitInv(d)'
    <2>1. ASSUME NEW n \in Nodes, commit'[n] > 0
          PROVE  /\ commit'[n] <= Len(log'[n]) /\ Safe(d, log[n], commit[n])'
                 /\ Has(d, commit'[n], log'[n][commit'[n]].term)
      <3>1. PICK L \in Logs(d) :
              /\ commit'[n] \in 1..Len(L) /\ commit'[n] <= Len(log'[n])
              /\ \A j \in 1..commit'[n] : log'[n][j] = L[j]
              /\ Safe(d, L, commit'[n]) /\ Has(d, commit'[n], L[commit'[n]].term)
        BY <2>1 DEF CommitStep
      <3>2. PICK i \in 1..Len(L) : i = commit'[n]
        BY <3>1
      <3>3. Safe(d, log[n], i)' /\ Has(d, i, log'[n][i].term)
        <4>1. d \in Logs(d) /\ Prefix(d, d)
          BY <1>0, DecidedIsLog
        <4> QED BY <1>0, <1>2, <3>1, <3>2, <4>1, CommitStays
      <3> QED BY <3>1, <3>2, <3>3
    <2>2. d # <<>> => Safe(d, d, Len(d))'
      <3>1. d # <<>> => d \in Logs(d) /\ Len(d) \in 1..Len(d) /\ Safe(d, d, Len(d))
        BY <1>0, DecidedIsLog DEF CommitInv
      <3> QED BY <1>0, <3>1, SafeStays
    <2> QED BY <2>1, <2>2 DEF CommitInv
  <1>8. ClientInv(d)'
    BY <1>0 DEF ClientInv, ClientStep
  <1> QED BY <1>1, <1>3, <1>4, <1>5, <1>6, <1>7, <1>8 DEF ClusterInv

\* A node leads on as it did, or it leads no more; it has its log still, or its
\* process has ended.
OnOrOut ==
    /\ \A v \in Nodes : Dead(v) => Dead(v)'
    /\ \A v \in Nodes :
          \/ log'[v] = log[v] /\ commit'[v] = commit[v] /\ term'[v] >= term[v]
          \/ log'[v] = <<>> /\ commit'[v] = 0 /\ Dead(v)'
    /\ \A l \in Nodes : role'[l] = "leader" =>
          /\ role[l] = "leader" /\ term'[l] = term[l] /\ log'[l] = log[l]
          /\ match'[l] = match[l] /\ commit'[l] = commit[l]

\* A step that appends nothing and elects nobody keeps the invariant.
LEMMA OnOrOutKeeps ==
    ASSUME NEW d, ClusterInv(d), OnOrOut, ClientStep(d), Typed', ProcInv(d)'
    PROVE  ClusterInv(d)'
  <1> DEFINE K == <<>>
             x == NoopEntry(0)
  <1>0. LogsInv(d) /\ TermInv /\ CommitInv(d) /\ LeaderInv(d) /\ Typed
    BY DEF ClusterInv
  <1>1. ~NewEntry(d, K, x)
    BY NothingNew
  <1>2. \A v \in Nodes : Prefix(log[v], log'[v]) \/ (log'[v] = <<>> /\ Dead(v)')
    BY <1>0, DecidedIsLog DEF OnOrOut
  <1>3. \A L : Prefix(<<>>, L) \/ ~(Len(L) \in Nat)
    BY DEF Prefix
  <1>4. LogStep(d, d, K, x)
    <2>1. ASSUME NEW M \in Logs(d)' PROVE \E J \in Logs(d) : Prefix(M, J)
      <3>1. CASE M = d
        BY <1>0, <3>1, DecidedIsLog
      <3>2. ASSUME NEW n \in Nodes, M = log'[n] PROVE \E J \in Logs(d) : Prefix(M, J)
        BY <1>0, <1>3, <3>2, DecidedIsLog DEF OnOrOut
      <3> QED BY <3>1, <3>2 DEF Logs
    <2> QED BY <1>2, <2>1 DEF LogStep, OnOrOut
  <1>5. LeaderStep
    <2>1. \A v \in Nodes : term'[v] \in Nat /\ (Dead(v)' \/ term'[v] >= term[v])
      BY BoundsAssumption DEF Typed, OnOrOut
    <2>2. \A l \in Nodes : role'[l] = "leader" => Prefix(log[l], log'[l])
      BY <1>0, DecidedIsLog DEF OnOrOut
    <2> QED BY <2>1, <2>2 DEF LeaderStep, OnOrOut
  <1>6. FirstEntryVoted(d, K, x) /\ NewRoot(d, K, x)
    BY <1>1 DEF FirstEntryVoted, NewRoot
  <1>7. TermIsOwn(d) /\ OwnLog(d, K, x, Boot)
    <2>1. \A l \in Nodes : commit[l] \in Nat
      BY <1>0 DEF Typed
    <2>2. \A l \in Nodes : role'[l] = "leader" => commit'[l] >= commit[l]
      BY <2>1 DEF OnOrOut
    <2>3. TermIsOwn(d)
      BY <2>2 DEF TermIsOwn, OnOrOut
    <2> QED BY <1>1, <2>3 DEF OwnLog, OnOrOut
  <1>8. CommitStep(d)
    <2> SUFFICES ASSUME NEW n \in Nodes, commit'[n] > 0
                 PROVE  \E L \in Logs(d) :
                           /\ commit'[n] \in 1..Len(L) /\ commit'[n] <= Len(log'[n])
                           /\ \A j \in 1..commit'[n] : log'[n][j] = L[j]
                           /\ Safe(d, L, commit'[n]) /\ Has(d, commit'[n], L[commit'[n]].term)
      BY DEF CommitStep
    <2>1. log'[n] = log[n] /\ commit'[n] = commit[n]
      BY DEF OnOrOut
    <2>2. /\ log[n] \in Logs(d) /\ commit[n] \in 1..Len(log[n])
          /\ Safe(d, log[n], commit[n]) /\ Has(d, commit[n], log[n][commit[n]].term)
      BY <1>0, <2>1, DecidedIsLog DEF CommitInv, Typed
    <2> QED BY <2>1, <2>2
  <1>9. TermInv'
    <2> SUFFICES ASSUME NEW n \in Nodes, NEW k \in 1..Len(log'[n])
                 PROVE  log'[n][k].term <= term'[n]
      BY DEF TermInv
    <2>1. CASE log'[n] = <<>>
      BY <2>1
    <2>2. CASE log'[n] = log[n] /\ term'[n] >= term[n]
      <3>1. log[n][k].term <= term[n] /\ log[n][k].term \in Nat
        BY <1>0, <2>2, DecidedIsLog, LogIsFormed DEF TermInv
      <3>2. term[n] \in Nat /\ term'[n] \in Nat
        BY <1>0, BoundsAssumption DEF Typed
      <3> QED BY <2>2, <3>1, <3>2
    <2> QED BY <2>1, <2>2 DEF OnOrOut
  <1> QED BY <1>4, <1>5, <1>6, <1>7, <1>8, <1>9, StepKeeps

-----------------------------------------------------------------------------
(* Entries that leaders append                                             *)

\* A formed log stays formed with an entry of its last term or a later one.
LEMMA AppendIsFormed ==
    ASSUME NEW K, Formed(K), K # <<>>, NEW x \in Entries, K[Len(K)].term <= x.term,
           x.kind = "write" => x.write > 0,
           x.kind = "config" =>
               \A j \in 1..Len(K) : K[j].kind = "config" => K[j].members \subseteq x.members
    PROVE  Formed(Append(K, x))
  <1> DEFINE M == Append(K, x)
  <1>1. /\ K \in Seq(Entries) /\ Len(K) \in Nat /\ Len(K) \in 1..Len(K)
        /\ \A j \in 1..Len(K) : K[j].term \in Nat /\ K[j].term <= K[Len(K)].term
        /\ x.term \in Nat
    <2>1. K \in Seq(Entries) /\ Len(K) \in Nat /\ Len(K) \in 1..Len(K)
      BY LogIsFormed DEF Formed
    <2>2. \A j \in 1..Len(K) : K[j].term \in Nat
      BY LogIsFormed
    <2>3. \A j \in 1..Len(K) : j <= Len(K)
      BY <2>1
    <2>4. \A j \in 1..Len(K) : K[j].term <= K[Len(K)].term
      BY <2>1, <2>3 DEF Formed
    <2>5. x.term \in Nat
      BY BoundsAssumption DEF Entries
    <2> QED BY <2>1, <2>2, <2>4, <2>5
  <1>2. /\ M \in Seq(Entries) /\ Len(M) = Len(K) + 1 /\ M[Len(K) + 1] = x
        /\ \A j \in 1..Len(K) : M[j] = K[j]
    BY <1>1, AppendedLog
  <1> HIDE DEF M
  <1>3. \A j \in 1..Len(M) : j \in 1..Len(K) \/ j = Len(K) + 1
    BY <1>1, <1>2
  <1>4. M # <<>> => M[1] = ConfigEntry(1, {Boot})
    BY <1>1, <1>2, LogIsFormed
  <1>5. \A j \in 1..Len(M) : M[j].kind = "write" => M[j].write > 0
    BY <1>2, <1>3 DEF Formed
  <1>6. ASSUME NEW j \in 1..Len(M), NEW k \in 1..Len(M), j <= k
        PROVE  /\ M[j].term <= M[k].term
               /\ M[j].kind = "config" /\ M[k].kind = "config" => M[j].members \subseteq M[k].members
    <2>1. CASE j \in 1..Len(K) /\ k \in 1..Len(K)
      BY <1>2, <1>6, <2>1 DEF Formed
    <2>2. CASE j \in 1..Len(K) /\ k = Len(K) + 1
      <3>1. K[j].term <= x.term
        <4>1. K[j].term <= K[Len(K)].term /\ K[j].term \in Nat /\ K[Len(K)].term \in Nat
          BY <1>1, <2>2
        <4> QED BY <1>1, <4>1
      <3> QED BY <1>2, <2>2, <3>1
    <2>3. CASE j = Len(K) + 1 /\ k = Len(K) + 1
      BY <1>1, <1>2, <2>3
    <2> QED BY <1>1, <1>3, <1>6, <2>1, <2>2, <2>3
  <1> QED BY <1>2, <1>4, <1>5, <1>6 DEF Formed, M

\* a appends x to its log.
LEMMA AppendKeeps ==
    ASSUME NEW d, NEW a \in Nodes, NEW K, NEW x, ClusterInv(d), K = log[a], NewEntry(d, K, x),
           log' = [log EXCEPT ![a] = Append(@, x)], commit' = commit,
           \A v \in Nodes : (Dead(v) => Dead(v)') /\ term'[v] >= term[v],
           x.term <= term'[a],
           \A l \in Nodes : role'[l] = "leader" =>
              \/ match'[l] = NoMatch
              \/ role[l] = "leader" /\ term'[l] = term[l] /\ match'[l] = match[l],
           FirstEntryVoted(d, K, x), TermIsOwn(d), NewRoot(d, K, x), OwnLog(d, K, x, a),
           ClientStep(d), Typed', ProcInv(d)'
    PROVE  ClusterInv(d)'
  <1>0. LogsInv(d) /\ TermInv /\ CommitInv(d) /\ Typed /\ log \in [Nodes -> Seq(Entries)]
    BY DEF ClusterInv, Typed
  <1>1. /\ log'[a] = Append(K, x) /\ K \in Seq(Entries) /\ Len(K) \in Nat /\ Formed(K)
        /\ \A v \in Nodes \ {a} : log'[v] = log[v]
        /\ Len(Append(K, x)) = Len(K) + 1 /\ Append(K, x)[Len(K) + 1] = x
        /\ \A j \in 1..Len(K) : Append(K, x)[j] = K[j]
    BY <1>0, DecidedIsLog, AppendedLog
  <1>2. \A v \in Nodes : Prefix(log[v], log'[v])
    <2>1. Prefix(K, Append(K, x))
      BY <1>1 DEF Prefix
    <2> QED BY <1>0, <1>1, <2>1, DecidedIsLog
  <1>3. LogStep(d, d, K, x)
    <2>1. \A M \in Logs(d)' :
            (\E J \in Logs(d) : Prefix(M, J)) \/ (NewEntry(d, K, x) /\ M = Append(K, x))
      <3>1. Prefix(d, d) /\ d \in Logs(d)
        BY <1>0, DecidedIsLog
      <3>2. \A n \in Nodes \ {a} : Prefix(log'[n], log[n]) /\ log[n] \in Logs(d)
        BY <1>0, <1>1, DecidedIsLog
      <3> QED BY <1>1, <3>1, <3>2 DEF Logs
    <2> QED BY <1>2, <2>1 DEF LogStep
  <1>4. LeaderStep
    <2>1. \A v \in Nodes : term'[v] \in Nat
      BY BoundsAssumption DEF Typed
    <2> QED BY <1>2, <2>1 DEF LeaderStep
  <1>5. CommitStep(d)
    <2> SUFFICES ASSUME NEW n \in Nodes, commit'[n] > 0
                 PROVE  \E L \in Logs(d) :
                           /\ commit'[n] \in 1..Len(L) /\ commit'[n] <= Len(log'[n])
                           /\ \A j \in 1..commit'[n] : log'[n][j] = L[j]
                           /\ Safe(d, L, commit'[n]) /\ Has(d, commit'[n], L[commit'[n]].term)
      BY DEF CommitStep
    <2>1. /\ log[n] \in Logs(d) /\ commit[n] \in 1..Len(log[n]) /\ commit'[n] = commit[n]
          /\ Safe(d, log[n], commit[n]) /\ Has(d, commit[n], log[n][commit[n]].term)
          /\ Len(log[n]) \in Nat /\ Formed(log[n])
      <3>1. commit'[n] = commit[n] /\ commit[n] \in Nat /\ commit[n] > 0
        BY <1>0 DEF Typed
      <3>2. log[n] \in Logs(d) /\ Len(log[n]) \in Nat /\ Formed(log[n])
        BY <1>0, DecidedIsLog
      <3>3. /\ commit[n] <= Len(log[n]) /\ Safe(d, log[n], commit[n])
            /\ Has(d, commit[n], log[n][commit[n]].term)
        BY <1>0, <3>1 DEF CommitInv
      <3> QED BY <3>1, <3>2, <3>3
    <2>2. /\ Len(log'[n]) >= Len(log[n])
          /\ \A j \in 1..Len(log[n]) : log'[n][j] = log[n][j]
      BY <1>2 DEF Prefix
    <2>3. Len(log'[n]) \in Nat
      BY <1>1, <2>1
    <2> QED BY <2>1, <2>2, <2>3
  <1>6. TermInv'
    <2> SUFFICES ASSUME NEW n \in Nodes, NEW k \in 1..Len(log'[n])
                 PROVE  log'[n][k].term <= term'[n]
      BY DEF TermInv
    <2>1. CASE k \in 1..Len(log[n])
      <3>1. log'[n][k] = log[n][k]
        BY <1>2, <2>1 DEF Prefix
      <3>2. log[n][k].term <= term[n] /\ log[n][k].term \in Nat
        BY <1>0, <2>1, DecidedIsLog, LogIsFormed DEF TermInv
      <3>3. term[n] \in Nat /\ term'[n] \in Nat /\ term'[n] >= term[n]
        BY <1>0, BoundsAssumption DEF Typed
      <3> QED BY <3>1, <3>2, <3>3
    <2>2. CASE n = a /\ k = Len(K) + 1
      BY <1>1, <2>2
    <2> QED BY <1>1, <2>1, <2>2
  <1> QED BY <1>3, <1>4, <1>5, <1>6, StepKeeps

\* A leader has every entry of its term, and all that is safe of the terms before.
LEMMA LeaderEntry ==
    ASSUME NEW d, ClusterInv(d), NEW l \in Nodes, role[l] = "leader", NEW x \in Entries,
           x.term = term[l], x.kind = "write" => x.write > 0,
           x.kind = "config" =>
               \A j \in 1..Len(log[l]) : log[l][j].kind = "config" => log[l][j].members \subseteq x.members
    PROVE  /\ NewEntry(d, log[l], x) /\ log[l] # <<>>
           /\ log[l][Len(log[l])].term = x.term
  <1>0. LogsInv(d) /\ LeaderInv(d)
    BY DEF ClusterInv
  <1>1. log[l] \in Logs(d) /\ Formed(log[l]) /\ Len(log[l]) \in Nat
    BY <1>0, DecidedIsLog
  <1>2. Len(log[l]) \in 1..Len(log[l]) /\ log[l][Len(log[l])].term = term[l] /\ log[l] # <<>>
        /\ term[l] \in Nat
    BY <1>0, <1>1, LogIsFormed DEF LeaderInv, Has
  <1>3. Formed(Append(log[l], x))
    BY <1>1, <1>2, AppendIsFormed
  <1>4. \A M \in Logs(d) : \A k \in 1..Len(M) : M[k].term = x.term => Has(log[l], k, x.term)
    BY <1>0 DEF LeaderInv
  <1>5. ASSUME NEW L \in Logs(d), NEW i \in 1..Len(L), Safe(d, L, i), L[i].term < x.term
        PROVE  Has(log[l], i, L[i].term)
    <2>1. Later(log[l], L[i].term)
      BY <1>2, <1>5 DEF Later
    <2> QED BY <1>1, <1>5, <2>1 DEF Safe, Exact, Complete
  <1> QED BY <1>1, <1>2, <1>3, <1>4, <1>5 DEF NewEntry

\* A leader appends x, a configuration only if it has a root.
LEMMA LeaderAppends ==
    ASSUME NEW d, ClusterInv(d), NEW l \in Nodes, role[l] = "leader", NEW x \in Entries,
           x.term = term[l], x.kind = "write" => x.write > 0,
           x.kind = "config" =>
               \A j \in 1..Len(log[l]) : log[l][j].kind = "config" => log[l][j].members \subseteq x.members,
           x.kind = "config" =>
               \E i \in 1..Len(log[l]) :
                  /\ Rooted(Append(log[l], x), Len(log[l]) + 1, i)
                  /\ Exact(d, log[l], i) /\ i <= commit[l],
           log' = [log EXCEPT ![l] = Append(@, x)],
           UNCHANGED <<starts, term, role, commit, match, acked>>,
           \A v \in Nodes : proc[v] = "down" <=> proc'[v] = "down",
           \A v \in Nodes : proc'[v] = "serving" => proc[v] = "serving",
           Typed', ProcInv(d)'
    PROVE  ClusterInv(d)'
  <1>0. LogsInv(d) /\ LeaderInv(d) /\ Typed /\ term \in [Nodes -> Nat] /\ commit \in [Nodes -> Nat]
    BY BoundsAssumption DEF ClusterInv, Typed
  <1>1. PICK K : K = log[l]
    OBVIOUS
  <1>2. NewEntry(d, K, x) /\ K # <<>> /\ K[Len(K)].term = x.term
    BY <1>1, LeaderEntry
  <1>3. \A v \in Nodes : (Dead(v) => Dead(v)') /\ term'[v] >= term[v]
    BY <1>0 DEF Dead
  <1>4. x.term <= term'[l] /\ x.term \in Nat
    BY <1>0
  <1>5. FirstEntryVoted(d, K, x)
    BY <1>2, <1>4 DEF FirstEntryVoted
  <1>6. TermIsOwn(d)
    BY <1>0 DEF TermIsOwn
  <1>7. NewRoot(d, K, x)
    <2>1. \A m \in Nodes : role'[m] = "leader" /\ term'[m] = x.term => commit'[m] = commit[l]
      BY <1>0 DEF LeaderInv
    <2> QED BY <1>1, <2>1 DEF NewRoot
  <1>8. OwnLog(d, K, x, l)
    <2>1. \A m \in Nodes \ {l} : role'[m] = "leader" => term[m] # term[l]
      BY <1>0 DEF LeaderInv
    <2>2. \A m \in Nodes \ {l} : log'[m] = log[m]
      BY <1>0 DEF Typed
    <2>3. log'[l] = Append(K, x)
      BY <1>0, <1>1 DEF Typed
    <2> QED BY <1>2, <2>1, <2>2, <2>3 DEF OwnLog
  <1>9. ClientStep(d)
    BY DEF ClientStep
  <1> QED BY <1>1, <1>2, <1>3, <1>4, <1>5, <1>6, <1>7, <1>8, <1>9, AppendKeeps

-----------------------------------------------------------------------------
(* Elections                                                               *)

\* A log's last entry has its highest term.
LEMMA LastEntry ==
    ASSUME NEW L, Formed(L), NEW i \in 1..Len(L)
    PROVE  /\ LastTerm(L) = L[Len(L)].term /\ LastTerm(L) \in Nat
           /\ Len(L) \in 1..Len(L) /\ L[i].term \in Nat /\ L[i].term <= LastTerm(L)
  <1>1. Len(L) \in Nat /\ L # <<>> /\ Len(L) \in 1..Len(L)
    BY LogIsFormed
  <1>2. L[i].term \in Nat /\ L[Len(L)].term \in Nat
    BY <1>1, LogIsFormed
  <1>3. i <= Len(L)
    BY <1>1
  <1>4. L[i].term <= L[Len(L)].term
    BY <1>1, <1>3 DEF Formed
  <1> QED BY <1>1, <1>2, <1>4 DEF LastTerm

\* A log that is up to date has the other's last entry, or goes on in a later term.
LEMMA UpToDateHas ==
    ASSUME NEW L, NEW M, Formed(L), Formed(M), Match(M, L), UpToDate(L, M),
           NEW i \in 1..Len(M), NEW T \in Nat, M[i].term >= T
    PROVE  /\ L # <<>> /\ Len(L) \in 1..Len(L)
           /\ L[Len(L)].term > T \/ (M[i].term = T /\ i \in 1..Len(L) /\ L[i] = M[i])
           /\ Later(L, T) \/ (M[i].term = T /\ i \in 1..Len(L) /\ L[i] = M[i])
  <1>1. /\ Len(M) \in 1..Len(M) /\ Len(M) \in Nat /\ LastTerm(M) = M[Len(M)].term
        /\ LastTerm(M) \in Nat /\ M[i].term \in Nat /\ M[i].term <= LastTerm(M)
        /\ Len(L) \in Nat /\ M[i].term > 0
    <2>1. M[i] \in Entries
      BY LogIsFormed
    <2> QED BY <2>1, LastEntry, LogIsFormed DEF Entries
  <1>2. L # <<>>
    <2> SUFFICES ASSUME L = <<>> PROVE FALSE
      OBVIOUS
    <2>1. LastTerm(L) = 0
      BY DEF LastTerm
    <2> QED BY <1>1, <2>1 DEF UpToDate
  <1>3. /\ Len(L) \in 1..Len(L) /\ LastTerm(L) = L[Len(L)].term /\ LastTerm(L) \in Nat
    <2>1. Len(L) \in 1..Len(L)
      BY <1>2, LogIsFormed
    <2> QED BY <2>1, LastEntry
  <1>4. CASE LastTerm(L) > T
    BY <1>2, <1>3, <1>4 DEF Later
  <1>5. CASE ~(LastTerm(L) > T)
    <2>1. /\ LastTerm(L) = LastTerm(M) /\ LastTerm(M) = T /\ Len(L) >= Len(M) /\ M[i].term = T
      BY <1>1, <1>3, <1>5 DEF UpToDate
    <2>2. L[i] = M[i]
      BY <1>1, <1>3, <2>1 DEF Match
    <2> QED BY <1>1, <1>2, <1>3, <2>1, <2>2
  <1> QED BY <1>4, <1>5

\* A quorum that grants its votes backs the candidate.
LEMMA VotersBack ==
    ASSUME NEW d, ClusterInv(d), NEW n \in Nodes, NEW t, NEW Q, Elect(n, t, Q)
    PROVE  Backed(d, n, Q)
  <1> SUFFICES ASSUME NEW v \in Q, NEW L \in Logs(d), NEW i \in 1..Len(L),
                      Complete(d, L, i), Has(log[v], i, L[i].term)
               PROVE  Has(log[n], i, L[i].term)
    BY DEF Backed, Elect
  <1>0. LogsInv(d)
    BY DEF ClusterInv
  <1>1. v \in Nodes
    <2>1. Formed(log[n]) /\ Members(n) \in SUBSET Nodes
      <3>1. Formed(log[n])
        BY <1>0, DecidedIsLog
      <3>2. Members(n) # {}
        BY DEF Elect
      <3> QED BY <3>1, <3>2, MembersIsConf
    <2> QED BY <2>1 DEF Elect
  <1>2. /\ log[n] \in Logs(d) /\ log[v] \in Logs(d) /\ Formed(log[n]) /\ Formed(log[v])
        /\ Match(log[v], log[n]) /\ UpToDate(log[n], log[v])
    BY <1>0, <1>1, DecidedIsLog DEF Elect, LogsInv
  <1>3. L[i].term \in Nat /\ i \in 1..Len(log[v]) /\ log[v][i].term >= L[i].term
    BY <1>0, LogIsFormed DEF LogsInv, Has
  <1>4. Later(log[n], L[i].term) \/ (i \in 1..Len(log[n]) /\ log[n][i] = log[v][i])
    BY <1>2, <1>3, UpToDateHas
  <1>5. Later(log[n], L[i].term) => Has(log[n], i, L[i].term)
    BY <1>2 DEF Complete
  <1> QED BY <1>4, <1>5 DEF Has

\* Nobody was elected in the term before: the voters would be in that term.
LEMMA TermIsNew ==
    ASSUME NEW d, ClusterInv(d), NEW n \in Nodes, NEW t \in Nat, NEW Q, Elect(n, t, Q),
           NEW M \in Logs(d), NEW b \in 1..Len(M)
    PROVE  M[b].term # t
  <1> SUFFICES ASSUME M[b].term = t PROVE FALSE
    OBVIOUS
  <1> DEFINE N == log[n]
             S == {k \in 1..Len(M) : M[k].term = t}
  <1>0. LogsInv(d) /\ ConfigInv(d) /\ VoteInv(d) /\ TermInv /\ term \in [Nodes -> Nat]
    BY BoundsAssumption DEF ClusterInv, Typed
  <1>1. Backed(d, n, Q)
    BY VotersBack
  <1>2. /\ N \in Logs(d) /\ Formed(N) /\ N # <<>> /\ Len(N) \in 1..Len(N) /\ Len(N) \in Nat
        /\ Members(n) = Conf(N, Len(N)) /\ Members(n) \in SUBSET Nodes
        /\ Formed(M) /\ Len(M) \in Nat /\ Match(N, M) /\ Match(M, N)
        /\ term[n] < t /\ term[n] \in Nat
    <2>1. N \in Logs(d) /\ Formed(N) /\ N # <<>> /\ Len(N) \in 1..Len(N)
          /\ Members(n) = Conf(N, Len(N)) /\ Members(n) \in SUBSET Nodes
      BY <1>0, <1>1, BackedHasLog
    <2>2. Formed(M) /\ Match(N, M) /\ Match(M, N)
      BY <1>0, <2>1 DEF LogsInv
    <2>3. term[n] < t /\ term[n] \in Nat
      BY <1>0 DEF Elect
    <2> QED BY <2>1, <2>2, <2>3, LogIsFormed
  <1>3. PICK k \in S : \A y \in S : k <= y
    <2>1. S \subseteq Nat /\ S # {}
      OBVIOUS
    <2> HIDE DEF S
    <2> QED BY <2>1, LeastNumber
  <1>4. k \in 1..Len(M) /\ M[k].term = t /\ k \in Nat
    BY <1>2, <1>3
  <1>5. k # 1
    <2>1. 1 \in 1..Len(N) /\ N[1] = ConfigEntry(1, {Boot}) /\ M[1] = ConfigEntry(1, {Boot})
      BY <1>2, <1>4, LogIsFormed
    <2>2. 1 <= term[n]
      BY <1>0, <2>1 DEF TermInv, ConfigEntry
    <2>3. M[1].term = 1
      BY <2>1 DEF ConfigEntry
    <2> QED BY <1>2, <1>4, <2>2, <2>3
  <1>6. /\ k \in 2..Len(M) /\ k - 1 \in 1..Len(M) /\ k - 1 \in Nat /\ M[k - 1].term < t
    <2>1. k \in 2..Len(M) /\ k - 1 \in 1..Len(M) /\ ~(k <= k - 1) /\ k - 1 <= k
      BY <1>2, <1>4, <1>5
    <2>2. M[k - 1].term # t
      BY <1>3, <2>1
    <2>3. M[k - 1].term <= t /\ M[k - 1].term \in Nat
      <3>1. M[k - 1].term <= M[k].term
        BY <1>2, <1>4, <2>1 DEF Formed
      <3> QED BY <1>2, <1>4, <2>1, <3>1, LogIsFormed
    <2> QED BY <2>1, <2>2, <2>3
  <1>7. PICK R \in SUBSET Conf(M, k - 1) :
            IsQuorum(R, Conf(M, k - 1)) /\ \A v \in R : Voted(M, k, v)
    BY <1>0, <1>4, <1>6 DEF VoteInv
  <1>8. RootsIn(N, Len(N), M, k - 1)
    <2> SUFFICES ASSUME NEW c \in 2..Len(N), N[c].kind = "config"
                 PROVE  \E h \in 1..c - 1 : Rooted(N, c, h) /\ h <= k - 1 /\ Has(M, h, N[h].term)
      BY DEF RootsIn
    <2>1. PICK h \in 1..c - 1 : Rooted(N, c, h) /\ Exact(d, N, h)
      BY <1>0, <1>2 DEF ConfigInv
    <2>2. h \in 1..Len(N) /\ N[h].term \in Nat /\ h \in Nat
      BY <1>2, LogIsFormed
    <2>3. N[h].term < t
      BY <1>0, <1>2, <2>2 DEF TermInv
    <2>4. Has(M, h, N[h].term)
      BY <1>4, <2>1, <2>3 DEF Exact, Complete, Later
    <2>5. h < k
      BY <1>2, <1>4, <2>3, <2>4, TermsRise DEF Has
    <2> QED BY <1>4, <2>1, <2>2, <2>4, <2>5
  <1>9. RootsIn(M, k - 1, N, Len(N))
    <2> SUFFICES ASSUME NEW c \in 2..k - 1, M[c].kind = "config"
                 PROVE  \E h \in 1..c - 1 : Rooted(M, c, h) /\ h <= Len(N) /\ Has(N, h, M[h].term)
      BY DEF RootsIn
    <2>1. c \in 2..Len(M)
      BY <1>2, <1>4
    <2>2. PICK h \in 1..c - 1 : Rooted(M, c, h) /\ Exact(d, M, h)
      BY <1>0, <2>1 DEF ConfigInv
    <2>3. h \in 1..Len(M)
      BY <1>2, <2>1
    <2>4. Has(N, h, M[h].term)
      BY <1>0, <1>1, <2>2, <2>3, BackedHasExact
    <2> QED BY <1>2, <2>2, <2>4 DEF Has
  <1>10. Near(Members(n), Conf(M, k - 1)) /\ Conf(M, k - 1) \in SUBSET Nodes
    BY <1>2, <1>6, <1>8, <1>9, ConfigsAreNear, ConfIsMembers
  <1>11. PICK v \in Q \intersect R : TRUE
    BY <1>1, <1>2, <1>7, <1>10, QuorumsMeet DEF Backed
  <1>12. ~Dead(v) /\ term[v] < t /\ v \in Nodes
    BY <1>1, <1>2, <1>11 DEF Elect, Alive, Dead, Backed
  <1> QED BY <1>0, <1>4, <1>7, <1>11, <1>12 DEF Voted

\* A voter's log shows what it told the leaders of the terms before.
LEMMA VoterTold ==
    ASSUME NEW d, ClusterInv(d), NEW n \in Nodes, NEW t \in Nat, NEW Q, Elect(n, t, Q),
           NEW v \in Q, NEW l \in Nodes, role[l] = "leader", NEW i \in 1..match[l][v],
           log[l][i].term = term[l]
    PROVE  \/ log[n][Len(log[n])].term > term[l]
           \/ i \in 1..Len(log[n]) /\ log[n][i].term = term[l]
  <1>0. /\ LogsInv(d) /\ MatchInv /\ TermInv /\ LeaderInv(d) /\ term \in [Nodes -> Nat]
        /\ match \in [Nodes -> [Nodes -> Nat]]
    <2>1. Typed
      BY DEF ClusterInv
    <2>2. \A u \in Nodes : term[u] \in Nat
      BY <2>1, BoundsAssumption DEF Typed
    <2> QED BY <2>1, <2>2 DEF ClusterInv, Typed
  <1>1. v \in Nodes /\ Alive(v) /\ UpToDate(log[n], log[v])
    <2>1. Backed(d, n, Q)
      BY VotersBack
    <2>2. Members(n) \in SUBSET Nodes
      BY <1>0, <2>1, BackedHasLog
    <2> QED BY <2>2 DEF Elect
  <1>2. /\ Formed(log[n]) /\ Formed(log[v]) /\ Formed(log[l])
        /\ Match(log[v], log[n]) /\ Match(log[l], log[v])
        /\ Len(log[l]) \in Nat /\ term[l] \in Nat /\ match[l][v] \in Nat
    BY <1>0, <1>1, DecidedIsLog DEF LogsInv
  <1> DEFINE m == match[l][v]
  <1>3. /\ m \in 1..Len(log[l]) /\ i \in 1..Len(log[l]) /\ i \in 1..m
        /\ Has(log[v], m, log[l][m].term) \/ Later(log[v], term[l])
    <2>1. m > 0
      BY <1>2
    <2>2. ~Dead(v)
      BY <1>1 DEF Dead, Alive
    <2>3. m <= Len(log[l]) /\ (Has(log[v], m, log[l][m].term) \/ Later(log[v], term[l]))
      BY <1>0, <1>1, <2>1, <2>2 DEF MatchInv
    <2> QED BY <1>2, <2>1, <2>3
  <1>4. CASE Has(log[v], m, log[l][m].term)
    <2>1. Has(log[v], i, term[l])
      BY <1>2, <1>3, <1>4, HasBefore
    <2>2. i \in 1..Len(log[v]) /\ log[v][i].term = term[l] /\ log[v][i].term >= term[l]
      BY <1>2, <2>1 DEF Has
    <2> QED BY <1>1, <1>2, <2>2, UpToDateHas
  <1>5. CASE Later(log[v], term[l])
    <2>1. PICK k \in 1..Len(log[v]) : log[v][k].term > term[l]
      BY <1>5 DEF Later
    <2>2. log[v][k].term \in Nat /\ log[v][k].term >= term[l] /\ log[v][k].term # term[l]
      BY <1>2, <2>1, LogIsFormed
    <2> QED BY <1>1, <1>2, <2>2, UpToDateHas
  <1> QED BY <1>3, <1>4, <1>5

\* An election keeps the invariant.
LEMMA ElectKeeps ==
    ASSUME NEW d, ClusterInv(d), NEW n \in Nodes, NEW t \in 1..MaxTerm, NEW Q, Elect(n, t, Q)
    PROVE  ClusterInv(d)'
  <1> DEFINE x == NoopEntry(t)
  <1>0. /\ LogsInv(d) /\ ConfigInv(d) /\ TermInv /\ LeaderInv(d) /\ Typed /\ ProcInv(d)
        /\ term \in [Nodes -> Nat] /\ commit \in [Nodes -> Nat] /\ t \in Nat
    <2>1. Typed
      BY DEF ClusterInv
    <2> QED BY <2>1, BoundsAssumption DEF ClusterInv, Typed
  <1>1. PICK K : K = log[n]
    OBVIOUS
  <1>2. Backed(d, n, Q)
    BY VotersBack
  <1>3. /\ K \in Logs(d) /\ Formed(K) /\ K # <<>> /\ Len(K) \in Nat /\ Len(K) \in 1..Len(K)
        /\ Members(n) = Conf(K, Len(K)) /\ Q \in SUBSET Nodes /\ IsQuorum(Q, Members(n))
        /\ Q \in SUBSET Members(n)
    <2>1. /\ K \in Logs(d) /\ Formed(K) /\ K # <<>> /\ Len(K) \in 1..Len(K)
          /\ Members(n) = Conf(K, Len(K)) /\ Members(n) \in SUBSET Nodes
      BY <1>0, <1>1, <1>2, BackedHasLog
    <2> QED BY <1>2, <2>1, LogIsFormed DEF Backed
  <1>4. \A M \in Logs(d) : \A k \in 1..Len(M) : M[k].term # t
    BY <1>0, TermIsNew
  <1>5. /\ n \in Q /\ \A v \in Q : term[v] < t /\ term'[v] = t /\ Alive(v)
        /\ \A v \in Nodes \ Q : term'[v] = term[v]
        /\ role'[n] = "leader" /\ \A v \in Q \ {n} : role'[v] = "follower"
        /\ \A v \in Nodes \ Q : role'[v] = role[v]
        /\ match'[n] = NoMatch /\ \A v \in Nodes \ {n} : match'[v] = match[v]
        /\ log' = [log EXCEPT ![n] = Append(@, x)]
        /\ log'[n] = Append(K, x) /\ \A v \in Nodes \ {n} : log'[v] = log[v]
        /\ UNCHANGED <<proc, starts, tries, commit, writes, acked, crashes>>
    <2>1. /\ n \in Q /\ \A v \in Q : term[v] < t /\ Alive(v)
          /\ UNCHANGED <<proc, starts, tries, commit, writes, acked, crashes>>
          /\ log' = [log EXCEPT ![n] = Append(@, x)]
      BY DEF Elect, clientVars
    <2>2. /\ \A v \in Q : term'[v] = t
          /\ \A v \in Nodes \ Q : term'[v] = term[v]
      BY <1>3 DEF Elect
    <2>3. /\ role'[n] = "leader" /\ \A v \in Q \ {n} : role'[v] = "follower"
          /\ \A v \in Nodes \ Q : role'[v] = role[v]
      BY <1>3, <2>1 DEF Elect
    <2>4. /\ match'[n] = NoMatch /\ \A v \in Nodes \ {n} : match'[v] = match[v]
      BY <1>0 DEF Elect, Typed
    <2>5. log'[n] = Append(K, x) /\ \A v \in Nodes \ {n} : log'[v] = log[v]
      BY <1>0, <1>1, <2>1 DEF Typed
    <2> QED BY <2>1, <2>2, <2>3, <2>4, <2>5
  <1>6. x \in Entries /\ x.term = t /\ x.kind = "noop"
    BY BoundsAssumption DEF NoopEntry, Entries
  <1>7. K[Len(K)].term < t /\ K[Len(K)].term \in Nat
    <2>1. K[Len(K)].term <= term[n] /\ term[n] < t /\ term[n] \in Nat
      BY <1>0, <1>1, <1>3, <1>5 DEF TermInv
    <2> QED BY <1>0, <1>3, <2>1, LogIsFormed
  <1>8. NewEntry(d, K, x)
    <2>1. Formed(Append(K, x))
      BY <1>3, <1>6, <1>7, AppendIsFormed
    <2>2. \A L \in Logs(d) : \A i \in 1..Len(L) : Safe(d, L, i) => Has(K, i, L[i].term)
      BY <1>0, <1>1, <1>2, BackedHasSafe
    <2> QED BY <1>3, <1>4, <1>6, <2>1, <2>2 DEF NewEntry
  <1>9. \A v \in Nodes : (Dead(v) => Dead(v)') /\ term'[v] >= term[v]
    <2>1. \A v \in Nodes : (Dead(v) => Dead(v)')
      BY <1>5 DEF Dead
    <2>2. \A v \in Nodes : term'[v] >= term[v]
      BY <1>0, <1>5
    <2> QED BY <2>1, <2>2
  <1>10. ASSUME NEW l \in Nodes, role'[l] = "leader", l # n
         PROVE  /\ role[l] = "leader" /\ term'[l] = term[l] /\ match'[l] = match[l]
                /\ log'[l] = log[l] /\ commit'[l] = commit[l] /\ term[l] # t
    <2>1. l \notin Q
      BY <1>5, <1>10
    <2>2. role[l] = "leader" /\ term'[l] = term[l] /\ match'[l] = match[l]
          /\ log'[l] = log[l] /\ commit'[l] = commit[l]
      BY <1>5, <1>10, <2>1
    <2>3. log[l] \in Logs(d) /\ Has(log[l], Len(log[l]), term[l])
      BY <1>0, <2>2 DEF LeaderInv, Logs
    <2>4. term[l] # t
      BY <1>4, <2>3 DEF Has
    <2> QED BY <2>2, <2>4
  <1>11. FirstEntryVoted(d, K, x)
    <2>1. ASSUME NEW v \in Q PROVE Voted(Append(K, x), Len(K) + 1, v)'
      <3>1. PICK M : M = Append(K, x)
        OBVIOUS
      <3>2. /\ M[Len(K) + 1] = x /\ (Len(K) + 1) - 1 = Len(K)
            /\ \A j \in 1..Len(K) : M[j] = K[j]
        BY <1>3, <3>1, AppendedLog DEF Formed
      <3>3. term'[v] >= M[Len(K) + 1].term
        BY <1>0, <1>5, <1>6, <3>2
      <3>4. ASSUME NEW l \in Nodes, role'[l] = "leader", term'[l] < t,
                   NEW i \in 1..match'[l][v], log'[l][i].term = term'[l]
            PROVE  M[Len(K)].term > term'[l] \/ (i < Len(K) + 1 /\ M[i].term = term'[l])
        <4>1. l # n
          BY <1>0, <1>5, <3>4
        <4>2. /\ role[l] = "leader" /\ term'[l] = term[l] /\ i \in 1..match[l][v]
              /\ log[l][i].term = term[l]
          BY <1>10, <3>4, <4>1
        <4>3. K[Len(K)].term > term[l] \/ (i \in 1..Len(K) /\ K[i].term = term[l])
          BY <1>0, <1>1, <4>2, VoterTold
        <4> QED BY <1>3, <3>2, <4>2, <4>3
      <3>5. Voted(M, Len(K) + 1, v)'
        BY <1>6, <3>2, <3>3, <3>4 DEF Voted
      <3> QED BY <3>1, <3>5
    <2> QED BY <1>3, <2>1 DEF FirstEntryVoted
  <1>12. NewRoot(d, K, x)
    BY <1>6 DEF NewRoot
  <1>13. TermIsOwn(d)
    <2>1. term'[n] = t /\ \A l \in Nodes : commit[l] \in Nat
      BY <1>0, <1>5
    <2>2. \A l \in Nodes \ {n} : role'[l] = "leader" =>
              role[l] = "leader" /\ term'[l] = term[l] /\ commit'[l] >= commit[l]
      BY <1>10, <2>1
    <2> QED BY <1>4, <2>1, <2>2 DEF TermIsOwn
  <1>14. OwnLog(d, K, x, n)
    BY <1>5, <1>6, <1>8, <1>10 DEF OwnLog
  <1>15. ClientStep(d)
    BY <1>5 DEF ClientStep
  <1>16. Typed'
    <2>1. term' \in [Nodes -> 0..MaxTerm]
      BY <1>0 DEF Elect, Typed
    <2>2. role' \in [Nodes -> {"follower", "leader"}]
      BY <1>0 DEF Elect, Typed
    <2>3. log' \in [Nodes -> Seq(Entries)]
      BY <1>0, <1>5, <1>6 DEF Typed
    <2>4. match' \in [Nodes -> [Nodes -> Nat]]
      BY <1>0 DEF Elect, Typed, NoMatch
    <2> QED BY <1>0, <1>5, <2>1, <2>2, <2>3, <2>4 DEF Typed
  <1>17. ProcInv(d)'
    <2>1. \A v \in Nodes : proc[v] = "down" => v \notin Q /\ v # n
      BY <1>5 DEF Alive
    <2>2. starts[Boot]
      BY <1>0, <1>3 DEF ProcInv
    <2>3. starts'[Boot]
      BY <1>5, <2>2
    <2>4. \A v \in Nodes : proc'[v] = "down" => term'[v] = 0 /\ role'[v] = "follower" /\ log'[v] = <<>>
      BY <1>0, <1>5, <2>1 DEF ProcInv
    <2>5. (\A v \in Nodes : proc'[v] # "down" => starts'[v]) /\
          (\A v \in Nodes : proc'[v] \in {"joining", "awaiting"} => tries'[v] < JoinRetries)
      BY <1>0, <1>5 DEF ProcInv
    <2> QED BY <2>3, <2>4, <2>5 DEF ProcInv
  <1>18. \A l \in Nodes : role'[l] = "leader" =>
              \/ match'[l] = NoMatch
              \/ role[l] = "leader" /\ term'[l] = term[l] /\ match'[l] = match[l]
    BY <1>5, <1>10
  <1>19. x.term <= term'[n] /\ commit' = commit
    BY <1>0, <1>5, <1>6
  <1> HIDE DEF x
  <1> QED BY <1>1, <1>5, <1>8, <1>9, <1>11, <1>12, <1>13, <1>14, <1>15, <1>16, <1>17,
             <1>18, <1>19, AppendKeeps

-----------------------------------------------------------------------------
(* Replication                                                             *)

\* Max and Min of two numbers.
LEMMA MaxOfTwo ==
    ASSUME NEW a \in Nat, NEW b \in Nat
    PROVE  /\ Max({a, b}) = a \/ Max({a, b}) = b
           /\ a <= b => Min({a, b}) = a
  <1>1. \E x \in {a, b} : \A y \in {a, b} : x >= y
    <2>1. CASE a >= b
      BY <2>1
    <2>2. CASE b >= a
      BY <2>2
    <2> QED BY <2>1, <2>2
  <1>2. Max({a, b}) \in {a, b}
    BY <1>1 DEF Max
  <1>3. ASSUME a <= b PROVE Min({a, b}) = a
    <2>1. a \in {a, b} /\ \A y \in {a, b} : a <= y
      BY <1>3
    <2>2. \A c \in {a, b} : (\A y \in {a, b} : c <= y) => c = a
      BY <1>3
    <2> QED BY <2>1, <2>2 DEF Min
  <1> QED BY <1>2, <1>3

\* The last index at which two logs match bounds what they share.
LEMMA LastMatchIs ==
    ASSUME NEW L, NEW M, Formed(L), Formed(M), Match(L, M)
    PROVE  /\ LastMatch(L, M) \in 0..Len(L) /\ LastMatch(L, M) <= Len(M)
           /\ \A j \in 1..LastMatch(L, M) : j \in 1..Len(L) /\ j \in 1..Len(M) /\ L[j] = M[j]
  <1> DEFINE S == {i \in 1..Len(L) : i <= Len(M) /\ L[i].term = M[i].term} \union {0}
             T == {k \in Nat : k <= Len(L) /\ Len(L) - k \in S}
  <1>0. Len(L) \in Nat /\ Len(M) \in Nat
    BY LogIsFormed
  <1>1. PICK k \in T : \A y \in T : k <= y
    <2>1. Len(L) \in T
      BY <1>0
    <2>2. T \subseteq Nat /\ T # {}
      BY <2>1
    <2> HIDE DEF T
    <2> QED BY <2>2, LeastNumber
  <1> DEFINE p == Len(L) - k
  <1>2. p \in S /\ \A y \in S : p >= y
    <2>1. p \in S
      BY <1>1
    <2>2. ASSUME NEW y \in S PROVE p >= y
      <3>1. y \in Nat /\ y <= Len(L)
        BY <1>0
      <3>2. Len(L) - y \in T
        <4>1. Len(L) - (Len(L) - y) = y
          BY <1>0, <3>1
        <4> QED BY <1>0, <3>1, <4>1
      <3>3. k <= Len(L) - y
        BY <1>1, <3>2
      <3> QED BY <1>0, <1>1, <3>1, <3>3
    <2> QED BY <2>1, <2>2
  <1>3. \A b \in S : (\A y \in S : b >= y) => b = p
    BY <1>0, <1>2
  <1>4. LastMatch(L, M) = p
    <2>1. Max(S) = p
      BY <1>2, <1>3 DEF Max
    <2> QED BY <2>1 DEF LastMatch
  <1>5. p = 0 \/ (p \in 1..Len(L) /\ p <= Len(M) /\ L[p].term = M[p].term)
    BY <1>2
  <1> HIDE DEF p
  <1>6. ASSUME p # 0
        PROVE  \A j \in 1..p : j \in 1..Len(L) /\ j \in 1..Len(M) /\ L[j] = M[j]
    <2>1. p \in 1..Len(L) /\ p \in 1..Len(M) /\ p <= p /\ L[p].term = M[p].term
      BY <1>0, <1>5, <1>6
    <2> QED BY <1>0, <2>1 DEF Match
  <1> QED BY <1>0, <1>4, <1>5, <1>6

\* A leader brings a follower up to its log, or the follower has all of it.
LEMMA BroughtUp ==
    ASSUME NEW L, NEW M, Formed(L), Formed(M), Match(L, M), NEW new,
           new = IF LastMatch(L, M) = Len(L) THEN M
                 ELSE SubSeq(M, 1, LastMatch(L, M)) \o SubSeq(L, LastMatch(L, M) + 1, Len(L))
    PROVE  new = L \/ (new = M /\ Prefix(L, M))
  <1> DEFINE p == LastMatch(L, M)
  <1>0. /\ L \in Seq(Entries) /\ M \in Seq(Entries) /\ Len(L) \in Nat /\ Len(M) \in Nat
        /\ p \in 0..Len(L) /\ p <= Len(M) /\ \A j \in 1..p : L[j] = M[j]
    <2>1. p \in 0..Len(L) /\ p <= Len(M) /\ \A j \in 1..p : L[j] = M[j]
      BY LastMatchIs
    <2>2. L \in Seq(Entries) /\ M \in Seq(Entries)
      BY DEF Formed
    <2> QED BY <2>1, <2>2, LogIsFormed
  <1> HIDE DEF p
  <1>1. CASE p = Len(L)
    BY <1>0, <1>1 DEF Prefix, p
  <1>2. CASE p # Len(L)
    <2>1. PICK A : A = SubSeq(M, 1, p)
      OBVIOUS
    <2>2. PICK B : B = SubSeq(L, p + 1, Len(L))
      OBVIOUS
    <2>3. new = A \o B
      BY <1>2, <2>1, <2>2 DEF p
    <2>4. A \in Seq(Entries) /\ Len(A) = p /\ \A j \in 1..p : A[j] = L[j]
      <3>1. 1 \in Int /\ p \in Int /\ \A j \in 1..p : M[j] \in Entries
        BY <1>0
      <3>2. /\ A \in Seq(Entries) /\ Len(A) = IF 1 <= p THEN p - 1 + 1 ELSE 0
            /\ \A j \in 1..p - 1 + 1 : A[j] = M[1 + j - 1]
        BY <2>1, <3>1, SubSeqProperties
      <3> QED BY <1>0, <3>2
    <2>5. /\ B \in Seq(Entries) /\ Len(B) = Len(L) - p
          /\ \A j \in 1..Len(L) - p : B[j] = L[p + j]
      <3>1. p + 1 \in Int /\ Len(L) \in Int /\ \A j \in p + 1..Len(L) : L[j] \in Entries
        BY <1>0
      <3>2. /\ B \in Seq(Entries) /\ Len(B) = IF p + 1 <= Len(L) THEN Len(L) - (p + 1) + 1 ELSE 0
            /\ \A j \in 1..Len(L) - (p + 1) + 1 : B[j] = L[p + 1 + j - 1]
        BY <2>2, <3>1, SubSeqProperties
      <3>3. Len(L) - (p + 1) + 1 = Len(L) - p /\ p + 1 <= Len(L)
        BY <1>0, <1>2
      <3>4. \A j \in 1..Len(L) - p : p + 1 + j - 1 = p + j
        BY <1>0
      <3> QED BY <3>2, <3>3, <3>4
    <2>6. /\ new \in Seq(Entries) /\ Len(new) = Len(A) + Len(B)
          /\ \A j \in 1..Len(A) + Len(B) :
                new[j] = IF j <= Len(A) THEN A[j] ELSE B[j - Len(A)]
      <3>1. /\ A \o B \in Seq(Entries) /\ Len(A \o B) = Len(A) + Len(B)
            /\ \A j \in 1..Len(A) + Len(B) :
                  (A \o B)[j] = IF j <= Len(A) THEN A[j] ELSE B[j - Len(A)]
        BY <2>4, <2>5, ConcatProperties
      <3> QED BY <2>3, <3>1, Zenon
    <2>7. Len(new) = Len(L)
      BY <1>0, <2>4, <2>5, <2>6
    <2>8. ASSUME NEW j \in 1..Len(L) PROVE new[j] = L[j]
      <3>1. j \in 1..Len(A) + Len(B) /\ j \in Nat
        BY <1>0, <2>4, <2>5
      <3>2. new[j] = IF j <= p THEN A[j] ELSE B[j - p]
        BY <2>4, <2>6, <3>1
      <3>3. CASE j <= p
        <4>1. j \in 1..p
          BY <1>0, <3>1, <3>3
        <4>2. new[j] = A[j]
          BY <3>2, <3>3
        <4> QED BY <2>4, <4>1, <4>2
      <3>4. CASE ~(j <= p)
        <4>1. j - p \in 1..Len(L) - p /\ p + (j - p) = j
          BY <1>0, <3>1, <3>4
        <4> QED BY <2>5, <3>2, <3>4, <4>1
      <3> QED BY <3>3, <3>4
    <2>9. new = L
      BY <1>0, <2>6, <2>7, <2>8, SeqEqual
    <2> QED BY <2>9
  <1> QED BY <1>1, <1>2

\* A leader lacks nothing complete that a node of its term or of an earlier one has.
LEMMA LeaderHasComplete ==
    ASSUME NEW d, LeaderInv(d), TermInv, LogsInv(d), Typed,
           NEW l \in Nodes, NEW f \in Nodes, role[l] = "leader", term[f] <= term[l],
           NEW i \in 1..Len(log[f]), Complete(d, log[f], i)
    PROVE  Has(log[l], i, log[f][i].term)
  <1> DEFINE T == log[f][i].term
  <1>1. T <= term[f] /\ term[f] \in Nat /\ term[l] \in Nat /\ T \in Nat
        /\ log[l] \in Logs(d) /\ log[f] \in Logs(d)
        /\ Has(log[l], Len(log[l]), term[l])
    <2>1. T \in Nat
      BY DecidedIsLog, LogIsFormed
    <2>2. term[f] \in Nat /\ term[l] \in Nat
      BY BoundsAssumption DEF Typed
    <2> QED BY <2>1, <2>2 DEF Logs, LeaderInv, TermInv
  <1>2. CASE T = term[l]
    BY <1>1, <1>2 DEF LeaderInv
  <1>3. CASE T < term[l]
    <2>1. Later(log[l], T)
      BY <1>1, <1>3 DEF Has, Later
    <2> QED BY <1>1, <2>1 DEF Complete
  <1> QED BY <1>1, <1>2, <1>3

\* Bringing a follower up keeps the invariant.
LEMMA ReplicateKeeps ==
    ASSUME NEW d, ClusterInv(d), NEW l \in Nodes, NEW f \in Nodes, Replicate(l, f)
    PROVE  ClusterInv(d)'
  <1> DEFINE K == <<>>
             x == NoopEntry(0)
             L == log[l]
             F == log[f]
  <1>0. /\ LogsInv(d) /\ CommitInv(d) /\ TermInv /\ LeaderInv(d) /\ Typed /\ ProcInv(d)
        /\ term \in [Nodes -> Nat] /\ commit \in [Nodes -> Nat]
    <2>1. Typed
      BY DEF ClusterInv
    <2>2. \A v \in Nodes : term[v] \in Nat
      BY <2>1, BoundsAssumption DEF Typed
    <2> QED BY <2>1, <2>2 DEF ClusterInv, Typed
  <1>1. ~NewEntry(d, K, x)
    BY NothingNew
  <1>2. /\ L \in Logs(d) /\ F \in Logs(d) /\ Formed(L) /\ Formed(F) /\ Match(L, F) /\ Match(F, L)
        /\ Len(L) \in Nat /\ Len(F) \in Nat /\ Prefix(L, L) /\ Prefix(F, F)
    BY <1>0, DecidedIsLog DEF LogsInv
  <1>3. PICK new : new = IF LastMatch(L, F) = Len(L) THEN F
                         ELSE SubSeq(F, 1, LastMatch(L, F)) \o SubSeq(L, LastMatch(L, F) + 1, Len(L))
    OBVIOUS
  <1>4. new = L \/ (new = F /\ Prefix(L, F))
    <2> HIDE DEF L, F
    <2> QED BY <1>2, <1>3, BroughtUp, Zenon
  <1>5. /\ role[l] = "leader" /\ f # l /\ Alive(f) /\ Alive(l) /\ term[f] <= term[l]
        /\ log' = [log EXCEPT ![f] = new]
        /\ log'[f] = new /\ \A v \in Nodes \ {f} : log'[v] = log[v]
        /\ match'[l][f] = Len(L)
        /\ \A m, v \in Nodes : (m = l /\ v = f) \/ match'[m][v] = match[m][v]
        /\ term'[f] = term[l] /\ \A v \in Nodes \ {f} : term'[v] = term[v]
        /\ role'[f] = "follower" /\ \A v \in Nodes \ {f} : role'[v] = role[v]
        /\ UNCHANGED <<proc, starts, tries, writes, acked, crashes>>
    <2>1. /\ role[l] = "leader" /\ f # l /\ Alive(f) /\ Alive(l) /\ term[f] <= term[l]
          /\ log' = [log EXCEPT ![f] = new]
          /\ match' = [match EXCEPT ![l][f] = Len(L)]
          /\ term' = [term EXCEPT ![f] = term[l]]
          /\ role' = [role EXCEPT ![f] = "follower"]
          /\ UNCHANGED <<proc, starts, tries, writes, acked, crashes>>
      BY <1>3 DEF Replicate, clientVars
    <2> QED BY <1>0, <2>1 DEF Typed
  <1>6. /\ commit'[f] = commit[f] \/ commit'[f] = commit[l]
        /\ \A v \in Nodes \ {f} : commit'[v] = commit[v]
        /\ commit' \in [Nodes -> Nat]
    <2>1. commit' = [commit EXCEPT ![f] = Max({@, Min({commit[l], Len(new)})})]
      BY <1>3 DEF Replicate
    <2>2. commit[l] <= Len(new) /\ Len(new) \in Nat
      <3>1. commit[l] <= Len(L)
        BY <1>0, <1>2 DEF CommitInv
      <3> QED BY <1>0, <1>2, <1>4, <3>1 DEF Prefix
    <2>3. Min({commit[l], Len(new)}) = commit[l]
      BY <1>0, <2>2, MaxOfTwo
    <2>4. Max({commit[f], commit[l]}) \in {commit[f], commit[l]}
      BY <1>0, MaxOfTwo
    <2> QED BY <1>0, <2>1, <2>3, <2>4
  <1>7. Prefix(L, new) /\ Formed(new) /\ new \in Seq(Entries) /\ Len(new) \in Nat
    BY <1>2, <1>4 DEF Prefix, Formed
  <1>8. LogStep(d, d, K, x)
    <2>1. \A v \in Nodes : Dead(v) => Dead(v)'
      BY <1>5 DEF Dead
    <2>2. \A v \in Nodes : \/ Prefix(log[v], log'[v])
                           \/ role[l] = "leader" /\ term[v] <= term[l] /\ log'[v] = log[l]
      <3>1. \A v \in Nodes \ {f} : Prefix(log[v], log'[v])
        BY <1>0, <1>5, DecidedIsLog
      <3> QED BY <1>2, <1>4, <1>5, <3>1
    <2>3. \A M \in Logs(d)' : \E J \in Logs(d) : Prefix(M, J)
      <3>1. \A n \in Nodes : log'[n] \in Logs(d)
        BY <1>2, <1>4, <1>5 DEF Logs
      <3>2. \A M \in Logs(d)' : M \in Logs(d)
        <4>1. d \in Logs(d)
          BY <1>0, DecidedIsLog
        <4>2. \A M \in Logs(d)' : M = d \/ \E n \in Nodes : M = log'[n]
          BY DEF Logs
        <4> QED BY <3>1, <4>1, <4>2
      <3>3. \A M \in Logs(d) : Prefix(M, M)
        BY <1>0 DEF LogsInv, Formed, Prefix
      <3> QED BY <3>2, <3>3
    <2> QED BY <2>1, <2>2, <2>3 DEF LogStep
  <1>9. \A v \in Nodes : term'[v] \in Nat /\ term'[v] >= term[v]
    BY <1>0, <1>5
  <1>10. ASSUME NEW m \in Nodes, role'[m] = "leader"
         PROVE  /\ role[m] = "leader" /\ m # f /\ term'[m] = term[m] /\ log'[m] = log[m]
                /\ commit'[m] = commit[m]
    BY <1>5, <1>6, <1>10
  <1>11. LeaderStep
    <2>1. ASSUME NEW m \in Nodes, role'[m] = "leader"
          PROVE  \A v \in Nodes :
                   \/ match'[m][v] = match[m][v]
                   \/ /\ Alive(v) /\ term[v] <= term[m] /\ term'[v] >= term[m]
                      /\ match'[m][v] <= Len(log[m]) /\ Prefix(log[m], log'[v])
      <3> SUFFICES ASSUME NEW v \in Nodes, match'[m][v] # match[m][v]
                   PROVE  /\ Alive(v) /\ term[v] <= term[m] /\ term'[v] >= term[m]
                          /\ match'[m][v] <= Len(log[m]) /\ Prefix(log[m], log'[v])
        OBVIOUS
      <3>2. m = l /\ v = f
        BY <1>5
      <3>3. term[l] \in Nat
        BY <1>0
      <3> QED BY <1>2, <1>5, <1>7, <3>2, <3>3
    <2>2. \A m \in Nodes : role'[m] = "leader" => Prefix(log[m], log'[m])
      BY <1>0, <1>10, DecidedIsLog
    <2> QED BY <1>9, <1>10, <2>1, <2>2 DEF LeaderStep
  <1>12. FirstEntryVoted(d, K, x) /\ NewRoot(d, K, x)
    BY <1>1 DEF FirstEntryVoted, NewRoot
  <1>13. TermIsOwn(d)
    <2>1. \A m \in Nodes : commit[m] \in Nat
      BY <1>0
    <2>2. \A m \in Nodes : role'[m] = "leader" => commit'[m] >= commit[m]
      BY <1>10, <2>1
    <2> QED BY <1>10, <2>2 DEF TermIsOwn
  <1>14. OwnLog(d, K, x, Boot)
    BY <1>1, <1>10 DEF OwnLog
  <1>15. CommitStep(d)
    <2> SUFFICES ASSUME NEW n \in Nodes, commit'[n] > 0
                 PROVE  \E M \in Logs(d) :
                           /\ commit'[n] \in 1..Len(M) /\ commit'[n] <= Len(log'[n])
                           /\ \A j \in 1..commit'[n] : log'[n][j] = M[j]
                           /\ Safe(d, M, commit'[n]) /\ Has(d, commit'[n], M[commit'[n]].term)
      BY DEF CommitStep
    <2>1. ASSUME NEW v \in Nodes, commit'[n] = commit[v]
          PROVE  /\ log[v] \in Logs(d) /\ commit'[n] \in 1..Len(log[v]) /\ commit'[n] \in Nat
                 /\ Safe(d, log[v], commit'[n]) /\ Has(d, commit'[n], log[v][commit'[n]].term)
      BY <1>0, <2>1, DecidedIsLog DEF CommitInv
    <2>2. CASE n # f
      BY <1>5, <1>6, <2>1, <2>2
    <2>3. CASE n = f /\ commit'[f] = commit[l]
      <3>1. /\ commit'[n] \in 1..Len(L) /\ L \in Logs(d)
            /\ Safe(d, L, commit'[n]) /\ Has(d, commit'[n], L[commit'[n]].term)
        BY <2>1, <2>3
      <3>2. commit'[n] <= Len(new) /\ \A j \in 1..commit'[n] : new[j] = L[j]
        BY <1>2, <1>7, <3>1 DEF Prefix
      <3>3. log'[n] = new
        BY <1>5, <2>3
      <3> QED BY <3>1, <3>2, <3>3
    <2>4. CASE n = f /\ commit'[f] = commit[f]
      <3>1. /\ commit'[n] \in 1..Len(F) /\ F \in Logs(d)
            /\ Safe(d, F, commit'[n]) /\ Has(d, commit'[n], F[commit'[n]].term)
        BY <2>1, <2>4
      <3>2. Has(L, commit'[n], F[commit'[n]].term)
        <4>1. Complete(d, F, commit'[n])
          BY <3>1 DEF Safe, Exact
        <4> QED BY <1>0, <1>5, <3>1, <4>1, LeaderHasComplete
      <3>3. \A j \in 1..commit'[n] : L[j] = F[j]
        BY <1>2, <3>1, <3>2, HasBefore
      <3>4. commit'[n] <= Len(L) /\ commit'[n] <= Len(F)
        BY <1>2, <3>1, <3>2 DEF Has
      <3>5. log'[n] = L \/ log'[n] = F
        BY <1>4, <1>5, <2>4
      <3>6. commit'[n] <= Len(log'[n]) /\ \A j \in 1..commit'[n] : log'[n][j] = F[j]
        BY <3>3, <3>4, <3>5
      <3> QED BY <3>1, <3>6
    <2> QED BY <1>6, <2>2, <2>3, <2>4
  <1>16. ClientStep(d)
    BY <1>5 DEF ClientStep
  <1>17. TermInv'
    <2> SUFFICES ASSUME NEW n \in Nodes, NEW k \in 1..Len(log'[n])
                 PROVE  log'[n][k].term <= term'[n]
      BY DEF TermInv
    <2>1. CASE log'[n] = log[n]
      <3>1. log[n][k].term <= term[n] /\ log[n][k].term \in Nat
        BY <1>0, <2>1, DecidedIsLog, LogIsFormed DEF TermInv
      <3>2. term[n] \in Nat /\ term'[n] \in Nat /\ term'[n] >= term[n]
        BY <1>0, <1>9
      <3> QED BY <2>1, <3>1, <3>2
    <2>2. CASE n = f /\ log'[n] = L
      BY <1>0, <1>5, <2>2 DEF TermInv
    <2> QED BY <1>4, <1>5, <2>1, <2>2
  <1>18. Typed'
    <2>1. term' \in [Nodes -> 0..MaxTerm] /\ role' \in [Nodes -> {"follower", "leader"}]
      BY <1>0 DEF Replicate, Typed
    <2>2. log' \in [Nodes -> Seq(Entries)]
      BY <1>0, <1>5, <1>7 DEF Typed
    <2>3. match' \in [Nodes -> [Nodes -> Nat]]
      BY <1>0, <1>2 DEF Replicate, Typed
    <2> QED BY <1>0, <1>5, <1>6, <2>1, <2>2, <2>3 DEF Typed
  <1>19. ProcInv(d)'
    <2>1. \A v \in Nodes : proc[v] = "down" => v # f
      BY <1>5 DEF Alive
    <2>2. L # <<>>
      <3>1. Has(L, Len(L), term[l])
        BY <1>0, <1>5 DEF LeaderInv
      <3> QED BY <1>2, <3>1, LogIsFormed DEF Has
    <2>3. starts'[Boot]
      BY <1>0, <1>2, <1>5, <2>2 DEF ProcInv
    <2>4. \A v \in Nodes : proc'[v] = "down" => term'[v] = 0 /\ role'[v] = "follower" /\ log'[v] = <<>>
      BY <1>0, <1>5, <2>1 DEF ProcInv
    <2>5. (\A v \in Nodes : proc'[v] # "down" => starts'[v]) /\
          (\A v \in Nodes : proc'[v] \in {"joining", "awaiting"} => tries'[v] < JoinRetries)
      BY <1>0, <1>5 DEF ProcInv
    <2> QED BY <2>3, <2>4, <2>5 DEF ProcInv
  <1> HIDE DEF K, x
  <1> QED BY <1>8, <1>11, <1>12, <1>13, <1>14, <1>15, <1>16, <1>17, <1>18, <1>19, StepKeeps

-----------------------------------------------------------------------------
(* Commits                                                                 *)

\* A log's configurations grow.
LEMMA ConfGrows ==
    ASSUME NEW L, Formed(L), NEW i \in 1..Len(L), NEW j \in i..Len(L)
    PROVE  Conf(L, i) \subseteq Conf(L, j)
  <1>0. Len(L) \in Nat /\ i \in Nat /\ j \in 1..Len(L)
    BY LogIsFormed
  <1>1. PICK c \in 1..i : Latest(L, i, c) /\ Conf(L, i) = L[c].members
    BY ConfIsMembers
  <1>2. PICK b \in 1..j : Latest(L, j, b) /\ Conf(L, j) = L[b].members
    BY <1>0, ConfIsMembers
  <1>3. c <= b /\ c \in 1..Len(L) /\ b \in 1..Len(L)
    BY <1>0, <1>1, <1>2 DEF Latest
  <1> QED BY <1>1, <1>2, <1>3 DEF Latest, Formed

\* The nodes that hold entry i, as far as leader l knows.
Holders(l, i) == {f \in Members(l) : f = l \/ match[l][f] >= i}

\* What is known of a leader that commits entry i.
LEMMA LeaderLog ==
    ASSUME NEW d, ClusterInv(d), NEW l \in Nodes, NEW i, AdvanceCommit(l, i)
    PROVE  /\ log[l] \in Logs(d) /\ Formed(log[l]) /\ log[l] # <<>>
           /\ Len(log[l]) \in 1..Len(log[l]) /\ Len(log[l]) \in Nat
           /\ Members(l) = Conf(log[l], Len(log[l])) /\ Members(l) \in SUBSET Nodes
           /\ Latest(log[l], Len(log[l]), ConfigAt(l))
           /\ i \in 1..Len(log[l]) /\ i \in Nat /\ log[l][i].term = term[l] /\ term[l] \in Nat
           /\ commit[l] < i /\ commit[l] \in Nat /\ role[l] = "leader" /\ ~Dead(l)
           /\ Holders(l, i) \in SUBSET Members(l) /\ IsQuorum(Holders(l, i), Members(l))
  <1>1. LogsInv(d) /\ Typed
    BY DEF ClusterInv
  <1>2. log[l] \in Logs(d) /\ Formed(log[l]) /\ Len(log[l]) \in Nat
    BY <1>1, DecidedIsLog
  <1>3. commit[l] \in Nat /\ term[l] \in Nat
    BY <1>1, BoundsAssumption DEF Typed
  <1>4. /\ i \in 1..Len(log[l]) /\ i \in Nat /\ log[l][i].term = term[l] /\ commit[l] < i
        /\ role[l] = "leader" /\ ~Dead(l)
    BY <1>2, <1>3 DEF AdvanceCommit, Dead, Alive
  <1>5. log[l] # <<>>
    BY <1>2, <1>4, LogIsFormed
  <1>6. Holders(l, i) \in SUBSET Members(l) /\ IsQuorum(Holders(l, i), Members(l))
    BY DEF AdvanceCommit, Holders
  <1> QED BY <1>2, <1>3, <1>4, <1>5, <1>6, MembersIsConf, LogIsFormed

\* Whoever was elected in a later term has the entry: in the first such term without
\* it, one of the holders would have voted.
LEMMA CommitComplete ==
    ASSUME NEW d, ClusterInv(d), NEW l \in Nodes, NEW i, AdvanceCommit(l, i)
    PROVE  Complete(d, log[l], i)
  <1> DEFINE L == log[l]
             T == term[l]
             Lacks(M, t) == M \in Logs(d) /\ ~Has(M, i, T) /\ \E k \in 1..Len(M) : M[k].term = t
             W == {t \in Nat : t > T /\ \E M \in Logs(d) : Lacks(M, t)}
  <1>0. LogsInv(d) /\ ConfigInv(d) /\ VoteInv(d) /\ TermInv /\ LeaderInv(d)
    BY DEF ClusterInv
  <1>1. /\ L \in Logs(d) /\ Formed(L) /\ Len(L) \in 1..Len(L) /\ Len(L) \in Nat
        /\ Members(l) = Conf(L, Len(L)) /\ Members(l) \in SUBSET Nodes
        /\ i \in 1..Len(L) /\ i \in Nat /\ L[i].term = T /\ T \in Nat
        /\ role[l] = "leader" /\ ~Dead(l)
        /\ Holders(l, i) \in SUBSET Members(l) /\ IsQuorum(Holders(l, i), Members(l))
    BY LeaderLog
  <1> SUFFICES ASSUME NEW M0 \in Logs(d), Later(M0, T), ~Has(M0, i, T) PROVE FALSE
    BY <1>1 DEF Complete
  <1>2. PICK t \in W : \A y \in W : t <= y
    <2>1. PICK k \in 1..Len(M0) : M0[k].term > T
      BY DEF Later
    <2>2. M0[k].term \in Nat
      BY <1>0, LogIsFormed DEF LogsInv
    <2>3. M0[k].term \in W
      BY <2>1, <2>2
    <2>4. W \subseteq Nat /\ W # {}
      BY <2>3
    <2> HIDE DEF W
    <2> QED BY <2>4, LeastNumber
  <1>3. PICK M \in Logs(d) : Lacks(M, t)
    BY <1>2
  <1>4. \A k \in 1..Len(M) : M[k].term > T => M[k].term >= t
    <2> SUFFICES ASSUME NEW k \in 1..Len(M), M[k].term > T PROVE M[k].term >= t
      OBVIOUS
    <2>1. M[k].term \in Nat
      BY <1>0, LogIsFormed DEF LogsInv
    <2>2. M[k].term \in W
      BY <1>3, <2>1
    <2> QED BY <1>2, <2>1, <2>2
  <1>5. /\ Formed(M) /\ Len(M) \in Nat /\ Match(L, M) /\ Match(M, L) /\ ~Has(M, i, T)
        /\ t \in Nat /\ t > T
    BY <1>0, <1>1, <1>2, <1>3, LogIsFormed DEF LogsInv
  <1> DEFINE S == {k \in 1..Len(M) : M[k].term = t}
  <1>6. PICK k \in S : \A y \in S : k <= y
    <2>1. S \subseteq Nat /\ S # {}
      BY <1>3
    <2> HIDE DEF S
    <2> QED BY <2>1, LeastNumber
  <1>7. k \in 1..Len(M) /\ M[k].term = t /\ k \in Nat
    BY <1>5, <1>6
  <1>8. k # 1
    <2>1. M[1] = ConfigEntry(1, {Boot}) /\ L[1] = ConfigEntry(1, {Boot})
          /\ 1 \in 1..Len(L)
      <3>1. 1 \in 1..Len(L) /\ 1 \in 1..Len(M)
        BY <1>1, <1>5, <1>7
      <3> QED BY <1>1, <1>5, <3>1, LogIsFormed
    <2>2. L[1].term <= T
      BY <1>0, <2>1 DEF TermInv
    <2>3. L[1].term = 1 /\ M[1].term = 1
      BY <2>1 DEF ConfigEntry
    <2> QED BY <1>1, <1>5, <1>7, <2>2, <2>3
  <1>9. /\ k \in 2..Len(M) /\ k - 1 \in 1..Len(M) /\ k - 1 \in Nat
        /\ M[k - 1].term < t /\ M[k - 1].term \in Nat
    <2>1. k \in 2..Len(M) /\ k - 1 \in 1..Len(M) /\ ~(k <= k - 1) /\ k - 1 <= k
      BY <1>5, <1>7, <1>8
    <2>2. M[k - 1].term # t
      BY <1>6, <2>1
    <2>3. M[k - 1].term <= t /\ M[k - 1].term \in Nat
      <3>1. M[k - 1].term <= M[k].term
        BY <1>5, <1>7, <2>1 DEF Formed
      <3> QED BY <1>5, <1>7, <2>1, <3>1, LogIsFormed
    <2> QED BY <1>5, <2>1, <2>2, <2>3
  <1>10. \A h \in 1..k - 1 : h \in 1..Len(M) /\ M[h].term \in Nat /\ M[h].term <= T
    <2> SUFFICES ASSUME NEW h \in 1..k - 1
                 PROVE  h \in 1..Len(M) /\ M[h].term \in Nat /\ M[h].term <= T
      OBVIOUS
    <2>1. h \in 1..Len(M) /\ h <= k - 1
      BY <1>5, <1>7
    <2>2. M[h].term <= M[k - 1].term /\ M[h].term \in Nat
      BY <1>5, <1>9, <2>1, LogIsFormed DEF Formed
    <2>3. ~(M[h].term >= t)
      BY <1>5, <1>9, <2>2
    <2>4. ~(M[h].term > T)
      BY <1>4, <2>1, <2>3
    <2>5. T \in Nat /\ M[h].term \in Nat
      BY <1>1, <2>2
    <2>6. M[h].term <= T
      BY <2>4, <2>5
    <2> QED BY <2>1, <2>5, <2>6
  <1>11. PICK R \in SUBSET Conf(M, k - 1) :
            IsQuorum(R, Conf(M, k - 1)) /\ \A v \in R : Voted(M, k, v)
    BY <1>0, <1>7, <1>9 DEF VoteInv
  <1>12. RootsIn(L, Len(L), M, k - 1)
    <2> SUFFICES ASSUME NEW c \in 2..Len(L), L[c].kind = "config"
                 PROVE  \E h \in 1..c - 1 : Rooted(L, c, h) /\ h <= k - 1 /\ Has(M, h, L[h].term)
      BY DEF RootsIn
    <2>1. PICK h \in 1..c - 1 : Rooted(L, c, h) /\ Exact(d, L, h)
      BY <1>0, <1>1 DEF ConfigInv
    <2>2. h \in 1..Len(L) /\ L[h].term \in Nat /\ h \in Nat
      <3>1. h \in 1..Len(L) /\ h \in Nat
        BY <1>1
      <3> QED BY <1>1, <3>1, LogIsFormed
    <2>3. L[h].term < t
      <3>1. L[h].term <= T
        BY <1>0, <2>2 DEF TermInv
      <3>2. T \in Nat
        BY <1>1
      <3> QED BY <1>5, <2>2, <3>1, <3>2
    <2>4. Has(M, h, L[h].term)
      BY <1>3, <1>7, <2>1, <2>3 DEF Exact, Complete, Later
    <2>5. h < k
      BY <1>5, <1>7, <2>3, <2>4, TermsRise DEF Has
    <2> QED BY <1>7, <2>1, <2>2, <2>4, <2>5
  <1>13. RootsIn(M, k - 1, L, Len(L))
    <2> SUFFICES ASSUME NEW c \in 2..k - 1, M[c].kind = "config"
                 PROVE  \E h \in 1..c - 1 : Rooted(M, c, h) /\ h <= Len(L) /\ Has(L, h, M[h].term)
      BY DEF RootsIn
    <2>1. c \in 2..Len(M)
      BY <1>5, <1>7
    <2>2. PICK h \in 1..c - 1 : Rooted(M, c, h) /\ Exact(d, M, h)
      BY <1>0, <2>1 DEF ConfigInv
    <2>3. h \in 1..k - 1
      BY <1>7
    <2>4. h \in 1..Len(M) /\ M[h].term \in Nat /\ M[h].term <= T
      BY <1>10, <2>3
    <2>5. Has(L, h, M[h].term)
      <3>1. CASE M[h].term = T
        BY <1>0, <1>1, <2>4, <3>1 DEF LeaderInv
      <3>2. CASE M[h].term < T
        <4>1. Later(L, M[h].term)
          BY <1>1, <3>2 DEF Later
        <4> QED BY <1>1, <2>2, <4>1 DEF Exact, Complete
      <3> QED BY <1>1, <2>4, <3>1, <3>2
    <2> QED BY <1>1, <2>2, <2>5 DEF Has
  <1>14. Near(Members(l), Conf(M, k - 1)) /\ Conf(M, k - 1) \in SUBSET Nodes
    BY <1>1, <1>5, <1>9, <1>12, <1>13, ConfigsAreNear, ConfIsMembers
  <1>15. PICK v \in Holders(l, i) \intersect R : TRUE
    BY <1>1, <1>11, <1>14, QuorumsMeet
  <1>16. CASE v = l
    BY <1>1, <1>5, <1>7, <1>11, <1>15, <1>16 DEF Voted
  <1>17. CASE match[l][v] >= i
    <2>1. match[l][v] \in Nat
      BY <1>1, <1>15 DEF ClusterInv, Typed
    <2>2. i \in 1..match[l][v]
      BY <1>1, <1>17, <2>1
    <2>3. M[k - 1].term > T \/ (i < k /\ M[i].term = T)
      BY <1>1, <1>5, <1>7, <1>11, <1>15, <2>2 DEF Voted
    <2>4. ~(M[k - 1].term > T)
      BY <1>4, <1>5, <1>9
    <2>5. i \in 1..Len(M)
      BY <1>1, <1>5, <1>7, <2>3, <2>4
    <2> QED BY <1>5, <2>3, <2>4, <2>5 DEF Has
  <1> QED BY <1>15, <1>16, <1>17 DEF Holders

\* A quorum of the leader's latest configuration keeps what it commits: those that it
\* counts have it, or have ended, or have gone on to a leader that has it.
LEMMA CommitCert ==
    ASSUME NEW d, ClusterInv(d), NEW l \in Nodes, NEW i, AdvanceCommit(l, i)
    PROVE  Cert(log[l], i, Members(l))
  <1> DEFINE L == log[l]
  <1>0. /\ LogsInv(d) /\ MatchInv /\ Typed
    BY DEF ClusterInv
  <1>1. /\ L \in Logs(d) /\ Formed(L) /\ Len(L) \in Nat /\ Members(l) \in SUBSET Nodes
        /\ i \in 1..Len(L) /\ i \in Nat /\ L[i].term = term[l] /\ role[l] = "leader"
        /\ Holders(l, i) \in SUBSET Members(l) /\ IsQuorum(Holders(l, i), Members(l))
    BY LeaderLog
  <1>2. Complete(d, L, i)
    BY CommitComplete
  <1>3. ASSUME NEW v \in Holders(l, i) PROVE Dead(v) \/ Has(log[v], i, L[i].term)
    <2>1. v \in Nodes /\ log[v] \in Logs(d) /\ Formed(log[v]) /\ Match(L, log[v])
          /\ match[l][v] \in Nat
      BY <1>0, <1>1 DEF Logs, LogsInv, Typed
    <2>2. CASE v = l
      BY <1>1, <2>2 DEF Has
    <2>3. CASE match[l][v] >= i /\ ~Dead(v)
      <3>1. /\ match[l][v] \in 1..Len(L) /\ i \in 1..match[l][v]
            /\ Has(log[v], match[l][v], L[match[l][v]].term) \/ Later(log[v], term[l])
        BY <1>0, <1>1, <2>1, <2>3 DEF MatchInv
      <3>2. CASE Has(log[v], match[l][v], L[match[l][v]].term)
        BY <1>1, <2>1, <3>1, <3>2, HasBefore
      <3>3. CASE Later(log[v], term[l])
        BY <1>1, <1>2, <2>1, <3>3 DEF Complete
      <3> QED BY <3>1, <3>2, <3>3
    <2> QED BY <2>2, <2>3 DEF Holders
  <1> QED BY <1>1, <1>3 DEF Cert

\* What a leader commits is safe: exact, if its latest configuration is not after it,
\* and else behind the root of that configuration.
LEMMA CommitIsSafe ==
    ASSUME NEW d, ClusterInv(d), NEW l \in Nodes, NEW i, AdvanceCommit(l, i)
    PROVE  Safe(d, log[l], i)
  <1> DEFINE L == log[l]
  <1> DEFINE c == ConfigAt(l)
  <1>0. LogsInv(d) /\ ConfigInv(d) /\ TermInv
    BY DEF ClusterInv
  <1>1. /\ L \in Logs(d) /\ Formed(L) /\ Len(L) \in Nat /\ Members(l) = Conf(L, Len(L))
        /\ Latest(L, Len(L), c) /\ i \in 1..Len(L) /\ i \in Nat /\ L[i].term = term[l]
        /\ commit[l] < i /\ commit[l] \in Nat /\ role[l] = "leader" /\ term[l] \in Nat
    BY LeaderLog
  <1>2. Complete(d, L, i) /\ Cert(L, i, Members(l))
    BY CommitComplete, CommitCert
  <1>3. c \in 1..Len(L) /\ c \in Nat /\ Members(l) = L[c].members
    BY <1>1, LatestIsConf DEF Latest
  <1> HIDE DEF c
  <1>4. CASE c <= i
    <2>1. Latest(L, i, c)
      BY <1>1, <1>3, <1>4 DEF Latest
    <2>2. Conf(L, i) = Members(l)
      BY <1>1, <1>3, <2>1, LatestIsConf
    <2> QED BY <1>2, <2>2 DEF Safe, Exact
  <1>5. CASE c > i
    <2>1. c \in 2..Len(L) /\ L[c].kind = "config"
      BY <1>1, <1>3, <1>5 DEF Latest
    <2>2. PICK h \in 1..c - 1 :
              /\ Rooted(L, c, h) /\ Exact(d, L, h)
              /\ role[l] = "leader" /\ term[l] = L[c].term => h <= commit[l]
      BY <1>0, <1>1, <2>1 DEF ConfigInv
    <2>3. L[c].term = term[l]
      <3>1. L[i].term <= L[c].term
        BY <1>1, <1>3, <1>5 DEF Formed
      <3>2. L[c].term <= term[l]
        BY <1>0, <1>3 DEF TermInv
      <3>3. L[c].term \in Nat
        BY <1>1, <1>3, LogIsFormed
      <3> QED BY <1>1, <3>1, <3>2, <3>3
    <2>4. h \in 1..i - 1 /\ h \in 1..Len(L) /\ h \in Nat /\ i \in h..Len(L) /\ i <= c - 1
      BY <1>1, <1>3, <1>5, <2>2, <2>3
    <2>5. NoConfig(L, h, i) /\ L[h].term = L[i].term
      BY <1>1, <1>3, <2>2, <2>3, <2>4 DEF Rooted, NoConfig
    <2>6. Conf(L, i) = Conf(L, h)
      BY <1>1, <2>4, <2>5, ConfStays
    <2>7. \E x \in Nodes : Members(l) = Conf(L, i) \union {x}
      BY <1>3, <2>2, <2>6 DEF Rooted
    <2> QED BY <1>2, <2>2, <2>4, <2>5, <2>7 DEF Safe
  <1> QED BY <1>1, <1>3, <1>4, <1>5

\* What was decided is still, up to the entry that is committed.
LEMMA DecidedGrows ==
    ASSUME NEW d, ClusterInv(d), NEW l \in Nodes, NEW i, AdvanceCommit(l, i)
    PROVE  \E e : /\ Prefix(d, e) /\ e # <<>> /\ Len(e) \in Nat
                  /\ e = d \/ (Prefix(e, log[l]) /\ Len(e) = i)
                  /\ i \in 1..Len(e) /\ \A j \in 1..i : e[j] = log[l][j]
  <1> DEFINE L == log[l]
             T == term[l]
  <1>0. LogsInv(d) /\ CommitInv(d) /\ LeaderInv(d)
    BY DEF ClusterInv
  <1>1. /\ L \in Logs(d) /\ Formed(L) /\ L \in Seq(Entries) /\ Len(L) \in Nat
        /\ i \in 1..Len(L) /\ i \in Nat /\ L[i].term = T /\ T \in Nat /\ role[l] = "leader"
    BY LeaderLog DEF Formed
  <1>2. d \in Logs(d) /\ Formed(d) /\ Prefix(d, d) /\ Len(d) \in Nat /\ Match(L, d) /\ Match(d, L)
        /\ d \in Seq(Entries) /\ (d # <<>> => Len(d) \in 1..Len(d))
    BY <1>0, <1>1, DecidedIsLog DEF LogsInv, Formed
  <1>3. CASE Has(d, i, T)
    <2>1. \A j \in 1..i : d[j] = L[j]
      BY <1>1, <1>2, <1>3, HasBefore
    <2>2. i \in 1..Len(d) /\ d # <<>>
      BY <1>2, <1>3, LogIsFormed DEF Has
    <2> QED BY <1>2, <2>1, <2>2
  <1>4. CASE ~Has(d, i, T)
    <2>1. Len(d) <= Len(L) /\ \A j \in 1..Len(d) : L[j] = d[j]
      <3>1. CASE d = <<>>
        BY <1>1, <3>1
      <3>2. CASE d # <<>>
        <4> DEFINE D == d[Len(d)].term
        <4>1. Len(d) \in 1..Len(d) /\ Complete(d, d, Len(d)) /\ D \in Nat
          BY <1>0, <1>2, <3>2, LogIsFormed DEF CommitInv, Safe, Exact
        <4>2. ~(D > T)
          <5> SUFFICES ASSUME D > T PROVE FALSE
            OBVIOUS
          <5>1. Later(d, T)
            BY <4>1 DEF Later
          <5> QED BY <1>1, <1>2, <1>4, <5>1, CommitComplete DEF Complete
        <4>3. Has(L, Len(d), D)
          <5>1. CASE D = T
            BY <1>0, <1>1, <1>2, <4>1, <5>1 DEF LeaderInv
          <5>2. CASE D < T
            <6>1. Later(L, D)
              BY <1>1, <5>2 DEF Later
            <6> QED BY <1>1, <4>1, <6>1 DEF Complete
          <5> QED BY <1>1, <4>1, <4>2, <5>1, <5>2
        <4>4. \A j \in 1..Len(d) : L[j] = d[j]
          BY <1>1, <1>2, <4>1, <4>3, HasBefore
        <4> QED BY <1>1, <4>3, <4>4 DEF Has
      <3> QED BY <3>1, <3>2
    <2>2. Len(d) < i
      <3> SUFFICES ASSUME i <= Len(d) PROVE FALSE
        BY <1>1, <1>2
      <3> QED BY <1>1, <1>2, <1>4, <2>1 DEF Has
    <2>3. PICK e : e = SubSeq(L, 1, i)
      OBVIOUS
    <2>4. e \in Seq(Entries) /\ Len(e) = i /\ \A j \in 1..i : e[j] = L[j]
      <3>1. 1 \in Int /\ i \in Int /\ \A j \in 1..i : L[j] \in Entries
        BY <1>1
      <3>2. /\ e \in Seq(Entries) /\ Len(e) = IF 1 <= i THEN i - 1 + 1 ELSE 0
            /\ \A j \in 1..i - 1 + 1 : e[j] = L[1 + j - 1]
        BY <2>3, <3>1, SubSeqProperties
      <3> QED BY <1>1, <3>2
    <2>5. Prefix(d, e)
      BY <1>1, <1>2, <2>1, <2>2, <2>4 DEF Prefix
    <2>6. Prefix(e, L) /\ e # <<>>
      BY <1>1, <2>4 DEF Prefix
    <2> QED BY <1>1, <2>4, <2>5, <2>6
  <1> QED BY <1>3, <1>4

\* A commit keeps the invariant, with a decided log that may be longer.
LEMMA AdvanceKeeps ==
    ASSUME NEW d, ClusterInv(d), NEW l \in Nodes, NEW i, AdvanceCommit(l, i)
    PROVE  \E e : ClusterInv(e)'
  <1> DEFINE K == <<>>
             x == NoopEntry(0)
             L == log[l]
  <1>0. /\ LogsInv(d) /\ CommitInv(d) /\ ClientInv(d) /\ TermInv /\ LeaderInv(d) /\ Typed
        /\ ProcInv(d) /\ MatchInv /\ VoteInv(d) /\ ConfigInv(d)
        /\ term \in [Nodes -> Nat] /\ commit \in [Nodes -> Nat]
    <2>1. Typed
      BY DEF ClusterInv
    <2>2. \A v \in Nodes : term[v] \in Nat
      BY <2>1, BoundsAssumption DEF Typed
    <2> QED BY <2>1, <2>2 DEF ClusterInv, Typed
  <1>1. ~NewEntry(d, K, x)
    BY NothingNew
  <1>2. /\ L \in Logs(d) /\ Formed(L) /\ L # <<>> /\ Len(L) \in Nat
        /\ i \in 1..Len(L) /\ i \in Nat /\ commit[l] < i /\ role[l] = "leader"
        /\ L[i].term = term[l]
    BY LeaderLog
  <1>3. /\ UNCHANGED <<proc, starts, tries, term, role, log, match, writes, crashes>>
        /\ commit' = [commit EXCEPT ![l] = i]
        /\ acked' = acked \union {L[j].write : j \in {k \in commit[l] + 1..i :
                                    L[k].kind = "write" /\ L[k].term = term[l]}}
    BY DEF AdvanceCommit
  <1>4. PICK e : /\ Prefix(d, e) /\ e # <<>> /\ Len(e) \in Nat
                 /\ e = d \/ (Prefix(e, L) /\ Len(e) = i)
                 /\ i \in 1..Len(e) /\ \A j \in 1..i : e[j] = L[j]
    BY DecidedGrows
  <1>5. /\ commit'[l] = i /\ \A v \in Nodes \ {l} : commit'[v] = commit[v]
        /\ commit' \in [Nodes -> Nat] /\ \A v \in Nodes : commit'[v] >= commit[v]
    <2>1. commit'[l] = i /\ \A v \in Nodes \ {l} : commit'[v] = commit[v]
      BY <1>0, <1>3
    <2>2. commit' \in [Nodes -> Nat]
      BY <1>0, <1>2, <1>3
    <2>3. ASSUME NEW v \in Nodes PROVE commit'[v] >= commit[v]
      <3>1. commit[v] \in Nat
        BY <1>0
      <3>2. commit'[v] = commit[v] \/ (commit[v] < i /\ commit'[v] = i)
        BY <1>2, <2>1
      <3> QED BY <1>2, <3>1, <3>2
    <2> QED BY <2>1, <2>2, <2>3
  <1>6. LogStep(d, e, K, x)
    <2>1. \A v \in Nodes : (Dead(v) => Dead(v)') /\ Prefix(log[v], log'[v])
      BY <1>0, <1>3, DecidedIsLog DEF Dead
    <2>2. ASSUME NEW M \in Logs(e)' PROVE \E J \in Logs(d) : Prefix(M, J)
      <3>1. CASE M = e
        BY <1>0, <1>2, <1>4, <3>1, DecidedIsLog
      <3>2. ASSUME NEW n \in Nodes, M = log'[n] PROVE \E J \in Logs(d) : Prefix(M, J)
        BY <1>0, <1>3, <3>2, DecidedIsLog
      <3> QED BY <3>1, <3>2 DEF Logs
    <2> QED BY <2>1, <2>2 DEF LogStep
  <1>7. LogsInv(e)'
    BY <1>0, <1>6, LogsStay
  <1>8. Formed(e)
    BY <1>7 DEF LogsInv, Logs
  <1>9. LeaderInv(e)'
    <2>1. OwnLog(d, K, x, Boot)
      BY <1>1, <1>3 DEF OwnLog
    <2> QED BY <1>0, <1>6, <2>1, LeadersStay
  <1>10. LeaderStep
    <2>1. \A v \in Nodes : term'[v] \in Nat /\ term'[v] >= term[v] /\ Prefix(log[v], log'[v])
      BY <1>0, <1>3, DecidedIsLog
    <2> QED BY <1>3, <2>1 DEF LeaderStep
  <1>11. MatchInv'
    <2>1. \A v \in Nodes : Formed(log'[v])
      BY <1>0, <1>3, DecidedIsLog
    <2>2. match' \in [Nodes -> [Nodes -> Nat]]
      BY <1>0, <1>3 DEF Typed
    <2> QED BY <1>0, <1>6, <1>10, <2>1, <2>2, MatchesStay
  <1>12. VoteInv(e)'
    <2>1. FirstEntryVoted(d, K, x)
      BY <1>1 DEF FirstEntryVoted
    <2> QED BY <1>0, <1>6, <1>10, <2>1, VotesStay
  <1>13. ConfigInv(e)'
    <2>1. TermIsOwn(d) /\ NewRoot(d, K, x)
      BY <1>1, <1>3, <1>5 DEF TermIsOwn, NewRoot
    <2> QED BY <1>0, <1>5, <1>6, <2>1, ConfigsStay
  <1>14. CommitInv(e)'
    <2>1. Safe(e, L, i)'
      <3>1. Safe(d, L, i)
        BY CommitIsSafe
      <3>2. PICK M : M = L
        OBVIOUS
      <3>3. Safe(e, M, i)'
        BY <1>0, <1>2, <1>6, <3>1, <3>2, SafeStays
      <3> QED BY <1>3, <3>2, <3>3
    <2>2. ASSUME NEW n \in Nodes, commit'[n] > 0
          PROVE  /\ commit'[n] <= Len(log'[n]) /\ Safe(e, log[n], commit[n])'
                 /\ Has(e, commit'[n], log'[n][commit'[n]].term)
      <3>1. CASE n = l
        BY <1>2, <1>3, <1>4, <1>5, <2>1, <3>1 DEF Has
      <3>2. CASE n # l
        <4>0. PICK M \in Logs(d) : M = log[n]
          BY <1>0, DecidedIsLog
        <4>1. PICK j \in 1..Len(M) : j = commit[n]
          BY <1>0, <1>5, <2>2, <3>2, <4>0, DecidedIsLog DEF CommitInv
        <4>2. /\ Safe(d, M, j) /\ Has(d, j, M[j].term) /\ log'[n] = M /\ Formed(M)
              /\ commit'[n] = j /\ Len(M) \in Nat
          <5>1. log'[n] = M /\ commit'[n] = j /\ commit[n] > 0
            BY <1>3, <1>5, <3>2, <4>0, <4>1
          <5>2. Formed(M) /\ Len(M) \in Nat
            BY <1>0, <4>0, DecidedIsLog
          <5>3. Safe(d, log[n], commit[n]) /\ Has(d, commit[n], log[n][commit[n]].term)
            BY <1>0, <5>1 DEF CommitInv
          <5> QED BY <4>0, <4>1, <5>1, <5>2, <5>3
        <4>3. d \in Logs(d)
          BY <1>0, DecidedIsLog
        <4>4. Safe(e, log[n], j)' /\ Has(e, j, log'[n][j].term)
          <5>1. /\ LogsInv(d) /\ TermInv /\ LeaderInv(d) /\ Typed
                /\ LogStep(d, e, K, x) /\ Prefix(d, e)
            BY <1>0, <1>4, <1>6
          <5>2. /\ Formed(log'[n]) /\ j <= Len(log'[n])
                /\ \A g \in 1..j : log'[n][g] = M[g]
            BY <4>2
          <5>3. Safe(d, M, j) /\ Has(d, j, M[j].term)
            BY <4>2
          <5> QED BY <4>3, <5>1, <5>2, <5>3, CommitStays
        <4> QED BY <4>2, <4>4
      <3> QED BY <3>1, <3>2
    <2>3. Safe(e, e, Len(e))'
      <3>1. CASE e = d
        <4>1. d \in Logs(d) /\ Len(d) \in 1..Len(d) /\ Safe(d, d, Len(d))
          BY <1>0, <1>4, <3>1, DecidedIsLog DEF CommitInv
        <4> QED BY <1>0, <1>6, <3>1, <4>1, SafeStays
      <3>2. CASE Len(e) = i
        <4>1. PICK M : M = L
          OBVIOUS
        <4>2. Safe(e, M, i)'
          BY <1>3, <2>1, <4>1
        <4>3. Formed(M) /\ i \in 1..Len(M) /\ \A j \in 1..i : e[j] = M[j]
          BY <1>2, <1>4, <4>1
        <4> QED BY <1>4, <3>2, <4>2, <4>3, SafePrefix
      <3> QED BY <1>4, <3>1, <3>2
    <2> QED BY <2>2, <2>3 DEF CommitInv
  <1>15. ClientInv(e)'
    <2>1. ASSUME NEW w \in acked' PROVE w \in 1..MaxWrites /\ \E j \in 1..Len(e) : e[j].write = w
      <3>1. CASE w \in acked
        <4>1. w \in 1..MaxWrites /\ \E j \in 1..Len(d) : d[j].write = w
          BY <1>0, <3>1 DEF ClientInv
        <4>2. Len(d) \in Nat /\ \A j \in 1..Len(d) : j \in 1..Len(e) /\ e[j] = d[j]
          BY <1>0, <1>4, DecidedIsLog DEF Prefix
        <4> QED BY <4>1, <4>2
      <3>2. ASSUME NEW j \in commit[l] + 1..i, L[j].kind = "write", w = L[j].write
            PROVE  w \in 1..MaxWrites /\ \E k \in 1..Len(e) : e[k].write = w
        <4>1. j \in 1..i /\ j \in 1..Len(e) /\ j \in 1..Len(L)
          BY <1>0, <1>2, <1>4
        <4>2. L[j] \in Entries /\ L[j].write > 0
          BY <1>2, <3>2, <4>1, LogIsFormed DEF Formed
        <4>3. w \in 1..MaxWrites
          BY <3>2, <4>2, BoundsAssumption DEF Entries
        <4> QED BY <1>4, <3>2, <4>1, <4>3
      <3> QED BY <1>3, <3>1, <3>2
    <2>2. ASSUME NEW n \in Nodes \ {Boot}, proc'[n] = "serving" PROVE n \in Conf(e, Len(e))
      <3>1. d # <<>> /\ n \in Conf(d, Len(d))
        BY <1>0, <1>3, <2>2 DEF ClientInv
      <3>2. /\ Formed(d) /\ Len(d) \in 1..Len(d) /\ Len(d) \in 1..Len(e) /\ Len(e) \in Len(d)..Len(e)
            /\ \A j \in 1..Len(d) : e[j] = d[j]
        BY <1>0, <1>4, <3>1, DecidedIsLog DEF Prefix
      <3>3. Conf(e, Len(d)) = Conf(d, Len(d))
        BY <3>2, SameConf
      <3>4. Conf(e, Len(d)) \subseteq Conf(e, Len(e))
        BY <1>8, <3>2, ConfGrows
      <3> QED BY <3>1, <3>3, <3>4
    <2> QED BY <1>4, <2>1, <2>2 DEF ClientInv
  <1>16. TermInv'
    BY <1>0, <1>3 DEF TermInv
  <1>17. Typed'
    BY <1>0, <1>3, <1>5 DEF Typed
  <1>18. ProcInv(e)'
    <2>1. starts[Boot]
      BY <1>0, <1>2 DEF ProcInv
    <2> QED BY <1>0, <1>3, <2>1 DEF ProcInv
  <1> QED BY <1>7, <1>9, <1>11, <1>12, <1>13, <1>14, <1>15, <1>16, <1>17, <1>18 DEF ClusterInv

-----------------------------------------------------------------------------
(* Processes and joins                                                     *)

\* The bootstrap of the first cluster keeps the invariant.
LEMMA StartBootKeeps ==
    ASSUME NEW d, ClusterInv(d), Restartable = {}, StartBoot
    PROVE  ClusterInv(d)'
  <1> DEFINE K == <<>>
             x == ConfigEntry(1, {Boot})
  <1>0. LogsInv(d) /\ LeaderInv(d) /\ Typed /\ ProcInv(d) /\ Boot \in Nodes
    BY BootAssumption DEF ClusterInv
  <1>1. /\ ~starts[Boot] /\ proc[Boot] = "down" /\ term[Boot] = 0 /\ role[Boot] = "follower"
        /\ \A L \in Logs(d) : L = <<>>
    BY <1>0 DEF StartBoot, ProcInv
  <1>2. /\ proc' = [proc EXCEPT ![Boot] = "serving"]
        /\ starts' = [starts EXCEPT ![Boot] = TRUE]
        /\ term' = [term EXCEPT ![Boot] = 1]
        /\ log' = [log EXCEPT ![Boot] = <<x>>]
        /\ UNCHANGED <<tries, role, commit, match, writes, acked, crashes>>
    BY DEF StartBoot, clientVars
  <1>3. log[Boot] = <<>> /\ K \in Logs(d)
    BY <1>0, <1>1 DEF Logs
  <1>4. /\ x \in Entries /\ x.term = 1 /\ x.kind = "config" /\ Append(K, x) = <<x>>
    BY <1>0, BoundsAssumption DEF ConfigEntry, Entries
  <1>5. log' = [log EXCEPT ![Boot] = Append(@, x)]
    BY <1>0, <1>2, <1>3, <1>4 DEF Typed
  <1>6. NewEntry(d, K, x)
    <2>1. Formed(Append(K, x))
      <3>1. PICK M : M = <<x>>
        OBVIOUS
      <3>2. M \in Seq(Entries) /\ Len(M) = 1 /\ M[1] = x
        BY <1>4, <3>1
      <3>3. \A j \in 1..Len(M) : j = 1
        BY <3>2
      <3>4. Formed(M)
        BY <1>4, <3>2, <3>3 DEF Formed
      <3> QED BY <1>4, <3>1, <3>4
    <2>2. \A M \in Logs(d) : \A k \in 1..Len(M) : FALSE
      BY <1>1
    <2> QED BY <1>3, <2>1, <2>2 DEF NewEntry
  <1>7. \A l \in Nodes : role'[l] # "leader"
    <2> SUFFICES ASSUME NEW l \in Nodes, role[l] = "leader" PROVE FALSE
      BY <1>2
    <2>1. log[l] \in Logs(d) /\ Has(log[l], Len(log[l]), term[l])
      BY <1>0 DEF LeaderInv, Logs
    <2>2. Len(log[l]) = 0
      BY <1>1, <2>1
    <2> QED BY <2>1, <2>2 DEF Has
  <1>8. \A v \in Nodes : (Dead(v) => Dead(v)') /\ term'[v] >= term[v]
    <2>1. \A v \in Nodes : term[v] \in Nat
      BY <1>0, BoundsAssumption DEF Typed
    <2>2. \A v \in Nodes \ {Boot} : term'[v] = term[v] /\ (Dead(v) => Dead(v)')
      BY <1>0, <1>2 DEF Typed, Dead
    <2>3. term'[Boot] = 1 /\ ~Dead(Boot)
      BY <1>0, <1>1, <1>2 DEF Typed, Dead
    <2>4. term'[Boot] >= term[Boot]
      BY <1>1, <2>3
    <2>5. \A v \in Nodes : term'[v] >= term[v]
      BY <2>1, <2>2, <2>4
    <2> QED BY <2>2, <2>3, <2>5
  <1>9. FirstEntryVoted(d, K, x) /\ NewRoot(d, K, x) /\ TermIsOwn(d) /\ OwnLog(d, K, x, Boot)
    BY <1>7 DEF FirstEntryVoted, NewRoot, TermIsOwn, OwnLog
  <1>10. ClientStep(d)
    BY <1>0, <1>2 DEF ClientStep, Typed
  <1>11. Typed'
    <2>1. term' \in [Nodes -> 0..MaxTerm]
      BY <1>0, <1>2, BoundsAssumption DEF Typed
    <2>2. log' \in [Nodes -> Seq(Entries)]
      BY <1>0, <1>2, <1>4 DEF Typed
    <2> QED BY <1>0, <1>2, <2>1, <2>2 DEF Typed
  <1>12. ProcInv(d)'
    <2>1. starts'[Boot] = TRUE /\ proc'[Boot] = "serving"
      BY <1>0, <1>2 DEF Typed
    <2>2. \A n \in Nodes \ {Boot} : proc'[n] = proc[n] /\ starts'[n] = starts[n] /\ term'[n] = term[n]
              /\ log'[n] = log[n] /\ role'[n] = role[n] /\ tries'[n] = tries[n]
      BY <1>0, <1>2 DEF Typed
    <2> QED BY <1>0, <2>1, <2>2 DEF ProcInv
  <1>13. x.term <= term'[Boot] /\ commit' = commit
    BY <1>0, <1>2, <1>4 DEF Typed
  <1> HIDE DEF x, K
  <1> QED BY <1>0, <1>3, <1>5, <1>6, <1>7, <1>8, <1>9, <1>10, <1>11, <1>12, <1>13, AppendKeeps DEF K

\* Nothing changes but processes and joins.
LEMMA ProcKeeps ==
    ASSUME NEW d, ClusterInv(d), UNCHANGED <<term, role, log, commit, match, acked>>,
           \A v \in Nodes : Dead(v) => Dead(v)',
           \A n \in Nodes \ {Boot} : proc'[n] = "serving" =>
              proc[n] = "serving" \/ (d # <<>> /\ n \in Conf(d, Len(d))),
           Typed', ProcInv(d)'
    PROVE  ClusterInv(d)'
  <1>1. \A v \in Nodes : term'[v] >= term[v]
    BY BoundsAssumption DEF ClusterInv, Typed
  <1>2. OnOrOut
    BY <1>1 DEF OnOrOut
  <1>3. ClientStep(d)
    BY DEF ClientStep
  <1> QED BY <1>2, <1>3, OnOrOutKeeps

\* The start of a joiner keeps the invariant.
LEMMA StartJoinerKeeps ==
    ASSUME NEW d, ClusterInv(d), Restartable = {}, NEW n \in Nodes, StartJoiner(n)
    PROVE  ClusterInv(d)'
  <1>0. Typed /\ ProcInv(d)
    BY DEF ClusterInv
  <1>1. /\ n # Boot /\ proc[n] = "down" /\ ~starts[n]
        /\ proc' = [proc EXCEPT ![n] = "joining"]
        /\ starts' = [starts EXCEPT ![n] = TRUE]
        /\ tries' = [tries EXCEPT ![n] = 0]
        /\ UNCHANGED <<term, role, log, commit, match, writes, acked, crashes>>
    BY DEF StartJoiner, raftVars, clientVars
  <1>2. /\ proc'[n] = "joining" /\ starts'[n] /\ tries'[n] = 0
        /\ \A v \in Nodes \ {n} : proc'[v] = proc[v] /\ starts'[v] = starts[v] /\ tries'[v] = tries[v]
    BY <1>0, <1>1 DEF Typed
  <1>3. \A v \in Nodes : Dead(v) => Dead(v)'
    BY <1>1, <1>2 DEF Dead
  <1>4. Typed'
    <2>1. tries' \in [Nodes -> 0..JoinRetries]
      BY <1>0, <1>1, BoundsAssumption DEF Typed
    <2>2. proc' \in [Nodes -> {"down", "joining", "awaiting", "serving"}]
      BY <1>0, <1>1 DEF Typed
    <2>3. starts' \in [Nodes -> BOOLEAN]
      BY <1>0, <1>1 DEF Typed
    <2> QED BY <1>0, <1>1, <2>1, <2>2, <2>3 DEF Typed
  <1>5. ProcInv(d)'
    <2>1. tries'[n] < JoinRetries
      BY <1>2, BoundsAssumption
    <2>2. starts'[Boot] = starts[Boot]
      BY <1>1, <1>2, BootAssumption
    <2>3. Logs(d)' = Logs(d)
      BY <1>1 DEF Logs
    <2> QED BY <1>0, <1>1, <1>2, <2>1, <2>2, <2>3 DEF ProcInv
  <1> QED BY <1>1, <1>2, <1>3, <1>4, <1>5, ProcKeeps

\* A process that ends takes its log with it; its vote is gone for good.
LEMMA ForgetKeeps ==
    ASSUME NEW d, ClusterInv(d), NEW n \in Nodes, Alive(n), Forget(n),
           proc' = [proc EXCEPT ![n] = "down"], UNCHANGED <<starts, acked>>,
           tries' \in [Nodes -> 0..JoinRetries], \A v \in Nodes \ {n} : tries'[v] = tries[v],
           writes' \in 0..MaxWrites, crashes' \in 0..MaxCrashes
    PROVE  ClusterInv(d)'
  <1>0. Typed /\ ProcInv(d) /\ LogsInv(d)
    BY DEF ClusterInv
  <1>1. /\ proc'[n] = "down" /\ term'[n] = 0 /\ role'[n] = "follower" /\ log'[n] = <<>>
        /\ commit'[n] = 0
        /\ \A v \in Nodes \ {n} :
              /\ proc'[v] = proc[v] /\ term'[v] = term[v] /\ role'[v] = role[v]
              /\ log'[v] = log[v] /\ commit'[v] = commit[v] /\ match'[v] = match[v]
    BY <1>0 DEF Typed, Forget
  <1>2. starts[n]
    BY <1>0 DEF ProcInv, Alive
  <1>3. \A v \in Nodes : (Dead(v) => Dead(v)') /\ Dead(n)'
    BY <1>1, <1>2 DEF Dead
  <1>4. OnOrOut
    <2>1. term \in [Nodes -> 0..MaxTerm]
      BY <1>0 DEF Typed
    <2>2. \A v \in Nodes \ {n} : term[v] \in Nat /\ term'[v] = term[v]
      BY <1>1, <2>1, BoundsAssumption
    <2>3. \A v \in Nodes \ {n} : term'[v] >= term[v]
      BY <2>2
    <2> QED BY <1>1, <1>3, <2>3 DEF OnOrOut
  <1>5. ClientStep(d)
    BY <1>1 DEF ClientStep
  <1>6. Typed'
    <2>1. proc' \in [Nodes -> {"down", "joining", "awaiting", "serving"}]
      BY <1>0 DEF Typed
    <2>2. term' \in [Nodes -> 0..MaxTerm] /\ role' \in [Nodes -> {"follower", "leader"}]
          /\ commit' \in [Nodes -> Nat]
      BY <1>0, BoundsAssumption DEF Typed, Forget
    <2>3. log' \in [Nodes -> Seq(Entries)]
      <3>1. <<>> \in Seq(Entries)
        OBVIOUS
      <3> QED BY <1>0, <3>1 DEF Typed, Forget
    <2>4. match' \in [Nodes -> [Nodes -> Nat]]
      BY <1>0 DEF Typed, Forget, NoMatch
    <2> QED BY <1>0, <2>1, <2>2, <2>3, <2>4 DEF Typed
  <1>7. ProcInv(d)'
    <2>1. ~starts'[Boot] => \A L \in Logs(d)' : L = <<>>
      <3>1. \A L \in Logs(d)' : L = d \/ \E v \in Nodes : L = log'[v]
        BY DEF Logs
      <3>2. ~starts[Boot] => d = <<>> /\ \A v \in Nodes : log[v] = <<>>
        BY <1>0 DEF ProcInv, Logs
      <3> QED BY <1>1, <3>1, <3>2
    <2> QED BY <1>0, <1>1, <2>1 DEF ProcInv
  <1> QED BY <1>4, <1>5, <1>6, <1>7, OnOrOutKeeps

\* A crash keeps the invariant.
LEMMA CrashKeeps ==
    ASSUME NEW d, ClusterInv(d), NEW n \in Nodes, Crash(n)
    PROVE  ClusterInv(d)'
  <1>1. Typed
    BY DEF ClusterInv
  <1>2. crashes' \in 0..MaxCrashes
    BY <1>1, BoundsAssumption DEF Crash, Typed
  <1> QED BY <1>1, <1>2, ForgetKeeps DEF Crash, Typed, clientVars

\* A failed join keeps the invariant, the last one of a process included.
LEMMA JoinFailsKeeps ==
    ASSUME NEW d, ClusterInv(d), NEW n \in Nodes, JoinFails(n)
    PROVE  ClusterInv(d)'
  <1>0. Typed /\ ProcInv(d)
    BY DEF ClusterInv
  <1>1. /\ proc[n] \in {"joining", "awaiting"}
        /\ tries' = [tries EXCEPT ![n] = @ + 1]
        /\ UNCHANGED <<starts, writes, acked, crashes>>
        /\ tries'[n] = tries[n] + 1 /\ \A v \in Nodes \ {n} : tries'[v] = tries[v]
    BY <1>0 DEF JoinFails, clientVars, Typed
  <1>2. tries' \in [Nodes -> 0..JoinRetries]
    <2>1. tries[n] < JoinRetries /\ tries[n] \in Nat
      BY <1>0, <1>1, BoundsAssumption DEF ProcInv, Typed
    <2>2. tries[n] + 1 \in 0..JoinRetries
      BY <2>1, BoundsAssumption
    <2> QED BY <1>0, <1>1, <2>2 DEF Typed
  <1>3. CASE tries[n] + 1 < JoinRetries
    <2>1. /\ proc' = [proc EXCEPT ![n] = "joining"]
          /\ UNCHANGED <<term, role, log, commit, match>>
      BY <1>3 DEF JoinFails, raftVars
    <2>2. proc'[n] = "joining" /\ \A v \in Nodes \ {n} : proc'[v] = proc[v]
      BY <1>0, <2>1 DEF Typed
    <2>3. \A v \in Nodes : Dead(v) => Dead(v)'
      BY <1>1, <2>2 DEF Dead
    <2>4. Typed'
      BY <1>0, <1>1, <1>2, <2>1 DEF Typed
    <2>5. ProcInv(d)'
      <3>1. Logs(d)' = Logs(d)
        BY <2>1 DEF Logs
      <3>2. starts[n]
        BY <1>0, <1>1 DEF ProcInv
      <3> QED BY <1>0, <1>1, <1>3, <2>1, <2>2, <3>1, <3>2 DEF ProcInv
    <2> QED BY <1>1, <2>1, <2>2, <2>3, <2>4, <2>5, ProcKeeps
  <1>4. CASE ~(tries[n] + 1 < JoinRetries)
    <2>1. proc' = [proc EXCEPT ![n] = "down"] /\ Forget(n) /\ Alive(n)
      BY <1>1, <1>4 DEF JoinFails, Alive
    <2> QED BY <1>0, <1>1, <1>2, <2>1, ForgetKeeps DEF Typed
  <1> QED BY <1>3, <1>4

\* The configuration a leader goes by is decided once it is committed.
LEMMA CommittedConfig ==
    ASSUME NEW d, ClusterInv(d), NEW l \in Nodes, role[l] = "leader", ConfigAt(l) <= commit[l]
    PROVE  /\ log[l] # <<>> /\ commit[l] \in 1..Len(log[l]) /\ Safe(d, log[l], commit[l])
           /\ Members(l) = Conf(log[l], Len(log[l])) /\ Members(l) \in SUBSET Nodes
           /\ NoConfig(log[l], commit[l], Len(log[l]))
           /\ \A j \in 1..Len(log[l]) : log[l][j].kind = "config" =>
                  log[l][j].members \subseteq Members(l)
           /\ d # <<>> /\ Members(l) \subseteq Conf(d, Len(d))
  <1> DEFINE L == log[l]
             b == commit[l]
  <1> DEFINE c == ConfigAt(l)
  <1>0. LogsInv(d) /\ LeaderInv(d) /\ CommitInv(d) /\ Typed
    BY DEF ClusterInv
  <1>1. /\ L \in Logs(d) /\ Formed(L) /\ Len(L) \in Nat /\ b \in Nat
        /\ d \in Logs(d) /\ Formed(d) /\ Len(d) \in Nat /\ Match(L, d)
        /\ Has(L, Len(L), term[l])
    BY <1>0, DecidedIsLog DEF LogsInv, LeaderInv, Typed
  <1>2. L # <<>> /\ Len(L) \in 1..Len(L)
    BY <1>1, LogIsFormed DEF Has
  <1>3. Latest(L, Len(L), c) /\ Members(l) = Conf(L, Len(L)) /\ Members(l) \in SUBSET Nodes
    BY <1>1, <1>2, MembersIsConf
  <1>4. c <= b /\ c \in 1..Len(L) /\ c \in Nat /\ L[c].kind = "config"
    BY <1>1, <1>3 DEF Latest
  <1> HIDE DEF c
  <1>5. b > 0
    BY <1>1, <1>4
  <1>6. b \in 1..Len(L) /\ Safe(d, L, b) /\ Has(d, b, L[b].term)
    BY <1>0, <1>1, <1>5 DEF CommitInv
  <1>7. NoConfig(L, b, Len(L))
    BY <1>1, <1>3, <1>4, <1>6 DEF Latest, NoConfig
  <1>8. ASSUME NEW j \in 1..Len(L), L[j].kind = "config" PROVE L[j].members \subseteq Members(l)
    <2>1. j <= c
      BY <1>1, <1>3, <1>4, <1>8 DEF Latest
    <2>2. Members(l) = L[c].members
      BY <1>1, <1>3, LatestIsConf
    <2>3. L[j].members \subseteq L[c].members
      BY <1>1, <1>4, <1>8, <2>1 DEF Formed
    <2> QED BY <2>2, <2>3
  <1>9. d # <<>> /\ Members(l) \subseteq Conf(d, Len(d))
    <2>1. b \in 1..Len(d) /\ \A j \in 1..b : d[j] = L[j]
      BY <1>1, <1>6, HasBefore DEF Has
    <2>2. Conf(d, b) = Conf(L, b)
      BY <1>1, <1>6, <2>1, SameConf
    <2>3. Conf(L, Len(L)) = Conf(L, b)
      BY <1>1, <1>6, <1>7, ConfStays
    <2>4. Conf(d, b) \subseteq Conf(d, Len(d)) /\ d # <<>>
      <3>1. Len(d) \in b..Len(d) /\ d # <<>>
        BY <1>1, <2>1, LogIsFormed
      <3> QED BY <1>1, <2>1, <3>1, ConfGrows
    <2> QED BY <1>3, <2>2, <2>3, <2>4
  <1> QED BY <1>2, <1>3, <1>6, <1>7, <1>8, <1>9

\* A joiner that is confirmed is a voter of a committed configuration.
LEMMA JoinConfirmedKeeps ==
    ASSUME NEW d, ClusterInv(d), NEW n \in Nodes, JoinConfirmed(n)
    PROVE  ClusterInv(d)'
  <1>0. Typed /\ ProcInv(d)
    BY DEF ClusterInv
  <1>1. /\ proc[n] = "awaiting" /\ proc' = [proc EXCEPT ![n] = "serving"]
        /\ role[Boot] = "leader" /\ ConfigAt(Boot) <= commit[Boot] /\ n \in Members(Boot)
        /\ UNCHANGED <<starts, tries, term, role, log, commit, match, writes, acked, crashes>>
    BY DEF JoinConfirmed, BootLeads, raftVars, clientVars
  <1>2. proc'[n] = "serving" /\ \A v \in Nodes \ {n} : proc'[v] = proc[v]
    BY <1>0, <1>1 DEF Typed
  <1>3. d # <<>> /\ n \in Conf(d, Len(d))
    BY <1>1, CommittedConfig, BootAssumption
  <1>4. \A v \in Nodes : Dead(v) => Dead(v)'
    BY <1>1, <1>2 DEF Dead
  <1>5. Typed'
    BY <1>0, <1>1 DEF Typed
  <1>6. ProcInv(d)'
    <2>1. Logs(d)' = Logs(d)
      BY <1>1 DEF Logs
    <2>2. starts[n]
      BY <1>0, <1>1 DEF ProcInv
    <2> QED BY <1>0, <1>1, <1>2, <2>1, <2>2 DEF ProcInv
  <1> QED BY <1>1, <1>2, <1>3, <1>4, <1>5, <1>6, ProcKeeps

\* A leader has a log, which ends in its term, and its process runs.
LEMMA LeaderTerm ==
    ASSUME NEW d, ClusterInv(d), NEW l \in Nodes, role[l] = "leader"
    PROVE  /\ log[l] # <<>> /\ Len(log[l]) \in 1..Len(log[l]) /\ term[l] \in 1..MaxTerm
           /\ log[l][Len(log[l])].term = term[l] /\ proc[l] # "down" /\ starts[Boot]
  <1>0. LogsInv(d) /\ LeaderInv(d) /\ ProcInv(d)
    BY DEF ClusterInv
  <1>1. /\ Formed(log[l]) /\ Has(log[l], Len(log[l]), term[l]) /\ log[l] \in Logs(d)
    BY <1>0, DecidedIsLog DEF LeaderInv
  <1>2. /\ Len(log[l]) \in 1..Len(log[l]) /\ log[l] # <<>> /\ log[l][Len(log[l])] \in Entries
        /\ log[l][Len(log[l])].term = term[l]
    BY <1>1, LogIsFormed DEF Has
  <1>3. term[l] \in 1..MaxTerm
    BY <1>2 DEF Entries
  <1>4. proc[l] # "down" /\ starts[Boot]
    BY <1>0, <1>1, <1>2 DEF ProcInv
  <1> QED BY <1>2, <1>3, <1>4

\* A configuration is appended upon a committed entry of the leader's term, with the
\* configuration before it committed: that entry is its root.
LEMMA JoinAcceptedKeeps ==
    ASSUME NEW d, ClusterInv(d), NEW n \in Nodes, JoinAccepted(n)
    PROVE  ClusterInv(d)'
  <1> DEFINE L == log[Boot]
             b == commit[Boot]
             x == ConfigEntry(term[Boot], Members(Boot) \union {n})
  <1>0. LogsInv(d) /\ Typed /\ ProcInv(d) /\ Boot \in Nodes
    BY BootAssumption DEF ClusterInv
  <1>1. /\ proc[n] = "joining" /\ proc' = [proc EXCEPT ![n] = "awaiting"]
        /\ role[Boot] = "leader" /\ ConfigAt(Boot) <= b /\ L[b].term = term[Boot]
        /\ log' = [log EXCEPT ![Boot] = Append(@, x)]
        /\ UNCHANGED <<starts, tries, term, role, commit, match, writes, acked, crashes>>
    BY DEF JoinAccepted, BootLeads, clientVars
  <1>2. /\ L # <<>> /\ b \in 1..Len(L) /\ Safe(d, L, b)
        /\ Members(Boot) = Conf(L, Len(L)) /\ Members(Boot) \in SUBSET Nodes
        /\ NoConfig(L, b, Len(L))
        /\ \A j \in 1..Len(L) : L[j].kind = "config" => L[j].members \subseteq Members(Boot)
    BY <1>0, <1>1, CommittedConfig
  <1>3. /\ L \in Seq(Entries) /\ Formed(L) /\ Len(L) \in Nat /\ Len(L) \in 1..Len(L)
        /\ term[Boot] \in 1..MaxTerm
    BY <1>0, <1>1, DecidedIsLog, LeaderTerm
  <1>4. x \in Entries /\ x.term = term[Boot] /\ x.kind = "config" /\ x.members = Members(Boot) \union {n}
    BY <1>2, <1>3, BoundsAssumption DEF ConfigEntry, Entries
  <1>5. PICK i \in 1..b : L[i].term = term[Boot] /\ NoConfig(L, i, b) /\ Exact(d, L, i)
    <2>1. CASE Exact(d, L, b)
      <3>1. b \in 1..b /\ NoConfig(L, b, b)
        BY <1>2, <1>3 DEF NoConfig
      <3> QED BY <1>1, <2>1, <3>1
    <2>2. CASE ~Exact(d, L, b)
      <3>1. PICK h \in 1..b - 1 : L[h].term = L[b].term /\ NoConfig(L, h, b) /\ Exact(d, L, h)
        BY <1>2, <2>2 DEF Safe
      <3>2. h \in 1..b
        BY <1>2, <1>3
      <3> QED BY <1>1, <3>1, <3>2
    <2> QED BY <2>1, <2>2
  <1>6. /\ i \in 1..Len(L) /\ i \in Nat /\ i <= b /\ Len(L) \in i..Len(L)
        /\ NoConfig(L, i, Len(L))
    BY <1>2, <1>3, <1>5 DEF NoConfig
  <1>7. PICK M : M = Append(L, x)
    OBVIOUS
  <1>8. Len(M) = Len(L) + 1 /\ M[Len(L) + 1] = x /\ \A j \in 1..Len(L) : M[j] = L[j]
    BY <1>3, <1>7, AppendedLog
  <1> HIDE DEF x
  <1>9. Rooted(M, Len(L) + 1, i)
    <2>1. i \in 1..Len(M) /\ \A j \in 1..i : M[j] = L[j]
      BY <1>3, <1>6, <1>8
    <2>2. Conf(M, i) = Conf(L, i)
      BY <1>3, <1>6, <2>1, SameConf
    <2>3. Conf(L, i) = Members(Boot)
      BY <1>2, <1>3, <1>6, ConfStays
    <2>4. NoConfig(M, i, (Len(L) + 1) - 1)
      BY <1>3, <1>6, <1>8 DEF NoConfig
    <2>5. M[i].term = M[Len(L) + 1].term
      BY <1>4, <1>5, <1>8, <2>1, <1>6
    <2> QED BY <1>4, <1>8, <2>2, <2>3, <2>4, <2>5 DEF Rooted
  <1>10. /\ proc'[n] = "awaiting" /\ \A v \in Nodes \ {n} : proc'[v] = proc[v]
         /\ log'[Boot] = M /\ \A v \in Nodes \ {Boot} : log'[v] = log[v]
    BY <1>0, <1>1, <1>7 DEF Typed
  <1>11. Typed'
    <2>1. log' \in [Nodes -> Seq(Entries)]
      BY <1>0, <1>1, <1>4 DEF Typed
    <2> QED BY <1>0, <1>1, <2>1 DEF Typed
  <1>12. ProcInv(d)'
    <2>1. starts[Boot] /\ proc[Boot] # "down"
      BY <1>0, <1>1, LeaderTerm
    <2>2. starts[n]
      BY <1>0, <1>1 DEF ProcInv
    <2>3. \A v \in Nodes : proc'[v] = "down" => v # Boot /\ v # n
      BY <1>10, <2>1
    <2> QED BY <1>0, <1>1, <1>10, <2>1, <2>2, <2>3 DEF ProcInv
  <1>13. \A v \in Nodes : (proc[v] = "down" <=> proc'[v] = "down")
                          /\ (proc'[v] = "serving" => proc[v] = "serving")
    BY <1>1, <1>10
  <1>14. \E k \in 1..Len(L) : /\ Rooted(Append(L, x), Len(L) + 1, k)
                              /\ Exact(d, L, k) /\ k <= b
    BY <1>5, <1>6, <1>7, <1>9
  <1>15. \A j \in 1..Len(L) : L[j].kind = "config" => L[j].members \subseteq x.members
    BY <1>2, <1>4
  <1>16. x.kind = "write" => x.write > 0
    BY <1>4
  <1> QED BY <1>0, <1>1, <1>4, <1>11, <1>12, <1>13, <1>14, <1>15, <1>16, LeaderAppends

\* A write that is appended keeps the invariant.
LEMMA WriteKeeps ==
    ASSUME NEW d, ClusterInv(d), NEW l \in Nodes, Write(l)
    PROVE  ClusterInv(d)'
  <1> DEFINE x == WriteEntry(term[l], writes + 1)
  <1>0. LogsInv(d) /\ Typed /\ ProcInv(d)
    BY DEF ClusterInv
  <1>1. /\ proc[l] = "serving" /\ role[l] = "leader" /\ writes < MaxWrites /\ writes' = writes + 1
        /\ log' = [log EXCEPT ![l] = Append(@, x)]
        /\ UNCHANGED <<proc, starts, tries, term, role, commit, match, acked, crashes>>
    BY DEF Write
  <1>2. term[l] \in 1..MaxTerm /\ starts[Boot] /\ proc[l] # "down"
    BY <1>1, LeaderTerm
  <1>3. writes \in Nat /\ writes + 1 \in 0..MaxWrites /\ writes + 1 > 0
    BY <1>0, <1>1, BoundsAssumption DEF Typed
  <1>4. x \in Entries /\ x.term = term[l] /\ x.kind = "write" /\ x.write > 0
    BY <1>2, <1>3 DEF WriteEntry, Entries
  <1> HIDE DEF x
  <1>5. \A v \in Nodes \ {l} : log'[v] = log[v]
    BY <1>0, <1>1 DEF Typed
  <1>6. Typed'
    <2>1. log' \in [Nodes -> Seq(Entries)]
      BY <1>0, <1>1, <1>4 DEF Typed
    <2> QED BY <1>0, <1>1, <1>3, <2>1 DEF Typed
  <1>7. ProcInv(d)'
    BY <1>0, <1>1, <1>2, <1>5 DEF ProcInv
  <1> QED BY <1>1, <1>4, <1>6, <1>7, LeaderAppends

\* A leader that steps down keeps the invariant.
LEMMA StepDownKeeps ==
    ASSUME NEW d, ClusterInv(d), NEW l \in Nodes, NEW f \in Nodes, StepDown(l, f)
    PROVE  ClusterInv(d)'
  <1>0. Typed /\ ProcInv(d)
    BY DEF ClusterInv
  <1>1. /\ role[l] = "leader" /\ term[f] > term[l] /\ Alive(l)
        /\ term' = [term EXCEPT ![l] = term[f]]
        /\ role' = [role EXCEPT ![l] = "follower"]
        /\ UNCHANGED <<proc, starts, tries, log, commit, match, writes, acked, crashes>>
    BY DEF StepDown, clientVars
  <1>2. /\ term'[l] = term[f] /\ role'[l] = "follower"
        /\ \A v \in Nodes \ {l} : term'[v] = term[v] /\ role'[v] = role[v]
        /\ \A v \in Nodes : term[v] \in Nat
    BY <1>0, <1>1, BoundsAssumption DEF Typed
  <1>3. \A v \in Nodes : term'[v] >= term[v]
    BY <1>1, <1>2
  <1>4. OnOrOut
    BY <1>1, <1>2, <1>3 DEF OnOrOut, Dead
  <1>5. ClientStep(d)
    BY <1>1 DEF ClientStep
  <1>6. Typed'
    <2>1. term' \in [Nodes -> 0..MaxTerm] /\ role' \in [Nodes -> {"follower", "leader"}]
      BY <1>0, <1>1 DEF Typed
    <2> QED BY <1>0, <1>1, <2>1 DEF Typed
  <1>7. ProcInv(d)'
    <2>1. Logs(d)' = Logs(d)
      BY <1>1 DEF Logs
    <2> QED BY <1>0, <1>1, <1>2, <2>1 DEF ProcInv, Alive
  <1> QED BY <1>4, <1>5, <1>6, <1>7, OnOrOutKeeps

-----------------------------------------------------------------------------

\* Initially there is nothing to decide.
LEMMA ClusterStarts ==
    Init => ClusterInv(<<>>)
  <1> SUFFICES ASSUME Init PROVE ClusterInv(<<>>)
    OBVIOUS
  <1>1. \A L \in Logs(<<>>) : L = <<>>
    BY DEF Init, Logs
  <1>2. Typed
    <2>1. <<>> \in Seq(Entries)
      OBVIOUS
    <2> QED BY <2>1, BoundsAssumption DEF Init, Typed, NoMatch
  <1>3. LogsInv(<<>>)
    <2>1. Formed(<<>>) /\ Match(<<>>, <<>>)
      BY DEF Formed, Match
    <2> QED BY <1>1, <2>1 DEF LogsInv
  <1>4. \A v \in Nodes : log[v] = <<>> /\ role[v] # "leader" /\ commit[v] = 0 /\ proc[v] = "down"
    BY DEF Init
  <1>5. ProcInv(<<>>)
    BY <1>1, BootAssumption DEF Init, ProcInv
  <1>6. TermInv /\ LeaderInv(<<>>) /\ MatchInv
    BY <1>4 DEF TermInv, LeaderInv, MatchInv
  <1>7. VoteInv(<<>>) /\ ConfigInv(<<>>)
    BY <1>1 DEF VoteInv, ConfigInv
  <1>8. CommitInv(<<>>) /\ ClientInv(<<>>)
    BY <1>4 DEF Init, CommitInv, ClientInv
  <1> QED BY <1>2, <1>3, <1>5, <1>6, <1>7, <1>8 DEF ClusterInv

\* Every step keeps the invariant, for the decided log of its end.
LEMMA ClusterStep ==
    ASSUME NEW d, ClusterInv(d), Restartable = {}, [Next]_vars
    PROVE  \E e : ClusterInv(e)'
  <1>1. CASE StartBoot
    BY <1>1, StartBootKeeps
  <1>2. ASSUME NEW n \in Nodes, StartJoiner(n) PROVE ClusterInv(d)'
    BY <1>2, StartJoinerKeeps
  <1>3. ASSUME NEW n \in Nodes, Crash(n) PROVE ClusterInv(d)'
    BY <1>3, CrashKeeps
  <1>4. ASSUME NEW n \in Nodes, Write(n) PROVE ClusterInv(d)'
    BY <1>4, WriteKeeps
  <1>5. ASSUME NEW n \in Nodes, JoinAccepted(n) PROVE ClusterInv(d)'
    BY <1>5, JoinAcceptedKeeps
  <1>6. ASSUME NEW n \in Nodes, JoinConfirmed(n) PROVE ClusterInv(d)'
    BY <1>6, JoinConfirmedKeeps
  <1>7. ASSUME NEW n \in Nodes, JoinFails(n) PROVE ClusterInv(d)'
    BY <1>7, JoinFailsKeeps
  <1>8. ASSUME NEW n \in Nodes, NEW t \in 1..MaxTerm, NEW Q \in SUBSET Nodes, Elect(n, t, Q)
        PROVE  ClusterInv(d)'
    BY <1>8, ElectKeeps
  <1>9. ASSUME NEW l \in Nodes, NEW f \in Nodes, Replicate(l, f) PROVE ClusterInv(d)'
    BY <1>9, ReplicateKeeps
  <1>10. ASSUME NEW l \in Nodes, NEW f \in Nodes, StepDown(l, f) PROVE ClusterInv(d)'
    BY <1>10, StepDownKeeps
  <1>11. ASSUME NEW l \in Nodes, NEW i, AdvanceCommit(l, i) PROVE \E e : ClusterInv(e)'
    BY <1>11, AdvanceKeeps
  <1>12. CASE UNCHANGED vars
    <2>1. /\ UNCHANGED <<term, role, log, commit, match, acked>>
          /\ UNCHANGED <<proc, starts, tries, writes, crashes>>
      BY <1>12 DEF vars
    <2>2. Typed'
      BY <2>1 DEF ClusterInv, Typed
    <2>3. Logs(d)' = Logs(d)
      BY <2>1 DEF Logs
    <2>4. ProcInv(d)'
      BY <2>1, <2>3 DEF ClusterInv, ProcInv
    <2>5. \A v \in Nodes : Dead(v) => Dead(v)'
      BY <2>1 DEF Dead
    <2>6. ClusterInv(d)'
      BY <2>1, <2>2, <2>4, <2>5, ProcKeeps
    <2> QED BY <2>6
  <1> QED BY <1>1, <1>2, <1>3, <1>4, <1>5, <1>6, <1>7, <1>8, <1>9, <1>10, <1>11, <1>12 DEF Next

\* The invariant holds all the time, for one decided log after the other.
LEMMA ClusterAlways ==
    ASSUME Restartable = {}
    PROVE  Spec => [](\E d : ClusterInv(d))
  <1>1. Init => \E d : ClusterInv(d)
    BY ClusterStarts
  <1>2. (\E d : ClusterInv(d)) /\ [Next]_vars => (\E d : ClusterInv(d))'
    BY ClusterStep
  <1> QED BY <1>1, <1>2, PTL DEF Spec

\* The types of the cluster's variables; in particular no node's commit index is
\* beyond its log.
THEOREM ClusterTypesHold ==
    ASSUME Restartable = {}
    PROVE  Spec => []TypeOK
  <1>1. ASSUME NEW d, ClusterInv(d) PROVE TypeOK
    <2>1. Typed /\ CommitInv(d) /\ LogsInv(d) /\ ClientInv(d)
      BY <1>1 DEF ClusterInv
    <2>2. \A n \in Nodes : commit[n] <= Len(log[n])
      <3>1. \A n \in Nodes : commit[n] \in Nat /\ Len(log[n]) \in Nat
        BY <2>1, DecidedIsLog DEF Typed
      <3> QED BY <2>1, <3>1 DEF CommitInv
    <2> QED BY <2>1, <2>2 DEF Typed, TypeOK, ClientInv
  <1>2. (\E d : ClusterInv(d)) => TypeOK
    BY <1>1
  <1> QED BY <1>2, ClusterAlways, PTL

\* The minimum of two numbers is at most each.
LEMMA MinBounds ==
    ASSUME NEW a \in Nat, NEW b \in Nat
    PROVE  Min({a, b}) <= a /\ Min({a, b}) <= b /\ Min({a, b}) \in Nat
  <1>1. CASE a <= b
    BY <1>1, MaxOfTwo
  <1>2. CASE b <= a
    <2>1. {a, b} = {b, a}
      OBVIOUS
    <2>2. Min({b, a}) = b
      BY <1>2, MaxOfTwo
    <2> QED BY <1>2, <2>1, <2>2
  <1> QED BY <1>1, <1>2

\* Two nodes never disagree on an entry both have applied.
THEOREM ConsistentDataHolds ==
    ASSUME Restartable = {}
    PROVE  Spec => []ConsistentData
  <1>1. ASSUME NEW d, ClusterInv(d) PROVE ConsistentData
    <2> SUFFICES ASSUME NEW n \in Nodes, NEW m \in Nodes, NEW i \in 1..Min({commit[n], commit[m]})
                 PROVE  log[n][i] = log[m][i]
      BY DEF ConsistentData
    <2>1. LogsInv(d) /\ CommitInv(d) /\ Typed
      BY <1>1 DEF ClusterInv
    <2>2. commit[n] \in Nat /\ commit[m] \in Nat
      BY <2>1 DEF Typed
    <2>3. i \in 1..commit[n] /\ i \in 1..commit[m]
      BY <2>2, MinBounds
    <2>4. ASSUME NEW v \in Nodes, i \in 1..commit[v], commit[v] \in Nat PROVE log[v][i] = d[i]
      <3>1. /\ log[v] \in Logs(d) /\ d \in Logs(d) /\ Formed(log[v]) /\ Formed(d)
            /\ Match(log[v], d) /\ Len(log[v]) \in Nat
        BY <2>1, DecidedIsLog DEF LogsInv
      <3>2. commit[v] \in 1..Len(log[v]) /\ Has(d, commit[v], log[v][commit[v]].term)
        BY <2>1, <2>4, <3>1 DEF CommitInv
      <3> QED BY <2>4, <3>1, <3>2, HasBefore
    <2> QED BY <2>2, <2>3, <2>4
  <1>2. (\E d : ClusterInv(d)) => ConsistentData
    BY <1>1
  <1> QED BY <1>2, ClusterAlways, PTL

\* A leader that can have anything committed has all that was decided.
LEMMA CanCommitHasDecided ==
    ASSUME NEW d, ClusterInv(d), NEW l \in Nodes, CanCommit(l), d # <<>>
    PROVE  /\ Len(d) \in 1..Len(d) /\ Len(d) \in 1..Len(log[l]) /\ Formed(d) /\ Formed(log[l])
           /\ \A j \in 1..Len(d) : log[l][j] = d[j]
           /\ Len(log[l]) \in Nat /\ log[l] # <<>> /\ Members(l) = Conf(log[l], Len(log[l]))
  <1>0. /\ LogsInv(d) /\ ConfigInv(d) /\ CommitInv(d) /\ LeaderInv(d) /\ TermInv /\ Typed
    BY DEF ClusterInv
  <1>1. /\ d \in Logs(d) /\ log[l] \in Logs(d) /\ Formed(d) /\ Formed(log[l]) /\ Match(d, log[l])
        /\ Len(d) \in 1..Len(d) /\ Len(log[l]) \in Nat
    BY <1>0, DecidedIsLog DEF LogsInv
  <1>2. /\ role[l] = "leader"
        /\ \E Q \in SUBSET Members(l) :
              IsQuorum(Q, Members(l)) /\ \A v \in Q : Alive(v) /\ term[v] <= term[l]
    BY DEF CanCommit
  <1>3. PICK Q \in SUBSET Members(l) :
            IsQuorum(Q, Members(l)) /\ \A v \in Q : Alive(v) /\ term[v] <= term[l]
    BY <1>2
  <1>4. log[l] # <<>>
    BY <1>2, LeaderTerm
  <1>5. Members(l) \in SUBSET Nodes /\ Members(l) = Conf(log[l], Len(log[l]))
    BY <1>1, <1>4, MembersIsConf
  <1>6. Backed(d, l, Q)
    <2> SUFFICES ASSUME NEW v \in Q, NEW M \in Logs(d), NEW i \in 1..Len(M),
                        Complete(d, M, i), Has(log[v], i, M[i].term)
                 PROVE  Has(log[l], i, M[i].term)
      BY <1>3 DEF Backed
    <2>1. v \in Nodes /\ term[v] <= term[l]
      BY <1>3, <1>5
    <2>2. i \in 1..Len(log[v]) /\ log[v][i].term = M[i].term /\ Complete(d, log[v], i)
      BY DEF Has, Complete
    <2>3. Has(log[l], i, log[v][i].term)
      BY <1>0, <1>2, <2>1, <2>2, LeaderHasComplete
    <2> QED BY <2>2, <2>3
  <1>7. Has(log[l], Len(d), d[Len(d)].term)
    BY <1>0, <1>1, <1>6, BackedHasSafe DEF CommitInv
  <1>8. Len(d) \in 1..Len(log[l]) /\ \A j \in 1..Len(d) : log[l][j] = d[j]
    BY <1>1, <1>7, HasBefore DEF Has
  <1> QED BY <1>1, <1>4, <1>5, <1>8

\* A write that was answered with "ok" is in the log of every leader that can still
\* have anything committed.
THEOREM AckedWritesSurviveHolds ==
    ASSUME Restartable = {}
    PROVE  Spec => []AckedWritesSurvive
  <1>1. ASSUME NEW d, ClusterInv(d) PROVE AckedWritesSurvive
    <2> SUFFICES ASSUME NEW l \in Nodes, CanCommit(l), NEW w \in acked
                 PROVE  \E i \in 1..Len(log[l]) : log[l][i].write = w
      BY DEF AckedWritesSurvive
    <2>1. PICK j \in 1..Len(d) : d[j].write = w
      BY <1>1 DEF ClusterInv, ClientInv
    <2>2. d # <<>>
      OBVIOUS
    <2>3. /\ Len(d) \in 1..Len(d) /\ Len(d) \in 1..Len(log[l]) /\ Len(log[l]) \in Nat
          /\ \A k \in 1..Len(d) : log[l][k] = d[k]
      BY <1>1, <2>2, CanCommitHasDecided
    <2> QED BY <2>1, <2>3
  <1>2. (\E d : ClusterInv(d)) => AckedWritesSurvive
    BY <1>1
  <1> QED BY <1>2, ClusterAlways, PTL

\* A node that serves HTTP is a voter of every such leader.
THEOREM ServingIsMemberHolds ==
    ASSUME Restartable = {}
    PROVE  Spec => []ServingIsMember
  <1>1. ASSUME NEW d, ClusterInv(d) PROVE ServingIsMember
    <2> SUFFICES ASSUME NEW l \in Nodes, CanCommit(l), NEW n \in Nodes, proc[n] = "serving"
                 PROVE  n \in Members(l)
      BY DEF ServingIsMember
    <2> DEFINE L == log[l]
    <2>1. /\ Formed(L) /\ L # <<>> /\ Len(L) \in Nat /\ Len(L) \in 1..Len(L)
          /\ Members(l) = Conf(L, Len(L))
      <3>1. role[l] = "leader"
        BY DEF CanCommit
      <3>2. Formed(L) /\ L # <<>>
        BY <1>1, <3>1, LeaderTerm, DecidedIsLog DEF ClusterInv
      <3> QED BY <3>2, MembersIsConf, LogIsFormed
    <2>2. CASE n = Boot
      <3>1. 1 \in 1..Len(L) /\ L[1] = ConfigEntry(1, {Boot}) /\ Len(L) \in 1..Len(L)
        BY <2>1, LogIsFormed
      <3>2. Latest(L, 1, 1)
        BY <3>1 DEF Latest, ConfigEntry
      <3>3. Conf(L, 1) = {Boot}
        BY <3>1, <3>2, LatestIsConf DEF ConfigEntry
      <3>4. Conf(L, 1) \subseteq Conf(L, Len(L))
        BY <2>1, <3>1, ConfGrows
      <3> QED BY <2>1, <2>2, <3>3, <3>4
    <2>3. CASE n # Boot
      <3>1. d # <<>> /\ n \in Conf(d, Len(d))
        BY <1>1, <2>3 DEF ClusterInv, ClientInv
      <3>2. /\ Len(d) \in 1..Len(d) /\ Len(d) \in 1..Len(L) /\ Formed(d)
            /\ \A j \in 1..Len(d) : L[j] = d[j]
        BY <1>1, <3>1, CanCommitHasDecided
      <3>3. Conf(L, Len(d)) = Conf(d, Len(d))
        BY <3>2, SameConf
      <3>4. Len(L) \in Len(d)..Len(L)
        BY <2>1, <3>2
      <3>5. Conf(L, Len(d)) \subseteq Conf(L, Len(L))
        BY <2>1, <3>2, <3>4, ConfGrows
      <3> QED BY <2>1, <3>1, <3>3, <3>5
    <2> QED BY <2>2, <2>3
  <1>2. (\E d : ClusterInv(d)) => ServingIsMember
    BY <1>1
  <1> QED BY <1>2, ClusterAlways, PTL

=============================================================================
