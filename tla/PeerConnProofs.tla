--------------------------- MODULE PeerConnProofs ---------------------------
(***************************************************************************)
(* For every number of senders and connections: one death is hidden from   *)
(* the callers, what the pool leaks is bounded by what it lost, and Close  *)
(* leaves nothing else alive.                                              *)
(***************************************************************************)
EXTENDS PeerConn, TLAPS, FiniteSetTheorems

Dead == {c \in Conns : status[c] = "dead"}

\* Connections are dialed in order, by the holder of p.mu alone, and used by
\* senders that were given them.
PoolInv ==
    /\ \A c \in Conns : status[c] = "undialed" <=> c > dialed
    /\ conn # NoConn => conn <= dialed
    /\ \A s \in Senders : pc[s] = "dial" <=> mu = s
    /\ mu # NoSender => conn = NoConn
    /\ \A s \in Senders : pc[s] \in {"open", "reset"} => mine[s] \in 1..dialed

\* A connection is lost by dying, which is counted, or by the transport's Close;
\* without a fault a sender resets only because of a lost connection.
LossInv ==
    /\ deaths = Cardinality(Dead)
    /\ cpc # "closed" => Lost = Dead
    /\ ~faults => \A s \in Senders : pc[s] = "reset" => mine[s] \in Lost

IInv == TypeOK /\ PoolInv /\ LossInv

\* While there has been at most one death, whoever makes a second attempt does
\* so because of that death, and has a live connection.
MaskInv ==
    deaths <= 1 /\ ~faults /\ cpc = "open" =>
        \A s \in Senders :
            /\ outcome[s] # "error"
            /\ pc[s] = "reset" => deaths = 1
            /\ pc[s] \in {"peer", "get", "dial", "open"} /\ try[s] = 2 => deaths = 1
            /\ pc[s] = "open" /\ try[s] = 2 => mine[s] \notin Lost

\* The senders that are going to drop whatever is cached when they get to it.
Threats == {s \in Senders : pc[s] \in {"open", "reset"} /\ mine[s] \in Lost}

\* If every sender is one, the first of them finds nothing alive to drop.
Slack == IF ~Alive(conn) /\ Threats = Senders THEN 1 ELSE 0

\* The live connections that are not cached, and those that may join them.
LeakInv == ~faults =>
    Cardinality(Live \ {conn}) + Cardinality(Threats) <= Leaks + Slack

-----------------------------------------------------------------------------
(* Counting.                                                               *)

\* Every set of connections is finite and no larger than their number.
LEMMA ConnsAreFinite ==
    ASSUME NEW S \in SUBSET Conns
    PROVE  IsFiniteSet(S) /\ Cardinality(S) \in Nat /\ Cardinality(S) <= MaxConns
<1>1. IsFiniteSet(Conns) /\ Cardinality(Conns) = MaxConns
  BY FS_Interval, MaxConnsAssumption DEF Conns
<1> QED
  BY <1>1, FS_Subset, FS_CardinalityType

\* There are no more threats than senders.
ThreatCounts ==
    /\ IsFiniteSet(Threats) /\ Cardinality(Threats) \in Nat
    /\ Cardinality(Senders) \in Nat \ {0}
    /\ Cardinality(Threats) <= Cardinality(Senders)
    /\ Cardinality(Threats) = Cardinality(Senders) <=> Threats = Senders

LEMMA ThreatsAreFinite == ThreatCounts
<1>1. Threats \in SUBSET Senders
  BY DEF Threats
<1>2. Cardinality(Senders) \in Nat /\ Cardinality(Senders) # 0
  BY SendersAssumption, FS_CardinalityType, FS_EmptySet
<1>3. IsFiniteSet(Threats) /\ Cardinality(Threats) <= Cardinality(Senders)
      /\ (Cardinality(Senders) = Cardinality(Threats) => Senders = Threats)
  BY <1>1, SendersAssumption, FS_Subset
<1>4. Cardinality(Threats) \in Nat
  BY <1>3, FS_CardinalityType
<1> QED
  BY <1>2, <1>3, <1>4 DEF ThreatCounts

\* The connections the invariants speak of are connections.
LEMMA KindsOfConns ==
    /\ Live \in SUBSET Conns /\ Lost \in SUBSET Conns /\ Dead \in SUBSET Conns
    /\ Live \ {conn} \in SUBSET Conns
  BY DEF Live, Lost, Dead

-----------------------------------------------------------------------------

LEMMA InitIInv == Init => IInv
<1> SUFFICES ASSUME Init PROVE IInv
    OBVIOUS
<1>1. Dead = {} /\ Lost = {}
  BY DEF Init, Dead, Lost, Conns
<1>2. Cardinality({}) = 0
  BY FS_EmptySet
<1>3. TypeOK
  <2>1. 0 \in 0..MaxConns
    BY MaxConnsAssumption
  <2> QED
    BY <2>1 DEF Init, TypeOK, NoConn
<1>4. PoolInv
  BY SendersAssumption, MaxConnsAssumption DEF Init, PoolInv, NoConn, Conns, NoSender
<1>5. LossInv
  BY <1>1, <1>2 DEF Init, LossInv
<1> QED
  BY <1>3, <1>4, <1>5 DEF IInv

\* A lost connection stays lost.
LEMMA LostStays ==
    ASSUME IInv, [Next]_vars
    PROVE  Lost \subseteq Lost'
<1> USE DEF Lost, IInv, TypeOK, history, senderVars
<1>1. ASSUME NEW s \in Senders, DialSucceeds(s)
      PROVE  Lost \subseteq Lost'
  BY <1>1 DEF DialSucceeds, PoolInv
<1>2. ASSUME NEW c \in Conns, ConnectionDies(c)
      PROVE  Lost \subseteq Lost'
  BY <1>2 DEF ConnectionDies
<1>3. CASE ClosePeer
  BY <1>3 DEF ClosePeer, Alive
<1>4. CASE UNCHANGED status
  BY <1>4
<1> QED
  BY <1>1, <1>2, <1>3, <1>4
     DEF Next, SenderStep, vars, Begin, GetPeerConn, GetExisting, BeginDial, DialFails,
         OpenSucceeds, OpenFails, Reset, CloseBegins

\* Every step keeps the invariant: a sender's, a death, and Close.
LEMMA NextIInv == IInv /\ [Next]_vars => IInv'
<1> SUFFICES ASSUME IInv, [Next]_vars
             PROVE  IInv'
    OBVIOUS
<1> USE DEF history, senderVars
<1>0. TypeOK /\ PoolInv /\ LossInv
  BY DEF IInv
<1>1. ASSUME NEW s \in Senders, Begin(s) \/ SenderStep(s), ~DialSucceeds(s)
      PROVE  IInv'
  <2>0. UNCHANGED <<status, dialed, deaths, cpc, peersMu>>
    BY <1>1 DEF Begin, SenderStep, GetPeerConn, GetExisting, BeginDial, DialFails,
                OpenSucceeds, OpenFails, Reset
  <2>1. CASE Begin(s) \/ GetPeerConn(s)
    <3>1. TypeOK'
      BY <1>0, <2>1 DEF Begin, GetPeerConn, Goto, TypeOK
    <3>2. PoolInv'
      BY <1>0, <2>1 DEF Begin, GetPeerConn, Goto, TypeOK, PoolInv
    <3>3. LossInv'
      BY <1>0, <2>1 DEF Begin, GetPeerConn, Goto, TypeOK, LossInv, Dead, Lost
    <3> QED
      BY <3>1, <3>2, <3>3 DEF IInv
  <2>2. CASE GetExisting(s)
    <3>1. TypeOK'
      BY <1>0, <2>2 DEF GetExisting, Goto, TypeOK
    <3>2. PoolInv'
      BY <1>0, <2>2 DEF GetExisting, Goto, TypeOK, PoolInv, Alive, Conns, NoConn
    <3>3. LossInv'
      BY <1>0, <2>2 DEF GetExisting, Goto, TypeOK, LossInv, Dead, Lost
    <3> QED
      BY <3>1, <3>2, <3>3 DEF IInv
  <2>3. CASE BeginDial(s)
    <3>1. TypeOK'
      BY <1>0, <2>3 DEF BeginDial, Goto, TypeOK
    <3>2. PoolInv'
      BY <1>0, <2>3, SendersAssumption DEF BeginDial, Goto, TypeOK, PoolInv, NoSender
    <3>3. LossInv'
      BY <1>0, <2>3 DEF BeginDial, Goto, TypeOK, LossInv, Dead, Lost
    <3> QED
      BY <3>1, <3>2, <3>3 DEF IInv
  <2>4. CASE DialFails(s)
    <3>1. TypeOK'
      BY <1>0, <2>4 DEF DialFails, Returns, Goto, TypeOK
    <3>2. PoolInv'
      BY <1>0, <2>4, SendersAssumption DEF DialFails, Returns, Goto, TypeOK, PoolInv, NoSender
    <3>3. LossInv'
      BY <1>0, <2>4 DEF DialFails, Returns, Goto, TypeOK, LossInv, Dead, Lost
    <3> QED
      BY <3>1, <3>2, <3>3 DEF IInv
  <2>5. CASE OpenSucceeds(s)
    <3>1. TypeOK'
      BY <1>0, <2>5 DEF OpenSucceeds, Returns, Goto, TypeOK
    <3>2. PoolInv'
      BY <1>0, <2>5 DEF OpenSucceeds, Returns, Goto, TypeOK, PoolInv
    <3>3. LossInv'
      BY <1>0, <2>5 DEF OpenSucceeds, Returns, Goto, TypeOK, LossInv, Dead, Lost
    <3> QED
      BY <3>1, <3>2, <3>3 DEF IInv
  <2>6. CASE OpenFails(s)
    <3>1. TypeOK'
      BY <1>0, <2>6 DEF OpenFails, Returns, Goto, TypeOK
    <3>2. PoolInv'
      BY <1>0, <2>6 DEF OpenFails, Returns, Goto, TypeOK, PoolInv
    <3>3. mine[s] \in 1..dialed /\ mine[s] \in Conns /\ (~Alive(mine[s]) => mine[s] \in Lost)
      BY <1>0, <2>6 DEF OpenFails, TypeOK, PoolInv, Lost, Alive, Conns, NoConn
    <3>4. LossInv'
      BY <1>0, <2>6, <3>3 DEF OpenFails, Returns, Goto, TypeOK, LossInv, Dead, Lost
    <3> QED
      BY <3>1, <3>2, <3>4 DEF IInv
  <2>7. CASE Reset(s)
    <3>1. TypeOK'
      BY <1>0, <2>7 DEF Reset, Goto, TypeOK
    <3>2. PoolInv'
      BY <1>0, <2>7 DEF Reset, Goto, TypeOK, PoolInv
    <3>3. LossInv'
      BY <1>0, <2>7 DEF Reset, Goto, TypeOK, LossInv, Dead, Lost
    <3> QED
      BY <3>1, <3>2, <3>3 DEF IInv
  <2> QED
    BY <1>1, <2>1, <2>2, <2>3, <2>4, <2>5, <2>6, <2>7 DEF SenderStep
<1>2. ASSUME NEW s \in Senders, DialSucceeds(s)
      PROVE  IInv'
  <2>0. dialed + 1 \in Conns /\ dialed \in Nat /\ status[dialed + 1] = "undialed"
    BY <1>0, <1>2, MaxConnsAssumption DEF DialSucceeds, TypeOK, PoolInv, Conns
  <2>1. TypeOK'
    BY <1>0, <1>2, <2>0, MaxConnsAssumption DEF DialSucceeds, Goto, TypeOK
  <2>2. PoolInv'
    BY <1>0, <1>2, <2>0, SendersAssumption, MaxConnsAssumption
       DEF DialSucceeds, Goto, TypeOK, PoolInv, NoSender, NoConn, Conns
  <2>3. Dead' = Dead /\ Lost' = Lost
    BY <1>0, <1>2, <2>0 DEF DialSucceeds, TypeOK, Dead, Lost
  <2>4. LossInv'
    BY <1>0, <1>2, <2>3 DEF DialSucceeds, Goto, TypeOK, LossInv
  <2> QED
    BY <2>1, <2>2, <2>4 DEF IInv
<1>3. ASSUME NEW c \in Conns, ConnectionDies(c)
      PROVE  IInv'
  <2>1. Dead' = Dead \union {c} /\ Lost' = Lost \union {c} /\ c \notin Dead
    BY <1>0, <1>3 DEF ConnectionDies, TypeOK, Dead, Lost
  <2>2. Cardinality(Dead') = Cardinality(Dead) + 1
    BY <2>1, KindsOfConns, ConnsAreFinite, FS_AddElement
  <2>3. Cardinality(Dead') \in Nat /\ Cardinality(Dead') <= MaxConns
    <3>1. Dead' \in SUBSET Conns
      BY <2>1, KindsOfConns
    <3> QED
      BY <3>1, ConnsAreFinite
  <2>4. TypeOK'
    BY <1>0, <1>3, <2>2, <2>3, MaxConnsAssumption DEF ConnectionDies, TypeOK, LossInv
  <2>5. PoolInv'
    BY <1>0, <1>3 DEF ConnectionDies, TypeOK, PoolInv
  <2>6. LossInv'
    BY <1>0, <1>3, <2>1, <2>2 DEF ConnectionDies, LossInv
  <2> QED
    BY <2>4, <2>5, <2>6 DEF IInv
<1>4. CASE CloseBegins
  <2>1. TypeOK'
    BY <1>0, <1>4 DEF CloseBegins, TypeOK
  <2>2. PoolInv'
    BY <1>0, <1>4 DEF CloseBegins, PoolInv
  <2>3. LossInv'
    BY <1>0, <1>4 DEF CloseBegins, LossInv, Dead, Lost
  <2> QED
    BY <2>1, <2>2, <2>3 DEF IInv
<1>5. CASE ClosePeer
  <2>1. TypeOK'
    BY <1>0, <1>5 DEF ClosePeer, TypeOK
  <2>2. PoolInv'
    BY <1>0, <1>5 DEF ClosePeer, TypeOK, PoolInv, Alive
  <2>3. Dead' = Dead /\ Lost \subseteq Lost'
    <3>1. Dead' = Dead
      BY <1>0, <1>5 DEF ClosePeer, TypeOK, Alive, Dead
    <3> QED
      BY <3>1, LostStays
  <2>4. LossInv'
    BY <1>0, <1>5, <2>3 DEF ClosePeer, LossInv
  <2> QED
    BY <2>1, <2>2, <2>4 DEF IInv
<1>6. CASE UNCHANGED vars
  BY <1>6 DEF vars, IInv, TypeOK, PoolInv, LossInv, Dead, Lost, Conns
<1> QED
  BY <1>1, <1>2, <1>3, <1>4, <1>5, <1>6 DEF Next, SenderStep

\* IInv is an invariant of every pool.
LEMMA Invariance == Spec => []IInv
  BY InitIInv, NextIInv, PTL DEF Spec

\* Every variable keeps its type; deaths never outnumber connections.
THEOREM TypeCorrect == Spec => []TypeOK
<1>1. IInv => TypeOK
  BY DEF IInv
<1> QED
  BY Invariance, <1>1, PTL

-----------------------------------------------------------------------------
(* One death is hidden from the callers.                                   *)

LEMMA InitMaskInv == Init => MaskInv
  BY DEF Init, MaskInv

\* A reset or a second attempt that has no death to blame does not happen, and
\* the connection of a second attempt dies only of a second death.
LEMMA NextMaskInv == IInv /\ MaskInv /\ [Next]_vars => MaskInv'
<1> SUFFICES ASSUME IInv, MaskInv, [Next]_vars,
                    deaths' <= 1, ~faults', cpc' = "open"
             PROVE  MaskInv'
    BY DEF MaskInv
<1> USE DEF history, senderVars
<1>0. TypeOK /\ PoolInv /\ LossInv
  BY DEF IInv
<1>a. deaths \in Nat
  BY <1>0, MaxConnsAssumption DEF TypeOK
<1>1. ASSUME deaths <= 1, ~faults, cpc = "open", NEW s \in Senders
      PROVE  /\ outcome[s] # "error"
             /\ pc[s] = "reset" => deaths = 1
             /\ pc[s] \in {"peer", "get", "dial", "open"} /\ try[s] = 2 => deaths = 1
             /\ pc[s] = "open" /\ try[s] = 2 => mine[s] \notin Lost
  BY <1>1 DEF MaskInv
<1>2. ASSUME cpc = "open", NEW c \in Lost
      PROVE  deaths >= 1
  <2>1. c \in Dead
    BY <1>0, <1>2 DEF LossInv
  <2>2. Cardinality(Dead) # 0
    BY <2>1, KindsOfConns, ConnsAreFinite, FS_EmptySet
  <2> QED
    BY <1>0, <1>a, <2>2 DEF LossInv
<1>3. ASSUME NEW r \in Senders, Begin(r) \/ SenderStep(r), ~DialSucceeds(r)
      PROVE  MaskInv'
  <2>0. status' = status /\ cpc' = cpc /\ deaths' = deaths /\ Lost' = Lost
    BY <1>3 DEF Begin, SenderStep, GetPeerConn, GetExisting, BeginDial, DialFails,
                OpenSucceeds, OpenFails, Reset, Lost
  <2>1. CASE Begin(r) \/ GetPeerConn(r) \/ BeginDial(r) \/ Reset(r)
    <3>1. faults' = faults
      BY <2>1 DEF Begin, GetPeerConn, BeginDial, Reset
    <3>2. CASE Begin(r)
      BY <1>0, <1>1, <2>0, <3>1, <3>2 DEF Begin, Goto, TypeOK, MaskInv
    <3>3. CASE GetPeerConn(r)
      BY <1>0, <1>1, <2>0, <3>1, <3>3 DEF GetPeerConn, Goto, TypeOK, MaskInv
    <3>4. CASE BeginDial(r)
      BY <1>0, <1>1, <2>0, <3>1, <3>4 DEF BeginDial, Goto, TypeOK, MaskInv
    <3>5. CASE Reset(r)
      BY <1>0, <1>1, <2>0, <3>1, <3>5 DEF Reset, Goto, TypeOK, MaskInv
    <3> QED
      BY <2>1, <3>2, <3>3, <3>4, <3>5
  <2>2. CASE GetExisting(r)
    <3>1. conn \notin Lost /\ faults' = faults
      BY <2>2 DEF GetExisting, Alive, Lost
    <3> QED
      BY <1>0, <1>1, <2>0, <2>2, <3>1 DEF GetExisting, Goto, TypeOK, MaskInv
  <2>3. CASE OpenSucceeds(r)
    BY <1>0, <1>1, <2>0, <2>3 DEF OpenSucceeds, Returns, Goto, TypeOK, MaskInv
  <2>4. CASE OpenFails(r)
    <3>1. ~Alive(mine[r]) /\ faults' = faults
      BY <1>0, <2>4 DEF OpenFails
    <3>2. mine[r] \in Lost
      BY <1>0, <2>4, <3>1 DEF OpenFails, TypeOK, PoolInv, Lost, Alive, Conns, NoConn
    <3>3. deaths = 1
      BY <1>2, <1>a, <2>0, <3>2
    <3>4. try[r] = 1 /\ Goto(r, "reset") /\ UNCHANGED <<try, mine, outcome>>
      BY <1>0, <1>1, <2>0, <2>4, <3>1, <3>2 DEF OpenFails, TypeOK
    <3> QED
      BY <1>0, <1>1, <2>0, <3>1, <3>3, <3>4 DEF Goto, TypeOK, MaskInv
  <2>5. CASE DialFails(r)
    BY <2>5 DEF DialFails
  <2> QED
    BY <1>3, <2>1, <2>2, <2>3, <2>4, <2>5 DEF SenderStep
<1>4. ASSUME NEW r \in Senders, DialSucceeds(r)
      PROVE  MaskInv'
  <2>0. /\ dialed + 1 \in Conns /\ dialed \in Nat /\ status[dialed + 1] = "undialed"
        /\ Lost' = Lost /\ dialed + 1 \notin Lost
        /\ cpc' = cpc /\ deaths' = deaths /\ faults' = faults
    BY <1>0, <1>4, MaxConnsAssumption DEF DialSucceeds, TypeOK, PoolInv, Conns, Lost
  <2> QED
    BY <1>0, <1>1, <1>4, <2>0 DEF DialSucceeds, Goto, TypeOK, MaskInv
<1>5. ASSUME NEW c \in Conns, ConnectionDies(c)
      PROVE  MaskInv'
  <2>1. deaths = 0 /\ deaths' = 1 /\ faults' = faults /\ cpc' = cpc
    BY <1>5, <1>a DEF ConnectionDies
  <2>2. UNCHANGED <<pc, try, mine, outcome>>
    BY <1>5 DEF ConnectionDies
  <2> QED
    BY <1>1, <2>1, <2>2 DEF MaskInv
<1>6. CASE CloseBegins \/ ClosePeer
  BY <1>6 DEF CloseBegins, ClosePeer
<1>7. CASE UNCHANGED vars
  BY <1>1, <1>7 DEF vars, MaskInv, Lost
<1> QED
  BY <1>3, <1>4, <1>5, <1>6, <1>7 DEF Next, SenderStep

\* The death of one connection never makes openStream fail.
THEOREM OneDeathIsHidden == Spec => []OneDeathIsMasked
<1>1. MaskInv => OneDeathIsMasked
  BY DEF MaskInv, OneDeathIsMasked
<1> QED
  BY Invariance, InitMaskInv, NextMaskInv, <1>1, PTL DEF Spec

-----------------------------------------------------------------------------
(* What the pool leaks.                                                    *)

LEMMA InitLeakInv == Init => LeakInv
<1> SUFFICES ASSUME Init PROVE LeakInv
    OBVIOUS
<1>1. Live = {} /\ Lost = {} /\ Threats = {}
  BY DEF Init, Live, Lost, Threats
<1>2. Cardinality({}) = 0 /\ Live \ {conn} = {}
  BY <1>1, FS_EmptySet
<1>3. Leaks = 0 /\ Slack \in {0, 1}
  <2>1. 0 * (Cardinality(Senders) - 1) = 0
    BY ThreatsAreFinite DEF ThreatCounts
  <2> QED
    BY <1>1, <1>2, <2>1 DEF Leaks, Slack
<1> QED
  BY <1>1, <1>2, <1>3 DEF LeakInv

\* A connection that is lost makes every other sender pay for one leak more.
LEMMA OneMoreLost ==
    ASSUME NEW c \in Conns, c \notin Lost, Lost' = Lost \union {c}
    PROVE  Leaks' = Leaks + (Cardinality(Senders) - 1)
<1>1. Cardinality(Lost') = Cardinality(Lost) + 1
  BY KindsOfConns, ConnsAreFinite, FS_AddElement
<1>2. Cardinality(Lost) \in Nat /\ Cardinality(Senders) \in Nat
  BY KindsOfConns, ConnsAreFinite, ThreatsAreFinite DEF ThreatCounts
<1>3. \A a, b \in Int : (a + 1) * b = a * b + b
  OBVIOUS
<1>4. Cardinality(Senders) - 1 \in Int
  BY <1>2
<1> QED
  BY <1>1, <1>2, <1>3, <1>4 DEF Leaks

\* The quantities compared are integers.
LeakCounts ==
    /\ Leaks \in Int /\ Slack \in {0, 1}
    /\ Cardinality(Live \ {conn}) \in Nat /\ Cardinality(Live) \in Nat

LEMMA LeakTypes == LeakCounts
<1>1. Cardinality(Lost) \in Nat /\ Cardinality(Senders) \in Nat
  BY KindsOfConns, ConnsAreFinite, ThreatsAreFinite DEF ThreatCounts
<1>2. \A a, b \in Int : a * b \in Int
  OBVIOUS
<1>3. Cardinality(Senders) - 1 \in Int
  BY <1>1
<1>4. Leaks \in Int
  BY <1>1, <1>2, <1>3 DEF Leaks
<1> QED
  BY <1>4, KindsOfConns, ConnsAreFinite DEF Slack, LeakCounts

\* When a connection is lost, fewer than all senders become threats, or all do
\* and the slack appears.
LEMMA LossKeepsLeakInv ==
    ASSUME IInv, LeakInv, [Next]_vars, ~faults,
           NEW c \in Conns, c \notin Lost, Lost' = Lost \union {c},
           UNCHANGED <<pc, mine>>,
           \/ ~Alive(conn)' /\ Alive(conn) /\ (Live \ {conn})' = Live \ {conn}
           \/ /\ (Alive(conn)' <=> Alive(conn))
              /\ c \in Live \ {conn} /\ (Live \ {conn})' = (Live \ {conn}) \ {c}
    PROVE  LeakInv'
<1>1. /\ ThreatCounts /\ ThreatCounts' /\ LeakCounts /\ LeakCounts'
  BY ThreatsAreFinite, LeakTypes, PTL
<1>2. Threats \subseteq Threats'
  BY DEF Threats
<1>3. Leaks' = Leaks + (Cardinality(Senders) - 1)
  BY OneMoreLost
<1>4. Cardinality(Live \ {conn}) + Cardinality(Threats) <= Leaks + Slack
  BY DEF LeakInv
<1>5. Threats' # Senders => Cardinality(Threats)' <= Cardinality(Senders) - 1
  BY <1>1 DEF ThreatCounts
<1>6. CASE ~Alive(conn)' /\ Alive(conn) /\ (Live \ {conn})' = Live \ {conn}
  <2>1. Slack = 0 /\ Cardinality(Live \ {conn})' = Cardinality(Live \ {conn})
    BY <1>6 DEF Slack
  <2>2. Threats' = Senders => Slack' = 1
    BY <1>6 DEF Slack
  <2>3. Cardinality(Threats)' <= Cardinality(Senders) - 1 + Slack'
    <3>1. CASE Threats' = Senders
      BY <1>1, <2>2, <3>1 DEF ThreatCounts
    <3>2. CASE Threats' # Senders
      BY <1>1, <1>5, <3>2 DEF ThreatCounts, LeakCounts
    <3> QED
      BY <3>1, <3>2
  <2>4. Cardinality(Live \ {conn})' + Cardinality(Threats)' <= Leaks' + Slack'
    BY <1>1, <1>3, <1>4, <2>1, <2>3 DEF ThreatCounts, LeakCounts
  <2> QED
    BY <2>4 DEF LeakInv
<1>7. CASE /\ (Alive(conn)' <=> Alive(conn))
           /\ c \in Live \ {conn} /\ (Live \ {conn})' = (Live \ {conn}) \ {c}
  <2>1. Cardinality(Live \ {conn})' = Cardinality(Live \ {conn}) - 1
    BY <1>7, KindsOfConns, ConnsAreFinite, FS_RemoveElement
  <2>2. Slack <= Slack'
    <3>1. Threats = Senders => Threats' = Senders
      BY <1>2 DEF Threats
    <3> QED
      BY <1>7, <3>1 DEF Slack
  <2>3. Cardinality(Live \ {conn})' + Cardinality(Threats)' <= Leaks' + Slack'
    BY <1>1, <1>3, <1>4, <2>1, <2>2 DEF ThreatCounts, LeakCounts
  <2> QED
    BY <2>3 DEF LeakInv
<1> QED
  BY <1>6, <1>7

\* A step that loses nothing keeps the bound if what stops being a threat pays
\* for the connection it drops.
LEMMA NextLeakInv == IInv /\ LeakInv /\ [Next]_vars => LeakInv'
<1> SUFFICES ASSUME IInv, LeakInv, [Next]_vars, ~faults'
             PROVE  LeakInv'
    BY DEF LeakInv
<1> USE DEF history, senderVars
<1>0. TypeOK /\ PoolInv /\ LossInv
  BY DEF IInv
<1>a. ThreatCounts /\ ThreatCounts' /\ LeakCounts /\ LeakCounts'
  BY ThreatsAreFinite, LeakTypes, PTL
<1>b. ~faults
  BY DEF Next, SenderStep, vars, Begin, GetPeerConn, GetExisting, BeginDial, DialSucceeds,
         DialFails, OpenSucceeds, OpenFails, Reset, ConnectionDies, CloseBegins, ClosePeer
<1>c. Cardinality(Live \ {conn}) + Cardinality(Threats) <= Leaks + Slack
  BY <1>b DEF LeakInv
<1>1. ASSUME Lost' = Lost, (Live \ {conn})' = Live \ {conn}, (Alive(conn)' <=> Alive(conn)),
             Threats' = Threats
      PROVE  LeakInv'
  <2>1. Leaks' = Leaks /\ Slack' = Slack
    BY <1>1 DEF Leaks, Slack
  <2> QED
    BY <1>1, <1>c, <2>1 DEF LeakInv
<1>2. ASSUME NEW s \in Threats, Threats' = Threats \ {s}, Lost' = Lost,
             Cardinality(Live \ {conn})' <= Cardinality(Live \ {conn}) + (1 - Slack)
      PROVE  LeakInv'
  <2>1. Leaks' = Leaks /\ Slack' \in {0, 1}
    BY <1>2, <1>a DEF Leaks, LeakCounts
  <2>2. Cardinality(Threats)' = Cardinality(Threats) - 1
    BY <1>2, <1>a, FS_RemoveElement DEF ThreatCounts
  <2>3. Cardinality(Live \ {conn})' + Cardinality(Threats)' <= Leaks' + Slack'
    BY <1>2, <1>a, <1>c, <2>1, <2>2 DEF ThreatCounts, LeakCounts
  <2> QED
    BY <2>3 DEF LeakInv
<1>3. ASSUME NEW s \in Senders, Begin(s) \/ GetPeerConn(s) \/ GetExisting(s)
      PROVE  LeakInv'
  <2>1. UNCHANGED <<status, conn>> /\ Lost' = Lost
    BY <1>3 DEF Begin, GetPeerConn, GetExisting, Lost
  <2>2. GetExisting(s) => conn \notin Lost
    BY DEF GetExisting, Alive, Lost
  <2>3. Threats' = Threats
    BY <1>0, <1>3, <2>1, <2>2 DEF Begin, GetPeerConn, GetExisting, Goto, TypeOK, Threats
  <2> QED
    BY <1>1, <2>1, <2>3 DEF Live, Alive
<1>4. ASSUME NEW s \in Senders, BeginDial(s)
      PROVE  LeakInv'
  <2>1. status' = status /\ Lost' = Lost
    BY <1>4 DEF BeginDial, Lost
  <2>2. conn' = NoConn /\ ~Alive(conn) /\ ~Alive(conn)'
    BY <1>4 DEF BeginDial, Alive
  <2>3. (Live \ {conn})' = Live \ {conn}
    BY <2>1, <2>2, MaxConnsAssumption DEF Live, Alive, Conns, NoConn
  <2>4. Threats' = Threats
    BY <1>0, <1>4, <2>1 DEF BeginDial, Goto, TypeOK, Threats
  <2> QED
    BY <1>1, <2>1, <2>2, <2>3, <2>4
<1>5. ASSUME NEW s \in Senders, DialSucceeds(s)
      PROVE  LeakInv'
  <2>0. /\ dialed + 1 \in Conns /\ dialed \in Nat /\ status[dialed + 1] = "undialed"
        /\ conn = NoConn /\ conn' = dialed + 1
    BY <1>0, <1>5, SendersAssumption, MaxConnsAssumption
       DEF DialSucceeds, TypeOK, PoolInv, Conns, NoSender
  <2>1. Lost' = Lost /\ dialed + 1 \notin Lost
    BY <1>0, <1>5, <2>0 DEF DialSucceeds, TypeOK, Lost
  <2>2. (Live \ {conn})' = Live \ {conn}
    BY <1>0, <1>5, <2>0 DEF DialSucceeds, TypeOK, Live, NoConn, Conns
  <2>3. Threats' = Threats
    BY <1>0, <1>5, <2>1 DEF DialSucceeds, Goto, TypeOK, Threats
  <2>4. s \notin Threats
    BY <1>5 DEF DialSucceeds, Threats
  <2>5. Leaks' = Leaks /\ Slack' = Slack
    BY <2>1, <2>3, <2>4 DEF Leaks, Slack
  <2> QED
    BY <1>c, <2>2, <2>3, <2>5 DEF LeakInv
<1>6. ASSUME NEW s \in Senders, OpenSucceeds(s)
      PROVE  LeakInv'
  <2>1. UNCHANGED <<status, conn>> /\ Lost' = Lost /\ mine[s] \notin Lost
    BY <1>6 DEF OpenSucceeds, Lost, Alive
  <2>2. Threats' = Threats
    BY <1>0, <1>6, <2>1 DEF OpenSucceeds, Returns, Goto, TypeOK, Threats
  <2> QED
    BY <1>1, <2>1, <2>2 DEF Live, Alive
<1>7. ASSUME NEW s \in Senders, OpenFails(s)
      PROVE  LeakInv'
  <2>1. UNCHANGED <<status, conn>> /\ Lost' = Lost /\ ~Alive(mine[s])
    BY <1>7, <1>b DEF OpenFails, Lost
  <2>2. s \in Threats
    BY <1>0, <1>7, <2>1 DEF OpenFails, Threats, TypeOK, PoolInv, Lost, Alive, Conns, NoConn
  <2>3. CASE Goto(s, "reset") /\ UNCHANGED mine
    <3>1. Threats' = Threats
      BY <1>0, <2>1, <2>2, <2>3 DEF Goto, TypeOK, Threats
    <3> QED
      BY <1>1, <2>1, <3>1 DEF Live, Alive
  <2>4. CASE Returns(s, "error")
    <3>1. Threats' = Threats \ {s}
      BY <1>0, <2>1, <2>2, <2>4 DEF Returns, Goto, TypeOK, Threats
    <3>2. (Live \ {conn})' = Live \ {conn}
      BY <2>1 DEF Live
    <3>3. Cardinality(Live \ {conn})' <= Cardinality(Live \ {conn}) + (1 - Slack)
      BY <3>2, <1>a DEF LeakCounts
    <3> QED
      BY <1>2, <2>1, <2>2, <3>1, <3>3
  <2> QED
    BY <1>7, <2>3, <2>4 DEF OpenFails
<1>8. ASSUME NEW s \in Senders, Reset(s)
      PROVE  LeakInv'
  <2>1. UNCHANGED status /\ Lost' = Lost /\ conn' = NoConn /\ mine' = mine
    BY <1>8 DEF Reset, Lost
  <2>2. s \in Threats
    BY <1>0, <1>b, <1>8 DEF Reset, Threats, LossInv
  <2>3. Threats' = Threats \ {s}
    BY <1>0, <1>8, <2>1, <2>2 DEF Reset, Goto, TypeOK, Threats
  <2>4. (Live \ {conn})' = Live
    BY <2>1, MaxConnsAssumption DEF Live, NoConn, Conns
  <2>5. Cardinality(Live) <= Cardinality(Live \ {conn}) + (1 - Slack)
    <3>1. CASE Alive(conn)
      <4>1. Slack = 0
        BY <3>1 DEF Slack
      <4>2. Cardinality(Live \ {conn}) \in {Cardinality(Live), Cardinality(Live) - 1}
        BY KindsOfConns, ConnsAreFinite, FS_RemoveElement
      <4> QED
        BY <1>a, <4>1, <4>2 DEF LeakCounts
    <3>2. CASE ~Alive(conn)
      <4>1. Live \ {conn} = Live
        BY <3>2, MaxConnsAssumption DEF Live, Alive, Conns, NoConn
      <4> QED
        BY <1>a, <4>1 DEF LeakCounts
    <3> QED
      BY <3>1, <3>2
  <2> QED
    BY <1>2, <2>1, <2>2, <2>3, <2>4, <2>5
<1>9. ASSUME NEW c \in Conns, ConnectionDies(c)
      PROVE  LeakInv'
  <2>1. /\ c \notin Lost /\ Lost' = Lost \union {c} /\ Live' = Live \ {c} /\ c \in Live
        /\ UNCHANGED <<pc, mine, conn>>
    BY <1>0, <1>9 DEF ConnectionDies, TypeOK, Lost, Live
  <2>2. CASE c = conn
    <3>1. ~Alive(conn)' /\ Alive(conn)
      BY <1>0, <1>9, <2>2, MaxConnsAssumption DEF ConnectionDies, TypeOK, Alive, Conns, NoConn
    <3>2. (Live \ {conn})' = Live \ {conn}
      BY <2>1, <2>2
    <3> QED
      BY <1>b, <2>1, <3>1, <3>2, LossKeepsLeakInv
  <2>3. CASE c # conn
    <3>1. (Alive(conn)' <=> Alive(conn))
      BY <1>0, <1>9, <2>3 DEF ConnectionDies, TypeOK, Alive, NoConn
    <3>2. c \in Live \ {conn} /\ (Live \ {conn})' = (Live \ {conn}) \ {c}
      BY <2>1, <2>3
    <3> QED
      BY <1>b, <2>1, <3>1, <3>2, LossKeepsLeakInv
  <2> QED
    BY <2>2, <2>3
<1>10. CASE ClosePeer
  <2>0. UNCHANGED <<pc, mine>> /\ conn' = NoConn
    BY <1>10 DEF ClosePeer
  <2>1. CASE Alive(conn)
    <3>1. PICK c \in Conns : c = conn
      BY <1>0, <2>1 DEF TypeOK, Alive
    <3>2. /\ c \notin Lost /\ Lost' = Lost \union {c} /\ Live' = Live \ {c}
      BY <1>0, <1>10, <2>1, <3>1 DEF ClosePeer, TypeOK, Lost, Live, Alive
    <3>3. ~Alive(conn)' /\ (Live \ {conn})' = Live \ {conn}
      BY <2>0, <3>1, <3>2, MaxConnsAssumption DEF Alive, Live, Conns, NoConn
    <3> QED
      BY <1>b, <2>0, <2>1, <3>2, <3>3, LossKeepsLeakInv
  <2>2. CASE ~Alive(conn)
    <3>1. status' = status /\ Lost' = Lost /\ ~Alive(conn)'
      BY <1>10, <2>0, <2>2 DEF ClosePeer, Lost, Alive
    <3>2. (Live \ {conn})' = Live \ {conn}
      BY <2>0, <2>2, <3>1, MaxConnsAssumption DEF Live, Alive, Conns, NoConn
    <3>3. Threats' = Threats
      BY <2>0, <3>1 DEF Threats
    <3> QED
      BY <1>1, <2>2, <3>1, <3>2, <3>3
  <2> QED
    BY <2>1, <2>2
<1>11. CASE CloseBegins \/ UNCHANGED vars
  <2>1. UNCHANGED <<status, conn, pc, mine>>
    BY <1>11 DEF CloseBegins, vars
  <2> QED
    BY <1>1, <2>1 DEF Live, Lost, Threats, Alive
<1>12. ASSUME NEW s \in Senders, DialFails(s)
       PROVE  LeakInv'
  BY <1>12 DEF DialFails
<1> QED
  BY <1>3, <1>4, <1>5, <1>6, <1>7, <1>8, <1>9, <1>10, <1>11, <1>12 DEF Next, SenderStep

\* No more uncached connections are alive than leaks are accounted for, unless
\* every sender is still to find nothing.
LEMMA LeaksAreCounted ==
    ASSUME LeakInv, ~faults
    PROVE  Cardinality(Live \ {conn}) <= Leaks
<1>1. ThreatCounts /\ LeakCounts
  BY ThreatsAreFinite, LeakTypes
<1>2. Slack <= Cardinality(Threats)
  <2>1. Threats = Senders => Cardinality(Threats) >= 1
    BY <1>1 DEF ThreatCounts
  <2> QED
    BY <1>1, <2>1 DEF Slack, ThreatCounts
<1> QED
  BY <1>1, <1>2 DEF LeakInv, ThreatCounts, LeakCounts

LEMMA LeakInvariance == Spec => [](IInv /\ LeakInv)
  BY Invariance, InitLeakInv, NextLeakInv, PTL DEF Spec

\* Each lost connection leaks at most one for every sender but one.
THEOREM PoolLeaksLittle == Spec => []LeaksBounded
<1>1. LeakInv => LeaksBounded
  <2> SUFFICES ASSUME LeakInv, ~faults
               PROVE  Cardinality(Live) <= 1 + Leaks
      BY DEF LeaksBounded
  <2>1. LeakCounts
    BY LeakTypes
  <2>2. Cardinality(Live \ {conn}) \in {Cardinality(Live), Cardinality(Live) - 1}
    BY KindsOfConns, ConnsAreFinite, FS_RemoveElement
  <2> QED
    BY <2>1, <2>2, LeaksAreCounted DEF LeakCounts
<1> QED
  BY LeakInvariance, <1>1, PTL

\* Close closes what the pool still has, whoever is opening streams.
THEOREM CloseLeavesLeaks == Spec => CloseLeavesOnlyLeaks
<1>1. ASSUME IInv, LeakInv, [Next]_vars
      PROVE  [~faults /\ cpc = "closing" /\ cpc' = "closed" => Cardinality(Live') <= Leaks]_vars
  <2> SUFFICES ASSUME Next, ~faults, cpc = "closing", cpc' = "closed"
               PROVE  Cardinality(Live') <= Leaks
      BY <1>1
  <2>1. ClosePeer
    BY DEF Next, SenderStep, Begin, GetPeerConn, GetExisting, BeginDial, DialSucceeds,
           DialFails, OpenSucceeds, OpenFails, Reset, ConnectionDies, CloseBegins
  <2>2. Live' = Live \ {conn}
    BY <1>1, <2>1 DEF ClosePeer, IInv, TypeOK, Live, Alive, Conns, NoConn
  <2> QED
    BY <1>1, <2>2, LeaksAreCounted
<1> QED
  BY LeakInvariance, <1>1, PTL DEF Spec, CloseLeavesOnlyLeaks

=============================================================================
