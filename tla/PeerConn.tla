------------------------------ MODULE PeerConn ------------------------------
(***************************************************************************)
(* transport/conn.go, and openStream, getPeerConn and Close of             *)
(* transport/transport.go: how goroutines share one cached QUIC connection *)
(* to one peer.                                                            *)
(*                                                                         *)
(* p.mu is held across a dial, so it is a variable; a critical section     *)
(* without a blocking call is one step that needs the mutex free.          *)
(* Connections are numbered in the order in which they are dialed.         *)
(***************************************************************************)
EXTENDS Integers, FiniteSets

CONSTANTS
    Senders,         \* goroutines that open streams to the peer
    MaxConns,        \* bound: connections dialed in a behaviour
    StreamsRunOut    \* whether the peer's MaxIncomingStreams can be exhausted

ASSUME MaxConnsAssumption == MaxConns \in Nat
ASSUME StreamsRunOutAssumption == StreamsRunOut \in BOOLEAN
\* There is a goroutine that sends, and finitely many; "none" is not one of them.
ASSUME SendersAssumption == IsFiniteSet(Senders) /\ Senders # {} /\ "none" \notin Senders

VARIABLES
    peersMu,   \* the transport's peersMu is held by Close
    mu,        \* the sender holding p.mu across a dial
    conn,      \* p.conn
    status,    \* of each connection
    dialed,    \* number of connections dialed so far
    pc,        \* what each sender is doing
    try,       \* which of its two attempts it makes
    mine,      \* the connection getOrDial gave it
    outcome,   \* what its last openStream returned
    cpc,       \* what the transport's Close is doing
    deaths,    \* history: connections that died
    faults     \* history: a dial failed or a stream did not open in time

vars == <<peersMu, mu, conn, status, dialed, pc, try, mine, outcome, cpc,
          deaths, faults>>
senderVars == <<pc, try, mine, outcome>>
history == <<deaths, faults>>

NoConn == 0
Conns == 1..MaxConns
NoSender == "none"

Live == {c \in Conns : status[c] = "alive"}
Alive(c) == c # NoConn /\ status[c] = "alive"

TypeOK ==
    /\ peersMu \in BOOLEAN
    /\ mu \in Senders \union {NoSender}
    /\ conn \in Conns \union {NoConn}
    /\ status \in [Conns -> {"undialed", "alive", "dead", "closed"}]
    /\ dialed \in 0..MaxConns
    /\ pc \in [Senders -> {"idle", "peer", "get", "dial", "open", "reset"}]
    /\ try \in [Senders -> {1, 2}]
    /\ mine \in [Senders -> Conns \union {NoConn}]
    /\ outcome \in [Senders -> {"none", "stream", "error"}]
    /\ cpc \in {"open", "closing", "closed"}
    /\ deaths \in 0..MaxConns
    /\ faults \in BOOLEAN

Init ==
    /\ peersMu = FALSE /\ mu = NoSender
    /\ conn = NoConn
    /\ status = [c \in Conns |-> "undialed"] /\ dialed = 0
    /\ pc = [s \in Senders |-> "idle"]
    /\ try = [s \in Senders |-> 1]
    /\ mine = [s \in Senders |-> NoConn]
    /\ outcome = [s \in Senders |-> "none"]
    /\ cpc = "open"
    /\ deaths = 0 /\ faults = FALSE

-----------------------------------------------------------------------------
(* openStream                                                              *)

Goto(s, to) == pc' = [pc EXCEPT ![s] = to]

Returns(s, what) ==
    /\ Goto(s, "idle")
    /\ outcome' = [outcome EXCEPT ![s] = what]
    /\ mine' = [mine EXCEPT ![s] = NoConn]
    /\ UNCHANGED try

Begin(s) ==
    /\ pc[s] = "idle"
    /\ Goto(s, "peer")
    /\ try' = [try EXCEPT ![s] = 1]
    /\ outcome' = [outcome EXCEPT ![s] = "none"]
    /\ UNCHANGED <<peersMu, mu, conn, status, dialed, mine, cpc, history>>

\* getPeerConn needs peersMu, which Close holds while it closes the peers.
GetPeerConn(s) ==
    /\ pc[s] = "peer" /\ ~peersMu
    /\ Goto(s, "get")
    /\ UNCHANGED <<peersMu, mu, conn, status, dialed, try, mine, outcome, cpc, history>>

\* getOrDial finds a live connection.
GetExisting(s) ==
    /\ pc[s] = "get" /\ mu = NoSender
    /\ Alive(conn)
    /\ mine' = [mine EXCEPT ![s] = conn]
    /\ Goto(s, "open")
    /\ UNCHANGED <<peersMu, mu, conn, status, dialed, try, outcome, cpc, history>>

\* getOrDial finds none, or one that is done, and dials with the mutex held.
BeginDial(s) ==
    /\ pc[s] = "get" /\ mu = NoSender
    /\ ~Alive(conn)
    /\ mu' = s
    /\ conn' = NoConn
    /\ Goto(s, "dial")
    /\ UNCHANGED <<peersMu, status, dialed, try, mine, outcome, cpc, history>>

\* Mutant: the connection of a retry is used for one stream and not cached.
DialSucceeds_RetryNotCached(s) ==
    /\ pc[s] = "dial" /\ dialed < MaxConns
    /\ dialed' = dialed + 1
    /\ status' = [status EXCEPT ![dialed + 1] = "alive"]
    /\ conn' = IF try[s] = 1 THEN dialed + 1 ELSE conn
    /\ mine' = [mine EXCEPT ![s] = dialed + 1]
    /\ mu' = NoSender
    /\ Goto(s, "open")
    /\ UNCHANGED <<peersMu, try, outcome, cpc, history>>

DialSucceeds(s) ==
    /\ pc[s] = "dial" /\ dialed < MaxConns
    /\ dialed' = dialed + 1
    /\ status' = [status EXCEPT ![dialed + 1] = "alive"]
    /\ conn' = dialed + 1
    /\ mine' = [mine EXCEPT ![s] = dialed + 1]
    /\ mu' = NoSender
    /\ Goto(s, "open")
    /\ UNCHANGED <<peersMu, try, outcome, cpc, history>>

DialFails(s) ==
    /\ pc[s] = "dial"
    /\ faults' = TRUE
    /\ mu' = NoSender
    /\ Returns(s, "error")
    /\ UNCHANGED <<peersMu, conn, status, dialed, cpc, deaths>>

OpenSucceeds(s) ==
    /\ pc[s] = "open" /\ Alive(mine[s])
    /\ Returns(s, "stream")
    /\ UNCHANGED <<peersMu, mu, conn, status, dialed, cpc, history>>

\* Mutant: openStream gives up on the first error.
OpenFails_NoRetry(s) ==
    /\ pc[s] = "open"
    /\ \/ ~Alive(mine[s]) /\ UNCHANGED faults
       \/ Alive(mine[s]) /\ StreamsRunOut /\ faults' = TRUE
    /\ Returns(s, "error")
    /\ UNCHANGED <<peersMu, mu, conn, status, dialed, cpc, deaths>>

\* OpenStreamSync fails on a connection that is done, and on a live one when
\* the context expires before the peer grants a stream.
OpenFails(s) ==
    /\ pc[s] = "open"
    /\ \/ ~Alive(mine[s]) /\ UNCHANGED faults
       \/ Alive(mine[s]) /\ StreamsRunOut /\ faults' = TRUE
    /\ \/ try[s] = 1 /\ Goto(s, "reset") /\ UNCHANGED <<try, mine, outcome>>
       \/ try[s] = 2 /\ Returns(s, "error")
    /\ UNCHANGED <<peersMu, mu, conn, status, dialed, cpc, deaths>>

\* Mutant: the mutex is not released after the connection is dropped.
Reset_KeepsLock(s) ==
    /\ pc[s] = "reset" /\ mu = NoSender
    /\ conn' = NoConn
    /\ mu' = s
    /\ try' = [try EXCEPT ![s] = 2]
    /\ Goto(s, "get")
    /\ UNCHANGED <<peersMu, status, dialed, mine, outcome, cpc, history>>

\* The cached connection is dropped, whichever it is by now, and not closed.
Reset(s) ==
    /\ pc[s] = "reset" /\ mu = NoSender
    /\ conn' = NoConn
    /\ try' = [try EXCEPT ![s] = 2]
    /\ Goto(s, "get")
    /\ UNCHANGED <<peersMu, mu, status, dialed, mine, outcome, cpc, history>>

-----------------------------------------------------------------------------
(* The network, and Close of the transport                                 *)

\* The peer goes away or the idle timeout fires: the context is done.
ConnectionDies(c) ==
    /\ status[c] = "alive"
    /\ status' = [status EXCEPT ![c] = "dead"]
    /\ deaths' = deaths + 1
    /\ UNCHANGED <<peersMu, mu, conn, dialed, senderVars, cpc, faults>>

CloseBegins ==
    /\ cpc = "open"
    /\ cpc' = "closing"
    /\ peersMu' = TRUE
    /\ UNCHANGED <<mu, conn, status, dialed, senderVars, history>>

\* Mutant: the cached connection is forgotten, not closed.
ClosePeer_Forget ==
    /\ cpc = "closing" /\ mu = NoSender
    /\ status' = status
    /\ conn' = NoConn
    /\ peersMu' = FALSE
    /\ cpc' = "closed"
    /\ UNCHANGED <<mu, dialed, senderVars, history>>

\* p.close waits for p.mu, closes what is cached, and peersMu is released.
ClosePeer ==
    /\ cpc = "closing" /\ mu = NoSender
    /\ status' = IF Alive(conn) THEN [status EXCEPT ![conn] = "closed"] ELSE status
    /\ conn' = NoConn
    /\ peersMu' = FALSE
    /\ cpc' = "closed"
    /\ UNCHANGED <<mu, dialed, senderVars, history>>

-----------------------------------------------------------------------------

SenderStep(s) ==
    \/ GetPeerConn(s) \/ GetExisting(s) \/ BeginDial(s)
    \/ DialSucceeds(s) \/ DialFails(s)
    \/ OpenSucceeds(s) \/ OpenFails(s) \/ Reset(s)

Next ==
    \/ \E s \in Senders : Begin(s) \/ SenderStep(s)
    \/ \E c \in Conns : ConnectionDies(c)
    \/ CloseBegins
    \/ ClosePeer

Spec == Init /\ [][Next]_vars

(* Senders compete for p.mu; a Go mutex that has made a goroutine wait for *)
(* a millisecond goes to it next (strong fairness).  A dial returns within *)
(* the rpcTimeout of its context.                                          *)
Fairness ==
    /\ \A s \in Senders : SF_vars(SenderStep(s))
    /\ SF_vars(ClosePeer)

FairSpec == Spec /\ Fairness

-----------------------------------------------------------------------------
(* Properties                                                              *)

\* Connections to the peer that the pool may have lost track of: of the senders
\* that held a connection when it was lost, all but one may drop a live successor.
Lost == {c \in Conns : status[c] \in {"dead", "closed"}}
Leaks == Cardinality(Lost) * (Cardinality(Senders) - 1)

\* What the code does guarantee as long as dials succeed and streams open in
\* time: each loss leaks at most one connection for every other sender, so a
\* single sender never holds two.
LeaksBounded == ~faults => Cardinality(Live) <= 1 + Leaks

\* The death of one connection is hidden from every caller: openStream fails
\* only if a dial failed, a stream did not open in time, the transport is
\* closing, or a second connection died.
OneDeathIsMasked ==
    deaths <= 1 /\ ~faults /\ cpc = "open" =>
        \A s \in Senders : outcome[s] # "error"

\* Close closes the connection the pool has, whoever is opening streams at that
\* moment: what is alive when it returns are leaks.
CloseLeavesOnlyLeaks ==
    [][~faults /\ cpc = "closing" /\ cpc' = "closed" => Cardinality(Live') <= Leaks]_vars

\* Every openStream and every Close returns: p.mu and peersMu, taken in
\* different orders, never deadlock, and a dial that hangs holds nobody for ever.
CallsReturn ==
    /\ \A s \in Senders : (pc[s] # "idle") ~> (pc[s] = "idle")
    /\ (cpc = "closing") ~> (cpc = "closed")

=============================================================================
