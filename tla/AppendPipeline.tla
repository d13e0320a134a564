--------------------------- MODULE AppendPipeline ---------------------------
(***************************************************************************)
(* What raft.AppendPipeline promises the replication loop that owns it,    *)
(* whatever implements it: a call is refused or accepted; an accepted      *)
(* request is completed once, after which its future never blocks; the     *)
(* consumer is handed completed futures only, each at most once, in any    *)
(* order; and when Close has returned nothing is left pending.             *)
(***************************************************************************)
EXTENDS Naturals, Sequences

CONSTANT Requests

VARIABLES
    state,   \* the life of each request
    handed,  \* the futures the consumer was handed
    closed   \* Close has returned

absVars == <<state, handed, closed>>

AbsInit ==
    /\ state = [f \in Requests |-> "new"]
    /\ handed = <<>>
    /\ closed = FALSE

Accept(f) ==
    /\ ~closed
    /\ state[f] = "new"
    /\ state' = [state EXCEPT ![f] = "pending"]
    /\ UNCHANGED <<handed, closed>>

Refuse(f) ==
    /\ state[f] = "new"
    /\ state' = [state EXCEPT ![f] = "refused"]
    /\ UNCHANGED <<handed, closed>>

Complete(f) ==
    /\ state[f] = "pending"
    /\ state' = [state EXCEPT ![f] = "complete"]
    /\ UNCHANGED <<handed, closed>>

Hand(f) ==
    /\ state[f] = "complete"
    /\ \A i \in 1..Len(handed) : handed[i] # f
    /\ handed' = Append(handed, f)
    /\ UNCHANGED <<state, closed>>

Closed ==
    /\ \A f \in Requests : state[f] # "pending"
    /\ closed' = TRUE
    /\ UNCHANGED <<state, handed>>

AbsNext ==
    \/ \E f \in Requests : Accept(f) \/ Refuse(f) \/ Complete(f) \/ Hand(f)
    \/ Closed

AbsSpec == AbsInit /\ [][AbsNext]_absVars

=============================================================================
