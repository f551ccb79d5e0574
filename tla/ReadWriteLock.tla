--------------------------- MODULE ReadWriteLock ----------------------------
(***************************************************************************)
(* What RepositoryLock promises its callers, without its queue: many       *)
(* readers or one writer, and a generation that moves only under a writer. *)
(* The components that work under the lock are modelled on this            *)
(* specification; RepositoryLock implements it.                            *)
(***************************************************************************)
EXTENDS Naturals

CONSTANT Callers

VARIABLES
    held,       \* how each caller holds the lock: "none", "read" or "write"
    generation  \* how often a writer announced a ref change

accessVars == <<held, generation>>

Modes == {"none", "read", "write"}

\* A writer is alone.
Compatible(h) == \A c \in Callers : h[c] = "write" => \A d \in Callers \ {c} : h[d] = "none"

AccessInit ==
    /\ held = [c \in Callers |-> "none"]
    /\ generation = 0

\* Callers release the lock and others take it, in one step when the lock is
\* handed over; nobody turns a read lock into a write lock or back.
ChangeHolders ==
    /\ held' \in [Callers -> Modes]
    /\ \A c \in Callers : held'[c] = held[c] \/ held[c] = "none" \/ held'[c] = "none"
    /\ Compatible(held')
    /\ UNCHANGED generation

Announce ==
    /\ \E c \in Callers : held[c] = "write"
    /\ generation' = generation + 1
    /\ UNCHANGED held

AccessNext == ChangeHolders \/ Announce

AccessSpec == AccessInit /\ [][AccessNext]_accessVars
=============================================================================
