------------------------- MODULE PullRequestOutcome ------------------------
(***************************************************************************)
(* What a pull request promises about its outcome: at most one revision    *)
(* pair is ever published, only while the pull request is open, and what   *)
(* is recorded as merged is exactly the pair that Git published.  A pull   *)
(* request whose merge was published is never closed.                      *)
(***************************************************************************)
CONSTANTS
    Pairs,  \* the revision pairs that can be merged
    NoPair

VARIABLES
    status,     \* open, closed or merged, as recorded
    published,  \* the pair whose merge Git published
    merged      \* the pair recorded as merged

outcomeVars == <<status, published, merged>>

OutcomeInit == status = "open" /\ published = NoPair /\ merged = NoPair

Publish(p) ==
    /\ status = "open" /\ published = NoPair
    /\ published' = p
    /\ UNCHANGED <<status, merged>>

Record ==
    /\ status = "open" /\ published # NoPair
    /\ status' = "merged" /\ merged' = published
    /\ UNCHANGED published

Close ==
    /\ status = "open" /\ published = NoPair
    /\ status' = "closed"
    /\ UNCHANGED <<published, merged>>

Reopen ==
    /\ status = "closed"
    /\ status' = "open"
    /\ UNCHANGED <<published, merged>>

OutcomeNext == (\E p \in Pairs : Publish(p)) \/ Record \/ Close \/ Reopen

OutcomeSpec == OutcomeInit /\ [][OutcomeNext]_outcomeVars
=============================================================================
