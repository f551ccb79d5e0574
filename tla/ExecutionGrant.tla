--------------------------- MODULE ExecutionGrant --------------------------
\* What a check job promises about the execution of its commands.  Execution is
\* granted once, while the job is open.  A granted execution whose worker is
\* lost leaves the job uncertain: nothing grants it again, and only its own
\* late result settles it.  A verdict is final.
EXTENDS CheckJob

CONSTANT Jobs
VARIABLES granted, verdict

TypeOK ==
    /\ granted \in [Jobs -> BOOLEAN]
    /\ verdict \in [Jobs -> {"open", "uncertain", "interrupted"} \cup Results]

GrantInit ==
    /\ granted = [j \in Jobs |-> FALSE]
    /\ verdict = [j \in Jobs |-> "open"]

Grant(j) ==
    /\ verdict[j] = "open" /\ ~granted[j]
    /\ granted' = [granted EXCEPT ![j] = TRUE]
    /\ UNCHANGED verdict

\* What a job can become: withdrawn work was not granted, except that a restore
\* closes work whose execution stayed behind; a result needs the grant.
Settled(j, v) ==
    \/ v = verdict[j]
    \/ verdict[j] = "open" /\ v = "uncertain"
    \/ verdict[j] = "open" /\ v = "interrupted"
    \/ verdict[j] = "open" /\ ~granted[j] /\ v \in {"cancelled", "error", "unavailable", "skipped"}
    \/ verdict[j] \in {"open", "uncertain"} /\ granted[j] /\ v \in Results

\* One transaction may settle several jobs.
Settle ==
    /\ verdict' \in [Jobs -> {"open", "uncertain", "interrupted"} \cup Results]
    /\ \A j \in Jobs : Settled(j, verdict'[j])
    /\ UNCHANGED granted

GrantNext == (\E j \in Jobs : Grant(j)) \/ Settle
GrantSpec == GrantInit /\ [][GrantNext]_<<granted, verdict>>
=============================================================================
