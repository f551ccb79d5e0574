------------------------- MODULE MCPullRequestMerge ------------------------
EXTENDS PullRequestMerge

CONSTANTS
    feature,   \* the tip of the feature branch
    diverged,  \* a commit that feature does not contain
    behind,    \* a commit that feature contains
    unrelated  \* a commit without common history

MixedMethod ==
    [p \in Pairs |-> CASE p[2] = feature -> "up_to_date"
                       [] p[2] = behind -> "fast_forward"
                       [] p[2] = diverged -> "merge_commit"
                       [] p[2] = unrelated -> "conflict"]
=============================================================================
