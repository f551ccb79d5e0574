------------------------ MODULE PullRequestCreation ------------------------
(***************************************************************************)
(* The pull requests of one source and target branch pair: their creation  *)
(* over the SQLite records (internal/state/pull_requests.go) and the       *)
(* revision refs of the repository (internal/pullrequest/service.go), the  *)
(* recovery of creations that were cut short, the times every later        *)
(* operation writes into the record, and the edits of title and            *)
(* description by people who read them before.                             *)
(*                                                                         *)
(* Every operation but Edit holds the write lock, so one runs at a time;   *)
(* edits share the read lock, so several run at once.                      *)
(* A revision is what both branches are at; its two refs are created by    *)
(* one transaction, and are one element of refs.                           *)
(***************************************************************************)
EXTENDS Naturals, FiniteSets

CONSTANTS
    Revisions,   \* what the two branches may be at
    NoRevision,
    Times,       \* what the clock may say, in seconds
    Texts,       \* titles with their descriptions
    NoText,
    Editors,     \* browser pages and tools that edit
    MaxNumber,   \* bound of the model: how many pull requests there are
    MaxEdits     \* bound of the model: edits of one pull request

ASSUME NoRevisionAssumption == NoRevision \notin Revisions
ASSUME TimesAssumption == Times \subseteq Nat \ {0}
ASSUME TextsAssumption == NoText \notin Texts
ASSUME MaxNumberAssumption == MaxNumber \in Nat
ASSUME MaxEditsAssumption == MaxEdits \in Nat

Numbers == 1..MaxNumber

VARIABLES
    status,     \* pull_requests.status, "none" without a row
    revision,   \* pull_request_revisions of the creation
    createdAt, updatedAt,
    editedAt,   \* edited_at, 0 before the first edit
    text,       \* title and body
    edits,      \* edit_revision: how often they were edited
    refs,       \* the revision refs: <<number, revision>>
    heads,      \* what the branches are at
    pc,         \* where the operation that holds the lock is
    number,     \* the pull request it is about
    asked,      \* the revision a creation is for
    page,       \* what each editor read: the number, its edit revision and its text
    saving      \* the text an editor's request is about to store

times == <<createdAt, updatedAt, editedAt>>
words == <<text, edits>>
rows == <<status, revision, times, words>>
process == <<pc, number, asked>>
pages == <<page, saving>>
vars == <<rows, refs, heads, process, pages>>

PcValues == {"idle", "begin", "ensure", "activate", "reconcile", "down", "locked", "recover"}
Visible(n) == status[n] \in {"open", "closed", "merged"}
Open == {n \in Numbers : status[n] = "open"}
Provisional == {n \in Numbers : status[n] = "creating"}
Recorded == {n \in Numbers : status[n] # "none"}
NoPage == [number |-> 0, edits |-> 0, text |-> NoText]
NobodySaves == \A e \in Editors : saving[e] = NoText
Later(s, t) == IF s < t THEN t ELSE s

Init ==
    /\ status = [n \in Numbers |-> "none"]
    /\ revision = [n \in Numbers |-> NoRevision]
    /\ createdAt = [n \in Numbers |-> 0]
    /\ updatedAt = createdAt /\ editedAt = createdAt
    /\ text = [n \in Numbers |-> NoText] /\ edits = [n \in Numbers |-> 0]
    /\ refs = {}
    /\ heads \in Revisions
    /\ pc = "idle" /\ number = 0 /\ asked = NoRevision
    /\ page = [e \in Editors |-> NoPage] /\ saving = [e \in Editors |-> NoText]

Goto(where) == pc' = where /\ UNCHANGED <<number, asked>>
Return == pc' = "idle" /\ number' = 0 /\ asked' = NoRevision
-----------------------------------------------------------------------------
(* Creation. *)

\* Create, up to openPairProblem.
StartCreate ==
    /\ pc = "idle" /\ NobodySaves
    /\ Open = {}
    /\ pc' = "begin" /\ asked' = heads
    /\ UNCHANGED <<rows, refs, heads, number, pages>>

\* The number after the last one that is recorded.
IsNextNumber(n) == (\A m \in Recorded : m < n) /\ (n = 1 \/ n - 1 \in Recorded)

\* BeginPullRequestCreation: provisional until its revision refs exist.
BeginPullRequestCreation ==
    /\ pc = "begin"
    /\ \E n \in Numbers, now \in Times, t \in Texts :
        /\ IsNextNumber(n)
        /\ status' = [status EXCEPT ![n] = "creating"]
        /\ revision' = [revision EXCEPT ![n] = asked]
        /\ createdAt' = [createdAt EXCEPT ![n] = now]
        /\ updatedAt' = [updatedAt EXCEPT ![n] = now]
        /\ editedAt' = [editedAt EXCEPT ![n] = 0]
        /\ text' = [text EXCEPT ![n] = t]
        /\ edits' = [edits EXCEPT ![n] = 0]
        /\ number' = n
    /\ pc' = "ensure"
    /\ UNCHANGED <<refs, heads, asked, pages>>

\* ensureRevisionRefs verifies that both branches are still at the revision.
EnsureRevisionRefs ==
    /\ pc = "ensure"
    /\ heads = asked
    /\ refs' = refs \cup {<<number, asked>>}
    /\ Goto("activate")
    /\ UNCHANGED <<rows, heads, pages>>

\* It reports a failure, before or after its transaction was committed.
EnsureRevisionRefsFails ==
    /\ pc = "ensure"
    /\ \/ heads = asked /\ refs' = refs \cup {<<number, asked>>}
       \/ UNCHANGED refs
    /\ Goto("reconcile")
    /\ UNCHANGED <<rows, heads, pages>>

Activate(n) ==
    /\ status[n] = "creating"
    /\ status' = [status EXCEPT ![n] = "open"]
    /\ \E now \in Times : updatedAt' = [updatedAt EXCEPT ![n] = now]
    /\ UNCHANGED <<revision, createdAt, editedAt, words>>
ActivatePullRequestCreation ==
    /\ pc = "activate"
    /\ Activate(number)
    /\ Return
    /\ UNCHANGED <<refs, heads, pages>>

\* DeletePullRequestCreation; the revision and the review go with the row.
DeletePullRequestCreation(n) ==
    /\ status[n] = "creating"
    /\ status' = [status EXCEPT ![n] = "none"]
    /\ revision' = [revision EXCEPT ![n] = NoRevision]
    /\ createdAt' = [createdAt EXCEPT ![n] = 0]
    /\ updatedAt' = [updatedAt EXCEPT ![n] = 0]
    /\ editedAt' = [editedAt EXCEPT ![n] = 0]
    /\ text' = [text EXCEPT ![n] = NoText]
    /\ edits' = [edits EXCEPT ![n] = 0]

\* reconcileProvisionalCreationLocked: with its refs the pull request becomes
\* visible, without them it is gone.
MutantReconcile(n) == DeletePullRequestCreation(n)    \* does not look at the refs
Reconcile(n) ==
    \/ <<n, revision[n]>> \in refs /\ Activate(n)
    \/ <<n, revision[n]>> \notin refs /\ DeletePullRequestCreation(n)
ReconcileFailedCreation ==
    /\ pc = "reconcile"
    /\ Reconcile(number)
    /\ Return
    /\ UNCHANGED <<refs, heads, pages>>

\* A step fails and the creation returns; its row may stay provisional.
Fail ==
    /\ pc \in {"begin", "activate", "reconcile"}
    /\ Return
    /\ UNCHANGED <<rows, refs, heads, pages>>
-----------------------------------------------------------------------------
(* Operations on a visible pull request; each is one transaction. *)

Operate(n) ==
    /\ pc = "idle" /\ NobodySaves /\ Visible(n)
    /\ UNCHANGED <<revision, createdAt, words, refs, heads, process, pages>>

\* Close and Reopen; Reopen is refused while another one is open.
MutantReopen(n) ==                                        \* does not look for another one
    /\ Operate(n) /\ status[n] = "closed"
    /\ status' = [status EXCEPT ![n] = "open"]
    /\ \E now \in Times : updatedAt' = [updatedAt EXCEPT ![n] = Later(updatedAt[n], now)]
    /\ UNCHANGED editedAt
Reopen(n) ==
    /\ Operate(n) /\ status[n] = "closed" /\ Open = {}
    /\ status' = [status EXCEPT ![n] = "open"]
    /\ \E now \in Times : updatedAt' = [updatedAt EXCEPT ![n] = Later(updatedAt[n], now)]
    /\ UNCHANGED editedAt
Close(n) ==
    /\ Operate(n) /\ status[n] = "open"
    /\ status' = [status EXCEPT ![n] = "closed"]
    /\ \E now \in Times : updatedAt' = [updatedAt EXCEPT ![n] = Later(updatedAt[n], now)]
    /\ UNCHANGED editedAt

\* AppendPullRequestReview.
AppendPullRequestReview(n) ==
    /\ Operate(n) /\ status[n] = "open"
    /\ \E now \in Times : updatedAt' = [updatedAt EXCEPT ![n] = now]
    /\ UNCHANGED <<status, editedAt>>

\* CompletePullRequestMerge; PullRequestMerge models what leads to it.
CompletePullRequestMerge(n) ==
    /\ Operate(n) /\ status[n] = "open"
    /\ status' = [status EXCEPT ![n] = "merged"]
    /\ \E now \in Times : updatedAt' = [updatedAt EXCEPT ![n] = now]
    /\ UNCHANGED editedAt

-----------------------------------------------------------------------------
(* Edits *)

PageOf(n) == [number |-> n, edits |-> edits[n], text |-> text[n]]
Served(e) == pc = "idle" /\ page[e].number \in Numbers /\ Visible(page[e].number)

\* Show, and the page or the answer it gives: one row, read once.
Show(e, n) ==
    /\ pc = "idle" /\ Visible(n) /\ saving[e] = NoText
    /\ page' = [page EXCEPT ![e] = PageOf(n)]
    /\ UNCHANGED <<rows, refs, heads, process, saving>>

\* Edit up to its read of the record, which must be at the revision of the page.
MutantIsCurrent(e) == TRUE
IsCurrent(e) == edits[page[e].number] = page[e].edits
Edit(e, t) ==
    /\ Served(e) /\ saving[e] = NoText /\ page[e].text # NoText
    /\ IsCurrent(e) /\ t # text[page[e].number]
    /\ saving' = [saving EXCEPT ![e] = t]
    /\ UNCHANGED <<rows, refs, heads, process, page>>

\* EditPullRequest compares the revision again: another edit may have been
\* stored since the record was read.
EditPullRequest(e) ==
    /\ Served(e) /\ saving[e] # NoText
    /\ IsCurrent(e) /\ edits[page[e].number] < MaxEdits
    /\ LET n == page[e].number IN
       /\ text' = [text EXCEPT ![n] = saving[e]]
       /\ edits' = [edits EXCEPT ![n] = @ + 1]
       /\ \E now \in Times :
            /\ editedAt' = [editedAt EXCEPT ![n] = Later(Later(createdAt[n], editedAt[n]), now)]
            /\ updatedAt' = [updatedAt EXCEPT ![n] = Later(updatedAt[n], now)]
    /\ page' = [page EXCEPT ![e] = NoPage]
    /\ saving' = [saving EXCEPT ![e] = NoText]
    /\ UNCHANGED <<status, revision, createdAt, refs, heads, process>>

\* staleEditProblem: the form keeps the editor's text and takes the revision of
\* the refusal; the newer text is read afterwards, for the page around the form.
EditIsStale(e) ==
    /\ Served(e) /\ page[e].text # NoText /\ ~IsCurrent(e)
    /\ page' = [page EXCEPT ![e] = [@ EXCEPT !.edits = edits[page[e].number], !.text = NoText]]
    /\ saving' = [saving EXCEPT ![e] = NoText]
    /\ UNCHANGED <<rows, refs, heads, process>>
ShowDraft(e) ==
    /\ Served(e) /\ page[e].text = NoText
    /\ page' = [page EXCEPT ![e].text = text[page[e].number]]
    /\ UNCHANGED <<rows, refs, heads, process, saving>>

\* The edit is not stored, and the editor has the page as before.
EditFails(e) ==
    /\ saving[e] # NoText
    /\ saving' = [saving EXCEPT ![e] = NoText]
    /\ UNCHANGED <<rows, refs, heads, process, page>>
-----------------------------------------------------------------------------
(* Stops, preparation, and pushes outside OwnGit's lock. *)

Stop ==
    /\ pc # "down"
    /\ pc' = "down" /\ number' = 0 /\ asked' = NoRevision
    /\ saving' = [e \in Editors |-> NoText]
    /\ UNCHANGED <<rows, refs, heads, page>>
Start ==
    /\ pc \in {"down", "locked"}
    /\ Goto("recover")
    /\ UNCHANGED <<rows, refs, heads, pages>>
PreparationFails ==
    /\ pc = "recover"
    /\ Goto("locked")
    /\ UNCHANGED <<rows, refs, heads, pages>>

\* RecoverRepositoryLocked resolves every provisional creation, and only then
\* is the repository served.
ReconcileProvisional ==
    /\ pc = "recover"
    /\ \E n \in Provisional : Reconcile(n)
    /\ UNCHANGED <<refs, heads, process, pages>>
MutantRecovered ==                                        \* serves the repository first
    /\ pc = "recover"
    /\ Goto("idle")
    /\ UNCHANGED <<rows, refs, heads, pages>>
Recovered ==
    /\ pc = "recover"
    /\ Provisional = {}
    /\ Goto("idle")
    /\ UNCHANGED <<rows, refs, heads, pages>>

MoveBranches ==
    /\ heads' \in Revisions
    /\ UNCHANGED <<rows, refs, process, pages>>

Next ==
    \/ StartCreate \/ BeginPullRequestCreation \/ EnsureRevisionRefs \/ EnsureRevisionRefsFails
    \/ ActivatePullRequestCreation \/ ReconcileFailedCreation \/ Fail
    \/ \E n \in Numbers : \/ Reopen(n) \/ Close(n) \/ AppendPullRequestReview(n)
                          \/ CompletePullRequestMerge(n)
    \/ \E e \in Editors : \/ \E n \in Numbers : Show(e, n)
                          \/ \E t \in Texts : Edit(e, t)
                          \/ EditPullRequest(e) \/ EditIsStale(e) \/ ShowDraft(e) \/ EditFails(e)
    \/ Stop \/ Start \/ PreparationFails \/ ReconcileProvisional \/ Recovered \/ MoveBranches

Spec == Init /\ [][Next]_vars
-----------------------------------------------------------------------------
(* Properties. *)

TypeOK ==
    /\ status \in [Numbers -> {"none", "creating", "open", "closed", "merged"}]
    /\ revision \in [Numbers -> Revisions \cup {NoRevision}]
    /\ createdAt \in [Numbers -> Times \cup {0}]
    /\ updatedAt \in [Numbers -> Times \cup {0}]
    /\ editedAt \in [Numbers -> Times \cup {0}]
    /\ refs \subseteq Numbers \X Revisions
    /\ heads \in Revisions
    /\ pc \in PcValues /\ number \in 0..MaxNumber /\ asked \in Revisions \cup {NoRevision}
    /\ text \in [Numbers -> Texts \cup {NoText}] /\ edits \in [Numbers -> 0..MaxEdits]
    /\ page \in [Editors -> [number : 0..MaxNumber, edits : 0..MaxEdits, text : Texts \cup {NoText}]]
    /\ saving \in [Editors -> Texts \cup {NoText}]

\* A visible pull request has the refs of the revision it was created for, and
\* refs exist only for a recorded pull request and its revision: a number that
\* is given again after a failed creation inherits no refs.
VisibleIsRetained == \A n \in Numbers : Visible(n) => <<n, revision[n]>> \in refs
RefsAreRecorded == \A x \in refs : status[x[1]] # "none" /\ revision[x[1]] = x[2]

\* Under the lock no pull request of the pair is open while one is created,
\* and the creation is about the row it recorded.
CreationIsInOrder ==
    /\ pc \in {"begin", "ensure", "activate", "reconcile"} => Open = {} /\ asked \in Revisions
    /\ pc \in {"ensure", "activate", "reconcile"} =>
        number \in Numbers /\ status[number] = "creating" /\ revision[number] = asked
    /\ pc = "activate" => <<number, asked>> \in refs

\* What an editor has at the present edit revision is the present text: no edit
\* that it did not see has the same revision.  An edit in progress holds the
\* read lock, and what was shown stays visible.
PagesAreCurrent ==
    \A e \in Editors :
        /\ page[e].number # 0 => Visible(page[e].number) /\ page[e].edits <= edits[page[e].number]
        /\ page[e].number # 0 /\ page[e].text # NoText /\ IsCurrent(e) =>
              page[e].text = text[page[e].number]
        /\ saving[e] # NoText =>
              pc = "idle" /\ page[e].number # 0 /\ page[e].text # NoText

\* The inductive invariant: under the lock of createForHeadsLocked the pair has
\* no open pull request, and rows and revision refs are about each other.
CreationInvariant ==
    /\ TypeOK
    /\ VisibleIsRetained
    /\ RefsAreRecorded
    /\ CreationIsInOrder
    /\ PagesAreCurrent

\* "A later edit is never overwritten": who replaces a text has read it.
EditsReplaceWhatWasRead ==
    [][\A n \in Numbers : Visible(n) /\ text'[n] # text[n] =>
        \E e \in Editors : page[e].number = n /\ page[e].text = text[n]]_vars

\* An edit is never recorded as earlier than the creation, although the clock
\* moved back ("because a record that says so is refused on restore").
EditsAreRestorable == \A n \in Numbers : editedAt[n] # 0 => createdAt[n] <= editedAt[n]

\* "Only one pull request can be open for a source and target pair."
OneOpenPullRequestPerPair == Cardinality(Open) <= 1

\* While the repository is served no operation opens a second pull request
\* for the pair.
NoRequestOpensASecond ==
    [][Open # {} /\ ~(Open' \subseteq Open) => pc = "recover"]_vars

\* A stopped server is started again, and the preparation that settles the
\* provisional creations is tried until it succeeds.
FairSpec ==
    /\ Spec
    /\ WF_vars(Start) /\ SF_vars(ReconcileProvisional)
StopsEnd == <>[][~Stop]_vars

\* After a stop every provisional creation becomes a visible pull request or
\* disappears, once the server stays up (reconcileProvisionalCreationLocked).
ProvisionalIsSettled ==
    StopsEnd => \A n \in Numbers : (pc = "down" /\ status[n] = "creating" ~> status[n] # "creating")
=============================================================================
