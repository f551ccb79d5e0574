----------------------- MODULE PullRequestCreationProofs ----------------------
(***************************************************************************)
(* Proofs about PullRequestCreation: CreationInvariant and                 *)
(* EditsAreRestorable are inductive together with the type invariant;      *)
(* NoRequestOpensASecond follows from the order of a creation, and         *)
(* EditsReplaceWhatWasRead from the pages being current.                   *)
(***************************************************************************)
EXTENDS PullRequestCreation, TLAPS

\* What the clock says is a number.
LEMMA TimesAreNumbers == \A t \in Times \cup {0} : t \in Nat
  <1> SUFFICES ASSUME NEW t \in Times PROVE t \in Nat
    OBVIOUS
  <1>1. t \in Nat \ {0}
    BY TimesAssumption
  <1> QED
    BY <1>1

\* Times are positive, so that 0 says that there is none.
LEMMA LaterIsATime ==
    ASSUME NEW s \in Times \cup {0}, NEW t \in Times
    PROVE  Later(s, t) \in Times /\ Later(s, t) >= s /\ Later(s, t) >= t
  BY TimesAssumption DEF Later

\* The number after the last recorded one is a free one.
LEMMA NextNumberIsFree ==
    ASSUME TypeOK, NEW n \in Numbers, IsNextNumber(n)
    PROVE  status[n] = "none"
  BY MaxNumberAssumption DEF IsNextNumber, Recorded, Numbers, TypeOK

\* The initial records satisfy the invariant.
LEMMA CreationInit == Init => CreationInvariant /\ EditsAreRestorable
  <1> SUFFICES ASSUME Init PROVE CreationInvariant /\ EditsAreRestorable
    OBVIOUS
  <1>1. TypeOK
    BY MaxNumberAssumption, MaxEditsAssumption DEF Init, TypeOK, PcValues, NoPage
  <1>2. VisibleIsRetained /\ RefsAreRecorded /\ CreationIsInOrder /\ PagesAreCurrent
    BY DEF Init, VisibleIsRetained, RefsAreRecorded, CreationIsInOrder, Visible, PagesAreCurrent, NoPage
  <1>3. EditsAreRestorable
    BY DEF Init, EditsAreRestorable
  <1> QED
    BY <1>1, <1>2, <1>3 DEF CreationInvariant
\* A page is of a number that exists, or of none.
LEMMA PageNumber ==
    ASSUME TypeOK, NEW e \in Editors, page[e].number # 0
    PROVE  page[e].number \in Numbers
  BY MaxNumberAssumption DEF TypeOK, Numbers

\* What leaves every visible text at its revision, and no edit half done without
\* the lock, leaves the pages current.
LEMMA PagesKept ==
    ASSUME TypeOK, PagesAreCurrent, page' = page,
           \A n \in Numbers : Visible(n) => Visible(n)' /\ edits'[n] = edits[n] /\ text'[n] = text[n],
           \/ saving' = saving /\ (pc' = "idle" \/ pc # "idle" \/ NobodySaves)
           \/ saving' = [e \in Editors |-> NoText]
    PROVE  PagesAreCurrent'
  <1> SUFFICES ASSUME NEW e \in Editors
               PROVE  /\ page[e].number # 0 => Visible(page[e].number)' /\ page[e].edits <= edits'[page[e].number]
                      /\ page[e].number # 0 /\ page[e].text # NoText
                            /\ edits'[page[e].number] = page[e].edits =>
                            page[e].text = text'[page[e].number]
                      /\ saving'[e] # NoText =>
                            pc' = "idle" /\ page[e].number # 0 /\ page[e].text # NoText
    BY DEF PagesAreCurrent, IsCurrent, Visible
  <1>1. page[e].number # 0 =>
          /\ Visible(page[e].number)'
          /\ edits'[page[e].number] = edits[page[e].number]
          /\ text'[page[e].number] = text[page[e].number]
    BY PageNumber DEF PagesAreCurrent
  <1>2. saving'[e] # NoText => saving[e] # NoText /\ pc' = "idle"
    BY DEF PagesAreCurrent, NobodySaves
  <1> QED
    BY <1>1, <1>2 DEF PagesAreCurrent, IsCurrent
-----------------------------------------------------------------------------
(* The two effects of a creation that is settled. *)

\* A provisional pull request that has its refs becomes visible, and
\* everything but the order of the operation is preserved.
LEMMA ActivatePreserves ==
    ASSUME TypeOK, VisibleIsRetained, RefsAreRecorded, EditsAreRestorable,
           NEW n \in Numbers, <<n, revision[n]>> \in refs, Activate(n), UNCHANGED refs
    PROVE  /\ status' \in [Numbers -> {"none", "creating", "open", "closed", "merged"}]
           /\ updatedAt' \in [Numbers -> Times \cup {0}]
           /\ UNCHANGED <<revision, createdAt, editedAt, words>>
           /\ VisibleIsRetained' /\ RefsAreRecorded' /\ EditsAreRestorable'
           /\ \A m \in Numbers : Visible(m) => Visible(m)'
  BY DEF TypeOK, VisibleIsRetained, RefsAreRecorded, EditsAreRestorable, Activate, Visible

\* A provisional pull request without refs disappears without a trace.
LEMMA DeletePreserves ==
    ASSUME TypeOK, VisibleIsRetained, RefsAreRecorded, EditsAreRestorable,
           NEW n \in Numbers, <<n, revision[n]>> \notin refs,
           DeletePullRequestCreation(n), UNCHANGED refs
    PROVE  /\ status' \in [Numbers -> {"none", "creating", "open", "closed", "merged"}]
           /\ revision' \in [Numbers -> Revisions \cup {NoRevision}]
           /\ createdAt' \in [Numbers -> Times \cup {0}]
           /\ updatedAt' \in [Numbers -> Times \cup {0}]
           /\ editedAt' \in [Numbers -> Times \cup {0}]
           /\ text' \in [Numbers -> Texts \cup {NoText}] /\ edits' \in [Numbers -> 0..MaxEdits]
           /\ VisibleIsRetained' /\ RefsAreRecorded' /\ EditsAreRestorable'
           /\ \A m \in Numbers : Visible(m) => Visible(m)' /\ edits'[m] = edits[m] /\ text'[m] = text[m]
  <1>1. /\ status' \in [Numbers -> {"none", "creating", "open", "closed", "merged"}]
        /\ revision' \in [Numbers -> Revisions \cup {NoRevision}]
        /\ createdAt' \in [Numbers -> Times \cup {0}]
        /\ updatedAt' \in [Numbers -> Times \cup {0}]
        /\ editedAt' \in [Numbers -> Times \cup {0}]
        /\ text' \in [Numbers -> Texts \cup {NoText}] /\ edits' \in [Numbers -> 0..MaxEdits]
    BY MaxEditsAssumption DEF TypeOK, DeletePullRequestCreation
  <1>2. VisibleIsRetained'
    BY DEF TypeOK, VisibleIsRetained, DeletePullRequestCreation, Visible
  <1>3. RefsAreRecorded'
    <2> SUFFICES ASSUME NEW x \in refs
                 PROVE  status'[x[1]] # "none" /\ revision'[x[1]] = x[2]
      BY DEF RefsAreRecorded
    <2>1. x = <<x[1], x[2]>> /\ x[1] \in Numbers
      BY DEF TypeOK
    <2>2. x[1] # n
      BY <2>1 DEF RefsAreRecorded
    <2> QED
      BY <2>1, <2>2 DEF TypeOK, RefsAreRecorded, DeletePullRequestCreation
  <1>4. EditsAreRestorable'
    BY DEF TypeOK, EditsAreRestorable, DeletePullRequestCreation
  <1>5. \A m \in Numbers : Visible(m) => Visible(m)' /\ edits'[m] = edits[m] /\ text'[m] = text[m]
    BY DEF TypeOK, Visible, DeletePullRequestCreation
  <1> QED
    BY <1>1, <1>2, <1>3, <1>4, <1>5
-----------------------------------------------------------------------------
(* What an editor reads, and the edit it stores. *)

\* A page that is shown is the present one, an answer that an edit is stale
\* carries no text, and an edit goes on only from a page with a text.
LEMMA ReadPreserves ==
    ASSUME TypeOK, PagesAreCurrent, NEW e \in Editors,
           \/ \E n \in Numbers : Show(e, n)
           \/ \E t \in Texts : Edit(e, t)
           \/ EditIsStale(e) \/ ShowDraft(e) \/ EditFails(e)
    PROVE  /\ page' \in [Editors -> [number : 0..MaxNumber, edits : 0..MaxEdits, text : Texts \cup {NoText}]]
           /\ saving' \in [Editors -> Texts \cup {NoText}]
           /\ PagesAreCurrent'
  <1> DEFINE Pages == [number : 0..MaxNumber, edits : 0..MaxEdits, text : Texts \cup {NoText}]
  <1>0. /\ page \in [Editors -> Pages] /\ saving \in [Editors -> Texts \cup {NoText}]
        /\ edits \in [Numbers -> 0..MaxEdits] /\ text \in [Numbers -> Texts \cup {NoText}]
    BY DEF TypeOK, Numbers
  <1>1. UNCHANGED <<status, edits, text, pc>>
    BY DEF Show, Edit, EditIsStale, ShowDraft, EditFails, rows, words, process
  <1>2. CASE \E n \in Numbers : Show(e, n)
    <2> PICK n \in Numbers : Show(e, n)
      BY <1>2
    <2>1. /\ pc = "idle" /\ Visible(n) /\ saving[e] = NoText /\ saving' = saving
          /\ page' = [page EXCEPT ![e] = PageOf(n)]
      BY DEF Show
    <2>2. PageOf(n) \in Pages /\ n # 0
      BY <1>0, MaxNumberAssumption DEF PageOf, Numbers
    <2>3. PagesAreCurrent'
      BY <1>0, <1>1, <2>1, <2>2 DEF PagesAreCurrent, IsCurrent, Visible, PageOf
    <2> QED
      BY <1>0, <2>1, <2>2, <2>3
  <1>3. CASE \E t \in Texts : Edit(e, t)
    BY <1>0, <1>1, <1>3, MaxNumberAssumption
       DEF Edit, Served, Numbers, PagesAreCurrent, IsCurrent, Visible
  <1>4. CASE EditIsStale(e)
    <2>1. /\ page[e].number \in Numbers /\ pc = "idle" /\ Visible(page[e].number)
          /\ page' = [page EXCEPT ![e] = [@ EXCEPT !.edits = edits[page[e].number], !.text = NoText]]
          /\ saving' = [saving EXCEPT ![e] = NoText]
      BY <1>4 DEF EditIsStale, Served
    <2>2. page' \in [Editors -> Pages]
      BY <1>0, <2>1
    <2>3. PagesAreCurrent'
      BY <1>0, <1>1, <2>1 DEF PagesAreCurrent, IsCurrent, Visible
    <2> QED
      BY <1>0, <2>1, <2>2, <2>3
  <1>5. CASE ShowDraft(e)
    <2>1. /\ page[e].number \in Numbers /\ saving' = saving
          /\ page[e].text = NoText
          /\ page' = [page EXCEPT ![e].text = text[page[e].number]]
      BY <1>5 DEF ShowDraft, Served
    <2>2. page' \in [Editors -> Pages]
      BY <1>0, <2>1
    <2>3. PagesAreCurrent'
      BY <1>0, <1>1, <2>1 DEF PagesAreCurrent, IsCurrent, Visible
    <2> QED
      BY <1>0, <2>1, <2>2, <2>3
  <1>6. CASE EditFails(e)
    BY <1>0, <1>1, <1>6 DEF EditFails, PagesAreCurrent, IsCurrent, Visible
  <1> QED
    BY <1>2, <1>3, <1>4, <1>5, <1>6

\* An edit takes the next revision, which no page has, and is not recorded as
\* earlier than the creation.
LEMMA EditPreserves ==
    ASSUME TypeOK, VisibleIsRetained, RefsAreRecorded, CreationIsInOrder, PagesAreCurrent,
           EditsAreRestorable, NEW e \in Editors, EditPullRequest(e)
    PROVE  /\ TypeOK' /\ VisibleIsRetained' /\ RefsAreRecorded' /\ CreationIsInOrder'
           /\ PagesAreCurrent' /\ EditsAreRestorable'
  <1> DEFINE n == page[e].number
  <1> PICK now \in Times :
        /\ editedAt' = [editedAt EXCEPT ![n] = Later(Later(createdAt[n], editedAt[n]), now)]
        /\ updatedAt' = [updatedAt EXCEPT ![n] = Later(updatedAt[n], now)]
    BY DEF EditPullRequest
  <1>1. /\ pc = "idle" /\ n \in Numbers /\ saving[e] \in Texts /\ edits[n] \in 0..(MaxEdits - 1)
        /\ text' = [text EXCEPT ![n] = saving[e]]
        /\ edits' = [edits EXCEPT ![n] = @ + 1]
        /\ page' = [page EXCEPT ![e] = NoPage]
        /\ saving' = [saving EXCEPT ![e] = NoText]
        /\ UNCHANGED <<status, revision, createdAt, refs, heads, pc, number, asked>>
    BY MaxEditsAssumption DEF EditPullRequest, Served, TypeOK, process
  <1> DEFINE s == Later(createdAt[n], editedAt[n])
  <1>c. createdAt[n] \in Times \cup {0} /\ editedAt[n] \in Times \cup {0} /\ updatedAt[n] \in Times \cup {0}
    BY <1>1 DEF TypeOK
  <1>i. createdAt[n] \in Nat /\ editedAt[n] \in Nat
    BY <1>c, TimesAreNumbers
  <1>2. s \in Times \cup {0} /\ s >= createdAt[n]
    BY <1>c, <1>i DEF Later
  <1>3. Later(s, now) \in Times /\ Later(s, now) >= s /\ Later(updatedAt[n], now) \in Times
    <2> HIDE DEF s, n
    <2> QED
      BY <1>c, <1>2, LaterIsATime
  <1>4. TypeOK'
    <2> HIDE DEF n, s
    <2>1. updatedAt' \in [Numbers -> Times \cup {0}]
      BY <1>1, <1>3 DEF TypeOK
    <2>2. editedAt' \in [Numbers -> Times \cup {0}]
      <3>1. editedAt' = [editedAt EXCEPT ![n] = Later(s, now)]
        BY DEF s
      <3> QED
        BY <1>3, <3>1 DEF TypeOK
    <2>3. text' \in [Numbers -> Texts \cup {NoText}] /\ edits' \in [Numbers -> 0..MaxEdits]
      BY <1>1, MaxEditsAssumption DEF TypeOK
    <2>4. /\ page' \in [Editors -> [number : 0..MaxNumber, edits : 0..MaxEdits, text : Texts \cup {NoText}]]
          /\ saving' \in [Editors -> Texts \cup {NoText}]
      BY <1>1, MaxNumberAssumption, MaxEditsAssumption DEF TypeOK, NoPage
    <2> QED
      BY <1>1, <2>1, <2>2, <2>3, <2>4 DEF TypeOK
  <1>5. EditsAreRestorable'
    <2>1. createdAt[n] <= Later(s, now)
      <3> HIDE DEF s, n
      <3>1. s \in Nat /\ Later(s, now) \in Nat
        BY <1>2, <1>3, TimesAreNumbers
      <3>2. \A a, b, c \in Nat : b >= a /\ c >= b => a <= c
        OBVIOUS
      <3> QED
        BY <3>1, <3>2, <1>i, <1>2, <1>3
    <2> QED
      BY <1>1, <2>1 DEF TypeOK, EditsAreRestorable
  <1>6. VisibleIsRetained' /\ RefsAreRecorded' /\ CreationIsInOrder'
    BY <1>1 DEF VisibleIsRetained, RefsAreRecorded, CreationIsInOrder, Visible
  <1>7. PagesAreCurrent'
    <2> SUFFICES ASSUME NEW f \in Editors
                 PROVE  /\ page'[f].number # 0 =>
                              /\ status'[page'[f].number] \in {"open", "closed", "merged"}
                              /\ page'[f].edits <= edits'[page'[f].number]
                        /\ page'[f].number # 0 /\ page'[f].text # NoText
                              /\ edits'[page'[f].number] = page'[f].edits =>
                              page'[f].text = text'[page'[f].number]
                        /\ saving'[f] # NoText =>
                              pc' = "idle" /\ page'[f].number # 0 /\ page'[f].text # NoText
      BY DEF PagesAreCurrent, IsCurrent, Visible
    <2>1. CASE f = e
      BY <2>1, <1>1 DEF TypeOK, NoPage
    <2>2. CASE f # e
      <3>1. page'[f] = page[f] /\ saving'[f] = saving[f]
        BY <1>1, <2>2 DEF TypeOK
      <3>2. page[f].edits \in Nat
        BY MaxEditsAssumption DEF TypeOK
      <3>3. CASE page[f].number = 0
        BY <1>1, <3>1, <3>3 DEF PagesAreCurrent
      <3>4. CASE page[f].number # 0 /\ page[f].number # n
        <4>1. /\ page[f].number \in Numbers
              /\ edits'[page[f].number] = edits[page[f].number]
              /\ text'[page[f].number] = text[page[f].number]
          BY <1>1, <3>4, PageNumber DEF TypeOK
        <4> QED
          BY <1>1, <3>1, <3>4, <4>1 DEF PagesAreCurrent, IsCurrent, Visible
      <3>5. CASE page[f].number # 0 /\ page[f].number = n
        <4>1. page[f].edits <= edits[n] /\ edits[n] \in Nat /\ edits'[n] = edits[n] + 1
          BY <1>1, <3>5, MaxEditsAssumption DEF PagesAreCurrent, TypeOK
        <4>2. page[f].edits < edits'[n]
          BY <3>2, <4>1
        <4> QED
          BY <1>1, <3>1, <3>2, <3>5, <4>1, <4>2 DEF PagesAreCurrent, Visible
      <3> QED
        BY <3>3, <3>4, <3>5
    <2> QED
      BY <2>1, <2>2
  <1> QED
    BY <1>4, <1>5, <1>6, <1>7
-----------------------------------------------------------------------------
(* Every step preserves the invariant. *)

\* The inductive step.
LEMMA CreationStep ==
    CreationInvariant /\ EditsAreRestorable /\ [Next]_vars => CreationInvariant' /\ EditsAreRestorable'
  <1> SUFFICES ASSUME CreationInvariant, EditsAreRestorable, [Next]_vars
               PROVE  CreationInvariant' /\ EditsAreRestorable'
    OBVIOUS
  <1>r. /\ TypeOK /\ VisibleIsRetained /\ RefsAreRecorded /\ CreationIsInOrder /\ PagesAreCurrent
    BY DEF CreationInvariant
  <1>1. CASE StartCreate
    <2>1. PagesAreCurrent'
      BY <1>1, <1>r, PagesKept DEF StartCreate, rows, words, pages, Visible
    <2> QED
      BY <1>1, <1>r, <2>1 DEF CreationInvariant, EditsAreRestorable, TypeOK, VisibleIsRetained,
           RefsAreRecorded, CreationIsInOrder, Visible, StartCreate, Open, rows, times, words, pages, PcValues
  <1>2. CASE BeginPullRequestCreation
    <2> PICK n \in Numbers, now \in Times, t \in Texts :
          /\ IsNextNumber(n)
          /\ status' = [status EXCEPT ![n] = "creating"]
          /\ revision' = [revision EXCEPT ![n] = asked]
          /\ createdAt' = [createdAt EXCEPT ![n] = now]
          /\ updatedAt' = [updatedAt EXCEPT ![n] = now]
          /\ editedAt' = [editedAt EXCEPT ![n] = 0]
          /\ text' = [text EXCEPT ![n] = t]
          /\ edits' = [edits EXCEPT ![n] = 0]
          /\ number' = n
      BY <1>2 DEF BeginPullRequestCreation
    <2>1. status[n] = "none" /\ \A x \in refs : x[1] # n
      BY <1>r, NextNumberIsFree DEF RefsAreRecorded
    <2>2. pc = "begin" /\ pc' = "ensure" /\ UNCHANGED <<refs, heads, asked, page, saving>>
          /\ Open = {} /\ asked \in Revisions
      BY <1>2, <1>r DEF BeginPullRequestCreation, CreationIsInOrder, pages
    <2>3. TypeOK'
      BY <1>r, <2>2, MaxNumberAssumption, MaxEditsAssumption DEF TypeOK, PcValues, Numbers
    <2>4. VisibleIsRetained'
      BY <1>r, <2>1, <2>2 DEF TypeOK, VisibleIsRetained, Visible
    <2>5. RefsAreRecorded'
      BY <1>r, <2>1, <2>2 DEF TypeOK, RefsAreRecorded
    <2>6. CreationIsInOrder'
      BY <1>r, <2>1, <2>2 DEF TypeOK, CreationIsInOrder, Open
    <2>7. EditsAreRestorable'
      BY <1>r, <2>1 DEF TypeOK, EditsAreRestorable
    <2>8. PagesAreCurrent'
      <3>1. \A m \in Numbers : Visible(m) => Visible(m)' /\ edits'[m] = edits[m] /\ text'[m] = text[m]
        BY <1>r, <2>1 DEF TypeOK, Visible
      <3> QED
        BY <1>r, <2>2, <3>1, PagesKept
    <2> QED
      BY <2>3, <2>4, <2>5, <2>6, <2>7, <2>8 DEF CreationInvariant
  <1>3. CASE EnsureRevisionRefs \/ EnsureRevisionRefsFails
    <2>1. /\ UNCHANGED <<rows, heads, number, asked, pages>>
          /\ pc = "ensure"
          /\ \/ refs' = refs
             \/ refs' = refs \cup {<<number, asked>>}
          /\ pc' \in {"activate", "reconcile"}
          /\ pc' = "activate" => refs' = refs \cup {<<number, asked>>}
      BY <1>3 DEF EnsureRevisionRefs, EnsureRevisionRefsFails, Goto
    <2>2. /\ asked \in Revisions /\ number \in Numbers /\ Open = {}
          /\ status[number] = "creating" /\ revision[number] = asked
      BY <1>r, <2>1 DEF CreationIsInOrder
    <2>3. PagesAreCurrent'
      BY <1>r, <2>1, PagesKept DEF rows, words, pages, Visible
    <2> QED
      BY <1>r, <2>1, <2>2, <2>3 DEF CreationInvariant, TypeOK, VisibleIsRetained, RefsAreRecorded,
           CreationIsInOrder, EditsAreRestorable, Visible, Open, rows, times, words, pages, PcValues
  <1>4. CASE ActivatePullRequestCreation
    <2>1. /\ pc = "activate" /\ Activate(number) /\ UNCHANGED <<refs, heads, page, saving>>
          /\ pc' = "idle" /\ number' = 0 /\ asked' = NoRevision
          /\ number \in Numbers /\ <<number, revision[number]>> \in refs
      BY <1>4, <1>r DEF ActivatePullRequestCreation, Return, CreationIsInOrder, pages
    <2>2. /\ status' \in [Numbers -> {"none", "creating", "open", "closed", "merged"}]
          /\ updatedAt' \in [Numbers -> Times \cup {0}]
          /\ UNCHANGED <<revision, createdAt, editedAt, words>>
          /\ VisibleIsRetained' /\ RefsAreRecorded' /\ EditsAreRestorable'
          /\ \A m \in Numbers : Visible(m) => Visible(m)'
      BY <1>r, <2>1, ActivatePreserves
    <2>3. PagesAreCurrent'
      BY <1>r, <2>1, <2>2, PagesKept DEF words
    <2> QED
      BY <1>r, <2>1, <2>2, <2>3, MaxNumberAssumption
         DEF CreationInvariant, TypeOK, CreationIsInOrder, PcValues, words
  <1>5. CASE ReconcileFailedCreation
    <2>1. /\ Reconcile(number) /\ UNCHANGED <<refs, heads, page, saving>>
          /\ pc' = "idle" /\ number' = 0 /\ asked' = NoRevision
          /\ number \in Numbers
      BY <1>5, <1>r DEF ReconcileFailedCreation, Return, CreationIsInOrder, pages
    <2>2. CASE <<number, revision[number]>> \in refs /\ Activate(number)
      <3>1. /\ status' \in [Numbers -> {"none", "creating", "open", "closed", "merged"}]
            /\ updatedAt' \in [Numbers -> Times \cup {0}]
            /\ UNCHANGED <<revision, createdAt, editedAt, words>>
            /\ VisibleIsRetained' /\ RefsAreRecorded' /\ EditsAreRestorable'
            /\ \A m \in Numbers : Visible(m) => Visible(m)'
        BY <1>r, <2>1, <2>2, ActivatePreserves
      <3>2. PagesAreCurrent'
        BY <1>r, <2>1, <3>1, PagesKept DEF words
      <3> QED
        BY <1>r, <2>1, <3>1, <3>2, MaxNumberAssumption
           DEF CreationInvariant, TypeOK, CreationIsInOrder, PcValues, words
    <2>3. CASE <<number, revision[number]>> \notin refs /\ DeletePullRequestCreation(number)
      <3>1. /\ status' \in [Numbers -> {"none", "creating", "open", "closed", "merged"}]
            /\ revision' \in [Numbers -> Revisions \cup {NoRevision}]
            /\ createdAt' \in [Numbers -> Times \cup {0}]
            /\ updatedAt' \in [Numbers -> Times \cup {0}]
            /\ editedAt' \in [Numbers -> Times \cup {0}]
            /\ text' \in [Numbers -> Texts \cup {NoText}] /\ edits' \in [Numbers -> 0..MaxEdits]
            /\ VisibleIsRetained' /\ RefsAreRecorded' /\ EditsAreRestorable'
            /\ \A m \in Numbers : Visible(m) => Visible(m)' /\ edits'[m] = edits[m] /\ text'[m] = text[m]
        BY <1>r, <2>1, <2>3, DeletePreserves
      <3>2. PagesAreCurrent'
        BY <1>r, <2>1, <3>1, PagesKept
      <3> QED
        BY <1>r, <2>1, <3>1, <3>2, MaxNumberAssumption
           DEF CreationInvariant, TypeOK, CreationIsInOrder, PcValues
    <2> QED
      BY <2>1, <2>2, <2>3 DEF Reconcile
  <1>6. CASE Fail
    <2>1. PagesAreCurrent'
      BY <1>6, <1>r, PagesKept DEF Fail, Return, rows, words, pages, Visible
    <2> QED
      BY <1>6, <1>r, <2>1, MaxNumberAssumption DEF CreationInvariant, TypeOK, VisibleIsRetained,
           RefsAreRecorded, CreationIsInOrder, EditsAreRestorable, Visible, Fail, Return, rows, times,
           words, pages, PcValues
  <1>7. ASSUME NEW n \in Numbers,
               Reopen(n) \/ Close(n) \/ AppendPullRequestReview(n) \/ CompletePullRequestMerge(n)
        PROVE  CreationInvariant' /\ EditsAreRestorable'
    <2>1. /\ pc = "idle" /\ Visible(n)
          /\ UNCHANGED <<revision, createdAt, editedAt, refs, heads, pc, number, asked,
                         text, edits, page, saving>>
      BY <1>7 DEF Reopen, Close, AppendPullRequestReview, CompletePullRequestMerge, Operate, process,
           words, pages
    <2>2. \/ status' = status
          \/ \E s \in {"open", "closed", "merged"} : status' = [status EXCEPT ![n] = s]
      BY <1>7 DEF Reopen, Close, AppendPullRequestReview, CompletePullRequestMerge
    <2>3. \E t \in Times \cup {0} : updatedAt' = [updatedAt EXCEPT ![n] = t]
      BY <1>7, <1>r, LaterIsATime DEF Reopen, Close, AppendPullRequestReview, CompletePullRequestMerge, TypeOK
    <2>4. TypeOK'
      BY <1>r, <2>1, <2>2, <2>3 DEF TypeOK
    <2>5. VisibleIsRetained' /\ RefsAreRecorded'
      BY <1>r, <2>1, <2>2 DEF TypeOK, VisibleIsRetained, RefsAreRecorded, Visible
    <2>6. CreationIsInOrder' /\ EditsAreRestorable'
      BY <1>r, <2>1 DEF CreationIsInOrder, EditsAreRestorable
    <2>7. PagesAreCurrent'
      <3>1. \A m \in Numbers : Visible(m) => Visible(m)'
        BY <1>r, <2>2 DEF TypeOK, Visible
      <3> QED
        BY <1>r, <2>1, <3>1, PagesKept
    <2> QED
      BY <2>4, <2>5, <2>6, <2>7 DEF CreationInvariant
  <1>8. ASSUME NEW e \in Editors, EditPullRequest(e)
        PROVE  CreationInvariant' /\ EditsAreRestorable'
    BY <1>8, EditPreserves DEF CreationInvariant
  <1>9. ASSUME NEW e \in Editors,
                \/ \E n \in Numbers : Show(e, n)
                \/ \E t \in Texts : Edit(e, t)
                \/ EditIsStale(e) \/ ShowDraft(e) \/ EditFails(e)
         PROVE  CreationInvariant' /\ EditsAreRestorable'
    <2>1. UNCHANGED <<rows, refs, heads, process>>
      BY <1>9 DEF Show, Edit, EditIsStale, ShowDraft, EditFails
    <2>2. /\ page' \in [Editors -> [number : 0..MaxNumber, edits : 0..MaxEdits, text : Texts \cup {NoText}]]
          /\ saving' \in [Editors -> Texts \cup {NoText}]
          /\ PagesAreCurrent'
      BY <1>9, <1>r, ReadPreserves
    <2> QED
      BY <1>r, <2>1, <2>2 DEF CreationInvariant, TypeOK, VisibleIsRetained, RefsAreRecorded,
           CreationIsInOrder, EditsAreRestorable, Visible, Open, rows, times, words, process
  <1>10. CASE Stop \/ Start \/ PreparationFails \/ Recovered
    <2>1. /\ UNCHANGED <<rows, refs, heads, page>>
          /\ pc' \in {"down", "recover", "locked", "idle"}
          /\ number' \in {0, number} /\ asked' \in {NoRevision, asked}
          /\ \/ saving' = saving /\ pc # "idle"
             \/ saving' = [e \in Editors |-> NoText]
      BY <1>10 DEF Stop, Start, PreparationFails, Recovered, Goto, pages
    <2>2. PagesAreCurrent'
      BY <1>r, <2>1, PagesKept DEF rows, words, Visible
    <2>3. saving' \in [Editors -> Texts \cup {NoText}]
      BY <1>r, <2>1 DEF TypeOK
    <2> QED
      BY <1>r, <2>1, <2>2, <2>3, MaxNumberAssumption DEF CreationInvariant, TypeOK, VisibleIsRetained,
           RefsAreRecorded, CreationIsInOrder, EditsAreRestorable, Visible, rows, times, words, PcValues
  <1>11. CASE ReconcileProvisional
    <2> PICK n \in Numbers : Reconcile(n)
      BY <1>11 DEF ReconcileProvisional, Provisional
    <2>1. pc = "recover" /\ UNCHANGED <<refs, heads, pc, number, asked, page, saving>>
      BY <1>11 DEF ReconcileProvisional, process, pages
    <2>2. CASE <<n, revision[n]>> \in refs /\ Activate(n)
      <3>1. /\ status' \in [Numbers -> {"none", "creating", "open", "closed", "merged"}]
            /\ updatedAt' \in [Numbers -> Times \cup {0}]
            /\ UNCHANGED <<revision, createdAt, editedAt, words>>
            /\ VisibleIsRetained' /\ RefsAreRecorded' /\ EditsAreRestorable'
            /\ \A m \in Numbers : Visible(m) => Visible(m)'
        BY <1>r, <2>1, <2>2, ActivatePreserves
      <3>2. PagesAreCurrent'
        BY <1>r, <2>1, <3>1, PagesKept DEF words
      <3> QED
        BY <1>r, <2>1, <3>1, <3>2 DEF CreationInvariant, TypeOK, CreationIsInOrder, words
    <2>3. CASE <<n, revision[n]>> \notin refs /\ DeletePullRequestCreation(n)
      <3>1. /\ status' \in [Numbers -> {"none", "creating", "open", "closed", "merged"}]
            /\ revision' \in [Numbers -> Revisions \cup {NoRevision}]
            /\ createdAt' \in [Numbers -> Times \cup {0}]
            /\ updatedAt' \in [Numbers -> Times \cup {0}]
            /\ editedAt' \in [Numbers -> Times \cup {0}]
            /\ text' \in [Numbers -> Texts \cup {NoText}] /\ edits' \in [Numbers -> 0..MaxEdits]
            /\ VisibleIsRetained' /\ RefsAreRecorded' /\ EditsAreRestorable'
            /\ \A m \in Numbers : Visible(m) => Visible(m)' /\ edits'[m] = edits[m] /\ text'[m] = text[m]
        BY <1>r, <2>1, <2>3, DeletePreserves
      <3>2. PagesAreCurrent'
        BY <1>r, <2>1, <3>1, PagesKept
      <3> QED
        BY <1>r, <2>1, <3>1, <3>2 DEF CreationInvariant, TypeOK, CreationIsInOrder
    <2> QED
      BY <2>2, <2>3 DEF Reconcile
  <1>12. CASE MoveBranches \/ UNCHANGED vars
    <2>1. heads' \in Revisions /\ UNCHANGED <<rows, refs, process, pages>>
      BY <1>12, <1>r DEF MoveBranches, vars, TypeOK
    <2>2. PagesAreCurrent'
      BY <1>r, <2>1, PagesKept DEF rows, words, pages, process, Visible
    <2> QED
      BY <1>r, <2>1, <2>2 DEF CreationInvariant, TypeOK, VisibleIsRetained, RefsAreRecorded,
           CreationIsInOrder, EditsAreRestorable, Visible, Open, rows, times, words, process, pages
  <1> QED
    BY <1>1, <1>2, <1>3, <1>4, <1>5, <1>6, <1>7, <1>8, <1>9, <1>10, <1>11, <1>12 DEF Next

\* The invariant and the restorable edits hold in every reachable state.
LEMMA CreationAlways == Spec => [](CreationInvariant /\ EditsAreRestorable)
  BY CreationInit, CreationStep, PTL DEF Spec

\* Whatever is visible has its revision refs, and refs exist only for what is
\* recorded, through every failure, stop and recovery of a creation.
THEOREM CreationInvariantHolds == Spec => []CreationInvariant
  BY CreationAlways, PTL

\* An edit is never recorded as earlier than the creation, whatever the clock
\* says.
THEOREM RestorableEdits == Spec => []EditsAreRestorable
  BY CreationAlways, PTL

\* No request opens a second pull request for the branch pair.
THEOREM NoSecondOpened == Spec => NoRequestOpensASecond
  <1>1. CreationInvariant /\ [Next]_vars =>
          [Open # {} /\ ~(Open' \subseteq Open) => pc = "recover"]_vars
    <2> SUFFICES ASSUME TypeOK, CreationIsInOrder, Next, Open # {}, pc # "recover"
                 PROVE  Open' \subseteq Open
      BY DEF CreationInvariant
    <2>1. pc \notin {"begin", "ensure", "activate", "reconcile"}
      BY DEF CreationIsInOrder
    <2>2. \A n \in Numbers : Reopen(n) => FALSE
      BY DEF Reopen
    <2>3. ASSUME NEW n \in Numbers,
                 Close(n) \/ AppendPullRequestReview(n) \/ CompletePullRequestMerge(n)
          PROVE  Open' \subseteq Open
      BY <2>3 DEF Close, AppendPullRequestReview, CompletePullRequestMerge, TypeOK, Open
    <2>5. ASSUME NEW e \in Editors,
                 \/ \E n \in Numbers : Show(e, n)
                 \/ \E t \in Texts : Edit(e, t)
                 \/ EditPullRequest(e) \/ EditIsStale(e) \/ ShowDraft(e) \/ EditFails(e)
          PROVE  Open' \subseteq Open
      BY <2>5 DEF Show, Edit, EditPullRequest, EditIsStale, ShowDraft, EditFails, rows, Open
    <2>4. CASE StartCreate \/ Stop \/ Start \/ PreparationFails \/ Recovered \/ MoveBranches
      BY <2>4 DEF StartCreate, Stop, Start, PreparationFails, Recovered, MoveBranches, rows, Open
    <2> QED
      BY <2>1, <2>2, <2>3, <2>4, <2>5 DEF Next, BeginPullRequestCreation, EnsureRevisionRefs,
           EnsureRevisionRefsFails, ActivatePullRequestCreation, ReconcileFailedCreation, Fail,
           ReconcileProvisional
  <1> QED
    BY <1>1, CreationInvariantHolds, PTL DEF Spec, NoRequestOpensASecond

\* Nobody replaces a title and description that he has not read: what an editor
\* stores replaces the text of the page or of the refusal that he answered.
THEOREM LaterEditsSurvive == Spec => EditsReplaceWhatWasRead
  <1> DEFINE Replaces ==
        \A n \in Numbers : Visible(n) /\ text'[n] # text[n] =>
            \E e \in Editors : page[e].number = n /\ page[e].text = text[n]
  <1>1. CreationInvariant /\ [Next]_vars => [Replaces]_vars
    <2> SUFFICES ASSUME TypeOK, CreationIsInOrder, PagesAreCurrent, Next,
                        NEW n \in Numbers, Visible(n), text'[n] # text[n]
                 PROVE  \E e \in Editors : page[e].number = n /\ page[e].text = text[n]
      BY DEF CreationInvariant
    <2>1. CASE \E e \in Editors : EditPullRequest(e)
      <3> PICK e \in Editors : EditPullRequest(e)
        BY <2>1
      <3>1. page[e].number \in Numbers /\ IsCurrent(e) /\ saving[e] # NoText
            /\ text' = [text EXCEPT ![page[e].number] = saving[e]]
        BY DEF EditPullRequest, Served
      <3>2. page[e].number = n
        BY <3>1 DEF TypeOK
      <3>3. page[e].number # 0 /\ page[e].text # NoText
        BY <3>1 DEF PagesAreCurrent
      <3> QED
        BY <3>1, <3>2, <3>3 DEF PagesAreCurrent
    <2>2. CASE BeginPullRequestCreation
      <3> PICK m \in Numbers : IsNextNumber(m) /\ \E t \in Texts : text' = [text EXCEPT ![m] = t]
        BY <2>2 DEF BeginPullRequestCreation
      <3>1. status[m] = "none"
        BY NextNumberIsFree
      <3>2. m # n
        BY <3>1 DEF Visible
      <3> QED
        BY <3>2 DEF TypeOK
    <2>3. CASE ReconcileFailedCreation \/ ReconcileProvisional
      <3> PICK m \in Numbers : Reconcile(m)
        BY <2>3 DEF ReconcileFailedCreation, ReconcileProvisional, CreationIsInOrder, Provisional
      <3>1. status[m] = "creating" /\ (text' = text \/ text' = [text EXCEPT ![m] = NoText])
        BY DEF Reconcile, Activate, DeletePullRequestCreation, words
      <3> QED
        BY <3>1 DEF TypeOK, Visible
    <2>4. CASE ActivatePullRequestCreation
      BY <2>4 DEF ActivatePullRequestCreation, Activate, words
    <2>5. CASE StartCreate \/ EnsureRevisionRefs \/ EnsureRevisionRefsFails \/ Fail \/ Stop \/ Start
                 \/ PreparationFails \/ Recovered \/ MoveBranches
      BY <2>5 DEF StartCreate, EnsureRevisionRefs, EnsureRevisionRefsFails, Fail, Stop, Start,
           PreparationFails, Recovered, MoveBranches, rows, words
    <2>6. CASE \E m \in Numbers : \/ Reopen(m) \/ Close(m) \/ AppendPullRequestReview(m)
                                  \/ CompletePullRequestMerge(m)
      BY <2>6 DEF Reopen, Close, AppendPullRequestReview, CompletePullRequestMerge, Operate, words
    <2>7. CASE \E e \in Editors : \/ \E m \in Numbers : Show(e, m)
                                  \/ \E t \in Texts : Edit(e, t)
                                  \/ EditIsStale(e) \/ ShowDraft(e) \/ EditFails(e)
      BY <2>7 DEF Show, Edit, EditIsStale, ShowDraft, EditFails, rows, words
    <2> QED
      BY <2>1, <2>2, <2>3, <2>4, <2>5, <2>6, <2>7 DEF Next
  <1> QED
    BY <1>1, CreationInvariantHolds, PTL DEF Spec, EditsReplaceWhatWasRead
=============================================================================
