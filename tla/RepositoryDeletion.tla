------------------------ MODULE RepositoryDeletion ------------------------
(***************************************************************************)
(* The life of one repository name: creating the repository, deleting it   *)
(* with its files kept or removed (internal/repository/delete.go over      *)
(* internal/state/repository_deletions.go), stops between any two steps,   *)
(* and the completion of a recorded deletion at the next start or call.    *)
(*                                                                         *)
(* The repository folder is on a storage.  Another storage (an empty mount *)
(* point, an older copy) may be in its place while no operation runs.  A   *)
(* deletion is named by its number, which stands for the random token of   *)
(* its marker and for the name its directory is moved to.                  *)
(*                                                                         *)
(* Create, Delete and ReconcileDeletions hold the write lock of the name,  *)
(* so one of them runs at a time.                                          *)
(***************************************************************************)
EXTENDS Naturals

CONSTANTS
    Storages,       \* what may be mounted as the repository folder
    Root,           \* the canonical path of the folder on each of them
    Directories,    \* the directories that are ever created for the name
    None,
    MaxDeletions    \* bound of the model: how many deletions begin

ASSUME NoneAssumption == None \notin Directories /\ None \notin Storages
ASSUME MaxDeletionsAssumption == MaxDeletions \in Nat

Deletions == 1..MaxDeletions
Modes == {"keep_files", "delete_files"}
OrNone(S) == S \cup {None}

VARIABLES
    row,        \* the directory the repository row was recorded for, or None
    intent,     \* the number of the recorded deletion, 0 for none
    plan,       \* what the recorded deletion says, or None
    phase,      \* its phase, "pending" without one
    secret,     \* the directory whose repository the stored secrets are of
    working,    \* an import or a check of the repository is running
    path,       \* on each storage, the directory at the repository path
    moved,      \* on each storage, the directory at the name of a deletion
    marker,     \* on each storage, the token in the marker file, 0 for none
    damaged,    \* <<storage, directory>> some files of which were removed
    used,       \* the directories created so far
    begun,      \* how many deletions took a token
    taken,      \* the owner took away the directory of the recorded deletion
    mounted,    \* the storage in place
    held,       \* the storage the server claimed, or None
    bound,      \* the directory the server bound for the name, or None
    pc,         \* where the operation that holds the lock is
    again,      \* Delete goes on with a newer repository of the name
    asked       \* the deletion that Delete is about to record, or None

\* Moved is recordOnlyDeletionTarget when the folder was missing.  "home" and
\* "victim" are not recorded by the code: where the deletion began and the
\* directory it is about.
Plans == [mode : Modes, recordOnly : BOOLEAN,
          root : {Root[s] : s \in Storages}, home : Storages, victim : OrNone(Directories)]
ASSUME PlanAssumption == None \notin Plans

\* The directory at the repository path decides whether it is to be moved.
PlanFor(mode) == [mode |-> mode, recordOnly |-> path[mounted] = None,
                  root |-> Root[mounted], home |-> mounted, victim |-> path[mounted]]

records == <<row, intent, plan, phase, secret, working>>
files == <<path, moved, marker, damaged>>
history == <<used, begun, taken>>
server == <<mounted, held, bound>>
process == <<pc, again, asked>>
vars == <<records, files, history, server, process>>

Operating == pc \notin {"idle", "down"}
Running == pc # "down"

\* VerifyStorageHold: a claimed folder is still the one in place.
StorageIsHeld == held \in {None, mounted}

Empty(s) == path[s] = None /\ marker[s] = 0 /\ \A n \in Deletions : moved[s][n] = None

Init ==
    /\ row = None /\ intent = 0 /\ plan = None /\ phase = "pending" /\ secret = None /\ working = FALSE
    /\ mounted \in Storages
    /\ path = [s \in Storages |-> None]
    /\ moved = [s \in Storages |-> [n \in Deletions |-> None]]
    /\ marker = [s \in Storages |-> 0]
    /\ damaged = {} /\ used = {} /\ begun = 0 /\ taken = FALSE
    /\ held = None /\ bound = None
    /\ pc = "down" /\ again = FALSE /\ asked = None

Goto(where) == pc' = where /\ UNCHANGED <<again, asked>>
Return == pc' = "idle" /\ again' = FALSE /\ asked' = None
-----------------------------------------------------------------------------
(* Creation. *)

\* CreateWithOptions up to the rename that publishes the directory.
Create(d) ==
    /\ pc = "idle" /\ StorageIsHeld
    /\ row = None /\ intent = 0 /\ path[mounted] = None
    /\ d \notin used
    /\ used' = used \cup {d}
    /\ path' = [path EXCEPT ![mounted] = d]
    /\ held' = mounted
    /\ Goto("record")
    /\ UNCHANGED <<records, moved, marker, damaged, begun, taken, mounted, bound>>

\* AddRepository, which a recorded deletion of the name refuses.
AddRepository ==
    /\ pc = "record" /\ intent = 0
    /\ row' = path[mounted] /\ bound' = path[mounted]
    /\ Return
    /\ UNCHANGED <<intent, plan, phase, secret, working, files, history, mounted, held>>

\* The row was not accepted: the empty directory is moved out of the way, or
\* stays at the repository path.
AddRepositoryFails ==
    /\ pc = "record"
    /\ path' \in {path, [path EXCEPT ![mounted] = None]}
    /\ Return
    /\ UNCHANGED <<records, moved, marker, damaged, history, server>>
-----------------------------------------------------------------------------
(* Deletion. *)

\* Delete up to BindRepositoryStorage.  An unfinished deletion is finished
\* first, in its own mode.
Delete(mode) ==
    /\ pc = "idle" /\ ~working /\ StorageIsHeld
    /\ row # None \/ intent # 0
    /\ asked' = PlanFor(mode)
    /\ again' = (intent # 0)
    /\ pc' = IF intent # 0 THEN "finish" ELSE "bind"
    /\ UNCHANGED <<records, files, history, server>>

\* BindRepositoryStorage; without a directory requireDeletionStorageClaim has
\* to confirm the storage, which other repositories may refuse.
DirectoryIsBound == path[mounted] # None /\ bound \in {None, path[mounted]}
StorageIsConfirmed == path[mounted] = None /\ (held = mounted \/ (held = None /\ ~Empty(mounted)))
Bind ==
    /\ pc = "bind" /\ begun < MaxDeletions
    /\ \/ DirectoryIsBound /\ bound' = path[mounted] /\ UNCHANGED held
       \/ StorageIsConfirmed /\ held' = mounted /\ UNCHANGED bound
    /\ asked' = PlanFor(asked.mode)
    /\ pc' = "write"
    /\ UNCHANGED <<records, files, history, mounted, again>>

\* writeDeletionMarker replaces the marker of an earlier deletion.
MutantWriteDeletionMarker ==                              \* keeps an existing marker
    /\ pc = "write"
    /\ begun' = begun + 1
    /\ marker' = [marker EXCEPT ![mounted] = IF @ = 0 THEN begun' ELSE @]
    /\ Goto("begin")
    /\ UNCHANGED <<records, path, moved, damaged, used, taken, server>>
WriteDeletionMarker ==
    /\ pc = "write"
    /\ begun' = begun + 1
    /\ marker' = [marker EXCEPT ![mounted] = begun']
    /\ Goto("begin")
    /\ UNCHANGED <<records, path, moved, damaged, used, taken, server>>

\* BeginRepositoryDeletion: the records go and the deletion is recorded in one
\* transaction; the stored secrets go with it if they can be removed.
BeginRepositoryDeletion ==
    /\ pc = "begin" /\ intent = 0 /\ row # None /\ ~working
    /\ row' = None /\ intent' = begun
    /\ plan' = asked /\ phase' = "pending" /\ asked' = None
    /\ secret' \in {secret, None}
    /\ pc' = "finish" /\ UNCHANGED again
    /\ UNCHANGED <<working, files, history, server>>

\* The marker that a deletion without a record leaves is removed, if it can be.
Unmark == marker' \in {marker, [marker EXCEPT ![mounted] = 0]}

\* The marker or the record fails or is refused.
NoDeletionBegins ==
    /\ pc \in {"write", "begin"}
    /\ Unmark
    /\ Return
    /\ UNCHANGED <<records, path, moved, damaged, history, server>>
-----------------------------------------------------------------------------
(* finishDeletion of the recorded deletion. *)

Target == moved[mounted][intent]

BindingHolds == plan.recordOnly \/ bound = None \/ path[mounted] \in {None, bound}
MutantDeletionIsAtHome == Root[mounted] = plan.root       \* takes any marker
DeletionIsAtHome == Root[mounted] = plan.root /\ marker[mounted] = intent

\* A new lifetime begins, so the earlier binding ends, unless an older build
\* recorded a new repository.
AdvanceIncarnation == bound' = IF row = None THEN None ELSE bound

Finish ==
    /\ pc = "finish" /\ StorageIsHeld
    /\ BindingHolds /\ AdvanceIncarnation
    /\ DeletionIsAtHome
    /\ Goto(IF plan.recordOnly THEN "complete" ELSE IF phase = "pending" THEN "move" ELSE "remove")
    /\ UNCHANGED <<records, files, history, mounted, held>>
FinishIsRefused ==
    /\ pc = "finish"
    /\ \/ ~(StorageIsHeld /\ BindingHolds) /\ UNCHANGED bound
       \/ StorageIsHeld /\ BindingHolds /\ AdvanceIncarnation /\ ~DeletionIsAtHome
    /\ Return
    /\ UNCHANGED <<records, files, history, mounted, held>>

\* moveDeletedRepository: nothing is left to move when the target exists or
\* the directory is gone; a recorded repository keeps its directory.
Rename ==
    /\ path' = [path EXCEPT ![mounted] = None]
    /\ moved' = [moved EXCEPT ![mounted][intent] = path[mounted]]
MutantMoveDeletedRepository ==                            \* does not look for a newer row
    /\ pc = "move"
    /\ IF Target # None \/ path[mounted] = None THEN UNCHANGED <<path, moved>> ELSE Rename
    /\ Goto("moved")
    /\ UNCHANGED <<records, marker, damaged, history, server>>
MoveDeletedRepository ==
    /\ pc = "move"
    /\ \/ Target # None /\ UNCHANGED <<path, moved>>
       \/ Target = None /\ row = None /\ path[mounted] = None /\ UNCHANGED <<path, moved>>
       \/ Target = None /\ row = None /\ path[mounted] # None /\ Rename
    /\ Goto("moved")
    /\ UNCHANGED <<records, marker, damaged, history, server>>

KeptFiles ==
    /\ pc = "moved" /\ plan.mode = "keep_files"
    /\ Goto("complete")
    /\ UNCHANGED <<records, files, history, server>>
MarkRepositoryDeletionMoved ==
    /\ pc = "moved" /\ plan.mode = "delete_files"
    /\ phase' = "moved"
    /\ Goto("remove")
    /\ UNCHANGED <<row, intent, plan, secret, working, files, history, server>>

\* os.RemoveAll of the renamed directory, which may stop half-way.
RemoveSomeFiles ==
    /\ pc = "remove" /\ Target # None
    /\ damaged' = damaged \cup {<<mounted, Target>>}
    /\ Goto("remove")
    /\ UNCHANGED <<records, path, moved, marker, history, server>>
RemoveAll ==
    /\ pc = "remove"
    /\ moved' = [moved EXCEPT ![mounted][intent] = None]
    /\ damaged' = damaged \ {<<mounted, Target>>}
    /\ Goto("complete")
    /\ UNCHANGED <<records, path, marker, history, server>>

\* FinishRepositoryDeletion retries the removal of the secrets, which are a
\* newer repository's if the name is recorded again, and removes the intent.
MutantMarkerGoesFirst ==                                  \* removes the marker, then the intent
    /\ pc = "complete"
    /\ \/ marker[mounted] # 0 /\ marker' = [marker EXCEPT ![mounted] = 0]
          /\ UNCHANGED <<secret, intent, plan, phase, process>>
       \/ marker[mounted] = 0 /\ secret' = (IF row = None THEN None ELSE secret)
          /\ intent' = 0 /\ plan' = None /\ phase' = "pending" /\ Goto("unmark") /\ UNCHANGED marker
    /\ UNCHANGED <<row, working, path, moved, damaged, history, server>>
FinishRepositoryDeletion ==
    /\ pc = "complete"
    /\ secret' = IF row = None THEN None ELSE secret
    /\ intent' = 0 /\ plan' = None /\ phase' = "pending"
    /\ Goto("unmark") /\ taken' = FALSE
    /\ UNCHANGED <<row, working, files, used, begun, server>>

\* The marker goes last.  A Delete that finished an earlier deletion goes on
\* with a newer repository of the name.
RemoveMarker ==
    /\ pc = "unmark"
    /\ Unmark
    /\ \/ again /\ row # None /\ pc' = "bind" /\ again' = FALSE /\ UNCHANGED asked
       \/ ~(again /\ row # None) /\ Return
    /\ UNCHANGED <<records, path, moved, damaged, history, server>>

\* A step fails or refuses, and the operation returns; what it recorded stays.
Fail ==
    /\ pc \in {"bind", "finish", "move", "moved", "remove", "complete"}
    /\ Return
    /\ UNCHANGED <<records, files, history, server>>
-----------------------------------------------------------------------------
(* Stops and starts. *)

Stop ==
    /\ Running
    /\ pc' = "down" /\ again' = FALSE /\ asked' = None
    /\ held' = None /\ bound' = None
    /\ UNCHANGED <<records, files, history, mounted>>

\* ClaimStorage leaves an empty folder unclaimed, and ReconcileDeletions
\* finishes the recorded deletion before anything is served.
Start ==
    /\ pc = "down"
    /\ held' \in IF Empty(mounted) THEN {None, mounted} ELSE {mounted}
    /\ Goto(IF intent # 0 THEN "finish" ELSE "idle")
    /\ UNCHANGED <<records, files, history, mounted, bound>>

\* Preparation binds the directory of a recorded repository.
Prepare ==
    /\ pc = "idle" /\ StorageIsHeld
    /\ row # None /\ bound = None /\ path[mounted] # None
    /\ bound' = path[mounted] /\ held' = mounted
    /\ UNCHANGED <<records, files, history, mounted, process>>
-----------------------------------------------------------------------------
(* What happens around the server. *)

\* Another storage is in place of the repository folder.
Mount(s) ==
    /\ ~Operating
    /\ mounted' = s
    /\ UNCHANGED <<records, files, history, held, bound, process>>

\* The owner copies a whole storage while no deletion is unfinished.
Copy(s) ==
    /\ pc = "down" /\ intent = 0
    /\ path' = [path EXCEPT ![s] = path[mounted]]
    /\ moved' = [moved EXCEPT ![s] = moved[mounted]]
    /\ marker' = [marker EXCEPT ![s] = marker[mounted]]
    /\ damaged' = {x \in damaged : x[1] # s} \cup
                  ({s} \X {d \in Directories : <<mounted, d>> \in damaged})
    /\ UNCHANGED <<records, history, server, process>>

\* The owner takes the directory away, or puts another in its place; but not
\* in the place of one that a recorded deletion is still about to move.
OwnerTakes ==
    /\ path[mounted] # None /\ ~Operating
    /\ path' = [path EXCEPT ![mounted] = None]
    /\ taken' = (taken \/ (intent # 0 /\ mounted = plan.home /\ path[mounted] = plan.victim))
    /\ UNCHANGED <<records, moved, marker, damaged, used, begun, server, process>>
OwnerPuts(d) ==
    /\ path[mounted] = None /\ ~Operating /\ ~taken
    /\ d \notin used /\ used' = used \cup {d}
    /\ path' = [path EXCEPT ![mounted] = d]
    /\ UNCHANGED <<records, moved, marker, damaged, begun, taken, server, process>>

\* An older build ignores the recorded deletion and creates a repository where
\* the path is free.
OlderBuildCreates(d) ==
    /\ pc = "down" /\ intent # 0 /\ row = None /\ path[mounted] = None
    /\ d \notin used /\ used' = used \cup {d}
    /\ row' = d /\ path' = [path EXCEPT ![mounted] = d]
    /\ UNCHANGED <<intent, plan, phase, secret, working, moved, marker, damaged, begun, taken, server, process>>

\* Secrets are stored, and imports and checks run, without the write lock.
SetWorkflowSecret ==
    /\ Running /\ row # None /\ intent = 0
    /\ secret' = row
    /\ UNCHANGED <<row, intent, plan, phase, working, files, history, server, process>>
BeginWork ==
    /\ Running /\ row # None /\ ~working
    /\ working' = TRUE
    /\ UNCHANGED <<row, intent, plan, phase, secret, files, history, server, process>>
EndWork ==
    /\ Running /\ working
    /\ working' = FALSE
    /\ UNCHANGED <<row, intent, plan, phase, secret, files, history, server, process>>

Next ==
    \/ AddRepository \/ AddRepositoryFails
    \/ \E mode \in Modes : Delete(mode)
    \/ Bind \/ WriteDeletionMarker \/ BeginRepositoryDeletion \/ NoDeletionBegins
    \/ Finish \/ FinishIsRefused \/ MoveDeletedRepository \/ KeptFiles \/ MarkRepositoryDeletionMoved
    \/ RemoveSomeFiles \/ RemoveAll \/ FinishRepositoryDeletion \/ RemoveMarker \/ Fail
    \/ Stop \/ Start \/ Prepare \/ OwnerTakes
    \/ \E d \in Directories : Create(d) \/ OwnerPuts(d) \/ OlderBuildCreates(d)
    \/ \E s \in Storages \ {mounted} : Mount(s) \/ Copy(s)
    \/ SetWorkflowSecret \/ BeginWork \/ EndWork

Spec == Init /\ [][Next]_vars
-----------------------------------------------------------------------------
(* Properties. *)

TypeOK ==
    /\ row \in OrNone(Directories) /\ intent \in 0..MaxDeletions
    /\ plan \in OrNone(Plans) /\ (intent = 0 <=> plan = None) /\ phase \in {"pending", "moved"}
    /\ secret \in OrNone(Directories) /\ working \in BOOLEAN
    /\ path \in [Storages -> OrNone(Directories)]
    /\ moved \in [Storages -> [Deletions -> OrNone(Directories)]]
    /\ marker \in [Storages -> 0..MaxDeletions]
    /\ damaged \subseteq Storages \X Directories
    /\ used \subseteq Directories /\ begun \in 0..MaxDeletions /\ taken \in BOOLEAN
    /\ mounted \in Storages /\ held \in OrNone(Storages) /\ bound \in OrNone(Directories)
    /\ pc \in {"idle", "down", "record", "bind", "write", "begin", "finish", "move",
               "moved", "remove", "complete", "unmark"}
    /\ again \in BOOLEAN /\ asked \in OrNone(Plans)

\* Markers, moved directories and the recorded deletion have tokens that were
\* taken; every directory was created, and is at one place of a storage.
TokensAreTaken ==
    /\ intent <= begun
    /\ \A s \in Storages : marker[s] <= begun
    /\ \A s \in Storages, n \in Deletions : moved[s][n] # None => n <= begun
DirectoriesAreDistinct ==
    /\ \A s \in Storages : path[s] \in OrNone(used)
    /\ \A s \in Storages, n \in Deletions :
        /\ moved[s][n] \in OrNone(used)
        /\ moved[s][n] # None =>
            path[s] # moved[s][n] /\ \A m \in Deletions : moved[s][m] = moved[s][n] => m = n
    /\ \A x \in damaged : x[2] \in used

\* Where the operation is, and what it has seen to by then.
OperationIsInOrder ==
    /\ pc \in {"finish", "move", "moved", "remove", "complete"} => intent # 0
    /\ pc \in {"record", "bind", "write", "begin", "unmark"} => intent = 0
    /\ pc = "record" => path[mounted] # None
    /\ pc \in {"bind", "write", "begin"} => asked # None /\ ~again
    /\ again => asked # None
    /\ pc \in {"write", "begin"} =>
        /\ asked.home = mounted /\ asked.victim = path[mounted]
        /\ asked.recordOnly <=> path[mounted] = None
    /\ pc = "write" => begun < MaxDeletions
    /\ pc = "begin" =>
        /\ begun \in Deletions
        /\ \A s \in Storages : moved[s][begun] = None /\ (marker[s] = begun <=> s = mounted)
    /\ pc \in {"move", "moved", "remove", "complete"} => mounted = plan.home
    /\ pc \in {"move", "moved"} => ~plan.recordOnly /\ phase = "pending"
    /\ pc = "remove" => phase = "moved"
    /\ pc = "moved" => path[mounted] # plan.victim
    /\ pc = "complete" =>
        /\ ~plan.recordOnly => path[mounted] # plan.victim
        /\ plan.mode = "delete_files" => Target = None

\* The directory of the recorded deletion is at the repository path until the
\* owner takes it or the deletion moves it, and then only at its target.
DirectoryIsFollowed ==
    /\ taken \/ phase = "moved" => intent # 0
    /\ intent # 0 =>
        /\ \A s \in Storages : s # plan.home => moved[s][intent] = None
        /\ plan.recordOnly => phase = "pending" /\ moved[plan.home][intent] = None
        /\ phase = "moved" =>
            plan.mode = "delete_files" /\ path[plan.home] # plan.victim
        /\ ~plan.recordOnly =>
            /\ plan.victim \in used
            /\ moved[plan.home][intent] \in OrNone({plan.victim})
            /\ \A n \in Deletions : n # intent => moved[plan.home][n] # plan.victim
            /\ phase = "pending" /\ moved[plan.home][intent] = None =>
                \/ ~taken /\ path[plan.home] = plan.victim
                \/ taken /\ (path[plan.home] = None \/ row # None)

\* Every recorded deletion has its marker, with its token, on the storage it
\* began on and on no other, from the commit until it is finished.
RecordedDeletionIsMarked ==
    intent # 0 => \A s \in Storages : marker[s] = intent <=> s = plan.home

\* A directory with files removed is only at the name of the recorded deletion,
\* in delete_files mode; it is never at the repository path, and never among
\* the kept directories.
HalfRemovedIsHidden ==
    \A x \in damaged :
        /\ path[x[1]] # x[2]
        /\ \A n \in Deletions : moved[x[1]][n] = x[2] =>
            n = intent /\ x[1] = plan.home /\ plan.mode = "delete_files"

\* No import and no check is running for a repository that is deleted, also
\* when one began after Delete looked for it.
NoWorkOnADeletedRepository == working => row # None

\* "After it returns, the name has no remaining OwnGit state": the secrets of a
\* deleted repository are gone when its name is free.
FreeNameHasNoSecrets == row = None /\ intent = 0 => secret = None

\* The inductive invariant: where the operation is, which directory, marker and
\* records it has seen to, and where the deleted directory is meanwhile.
DeletionInvariant ==
    /\ TypeOK /\ TokensAreTaken /\ DirectoriesAreDistinct
    /\ OperationIsInOrder /\ DirectoryIsFollowed
    /\ RecordedDeletionIsMarked /\ HalfRemovedIsHidden
    /\ NoWorkOnADeletedRepository /\ FreeNameHasNoSecrets

\* An operation moves only the directory of the deletion that is recorded,
\* where that deletion began, and never one that a repository row owns or that
\* appeared after the folder was recorded as missing.
OnlyTheDeletedDirectoryIsMoved ==
    [][\A s \in Storages :
        pc \notin {"idle", "down", "record"} /\ path[s] # path'[s] =>
            /\ intent # 0 /\ s = plan.home /\ path[s] = plan.victim
            /\ row = None /\ ~plan.recordOnly]_vars

\* A deletion is finished only where it began, when its directory is no longer
\* at the repository path and, in delete_files mode, no longer anywhere.
FinishedDeletionIsDone ==
    [][intent # 0 /\ intent' = 0 =>
        /\ mounted = plan.home
        /\ ~plan.recordOnly => path[mounted] # plan.victim
        /\ ~plan.recordOnly /\ plan.mode = "delete_files" =>
            \A n \in Deletions : moved[mounted][n] # plan.victim]_vars

\* An operation in progress takes its next step.  Nobody is obliged to call
\* Delete, to start the server or to mount the storage.
FairSpec ==
    /\ Spec
    /\ WF_vars(Finish) /\ WF_vars(MoveDeletedRepository) /\ WF_vars(KeptFiles)
    /\ WF_vars(MarkRepositoryDeletionMoved) /\ WF_vars(RemoveAll)
    /\ WF_vars(FinishRepositoryDeletion)
StopsAndFailuresEnd == <>[][~Stop /\ (Fail => FinishIsRefused)]_vars
DeletionCanFinish ==
    intent # 0 => mounted = plan.home /\ BindingHolds /\ (row = None \/ phase = "moved" \/ Target # None)
StorageReturns == <>[]DeletionCanFinish
DeleteIsRetried == []<><<\E mode \in Modes : Delete(mode)>>_vars

\* "Retrying Delete, or the next start, finishes the work": a recorded deletion
\* does not outlast calls of Delete once stops and failures end, with its
\* storage in place and the name bound to no other directory there, unless a
\* newer repository owns the directory's path.
RecordedDeletionIsFinished ==
    StopsAndFailuresEnd /\ StorageReturns /\ DeleteIsRetried => []<>(intent = 0)
=============================================================================
