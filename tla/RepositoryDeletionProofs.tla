---------------------- MODULE RepositoryDeletionProofs ----------------------
(***************************************************************************)
(* Proofs about RepositoryDeletion: DeletionInvariant is inductive, part   *)
(* by part, and the properties of a deletion follow from it.               *)
(***************************************************************************)
EXTENDS RepositoryDeletion, TLAPS

\* What a plan says.
LEMMA PlanFacts ==
  \A p \in Plans : /\ p.mode \in Modes /\ p.recordOnly \in BOOLEAN
                   /\ p.home \in Storages /\ p.victim \in OrNone(Directories)
  BY DEF Plans

\* What the rename of the deleted directory changes.
LEMMA RenameFacts ==
  ASSUME TypeOK, Rename, intent # 0
  PROVE  /\ \A s \in Storages : path'[s] = IF s = mounted THEN None ELSE path[s]
         /\ \A s \in Storages, n \in Deletions :
              moved'[s][n] = IF s = mounted /\ n = intent THEN path[mounted] ELSE moved[s][n]
  BY MaxDeletionsAssumption DEF TypeOK, Rename, Deletions

\* The move of the deleted directory: nothing is there to move, or it is renamed.
LEMMA MoveFacts ==
  ASSUME DeletionInvariant, MoveDeletedRepository
  PROVE  /\ intent \in Deletions /\ mounted = plan.home /\ phase = "pending" /\ ~plan.recordOnly
         /\ UNCHANGED <<row, intent, plan, phase, used, begun, taken, marker, damaged>>
         /\ \/ UNCHANGED <<path, moved>>
            \/ /\ moved[mounted][intent] = None /\ path[mounted] # None /\ row = None
               /\ \A s \in Storages : path'[s] = IF s = mounted THEN None ELSE path[s]
               /\ \A s \in Storages, n \in Deletions :
                    moved'[s][n] = IF s = mounted /\ n = intent THEN path[mounted] ELSE moved[s][n]
<1>1. intent # 0 /\ TypeOK
  BY DEF DeletionInvariant, OperationIsInOrder, MoveDeletedRepository
<1>2. intent \in Deletions
  BY <1>1, MaxDeletionsAssumption DEF TypeOK, Deletions
<1>5. mounted = plan.home /\ phase = "pending" /\ ~plan.recordOnly
  BY DEF DeletionInvariant, OperationIsInOrder, MoveDeletedRepository
<1>3. UNCHANGED <<row, intent, plan, phase, used, begun, taken, marker, damaged>>
  BY DEF MoveDeletedRepository, records, history
<1>4. UNCHANGED <<path, moved>> \/ (moved[mounted][intent] = None /\ path[mounted] # None /\ row = None /\ Rename)
  BY DEF MoveDeletedRepository, Target
<1> QED
  BY <1>1, <1>2, <1>3, <1>4, <1>5, RenameFacts

\* The plan of a new deletion is about the directory at the repository path.
LEMMA PlanForFacts ==
  ASSUME TypeOK, NEW mode \in Modes
  PROVE  /\ PlanFor(mode) \in Plans
         /\ PlanFor(mode).mode = mode /\ PlanFor(mode).home = mounted
         /\ PlanFor(mode).victim = path[mounted]
         /\ PlanFor(mode).recordOnly <=> path[mounted] = None
  BY DEF TypeOK, PlanFor, Plans, OrNone

\* Every step keeps the types.
LEMMA TypesKept ==
  ASSUME DeletionInvariant, [Next]_vars PROVE TypeOK'
<1> USE NoneAssumption, PlanAssumption, MaxDeletionsAssumption DEF DeletionInvariant, TypeOK, OperationIsInOrder, Deletions, OrNone
<1>1. CASE AddRepository
  BY <1>1, PlanFacts, PlanForFacts DEF AddRepository, Return, records, files, history, server, process
<1>2. CASE AddRepositoryFails
  BY <1>2, PlanFacts, PlanForFacts DEF AddRepositoryFails, Return, records, files, history, server, process
<1>3. ASSUME NEW mode \in Modes, Delete(mode) PROVE TypeOK'
  BY <1>3, PlanFacts, PlanForFacts DEF Delete, records, files, history, server, process
<1>4. CASE Bind
  BY <1>4, PlanFacts, PlanForFacts DEF Bind, DirectoryIsBound, StorageIsConfirmed, records, files, history, server, process
<1>5. CASE WriteDeletionMarker
  BY <1>5, PlanFacts, PlanForFacts DEF WriteDeletionMarker, Goto, records, files, history, server, process
<1>6. CASE BeginRepositoryDeletion
  BY <1>6, PlanFacts, PlanForFacts DEF BeginRepositoryDeletion, records, files, history, server, process
<1>7. CASE NoDeletionBegins
  <2>1. marker' \in [Storages -> 0..MaxDeletions]
    <3>1. 0 \in 0..MaxDeletions /\ marker \in [Storages -> 0..MaxDeletions] /\ mounted \in Storages
      OBVIOUS
    <3> QED
      BY <1>7, <3>1 DEF NoDeletionBegins, Unmark
  <2> QED
    BY <1>7, <2>1 DEF NoDeletionBegins, Return, records, files, history, server, process
<1>8. CASE Finish
  BY <1>8, PlanFacts, PlanForFacts DEF Finish, AdvanceIncarnation, DeletionIsAtHome, Goto, records, files, history, server, process
<1>9. CASE FinishIsRefused
  BY <1>9, PlanFacts, PlanForFacts DEF FinishIsRefused, AdvanceIncarnation, Return, records, files, history, server, process
<1>10. CASE MoveDeletedRepository
  <2>1. path' \in [Storages -> OrNone(Directories)] /\ moved' \in [Storages -> [Deletions -> OrNone(Directories)]]
    <3>1. CASE UNCHANGED <<path, moved>>
      BY <3>1
    <3>2. CASE Rename
      BY <1>10, <3>2 DEF MoveDeletedRepository, Rename
    <3> QED
      BY <1>10, <3>1, <3>2 DEF MoveDeletedRepository
  <2> QED
    BY <1>10, <2>1 DEF MoveDeletedRepository, Goto, records, files, history, server, process
<1>11. CASE KeptFiles
  BY <1>11, PlanFacts, PlanForFacts DEF KeptFiles, Goto, records, files, history, server, process
<1>12. CASE MarkRepositoryDeletionMoved
  BY <1>12, PlanFacts, PlanForFacts DEF MarkRepositoryDeletionMoved, Goto, records, files, history, server, process
<1>13. CASE RemoveSomeFiles
  BY <1>13, PlanFacts, PlanForFacts DEF RemoveSomeFiles, Target, Goto, records, files, history, server, process
<1>14. CASE RemoveAll
  BY <1>14, PlanFacts, PlanForFacts DEF RemoveAll, Target, Goto, records, files, history, server, process
<1>15. CASE FinishRepositoryDeletion
  <2>1. secret' \in OrNone(Directories)
    BY <1>15 DEF FinishRepositoryDeletion
  <2>2. taken' = FALSE
    BY <1>15 DEF FinishRepositoryDeletion
  <2>3. intent' = 0 /\ 0 \in 0..MaxDeletions
    BY <1>15 DEF FinishRepositoryDeletion
  <2> QED
    BY <1>15, <2>1, <2>2, <2>3 DEF FinishRepositoryDeletion, Goto, records, files, history, server, process
<1>16. CASE RemoveMarker
  <2>1. marker' \in [Storages -> 0..MaxDeletions]
    BY <1>16 DEF RemoveMarker, Unmark
  <2> QED
    BY <1>16, <2>1 DEF RemoveMarker, Return, records, files, history, server, process
<1>17. CASE Fail
  BY <1>17, PlanFacts, PlanForFacts DEF Fail, Return, records, files, history, server, process
<1>18. CASE Stop
  BY <1>18 DEF Stop, Running, records, files, history, server, process
<1>19. CASE Start
  BY <1>19 DEF Start, Goto, records, files, history, server, process
<1>20. CASE Prepare
  BY <1>20 DEF Prepare, records, files, history, server, process
<1>21. CASE OwnerTakes
  BY <1>21 DEF OwnerTakes, Operating, records, files, history, server, process
<1>22. ASSUME NEW d \in Directories, Create(d) PROVE TypeOK'
  BY <1>22 DEF Create, StorageIsHeld, Goto, records, files, history, server, process
<1>23. ASSUME NEW d \in Directories, OwnerPuts(d) PROVE TypeOK'
  BY <1>23 DEF OwnerPuts, Operating, records, files, history, server, process
<1>24. ASSUME NEW d \in Directories, OlderBuildCreates(d) PROVE TypeOK'
  BY <1>24 DEF OlderBuildCreates, records, files, history, server, process
<1>25. ASSUME NEW s \in Storages \ {mounted}, Mount(s) PROVE TypeOK'
  BY <1>25 DEF Mount, Operating, records, files, history, server, process
<1>26. ASSUME NEW s \in Storages \ {mounted}, Copy(s) PROVE TypeOK'
  <2>1. path' \in [Storages -> OrNone(Directories)] /\ marker' \in [Storages -> 0..MaxDeletions]
    BY <1>26 DEF Copy
  <2>2. moved' \in [Storages -> [Deletions -> OrNone(Directories)]]
    BY <1>26 DEF Copy
  <2>3. damaged' \subseteq Storages \X Directories
    <3>1. \A e \in Directories : <<s, e>> \in Storages \X Directories
      OBVIOUS
    <3>2. {x \in damaged : x[1] # s} \subseteq Storages \X Directories
      OBVIOUS
    <3>3. {s} \X {e \in Directories : <<mounted, e>> \in damaged} \subseteq Storages \X Directories
      BY <3>1
    <3> QED
      BY <1>26, <3>2, <3>3 DEF Copy
  <2> QED
    BY <1>26, <2>1, <2>2, <2>3 DEF Copy, records, files, history, server, process
<1>27. CASE SetWorkflowSecret
  BY <1>27 DEF SetWorkflowSecret, Running, records, files, history, server, process
<1>28. CASE BeginWork
  BY <1>28 DEF BeginWork, Running, records, files, history, server, process
<1>29. CASE EndWork
  <2>1. working' \in BOOLEAN
    BY <1>29 DEF EndWork
  <2>2. UNCHANGED <<row, intent, plan, phase, secret, path, moved, marker, damaged, used, begun, taken, mounted, held, bound, pc, again, asked>>
    BY <1>29 DEF EndWork, files, history, server, process
  <2> QED
    BY <2>1, <2>2
<1>30. CASE UNCHANGED <<row, intent, plan, phase, secret, working, path, moved, marker, damaged, used, begun, taken, mounted, held, bound, pc, again, asked>>
  BY <1>30
<1> QED
  BY <1>1, <1>2, <1>3, <1>4, <1>5, <1>6, <1>7, <1>8, <1>9, <1>10, <1>11, <1>12, <1>13, <1>14, <1>15, <1>16, <1>17, <1>18, <1>19, <1>20, <1>21, <1>22, <1>23, <1>24, <1>25, <1>26, <1>27, <1>28, <1>29, <1>30 DEF Next, vars, records, files, history, server, process, Return, Goto

\* Only tokens that were taken are in use.
LEMMA TokensKept ==
  ASSUME DeletionInvariant, [Next]_vars PROVE TokensAreTaken'
<1> USE NoneAssumption, PlanAssumption, MaxDeletionsAssumption DEF DeletionInvariant, TypeOK, OperationIsInOrder, TokensAreTaken, Deletions, OrNone
<1>1. CASE WriteDeletionMarker
  BY <1>1 DEF WriteDeletionMarker, Goto, records, files, history, server, process
<1>2. CASE BeginRepositoryDeletion
  BY <1>2 DEF BeginRepositoryDeletion, records, files, history, server, process
<1>3. CASE NoDeletionBegins
  BY <1>3 DEF NoDeletionBegins, Unmark, Return, records, files, history, server, process
<1>4. CASE MoveDeletedRepository
  BY <1>4, MoveFacts
<1>5. CASE RemoveAll
  BY <1>5 DEF RemoveAll, Target, Goto, records, files, history, server, process
<1>6. CASE FinishRepositoryDeletion
  BY <1>6 DEF FinishRepositoryDeletion, Goto, records, files, history, server, process
<1>7. CASE RemoveMarker
  BY <1>7 DEF RemoveMarker, Unmark, Return, records, files, history, server, process
<1>8. ASSUME NEW s \in Storages \ {mounted}, Copy(s) PROVE TokensAreTaken'
  BY <1>8 DEF Copy, records, files, history, server, process
<1>9. CASE UNCHANGED <<intent, begun, marker, moved>>
  BY <1>9
<1> QED
  BY <1>1, <1>2, <1>3, <1>4, <1>5, <1>6, <1>7, <1>8, <1>9 DEF Next, vars, records, files, history, server, process, Return, Goto, AddRepository, AddRepositoryFails, Delete, Bind, Finish, FinishIsRefused, KeptFiles, MarkRepositoryDeletionMoved, RemoveSomeFiles, Fail, Stop, Start, Prepare, OwnerTakes, Create, OwnerPuts, OlderBuildCreates, Mount, SetWorkflowSecret, BeginWork, EndWork

\* The rename gives the directory one new name and takes its old one.
LEMMA MoveKeepsDistinct ==
  ASSUME DeletionInvariant, MoveDeletedRepository PROVE DirectoriesAreDistinct'
<1>1. /\ \A s \in Storages : path[s] \in OrNone(used)
      /\ \A s \in Storages, n \in Deletions : moved[s][n] \in OrNone(used)
      /\ \A s \in Storages, n \in Deletions : moved[s][n] # None => path[s] # moved[s][n]
      /\ \A s \in Storages, m, n \in Deletions :
           moved[s][n] # None /\ moved[s][m] = moved[s][n] => m = n
  BY DEF DeletionInvariant, DirectoriesAreDistinct
<1>2. UNCHANGED <<used, damaged>> /\ intent \in Deletions
  BY MoveFacts
<1>3. CASE UNCHANGED <<path, moved>>
  BY <1>2, <1>3 DEF DeletionInvariant, DirectoriesAreDistinct, OrNone
<1>4. CASE ~UNCHANGED <<path, moved>>
  <2>1. /\ \A s \in Storages : path'[s] = IF s = mounted THEN None ELSE path[s]
        /\ \A s \in Storages, n \in Deletions :
             moved'[s][n] = IF s = mounted /\ n = intent THEN path[mounted] ELSE moved[s][n]
    BY <1>4, MoveFacts
  <2>2. mounted \in Storages
    BY DEF DeletionInvariant, TypeOK
  <2>3. \A s \in Storages : path'[s] \in OrNone(used')
    BY <1>1, <1>2, <2>1 DEF OrNone
  <2>4. \A s \in Storages, n \in Deletions : moved'[s][n] \in OrNone(used')
    BY <1>1, <1>2, <2>1, <2>2
  <2>5. ASSUME NEW s \in Storages, NEW n \in Deletions, moved'[s][n] # None
        PROVE  path'[s] # moved'[s][n]
    BY <1>1, <2>1, <2>5
  <2>6. ASSUME NEW s \in Storages, NEW m \in Deletions, NEW n \in Deletions,
               moved'[s][n] # None, moved'[s][m] = moved'[s][n]
        PROVE  m = n
    BY <1>1, <2>1, <2>6
  <2> QED
    BY <1>1, <1>2, <2>3, <2>4, <2>5, <2>6 DEF DeletionInvariant, DirectoriesAreDistinct
<1> QED
  BY <1>3, <1>4

\* A directory stays at one place of a storage.
LEMMA DistinctKept ==
  ASSUME DeletionInvariant, [Next]_vars PROVE DirectoriesAreDistinct'
<1> USE NoneAssumption, PlanAssumption, MaxDeletionsAssumption DEF DeletionInvariant, TypeOK, OperationIsInOrder, DirectoriesAreDistinct, Deletions, OrNone
<1>1. CASE AddRepositoryFails
  <2>1. UNCHANGED <<moved, used, damaged>>
    BY <1>1 DEF AddRepositoryFails, history
  <2>2. \A s \in Storages : path'[s] \in {path[s], None}
    BY <1>1 DEF AddRepositoryFails
  <2> QED
    BY <2>1, <2>2
<1>2. CASE MoveDeletedRepository
  BY <1>2, MoveKeepsDistinct
<1>3. CASE RemoveSomeFiles
  BY <1>3 DEF RemoveSomeFiles, Target, Goto, records, files, history, server, process
<1>4. CASE RemoveAll
  BY <1>4 DEF RemoveAll, Target, Goto, records, files, history, server, process
<1>5. CASE OwnerTakes
  BY <1>5 DEF OwnerTakes, Operating, records, files, history, server, process
<1>6. ASSUME NEW d \in Directories, Create(d) PROVE DirectoriesAreDistinct'
  BY <1>6 DEF Create, StorageIsHeld, Goto, records, files, history, server, process
<1>7. ASSUME NEW d \in Directories, OwnerPuts(d) PROVE DirectoriesAreDistinct'
  BY <1>7 DEF OwnerPuts, Operating, records, files, history, server, process
<1>8. ASSUME NEW d \in Directories, OlderBuildCreates(d) PROVE DirectoriesAreDistinct'
  BY <1>8 DEF OlderBuildCreates, records, files, history, server, process
<1>9. ASSUME NEW s \in Storages \ {mounted}, Copy(s) PROVE DirectoriesAreDistinct'
  BY <1>9 DEF Copy, records, files, history, server, process
<1>10. CASE UNCHANGED <<path, moved, used, damaged>>
  BY <1>10
<1> QED
  BY <1>1, <1>2, <1>3, <1>4, <1>5, <1>6, <1>7, <1>8, <1>9, <1>10 DEF Next, vars, records, files, history, server, process, Return, Goto, AddRepository, Delete, Bind, WriteDeletionMarker, BeginRepositoryDeletion, NoDeletionBegins, Finish, FinishIsRefused, KeptFiles, MarkRepositoryDeletionMoved, FinishRepositoryDeletion, RemoveMarker, Fail, Stop, Start, Prepare, Mount, SetWorkflowSecret, BeginWork, EndWork

\* Every step leaves the operation with what its next step relies on.
LEMMA OrderKept ==
  ASSUME DeletionInvariant, [Next]_vars PROVE OperationIsInOrder'
<1> USE NoneAssumption, PlanAssumption, MaxDeletionsAssumption DEF DeletionInvariant, TypeOK, OperationIsInOrder, TokensAreTaken, DirectoriesAreDistinct, DirectoryIsFollowed, RecordedDeletionIsMarked, Target, Deletions, OrNone
<1>1. CASE AddRepository
  BY <1>1, PlanFacts, PlanForFacts DEF AddRepository, Return, records, files, history, server, process
<1>2. CASE AddRepositoryFails
  BY <1>2, PlanFacts, PlanForFacts DEF AddRepositoryFails, Return, records, files, history, server, process
<1>3. ASSUME NEW mode \in Modes, Delete(mode) PROVE OperationIsInOrder'
  BY <1>3, PlanFacts, PlanForFacts DEF Delete, records, files, history, server, process
<1>4. CASE Bind
  BY <1>4, PlanFacts, PlanForFacts DEF Bind, DirectoryIsBound, StorageIsConfirmed, records, files, history, server, process
<1>5. CASE WriteDeletionMarker
  BY <1>5, PlanFacts, PlanForFacts DEF WriteDeletionMarker, Goto, records, files, history, server, process
<1>6. CASE BeginRepositoryDeletion
  BY <1>6, PlanFacts, PlanForFacts DEF BeginRepositoryDeletion, records, files, history, server, process
<1>7. CASE NoDeletionBegins
  BY <1>7, PlanFacts, PlanForFacts DEF NoDeletionBegins, Return, records, files, history, server, process
<1>8. CASE Finish
  BY <1>8, PlanFacts, PlanForFacts DEF Finish, AdvanceIncarnation, DeletionIsAtHome, Goto, records, files, history, server, process
<1>9. CASE FinishIsRefused
  BY <1>9, PlanFacts, PlanForFacts DEF FinishIsRefused, AdvanceIncarnation, Return, records, files, history, server, process
<1>10. CASE MoveDeletedRepository
  BY <1>10, PlanFacts, PlanForFacts, RenameFacts DEF MoveDeletedRepository, Target, Goto, records, files, history, server, process
<1>11. CASE KeptFiles
  BY <1>11, PlanFacts, PlanForFacts DEF KeptFiles, Goto, records, files, history, server, process
<1>12. CASE MarkRepositoryDeletionMoved
  BY <1>12, PlanFacts, PlanForFacts DEF MarkRepositoryDeletionMoved, Goto, records, files, history, server, process
<1>13. CASE RemoveSomeFiles
  BY <1>13, PlanFacts, PlanForFacts DEF RemoveSomeFiles, Target, Goto, records, files, history, server, process
<1>14. CASE RemoveAll
  BY <1>14, PlanFacts, PlanForFacts DEF RemoveAll, Target, Goto, records, files, history, server, process
<1>15. CASE FinishRepositoryDeletion
  BY <1>15, PlanFacts, PlanForFacts DEF FinishRepositoryDeletion, Goto, records, files, history, server, process
<1>16. CASE RemoveMarker
  BY <1>16, PlanFacts, PlanForFacts DEF RemoveMarker, Return, records, files, history, server, process
<1>17. CASE Fail
  BY <1>17, PlanFacts, PlanForFacts DEF Fail, Return, records, files, history, server, process
<1>18. CASE Stop
  BY <1>18, PlanFacts, PlanForFacts DEF Stop, Running, records, files, history, server, process
<1>19. CASE Start
  BY <1>19, PlanFacts, PlanForFacts DEF Start, Goto, records, files, history, server, process
<1>20. CASE OwnerTakes
  BY <1>20, PlanFacts, PlanForFacts DEF OwnerTakes, Operating, records, files, history, server, process
<1>21. ASSUME NEW d \in Directories, Create(d) PROVE OperationIsInOrder'
  BY <1>21, PlanFacts, PlanForFacts DEF Create, StorageIsHeld, Goto, records, files, history, server, process
<1>22. ASSUME NEW d \in Directories, OwnerPuts(d) PROVE OperationIsInOrder'
  BY <1>22, PlanFacts, PlanForFacts DEF OwnerPuts, Operating, records, files, history, server, process
<1>23. ASSUME NEW d \in Directories, OlderBuildCreates(d) PROVE OperationIsInOrder'
  BY <1>23, PlanFacts, PlanForFacts DEF OlderBuildCreates, records, files, history, server, process
<1>24. ASSUME NEW s \in Storages \ {mounted}, Mount(s) PROVE OperationIsInOrder'
  BY <1>24, PlanFacts, PlanForFacts DEF Mount, Operating, records, files, history, server, process
<1>25. ASSUME NEW s \in Storages \ {mounted}, Copy(s) PROVE OperationIsInOrder'
  BY <1>25, PlanFacts, PlanForFacts DEF Copy, records, files, history, server, process
<1>26. CASE UNCHANGED <<pc, again, intent, plan, phase, asked, mounted, begun, moved, path, marker>>
  BY <1>26
<1> QED
  BY <1>1, <1>2, <1>3, <1>4, <1>5, <1>6, <1>7, <1>8, <1>9, <1>10, <1>11, <1>12, <1>13, <1>14, <1>15, <1>16, <1>17, <1>18, <1>19, <1>20, <1>21, <1>22, <1>23, <1>24, <1>25, <1>26 DEF Next, vars, records, files, history, server, process, Return, Goto, Prepare, SetWorkflowSecret, BeginWork, EndWork

\* The directory of the recorded deletion is never lost sight of.
LEMMA FollowedKept ==
  ASSUME DeletionInvariant, [Next]_vars PROVE DirectoryIsFollowed'
<1> USE NoneAssumption, PlanAssumption, MaxDeletionsAssumption DEF DeletionInvariant, TypeOK, OperationIsInOrder, TokensAreTaken, DirectoriesAreDistinct, DirectoryIsFollowed, RecordedDeletionIsMarked, Deletions, OrNone
<1>1. CASE AddRepository
  BY <1>1, PlanFacts DEF AddRepository, Return, records, files, history, server, process
<1>2. CASE AddRepositoryFails
  BY <1>2, PlanFacts DEF AddRepositoryFails, Return, records, files, history, server, process
<1>3. CASE BeginRepositoryDeletion
  BY <1>3, PlanFacts DEF BeginRepositoryDeletion, records, files, history, server, process
<1>4. CASE MoveDeletedRepository
  <2>1. CASE UNCHANGED <<path, moved>>
    BY <1>4, <2>1, MoveFacts
  <2>2. CASE ~UNCHANGED <<path, moved>>
    <3>1. path[plan.home] = plan.victim /\ ~taken
      BY <1>4, <2>2, MoveFacts
    <3>2. moved'[plan.home][intent] = plan.victim
      BY <1>4, <2>2, <3>1, MoveFacts, PlanFacts
    <3>3. \A n \in Deletions : n # intent => moved'[plan.home][n] # plan.victim
      BY <1>4, <2>2, <3>1, MoveFacts, PlanFacts
    <3>4. \A s \in Storages : s # plan.home => moved'[s][intent] = None
      BY <1>4, <2>2, MoveFacts, PlanFacts
    <3> QED
      BY <1>4, <2>2, <3>1, <3>2, <3>3, <3>4, MoveFacts, PlanFacts
  <2> QED
    BY <2>1, <2>2
<1>5. CASE MarkRepositoryDeletionMoved
  BY <1>5, PlanFacts DEF MarkRepositoryDeletionMoved, Goto, records, files, history, server, process
<1>6. CASE RemoveAll
  BY <1>6, PlanFacts DEF RemoveAll, Target, Goto, records, files, history, server, process
<1>7. CASE FinishRepositoryDeletion
  BY <1>7, PlanFacts DEF FinishRepositoryDeletion, Goto, records, files, history, server, process
<1>8. CASE OwnerTakes
  BY <1>8, PlanFacts DEF OwnerTakes, Operating, records, files, history, server, process
<1>9. ASSUME NEW d \in Directories, Create(d) PROVE DirectoryIsFollowed'
  BY <1>9, PlanFacts DEF Create, StorageIsHeld, Goto, records, files, history, server, process
<1>10. ASSUME NEW d \in Directories, OwnerPuts(d) PROVE DirectoryIsFollowed'
  BY <1>10, PlanFacts DEF OwnerPuts, Operating, records, files, history, server, process
<1>11. ASSUME NEW d \in Directories, OlderBuildCreates(d) PROVE DirectoryIsFollowed'
  BY <1>11, PlanFacts DEF OlderBuildCreates, records, files, history, server, process
<1>12. ASSUME NEW s \in Storages \ {mounted}, Copy(s) PROVE DirectoryIsFollowed'
  BY <1>12, PlanFacts DEF Copy, records, files, history, server, process
<1>13. CASE UNCHANGED <<taken, intent, plan, phase, path, moved, used, row>>
  BY <1>13
<1> QED
  BY <1>1, <1>2, <1>3, <1>4, <1>5, <1>6, <1>7, <1>8, <1>9, <1>10, <1>11, <1>12, <1>13 DEF Next, vars, records, files, history, server, process, Return, Goto, Delete, Bind, WriteDeletionMarker, NoDeletionBegins, Finish, FinishIsRefused, KeptFiles, RemoveSomeFiles, RemoveMarker, Fail, Stop, Start, Prepare, Mount, SetWorkflowSecret, BeginWork, EndWork

\* No step separates a recorded deletion from its marker.
LEMMA MarkedKept ==
  ASSUME DeletionInvariant, [Next]_vars PROVE RecordedDeletionIsMarked'
<1> USE NoneAssumption, PlanAssumption, MaxDeletionsAssumption DEF DeletionInvariant, TypeOK, OperationIsInOrder, RecordedDeletionIsMarked, Deletions, OrNone
<1>1. CASE WriteDeletionMarker
  BY <1>1, PlanFacts DEF WriteDeletionMarker, Goto, records, files, history, server, process
<1>2. CASE BeginRepositoryDeletion
  BY <1>2, PlanFacts DEF BeginRepositoryDeletion, records, files, history, server, process
<1>3. CASE NoDeletionBegins
  BY <1>3, PlanFacts DEF NoDeletionBegins, Return, records, files, history, server, process
<1>4. CASE FinishRepositoryDeletion
  BY <1>4, PlanFacts DEF FinishRepositoryDeletion, Goto, records, files, history, server, process
<1>5. CASE RemoveMarker
  BY <1>5, PlanFacts DEF RemoveMarker, Return, records, files, history, server, process
<1>6. ASSUME NEW s \in Storages \ {mounted}, Copy(s) PROVE RecordedDeletionIsMarked'
  BY <1>6, PlanFacts DEF Copy, records, files, history, server, process
<1>7. CASE UNCHANGED <<intent, plan, marker>>
  BY <1>7
<1> QED
  BY <1>1, <1>2, <1>3, <1>4, <1>5, <1>6, <1>7 DEF Next, vars, records, files, history, server, process, Return, Goto, AddRepository, AddRepositoryFails, Delete, Bind, Finish, FinishIsRefused, MoveDeletedRepository, KeptFiles, MarkRepositoryDeletionMoved, RemoveSomeFiles, RemoveAll, Fail, Stop, Start, Prepare, OwnerTakes, Create, OwnerPuts, OlderBuildCreates, Mount, SetWorkflowSecret, BeginWork, EndWork

\* No step shows or keeps a directory with files removed.
LEMMA HiddenKept ==
  ASSUME DeletionInvariant, [Next]_vars PROVE HalfRemovedIsHidden'
<1> USE NoneAssumption, PlanAssumption, MaxDeletionsAssumption DEF DeletionInvariant, TypeOK, OperationIsInOrder, DirectoriesAreDistinct, DirectoryIsFollowed, HalfRemovedIsHidden, Deletions, OrNone
<1>1. CASE AddRepositoryFails
  BY <1>1, PlanFacts DEF AddRepositoryFails, Return, records, files, history, server, process
<1>2. CASE BeginRepositoryDeletion
  BY <1>2, PlanFacts DEF BeginRepositoryDeletion, records, files, history, server, process
<1>3. CASE MoveDeletedRepository
  BY <1>3, PlanFacts, RenameFacts DEF MoveDeletedRepository, Target, Goto, records, files, history, server, process
<1>4. CASE RemoveSomeFiles
  BY <1>4, PlanFacts DEF RemoveSomeFiles, Target, Goto, records, files, history, server, process
<1>5. CASE RemoveAll
  BY <1>5, PlanFacts DEF RemoveAll, Target, Goto, records, files, history, server, process
<1>6. CASE FinishRepositoryDeletion
  <2>1. UNCHANGED <<path, moved, damaged>> /\ pc = "complete" /\ intent \in Deletions
    BY <1>6 DEF FinishRepositoryDeletion, files
  <2>2. ASSUME NEW x \in damaged, NEW n \in Deletions PROVE moved[x[1]][n] # x[2]
    <3>1. SUFFICES ASSUME moved[x[1]][n] = x[2] PROVE FALSE
      OBVIOUS
    <3>2. n = intent /\ x[1] = plan.home /\ plan.mode = "delete_files"
      BY <3>1
    <3>3. x[2] # None
      BY DEF OrNone
    <3> QED
      BY <2>1, <3>1, <3>2, <3>3 DEF Target
  <2> QED
    BY <2>1, <2>2
<1>7. CASE OwnerTakes
  BY <1>7, PlanFacts DEF OwnerTakes, Operating, records, files, history, server, process
<1>8. ASSUME NEW d \in Directories, Create(d) PROVE HalfRemovedIsHidden'
  BY <1>8, PlanFacts DEF Create, StorageIsHeld, Goto, records, files, history, server, process
<1>9. ASSUME NEW d \in Directories, OwnerPuts(d) PROVE HalfRemovedIsHidden'
  BY <1>9, PlanFacts DEF OwnerPuts, Operating, records, files, history, server, process
<1>10. ASSUME NEW d \in Directories, OlderBuildCreates(d) PROVE HalfRemovedIsHidden'
  BY <1>10, PlanFacts DEF OlderBuildCreates, records, files, history, server, process
<1>11. ASSUME NEW s \in Storages \ {mounted}, Copy(s) PROVE HalfRemovedIsHidden'
  BY <1>11, PlanFacts DEF Copy, records, files, history, server, process
<1>12. CASE UNCHANGED <<damaged, path, moved, intent, plan>>
  BY <1>12
<1> QED
  BY <1>1, <1>2, <1>3, <1>4, <1>5, <1>6, <1>7, <1>8, <1>9, <1>10, <1>11, <1>12 DEF Next, vars, records, files, history, server, process, Return, Goto, AddRepository, Delete, Bind, WriteDeletionMarker, NoDeletionBegins, Finish, FinishIsRefused, KeptFiles, MarkRepositoryDeletionMoved, RemoveMarker, Fail, Stop, Start, Prepare, Mount, SetWorkflowSecret, BeginWork, EndWork

\* No step deletes a repository that an import or a check works on.
LEMMA WorkKept ==
  ASSUME DeletionInvariant, [Next]_vars PROVE NoWorkOnADeletedRepository'
<1> USE NoneAssumption, PlanAssumption, MaxDeletionsAssumption DEF DeletionInvariant, TypeOK, NoWorkOnADeletedRepository, DirectoriesAreDistinct, OperationIsInOrder, Deletions, OrNone
<1>1. CASE AddRepository
  BY <1>1 DEF AddRepository, Return, records, files, history, server, process
<1>2. CASE BeginRepositoryDeletion
  BY <1>2 DEF BeginRepositoryDeletion, records, files, history, server, process
<1>3. ASSUME NEW d \in Directories, OlderBuildCreates(d) PROVE NoWorkOnADeletedRepository'
  BY <1>3 DEF OlderBuildCreates, records, files, history, server, process
<1>4. CASE BeginWork
  BY <1>4 DEF BeginWork, Running, records, files, history, server, process
<1>5. CASE EndWork
  BY <1>5 DEF EndWork, Running, records, files, history, server, process
<1>6. CASE UNCHANGED <<working, row>>
  BY <1>6
<1> QED
  BY <1>1, <1>2, <1>3, <1>4, <1>5, <1>6 DEF Next, vars, records, files, history, server, process, Return, Goto, AddRepositoryFails, Delete, Bind, WriteDeletionMarker, NoDeletionBegins, Finish, FinishIsRefused, MoveDeletedRepository, KeptFiles, MarkRepositoryDeletionMoved, RemoveSomeFiles, RemoveAll, FinishRepositoryDeletion, RemoveMarker, Fail, Stop, Start, Prepare, OwnerTakes, Create, OwnerPuts, Mount, Copy, SetWorkflowSecret

\* No step frees a name whose secrets are still stored.
LEMMA SecretsKept ==
  ASSUME DeletionInvariant, [Next]_vars PROVE FreeNameHasNoSecrets'
<1> USE NoneAssumption, PlanAssumption, MaxDeletionsAssumption DEF DeletionInvariant, TypeOK, FreeNameHasNoSecrets, OperationIsInOrder, Deletions, OrNone
<1>1. CASE AddRepository
  BY <1>1 DEF AddRepository, Return, records, files, history, server, process
<1>2. CASE BeginRepositoryDeletion
  BY <1>2 DEF BeginRepositoryDeletion, records, files, history, server, process
<1>3. CASE FinishRepositoryDeletion
  BY <1>3 DEF FinishRepositoryDeletion, Goto, records, files, history, server, process
<1>4. ASSUME NEW d \in Directories, OlderBuildCreates(d) PROVE FreeNameHasNoSecrets'
  BY <1>4 DEF OlderBuildCreates, records, files, history, server, process
<1>5. CASE SetWorkflowSecret
  BY <1>5 DEF SetWorkflowSecret, Running, records, files, history, server, process
<1>6. CASE UNCHANGED <<row, intent, secret>>
  BY <1>6
<1> QED
  BY <1>1, <1>2, <1>3, <1>4, <1>5, <1>6 DEF Next, vars, records, files, history, server, process, Return, Goto, AddRepositoryFails, Delete, Bind, WriteDeletionMarker, NoDeletionBegins, Finish, FinishIsRefused, MoveDeletedRepository, KeptFiles, MarkRepositoryDeletionMoved, RemoveSomeFiles, RemoveAll, RemoveMarker, Fail, Stop, Start, Prepare, OwnerTakes, Create, OwnerPuts, Mount, Copy, BeginWork, EndWork
-----------------------------------------------------------------------------
\* The invariant holds before the first start.
LEMMA InitInvariant == Init => DeletionInvariant
<1> SUFFICES ASSUME Init PROVE DeletionInvariant
  OBVIOUS
<1> USE NoneAssumption, PlanAssumption, MaxDeletionsAssumption DEF Init, Deletions, OrNone
<1>1. TypeOK
  <2>1. intent \in 0..MaxDeletions /\ begun \in 0..MaxDeletions /\ marker \in [Storages -> 0..MaxDeletions]
    OBVIOUS
  <2>2. moved \in [Storages -> [Deletions -> OrNone(Directories)]]
    OBVIOUS
  <2>3. working = FALSE /\ taken = FALSE /\ again = FALSE
    OBVIOUS
  <2> QED
    BY <2>1, <2>2, <2>3 DEF TypeOK
<1>2. TokensAreTaken /\ DirectoriesAreDistinct
  BY DEF TokensAreTaken, DirectoriesAreDistinct
<1>3. OperationIsInOrder /\ DirectoryIsFollowed
  BY DEF OperationIsInOrder, DirectoryIsFollowed
<1>4. RecordedDeletionIsMarked /\ HalfRemovedIsHidden
  BY DEF RecordedDeletionIsMarked, HalfRemovedIsHidden
<1>5. NoWorkOnADeletedRepository /\ FreeNameHasNoSecrets
  BY DEF NoWorkOnADeletedRepository, FreeNameHasNoSecrets
<1> QED
  BY <1>1, <1>2, <1>3, <1>4, <1>5 DEF DeletionInvariant

\* The inductive step, part by part.
LEMMA NextInvariant == DeletionInvariant /\ [Next]_vars => DeletionInvariant'
  BY TypesKept, TokensKept, DistinctKept, OrderKept, FollowedKept, MarkedKept, HiddenKept, WorkKept,
     SecretsKept DEF DeletionInvariant

\* Whatever stops, failures, older builds and storages come in between, a
\* recorded deletion stays in order.
THEOREM DeletionInvariantHolds == Spec => []DeletionInvariant
<1>1. Init => DeletionInvariant
  BY InitInvariant
<1>2. DeletionInvariant /\ [Next]_vars => DeletionInvariant'
  BY NextInvariant
<1> QED
  BY <1>1, <1>2, PTL DEF Spec

\* A recorded deletion has its marker where it began, and nowhere else.
THEOREM RecordedDeletionsAreMarked == Spec => []RecordedDeletionIsMarked
<1>1. DeletionInvariant => RecordedDeletionIsMarked
  BY DEF DeletionInvariant
<1> QED
  BY <1>1, DeletionInvariantHolds, PTL

\* Neither the repository path nor a kept directory is ever half removed.
THEOREM HalfRemovedDirectoriesAreHidden == Spec => []HalfRemovedIsHidden
<1>1. DeletionInvariant => HalfRemovedIsHidden
  BY DEF DeletionInvariant
<1> QED
  BY <1>1, DeletionInvariantHolds, PTL

\* No import or check runs for a deleted repository.
THEOREM NoWorkIsLeft == Spec => []NoWorkOnADeletedRepository
<1>1. DeletionInvariant => NoWorkOnADeletedRepository
  BY DEF DeletionInvariant
<1> QED
  BY <1>1, DeletionInvariantHolds, PTL

\* A free name has no secrets that its next repository could take over.
THEOREM NoSecretsAreLeft == Spec => []FreeNameHasNoSecrets
<1>1. DeletionInvariant => FreeNameHasNoSecrets
  BY DEF DeletionInvariant
<1> QED
  BY <1>1, DeletionInvariantHolds, PTL
-----------------------------------------------------------------------------
(* What a step of an operation does to directories. *)

MoveIsRight ==
    \A s \in Storages :
        pc \notin {"idle", "down", "record"} /\ path[s] # path'[s] =>
            /\ intent # 0 /\ s = plan.home /\ path[s] = plan.victim
            /\ row = None /\ ~plan.recordOnly
FinishIsRight ==
    intent # 0 /\ intent' = 0 =>
        /\ mounted = plan.home
        /\ ~plan.recordOnly => path[mounted] # plan.victim
        /\ ~plan.recordOnly /\ plan.mode = "delete_files" =>
            \A n \in Deletions : moved[mounted][n] # plan.victim

\* Every step but the move leaves every path alone while an operation runs.
LEMMA OtherStepsKeepPaths ==
  ASSUME [Next]_vars, pc \notin {"idle", "down", "record"}
  PROVE  MoveDeletedRepository \/ UNCHANGED path
  BY DEF Next, vars, files, AddRepository, AddRepositoryFails, Delete, Bind, WriteDeletionMarker,
     BeginRepositoryDeletion, NoDeletionBegins, Finish, FinishIsRefused, KeptFiles,
     MarkRepositoryDeletionMoved, RemoveSomeFiles, RemoveAll, FinishRepositoryDeletion, RemoveMarker,
     Fail, Stop, Start, Prepare, OwnerTakes, Operating, Create, OwnerPuts, OlderBuildCreates, Mount,
     Copy, SetWorkflowSecret, BeginWork, EndWork

\* Only FinishRepositoryDeletion ends a recorded deletion.
LEMMA OtherStepsKeepTheDeletion ==
  ASSUME [Next]_vars, intent # 0, intent' = 0
  PROVE  FinishRepositoryDeletion \/ BeginRepositoryDeletion
  BY DEF Next, vars, records, AddRepository, AddRepositoryFails, Delete, Bind, WriteDeletionMarker,
     NoDeletionBegins, Finish, FinishIsRefused, MoveDeletedRepository, KeptFiles,
     MarkRepositoryDeletionMoved, RemoveSomeFiles, RemoveAll, RemoveMarker, Fail, Stop, Start, Prepare,
     OwnerTakes, Create, OwnerPuts, OlderBuildCreates, Mount, Copy, SetWorkflowSecret, BeginWork,
     EndWork

\* What the rename of moveDeletedRepository is about.
LEMMA MovesAreRight == DeletionInvariant /\ [Next]_vars => MoveIsRight
<1> SUFFICES ASSUME DeletionInvariant, [Next]_vars, NEW s \in Storages,
                    pc \notin {"idle", "down", "record"}, path[s] # path'[s]
             PROVE  /\ intent # 0 /\ s = plan.home /\ path[s] = plan.victim
                    /\ row = None /\ ~plan.recordOnly
  BY DEF MoveIsRight
<1>1. MoveDeletedRepository
  BY OtherStepsKeepPaths
<1>2. pc = "move" /\ Target = None /\ row = None /\ Rename
  BY <1>1 DEF MoveDeletedRepository
<1>3. TypeOK /\ intent # 0 /\ mounted = plan.home /\ ~plan.recordOnly /\ phase = "pending"
  BY <1>2 DEF DeletionInvariant, OperationIsInOrder
<1>4. s = mounted /\ path[mounted] # None
  BY <1>2, <1>3, RenameFacts
<1> QED
  BY <1>2, <1>3, <1>4 DEF DeletionInvariant, DirectoryIsFollowed, Target

\* What FinishRepositoryDeletion leaves behind.
LEMMA FinishesAreRight == DeletionInvariant /\ [Next]_vars => FinishIsRight
<1> SUFFICES ASSUME DeletionInvariant, [Next]_vars, intent # 0, intent' = 0
             PROVE  /\ mounted = plan.home
                    /\ ~plan.recordOnly => path[mounted] # plan.victim
                    /\ ~plan.recordOnly /\ plan.mode = "delete_files" =>
                        \A n \in Deletions : moved[mounted][n] # plan.victim
  BY DEF FinishIsRight
<1>1. pc = "complete"
  BY OtherStepsKeepTheDeletion DEF FinishRepositoryDeletion, BeginRepositoryDeletion
<1>2. mounted = plan.home /\ (~plan.recordOnly => path[mounted] # plan.victim)
  BY <1>1 DEF DeletionInvariant, OperationIsInOrder
<1>3. ASSUME ~plan.recordOnly, plan.mode = "delete_files", NEW n \in Deletions
      PROVE  moved[mounted][n] # plan.victim
  <2>1. moved[mounted][intent] = None
    BY <1>1, <1>3 DEF DeletionInvariant, OperationIsInOrder, Target
  <2>2. plan.victim # None
    BY <1>3, NoneAssumption DEF DeletionInvariant, DirectoryIsFollowed, TypeOK
  <2> QED
    BY <1>2, <1>3, <2>1, <2>2 DEF DeletionInvariant, DirectoryIsFollowed
<1> QED
  BY <1>2, <1>3

\* An operation moves only the directory of the recorded deletion, where that
\* deletion began and while no repository row owns the path.
THEOREM DeletionsMoveOnlyTheirDirectory == Spec => OnlyTheDeletedDirectoryIsMoved
<1>1. DeletionInvariant /\ [Next]_vars => [MoveIsRight]_vars
  BY MovesAreRight
<1> QED
  BY <1>1, DeletionInvariantHolds, PTL DEF Spec, OnlyTheDeletedDirectoryIsMoved, MoveIsRight

\* A deletion ends only where it began, with its directory out of the way.
THEOREM FinishedDeletionsAreDone == Spec => FinishedDeletionIsDone
<1>1. DeletionInvariant /\ [Next]_vars => [FinishIsRight]_vars
  BY FinishesAreRight
<1> QED
  BY <1>1, DeletionInvariantHolds, PTL DEF Spec, FinishedDeletionIsDone, FinishIsRight
=============================================================================
