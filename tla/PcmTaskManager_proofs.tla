----------------------- MODULE PcmTaskManager_proofs -----------------------
(***************************************************************************)
(* Whatever the number of packages, of pending actions and of runs, and    *)
(* however the threads are scheduled: a run nobody cancelled drains its    *)
(* queues, Close is not lost to a late AdvancePhase(), what is marked as   *)
(* installed is on disk, and what is extracted has been downloaded and     *)
(* leaves the cache again.                                                 *)
(***************************************************************************)
EXTENDS PcmTaskManager, SequenceFacts

\* What the threads know of each other: who is done, and who said so.
ThreadsAgree ==
    /\ uiPc = "idle" => BothThreadsDone /\ ~downloadComplete
    /\ uiPc # "idle" /\ downloadPc = "done" => downloadComplete
    /\ downloadComplete => downloadPc = "done" /\ (cancelled \/ downloadQueue = << >>)
    /\ uiPc # "idle" /\ installPc = "done"
        => cancelled \/ (downloadComplete /\ installQueue = << >>)

\* RunQueue(): each step of a thread, of the refresh loop and of the user.
LEMMA AgreementKept ==
    ASSUME ThreadsAgree, [Next]_vars
    PROVE  ThreadsAgree'
<1> USE DEF ThreadsAgree, BothThreadsDone, dialog, queues, downloader, installer, reporter, packages
<1>1. CASE DownloadNext
  BY <1>1 DEF DownloadNext
<1>2. CASE DownloadSucceeds
  BY <1>2 DEF DownloadSucceeds
<1>3. CASE DownloadFails
  BY <1>3 DEF DownloadFails
<1>4. CASE NotifyInstaller
  BY <1>4 DEF NotifyInstaller, Woken
<1>5. CASE DownloadsComplete
  BY <1>5 DEF DownloadsComplete, Woken, MutexHeld
<1>6. CASE CheckPredicate
  BY <1>6 DEF CheckPredicate, InstallerGoes, WaitIsOver
<1>7. CASE FallAsleep
  BY <1>7 DEF FallAsleep, InstallerGoes
<1>8. CASE LockAgain
  BY <1>8 DEF LockAgain, InstallerGoes
<1>9. CASE LeaveDrain
  BY <1>9 DEF LeaveDrain, InstallerGoes
<1>10. CASE WaitForMore
  BY <1>10 DEF WaitForMore, InstallerGoes, MoreToDo
<1>11. CASE FinishInstalls
  BY <1>11 DEF FinishInstalls, MoreToDo
<1>12. CASE InstallNext
  BY <1>12 DEF InstallNext
<1>13. CASE HashMatches
  BY <1>13 DEF HashMatches, InstallerGoes
<1>14. CASE HashMismatch
  BY <1>14 DEF HashMismatch
<1>15. CASE DeleteOldVersion
  BY <1>15 DEF DeleteOldVersion, DeletePackageDirectories
<1>16. CASE ExtractSucceeds
  BY <1>16 DEF ExtractSucceeds, MarkInstalled
<1>17. CASE ExtractFails
  BY <1>17 DEF ExtractFails, NoteLostUpdate
<1>18. CASE CleanUpExtraction
  BY <1>18 DEF CleanUpExtraction, DeletePackageDirectories
<1>19. CASE RemoveArchive
  BY <1>19 DEF RemoveArchive
<1>20. CASE UninstallPackage
  BY <1>20 DEF UninstallPackage, MarkUninstalled, DeletePackageDirectories
<1>21. CASE AdvancePhase
  BY <1>21 DEF AdvancePhase
<1>22. CASE SpuriousWakeup
  BY <1>22 DEF SpuriousWakeup, InstallerGoes
<1>23. CASE UpdateUI
  BY <1>23 DEF UpdateUI
<1>24. CASE LeaveRefresh
  BY <1>24 DEF LeaveRefresh
<1>25. CASE JoinThreads
  BY <1>25 DEF JoinThreads
<1>26. ASSUME NEW p \in Package, AddPending(p)
     PROVE  ThreadsAgree'
  BY <1>26 DEF AddPending
<1>27. ASSUME NEW i \in DOMAIN pending, DiscardAction(i)
     PROVE  ThreadsAgree'
  BY <1>27 DEF DiscardAction
<1>28. ASSUME NEW p \in Package, NEW v \in Version, InstallFromFile(p, v)
     PROVE  ThreadsAgree'
  BY <1>28 DEF InstallFromFile
<1>29. CASE ApplyChanges
  BY <1>29 DEF ApplyChanges, DialogActive
<1>30. CASE CancelClicked
  BY <1>30 DEF CancelClicked
<1>31. CASE CloseClicked
  BY <1>31 DEF CloseClicked
<1>32. CASE UNCHANGED vars
  BY <1>32 DEF vars
<1> QED
  BY <1>1, <1>2, <1>3, <1>4, <1>5, <1>6, <1>7, <1>8, <1>9, <1>10, <1>11, <1>12, <1>13, <1>14, <1>15,
     <1>16, <1>17, <1>18, <1>19, <1>20, <1>21, <1>22, <1>23, <1>24, <1>25, <1>26, <1>27, <1>28,
     <1>29, <1>30, <1>31, <1>32
  DEF Next, DownloadThread, InstallThread, RefreshLoop, User

\* A run that nobody cancelled ends with both queues drained: RunQueue()'s contract.
THEOREM EveryQueueDrained == Spec => []QueuesDrained
<1>1. Init => ThreadsAgree
  BY DEF Init, ThreadsAgree, BothThreadsDone
<1>2. ThreadsAgree /\ [Next]_vars => ThreadsAgree'
  BY AgreementKept
<1>3. ThreadsAgree => QueuesDrained
  BY DEF ThreadsAgree, BothThreadsDone, QueuesDrained
<1> QED  BY <1>1, <1>2, <1>3, PTL DEF Spec

\* Close is enabled only after SetFinished(), which nobody but the user can have
\* called before the install thread is done.
CloseIsLate ==
    /\ closing => finishedShown
    /\ finishedShown => finished
    /\ finished /\ ~cancelled => installPc = "done"
    /\ uiPc = "idle" => ~finished

\* The flags of the progress dialog through every step.
LEMMA CloseStaysLate ==
    ASSUME CloseIsLate, ThreadsAgree, [Next]_vars
    PROVE  CloseIsLate'
<1> USE DEF CloseIsLate, dialog, queues, downloader, installer, reporter, packages
<1>1. CASE DownloadNext
  BY <1>1 DEF DownloadNext
<1>2. CASE DownloadSucceeds
  BY <1>2 DEF DownloadSucceeds
<1>3. CASE DownloadFails
  BY <1>3 DEF DownloadFails
<1>4. CASE NotifyInstaller
  BY <1>4 DEF NotifyInstaller, Woken
<1>5. CASE DownloadsComplete
  BY <1>5 DEF DownloadsComplete, Woken, MutexHeld
<1>6. CASE CheckPredicate
  BY <1>6 DEF CheckPredicate, InstallerGoes, WaitIsOver
<1>7. CASE FallAsleep
  BY <1>7 DEF FallAsleep, InstallerGoes
<1>8. CASE LockAgain
  BY <1>8 DEF LockAgain, InstallerGoes
<1>9. CASE LeaveDrain
  BY <1>9 DEF LeaveDrain, InstallerGoes
<1>10. CASE WaitForMore
  BY <1>10 DEF WaitForMore, InstallerGoes, MoreToDo
<1>11. CASE FinishInstalls
  BY <1>11 DEF FinishInstalls, MoreToDo, ThreadsAgree, BothThreadsDone
<1>12. CASE InstallNext
  BY <1>12 DEF InstallNext
<1>13. CASE HashMatches
  BY <1>13 DEF HashMatches, InstallerGoes
<1>14. CASE HashMismatch
  BY <1>14 DEF HashMismatch
<1>15. CASE DeleteOldVersion
  BY <1>15 DEF DeleteOldVersion, DeletePackageDirectories
<1>16. CASE ExtractSucceeds
  BY <1>16 DEF ExtractSucceeds, MarkInstalled
<1>17. CASE ExtractFails
  BY <1>17 DEF ExtractFails, NoteLostUpdate
<1>18. CASE CleanUpExtraction
  BY <1>18 DEF CleanUpExtraction, DeletePackageDirectories
<1>19. CASE RemoveArchive
  BY <1>19 DEF RemoveArchive
<1>20. CASE UninstallPackage
  BY <1>20 DEF UninstallPackage, MarkUninstalled, DeletePackageDirectories
<1>21. CASE AdvancePhase
  BY <1>21 DEF AdvancePhase
<1>22. CASE SpuriousWakeup
  BY <1>22 DEF SpuriousWakeup, InstallerGoes
<1>23. CASE UpdateUI
  BY <1>23 DEF UpdateUI
<1>24. CASE LeaveRefresh
  BY <1>24 DEF LeaveRefresh
<1>25. CASE JoinThreads
  BY <1>25 DEF JoinThreads
<1>26. ASSUME NEW p \in Package, AddPending(p)
     PROVE  CloseIsLate'
  BY <1>26 DEF AddPending
<1>27. ASSUME NEW i \in DOMAIN pending, DiscardAction(i)
     PROVE  CloseIsLate'
  BY <1>27 DEF DiscardAction
<1>28. ASSUME NEW p \in Package, NEW v \in Version, InstallFromFile(p, v)
     PROVE  CloseIsLate'
  BY <1>28 DEF InstallFromFile
<1>29. CASE ApplyChanges
  BY <1>29 DEF ApplyChanges, DialogActive
<1>30. CASE CancelClicked
  BY <1>30 DEF CancelClicked
<1>31. CASE CloseClicked
  BY <1>31 DEF CloseClicked
<1>32. CASE UNCHANGED vars
  BY <1>32 DEF vars
<1> QED
  BY <1>1, <1>2, <1>3, <1>4, <1>5, <1>6, <1>7, <1>8, <1>9, <1>10, <1>11, <1>12, <1>13, <1>14, <1>15,
     <1>16, <1>17, <1>18, <1>19, <1>20, <1>21, <1>22, <1>23, <1>24, <1>25, <1>26, <1>27, <1>28,
     <1>29, <1>30, <1>31, <1>32
  DEF Next, DownloadThread, InstallThread, RefreshLoop, User

\* CloseSticks: AdvancePhase() resets no click on Close in a run that nobody
\* cancelled.
THEOREM CloseIsNotLost == Spec => CloseSticks
<1>1. Init => CloseIsLate /\ ThreadsAgree
  BY DEF Init, CloseIsLate, ThreadsAgree, BothThreadsDone
<1>2. CloseIsLate /\ ThreadsAgree /\ [Next]_vars => (CloseIsLate /\ ThreadsAgree)'
  BY CloseStaysLate, AgreementKept
<1>3. CloseIsLate /\ ThreadsAgree /\ [Next]_vars =>
        [uiPc = "refreshing" /\ closing /\ ~cancelled => closing']_vars
  <2> SUFFICES ASSUME CloseIsLate, [Next]_vars,
                      uiPc = "refreshing", closing, ~cancelled
               PROVE  closing' \/ UNCHANGED vars
    OBVIOUS
  <2>1. installPc = "done"
    BY DEF CloseIsLate
  <2>2. ~AdvancePhase /\ ~JoinThreads
    BY <2>1 DEF AdvancePhase, JoinThreads
  <2> QED
    BY <2>1, <2>2 DEF Next, DownloadThread, InstallThread, RefreshLoop, User, DownloadNext,
       DownloadSucceeds, DownloadFails, NotifyInstaller, DownloadsComplete, CheckPredicate,
       FallAsleep, LockAgain, LeaveDrain, WaitForMore, FinishInstalls, InstallNext, HashMatches,
       HashMismatch, DeleteOldVersion, ExtractSucceeds, ExtractFails, CleanUpExtraction,
       RemoveArchive, UninstallPackage, SpuriousWakeup, UpdateUI, LeaveRefresh, AddPending,
       DiscardAction, InstallFromFile, ApplyChanges, CancelClicked, CloseClicked, InstallerGoes,
       DialogActive,
       dialog, queues, downloader, installer, reporter, packages
<1> QED  BY <1>1, <1>2, <1>3, PTL DEF Spec, CloseSticks

\* A package whose extraction failed is known to have lost its files by the time
\* the install thread cleans up.
FilesOnDisk ==
    /\ installed = [p \in Package |-> installed[p]]
    /\ files = [p \in Package |-> files[p]]
    /\ uiPc = "idle" => installPc = "done"
    /\ installPc = "cleanup" =>
         installed[installing.package] = None \/ installing.package \in lostUpdates
    /\ InstalledHasFiles

\* installDownloadedPackage(), Uninstall() and InstallFromFile() against m_installed.
LEMMA DiskKept ==
    ASSUME FilesOnDisk, [Next]_vars
    PROVE  FilesOnDisk'
<1> USE DEF FilesOnDisk, InstalledHasFiles, BeingReplaced, dialog, queues, downloader, installer,
            reporter, packages
<1>1. CASE DownloadNext
  BY <1>1 DEF DownloadNext
<1>2. CASE DownloadSucceeds
  BY <1>2 DEF DownloadSucceeds
<1>3. CASE DownloadFails
  BY <1>3 DEF DownloadFails
<1>4. CASE NotifyInstaller
  BY <1>4 DEF NotifyInstaller, Woken
<1>5. CASE DownloadsComplete
  BY <1>5 DEF DownloadsComplete, Woken, MutexHeld
<1>6. CASE CheckPredicate
  BY <1>6 DEF CheckPredicate, InstallerGoes, WaitIsOver
<1>7. CASE FallAsleep
  BY <1>7 DEF FallAsleep, InstallerGoes
<1>8. CASE LockAgain
  BY <1>8 DEF LockAgain, InstallerGoes
<1>9. CASE LeaveDrain
  BY <1>9 DEF LeaveDrain, InstallerGoes
<1>10. CASE WaitForMore
  BY <1>10 DEF WaitForMore, InstallerGoes, MoreToDo
<1>11. CASE FinishInstalls
  BY <1>11 DEF FinishInstalls, MoreToDo
<1>12. CASE InstallNext
  BY <1>12 DEF InstallNext
<1>13. CASE HashMatches
  BY <1>13 DEF HashMatches, InstallerGoes
<1>14. CASE HashMismatch
  BY <1>14 DEF HashMismatch
<1>15. CASE DeleteOldVersion
  BY <1>15 DEF DeleteOldVersion, DeletePackageDirectories
<1>16. CASE ExtractSucceeds
  BY <1>16 DEF ExtractSucceeds, MarkInstalled
<1>17. CASE ExtractFails
  BY <1>17 DEF ExtractFails, NoteLostUpdate
<1>18. CASE CleanUpExtraction
  BY <1>18 DEF CleanUpExtraction, DeletePackageDirectories
<1>19. CASE RemoveArchive
  BY <1>19 DEF RemoveArchive
<1>20. CASE UninstallPackage
  BY <1>20 DEF UninstallPackage, MarkUninstalled, DeletePackageDirectories
<1>21. CASE AdvancePhase
  BY <1>21 DEF AdvancePhase
<1>22. CASE SpuriousWakeup
  BY <1>22 DEF SpuriousWakeup, InstallerGoes
<1>23. CASE UpdateUI
  BY <1>23 DEF UpdateUI
<1>24. CASE LeaveRefresh
  BY <1>24 DEF LeaveRefresh
<1>25. CASE JoinThreads
  BY <1>25 DEF JoinThreads
<1>26. ASSUME NEW p \in Package, AddPending(p)
     PROVE  FilesOnDisk'
  BY <1>26 DEF AddPending
<1>27. ASSUME NEW i \in DOMAIN pending, DiscardAction(i)
     PROVE  FilesOnDisk'
  BY <1>27 DEF DiscardAction
<1>28. ASSUME NEW p \in Package, NEW v \in Version, InstallFromFile(p, v)
     PROVE  FilesOnDisk'
  <2>1. /\ installPc = "done" /\ installPc' = "done"
        /\ uiPc' = uiPc
    BY <1>28 DEF InstallFromFile, DialogActive
  <2>2. CASE MarkInstalled(p, v)
    BY <2>1, <2>2 DEF MarkInstalled
  <2>3. CASE /\ \E f \in {Partial, IF installed[p] = None THEN files[p] ELSE None} :
                  files' = [files EXCEPT ![p] = f]
             /\ NoteLostUpdate(p)
             /\ UNCHANGED <<kept, installed>>
    BY <2>1, <2>3 DEF NoteLostUpdate
  <2> QED  BY <1>28, <2>2, <2>3 DEF InstallFromFile
<1>29. CASE ApplyChanges
  BY <1>29 DEF ApplyChanges, DialogActive
<1>30. CASE CancelClicked
  BY <1>30 DEF CancelClicked
<1>31. CASE CloseClicked
  BY <1>31 DEF CloseClicked
<1>32. CASE UNCHANGED vars
  BY <1>32 DEF vars
<1> QED
  BY <1>1, <1>2, <1>3, <1>4, <1>5, <1>6, <1>7, <1>8, <1>9, <1>10, <1>11, <1>12, <1>13, <1>14, <1>15,
     <1>16, <1>17, <1>18, <1>19, <1>20, <1>21, <1>22, <1>23, <1>24, <1>25, <1>26, <1>27, <1>28,
     <1>29, <1>30, <1>31, <1>32
  DEF Next, DownloadThread, InstallThread, RefreshLoop, User

\* What m_installed lists is on disk, unless its replacement is under way or could not be
\* extracted.
THEOREM InstalledIsOnDisk == Spec => []InstalledHasFiles
<1>1. Init => FilesOnDisk
  BY DEF Init, FilesOnDisk, InstalledHasFiles, BeingReplaced
<1>2. FilesOnDisk /\ [Next]_vars => FilesOnDisk'
  BY DiskKept
<1>3. FilesOnDisk => InstalledHasFiles
  BY DEF FilesOnDisk
<1> QED  BY <1>1, <1>2, <1>3, PTL DEF Spec

-----------------------------------------------------------------------------
\* What the user can ask for (AddPending()), and of that, what has to be downloaded.
Asked == {t \in Task : IsUninstall(t) <=> t.version = None}
Fetched == {t \in Asked : ~IsUninstall(t)}

\* States in which the install thread has a task, and a downloaded archive of it.
AtWork == {"verify", "deleteOld", "extract", "cleanup", "removeArchive", "uninstall", "advance"}
WithArchive == {"verify", "deleteOld", "extract", "cleanup", "removeArchive"}

\* PcmTypeOK, and the tasks that get to each place.
TasksTyped ==
    /\ PcmTypeOK
    /\ pending \in Seq(Asked)
    /\ downloadQueue \in Seq(Fetched) /\ installQueue \in Seq(Asked)
    /\ downloadPc = "task" => downloading \in Fetched
    /\ installPc \in AtWork => installing \in Asked
    /\ installPc \in WithArchive => installing \in Fetched
    /\ uiPc = "idle" => downloadQueue = << >> /\ installQueue = << >> /\ BothThreadsDone

Queued(q, p) == \E k \in DOMAIN q : q[k].package = p
QueuedOnce(q, p) == \A k, l \in DOMAIN q : q[k].package = p /\ q[l].package = p => k = l
Downloads(p) == downloadPc = "task" /\ downloading.package = p
Installs(p) == installPc \in AtWork /\ installing.package = p

\* What is asked for once is at one place at a time ...
AtOnePlace(p) ==
    /\ QueuedOnce(downloadQueue, p) /\ QueuedOnce(installQueue, p)
    /\ Queued(downloadQueue, p) => ~Downloads(p) /\ ~Queued(installQueue, p) /\ ~Installs(p)
    /\ Downloads(p) => ~Queued(installQueue, p) /\ ~Installs(p)
    /\ Queued(installQueue, p) => ~Installs(p)

\* ... and has its archive from the download to the extraction.
ArchiveReady(p) ==
    /\ \A k \in DOMAIN installQueue :
            installQueue[k].package = p /\ ~IsUninstall(installQueue[k])
                => ArchiveOf(installQueue[k]) \in archives
    /\ installPc \in {"verify", "deleteOld", "extract"} /\ installing.package = p
            => ArchiveOf(installing) \in archives

SoleTasksReady == \A p \in Package : AskedOnce(p) => AtOnePlace(p) /\ ArchiveReady(p)

\* An archive in the cache that a pending action names is going to be removed: it
\* will be downloaded again, or its task is on the way to RemoveArchive.
Expected(a) ==
    \/ \E k \in DOMAIN downloadQueue : ArchiveOf(downloadQueue[k]) = a
    \/ \E k \in DOMAIN installQueue :
            ~IsUninstall(installQueue[k]) /\ ArchiveOf(installQueue[k]) = a
    \/ installPc \in WithArchive /\ ArchiveOf(installing) = a
ArchivesExpected ==
    uiPc # "idle" /\ ~cancelled
        => \A i \in DOMAIN pending : ArchiveOf(pending[i]) \in archives => Expected(ArchiveOf(pending[i]))

\* A queue whose first task is popped: m_download_queue.pop(), m_install_queue.pop().
LEMMA Popped ==
    ASSUME NEW D, NEW q \in Seq(D), q # << >>
    PROVE  /\ Head(q) \in D /\ Tail(q) \in Seq(D)
           /\ 1 \in DOMAIN q /\ Head(q) = q[1]
           /\ \A k \in DOMAIN Tail(q) : k + 1 \in DOMAIN q /\ Tail(q)[k] = q[k + 1] /\ k + 1 # 1
           /\ \A k \in DOMAIN q : k = 1 \/ (k - 1 \in DOMAIN Tail(q) /\ Tail(q)[k - 1] = q[k])
<1>1. Len(q) \in Nat \ {0} /\ DOMAIN q = 1 .. Len(q)
  BY EmptySeq
<1>2. Len(Tail(q)) = Len(q) - 1 /\ DOMAIN Tail(q) = 1 .. Len(q) - 1
  BY <1>1
<1> QED  BY <1>1, <1>2

\* A task is pushed.
LEMMA Pushed ==
    ASSUME NEW D, NEW q \in Seq(D), NEW t \in D
    PROVE  /\ Append(q, t) \in Seq(D)
           /\ Len(Append(q, t)) = Len(q) + 1
           /\ \A k \in DOMAIN q : k \in DOMAIN Append(q, t) /\ Append(q, t)[k] = q[k]
           /\ \A k \in DOMAIN Append(q, t) : (k \in DOMAIN q /\ Append(q, t)[k] = q[k])
                                              \/ (k = Len(q) + 1 /\ Append(q, t)[k] = t)
           /\ Len(q) + 1 \in DOMAIN Append(q, t) /\ Append(q, t)[Len(q) + 1] = t
  OBVIOUS

\* discardAction() takes one entry out of the list.
LEMMA Discarded ==
    ASSUME NEW D, NEW q \in Seq(D), NEW k \in DOMAIN q
    PROVE  RemoveAt(q, k) \in Seq(D) /\ Len(RemoveAt(q, k)) = Len(q) - 1
<1>1. k \in 1 .. Len(q) /\ Len(q) \in Nat
  OBVIOUS
<1>2. SubSeq(q, 1, k - 1) \o SubSeq(q, k + 1, Len(q)) \in Seq(D)
  BY <1>1, TakeOut
<1>3. Len(SubSeq(q, 1, k - 1)) = k - 1 /\ SubSeq(q, 1, k - 1) \in Seq(D)
  <2>1. 1 \in Int /\ k - 1 \in Int /\ \A j \in 1 .. k - 1 : j \in 1 .. Len(q)
    BY <1>1
  <2>2. \A j \in 1 .. k - 1 : q[j] \in D
    BY <2>1
  <2> DEFINE m == k - 1
  <2>3. Len(SubSeq(q, 1, m)) = IF 1 <= m THEN m - 1 + 1 ELSE 0
    <3> HIDE DEF m
    <3> QED  BY <2>1, <2>2, SubSeqProperties DEF m
  <2> QED  BY <1>1, <2>1, <2>2, <2>3, SubSeqProperties
<1>4. Len(SubSeq(q, k + 1, Len(q))) = Len(q) - k /\ SubSeq(q, k + 1, Len(q)) \in Seq(D)
  <2>1. k + 1 \in Int /\ Len(q) \in Int /\ \A j \in k + 1 .. Len(q) : j \in 1 .. Len(q)
    BY <1>1
  <2>2. \A j \in k + 1 .. Len(q) : q[j] \in D
    BY <2>1
  <2> QED  BY <1>1, <2>1, <2>2, SubSeqProperties
<1>5. Len(SubSeq(q, 1, k - 1) \o SubSeq(q, k + 1, Len(q))) = (k - 1) + (Len(q) - k)
  BY <1>3, <1>4, ConcatProperties
<1>6. (k - 1) + (Len(q) - k) = Len(q) - 1
  BY <1>1
<1>7. RemoveAt(q, k) = SubSeq(q, 1, k - 1) \o SubSeq(q, k + 1, Len(q))
  BY DEF RemoveAt
<1> QED  BY <1>2, <1>5, <1>6, <1>7, Zenon

\* OnApplyChangesClicked(): the pending actions of some kinds, each once, in order.
LEMMA Sorted ==
    ASSUME NEW kinds, pending \in Seq(Asked)
    PROVE  LET T == {t \in Asked : t.kind \in kinds}
           IN  OfKinds(kinds) \in Seq(T) /\ Selects(pending, T, Len(pending), OfKinds(kinds))
<1> DEFINE T == {t \in Asked : t.kind \in kinds}
           IsUpTo(F) == F = [k \in 0 .. Len(pending) |->
                                IF k = 0 THEN << >>
                                ELSE IF pending[k].kind \in kinds THEN Append(F[k - 1], pending[k])
                                     ELSE F[k - 1]]
           Chosen(F) == F = [k \in 0 .. Len(pending) |->
                                IF k = 0 THEN << >>
                                ELSE IF pending[k] \in T THEN Append(F[k - 1], pending[k])
                                     ELSE F[k - 1]]
<1>1. \A k \in 0 .. Len(pending) : k # 0 => (pending[k].kind \in kinds <=> pending[k] \in T)
  <2> TAKE k \in 0 .. Len(pending)
  <2> HAVE k # 0
  <2>1. k \in 1 .. Len(pending) /\ pending[k] \in Asked
    OBVIOUS
  <2> QED  BY <2>1
<1>2. \A F : IsUpTo(F) <=> Chosen(F)
  BY <1>1
<1>3. /\ \E F : Chosen(F)
      /\ \A F : Chosen(F) => /\ F[Len(pending)] \in Seq(Asked \cap T)
                             /\ Selects(pending, T, Len(pending), F[Len(pending)])
  BY Selection
<1>4. Asked \cap T = T
  OBVIOUS
<1> DEFINE upTo == CHOOSE F : IsUpTo(F)
<1>5. OfKinds(kinds) = upTo[Len(pending)]
  BY DEF OfKinds
<1>6. IsUpTo(upTo)
  <2> HIDE DEF IsUpTo, Chosen
  <2> QED  BY <1>2, <1>3
<1>7. Chosen(upTo)
  <2> HIDE DEF IsUpTo, Chosen, upTo
  <2> QED  BY <1>2, <1>6
<1> HIDE DEF upTo, Chosen, IsUpTo
<1>8. upTo[Len(pending)] \in Seq(T) /\ Selects(pending, T, Len(pending), upTo[Len(pending)])
  <2> HIDE DEF T
  <2> QED  BY <1>3, <1>4, <1>7
<1> QED  BY <1>5, <1>8

\* The types, and the tasks at each place, through every step.
LEMMA TypesKept ==
    ASSUME TasksTyped, [Next]_vars
    PROVE  TasksTyped'
<1> USE DEF TasksTyped, PcmTypeOK, BothThreadsDone, AtWork, WithArchive, dialog, queues, downloader,
            installer, reporter, packages
<1>1. CASE DownloadNext
  <2>1. Head(downloadQueue) \in Fetched /\ Tail(downloadQueue) \in Seq(Fetched) /\ Tail(downloadQueue) \in Seq(Task)
    BY <1>1, Popped DEF DownloadNext, Fetched, Asked
  <2> QED  BY <1>1, <2>1 DEF DownloadNext, Fetched, Asked
<1>2. CASE DownloadSucceeds
  <2>1. downloading \in Fetched /\ downloading \in Asked /\ downloading \in Task
    BY <1>2 DEF DownloadSucceeds, Fetched, Asked
  <2>2. downloading.package \in Package /\ downloading.version \in Version
    BY <2>1 DEF Fetched, Asked, Task
  <2>3. ArchiveOf(downloading) \in Package \X Version
    BY <2>2 DEF ArchiveOf
  <2>4. Append(installQueue, downloading) \in Seq(Asked) /\ Append(installQueue, downloading) \in Seq(Task)
    BY <2>1
  <2> QED  BY <1>2, <2>3, <2>4 DEF DownloadSucceeds
<1>3. CASE DownloadFails
  BY <1>3 DEF DownloadFails, ArchiveOf
<1>4. CASE NotifyInstaller
  BY <1>4 DEF NotifyInstaller, Woken
<1>5. CASE DownloadsComplete
  BY <1>5 DEF DownloadsComplete, Woken
<1>6. CASE CheckPredicate
  BY <1>6 DEF CheckPredicate, InstallerGoes
<1>7. CASE FallAsleep
  BY <1>7 DEF FallAsleep, InstallerGoes
<1>8. CASE LockAgain
  BY <1>8 DEF LockAgain, InstallerGoes
<1>9. CASE LeaveDrain
  BY <1>9 DEF LeaveDrain, InstallerGoes
<1>10. CASE WaitForMore
  BY <1>10 DEF WaitForMore, InstallerGoes
<1>11. CASE FinishInstalls
  BY <1>11 DEF FinishInstalls
<1>12. CASE InstallNext
  <2>1. Head(installQueue) \in Asked /\ Tail(installQueue) \in Seq(Asked) /\ Tail(installQueue) \in Seq(Task)
    BY <1>12, Popped DEF InstallNext, Asked
  <2>2. Head(installQueue) \in Task /\ (~IsUninstall(Head(installQueue)) => Head(installQueue) \in Fetched)
    BY <2>1 DEF Asked, Fetched
  <2> QED  BY <1>12, <2>1, <2>2 DEF InstallNext
<1>13. CASE HashMatches
  BY <1>13 DEF HashMatches, InstallerGoes
<1>14. CASE HashMismatch
  BY <1>14 DEF HashMismatch, ArchiveOf
<1>15. CASE DeleteOldVersion
  <2>1. installing.package \in Package
    BY <1>15 DEF DeleteOldVersion, Asked, Task
  <2> QED  BY <1>15, <2>1 DEF DeleteOldVersion, DeletePackageDirectories
<1>16. CASE ExtractSucceeds
  <2>1. installing.package \in Package /\ installing.version \in Version
    BY <1>16 DEF ExtractSucceeds, Fetched, Asked, Task
  <2> QED  BY <1>16, <2>1 DEF ExtractSucceeds, MarkInstalled
<1>17. CASE ExtractFails
  <2>1. installing.package \in Package
    BY <1>17 DEF ExtractFails, Asked, Task
  <2> QED  BY <1>17, <2>1 DEF ExtractFails, NoteLostUpdate
<1>18. CASE CleanUpExtraction
  <2>1. installing.package \in Package
    BY <1>18 DEF CleanUpExtraction, Asked, Task
  <2> QED  BY <1>18, <2>1 DEF CleanUpExtraction, DeletePackageDirectories
<1>19. CASE RemoveArchive
  BY <1>19 DEF RemoveArchive, ArchiveOf
<1>20. CASE UninstallPackage
  <2>1. installing.package \in Package
    BY <1>20 DEF UninstallPackage, Asked, Task
  <2> QED  BY <1>20, <2>1 DEF UninstallPackage, MarkUninstalled, DeletePackageDirectories
<1>21. CASE AdvancePhase
  BY <1>21 DEF AdvancePhase
<1>22. CASE SpuriousWakeup
  BY <1>22 DEF SpuriousWakeup, InstallerGoes
<1>23. CASE UpdateUI
  BY <1>23 DEF UpdateUI
<1>24. CASE LeaveRefresh
  BY <1>24 DEF LeaveRefresh
<1>25. CASE JoinThreads
  <2>1. << >> \in Seq(Task) /\ << >> \in Seq(Asked) /\ << >> \in Seq(Fetched) /\ Len(<< >>) <= MaxPending
    BY PcmAssumption
  <2> QED  BY <1>25, <2>1 DEF JoinThreads
<1>26. ASSUME NEW p \in Package, AddPending(p)
     PROVE  TasksTyped'
  <2>1. PICK t \in Task : /\ t.kind = "uninstall" <=> t.version = None
                          /\ pending' = Append(pending, t)
    BY <1>26 DEF AddPending
  <2>2. t \in Asked
    BY <2>1, Zenon DEF Asked, IsUninstall
  <2>3. Append(pending, t) \in Seq(Asked) /\ Append(pending, t) \in Seq(Task)
    BY <2>2
  <2>4. Len(pending) < MaxPending /\ Len(pending) \in Nat /\ Len(Append(pending, t)) = Len(pending) + 1
    BY <1>26 DEF AddPending
  <2>5. Len(Append(pending, t)) <= MaxPending
    BY <2>4, PcmAssumption
  <2>6. marked' \in SUBSET Package
    BY <1>26 DEF AddPending
  <2>7. uiPc = "idle" /\ UNCHANGED <<runs, packages, archives, queues, downloader, installer, reporter>>
    BY <1>26 DEF AddPending, DialogActive
  <2>8. TasksTyped'
    BY <2>1, <2>3, <2>5, <2>6, <2>7
  <2> QED  BY <2>8
<1>27. ASSUME NEW i \in DOMAIN pending, DiscardAction(i)
     PROVE  TasksTyped'
  <2>1. RemoveAt(pending, i) \in Seq(Asked) /\ Len(RemoveAt(pending, i)) = Len(pending) - 1
    BY Discarded
  <2>2. RemoveAt(pending, i) \in Seq(Task) /\ Len(RemoveAt(pending, i)) <= MaxPending
    BY <2>1, Discarded, PcmAssumption
  <2> QED  BY <1>27, <2>1, <2>2 DEF DiscardAction
<1>28. ASSUME NEW p \in Package, NEW v \in Version, InstallFromFile(p, v)
     PROVE  TasksTyped'
  <2>1. files[p] \in Version \cup {None, Partial} /\ marked' \in SUBSET Package
    BY <1>28 DEF InstallFromFile
  <2>2. CASE MarkInstalled(p, v) /\ UNCHANGED kept
    BY <1>28, <2>1, <2>2 DEF InstallFromFile, MarkInstalled
  <2>3. CASE /\ \E f \in {Partial, IF installed[p] = None THEN files[p] ELSE None} :
                  files' = [files EXCEPT ![p] = f]
             /\ NoteLostUpdate(p)
             /\ UNCHANGED <<kept, installed>>
    BY <1>28, <2>1, <2>3 DEF InstallFromFile, NoteLostUpdate
  <2> QED  BY <1>28, <2>2, <2>3 DEF InstallFromFile
<1>29. CASE ApplyChanges
  <2>1. /\ OfKinds({"install", "update"}) \in Seq({t \in Asked : t.kind \in {"install", "update"}})
        /\ OfKinds({"uninstall"}) \in Seq({t \in Asked : t.kind \in {"uninstall"}})
    BY Sorted
  <2>2. {t \in Asked : t.kind \in {"install", "update"}} \subseteq Fetched /\ Fetched \subseteq Task /\ Asked \subseteq Task
    BY DEF Asked, Fetched, IsUninstall
  <2>3. /\ OfKinds({"install", "update"}) \in Seq(Fetched) /\ OfKinds({"install", "update"}) \in Seq(Task)
        /\ OfKinds({"uninstall"}) \in Seq(Asked) /\ OfKinds({"uninstall"}) \in Seq(Task)
    BY <2>1, <2>2
  <2>4. runs + 1 \in 0 .. MaxRuns
    BY <1>29, PcmAssumption DEF ApplyChanges, DialogActive
  <2> QED  BY <1>29, <2>3, <2>4 DEF ApplyChanges
<1>30. CASE CancelClicked
  BY <1>30 DEF CancelClicked
<1>31. CASE CloseClicked
  BY <1>31 DEF CloseClicked
<1>32. CASE UNCHANGED vars
  BY <1>32 DEF vars
<1> QED
  BY <1>1, <1>2, <1>3, <1>4, <1>5, <1>6, <1>7, <1>8, <1>9, <1>10, <1>11, <1>12, <1>13, <1>14, <1>15,
     <1>16, <1>17, <1>18, <1>19, <1>20, <1>21, <1>22, <1>23, <1>24, <1>25, <1>26, <1>27, <1>28,
     <1>29, <1>30, <1>31, <1>32
  DEF Next, DownloadThread, InstallThread, RefreshLoop, User


\* What is queued when a task is popped, and pushed.
LEMMA QueuePopped ==
    ASSUME NEW q \in Seq(Task), q # << >>, NEW p
    PROVE  /\ Queued(Tail(q), p) => Queued(q, p)
           /\ Head(q).package = p => Queued(q, p)
           /\ QueuedOnce(q, p) => /\ QueuedOnce(Tail(q), p)
                                  /\ Head(q).package = p => ~Queued(Tail(q), p)
<1>1. /\ 1 \in DOMAIN q /\ Head(q) = q[1]
      /\ \A k \in DOMAIN Tail(q) : k + 1 \in DOMAIN q /\ Tail(q)[k] = q[k + 1] /\ k + 1 # 1
  BY Popped
<1>2. \A k, l \in DOMAIN Tail(q) : k + 1 = l + 1 => k = l
  OBVIOUS
<1> QED  BY <1>1, <1>2 DEF Queued, QueuedOnce

\* And when one is pushed.
LEMMA QueuePushed ==
    ASSUME NEW q \in Seq(Task), NEW t \in Task, NEW p
    PROVE  /\ Queued(Append(q, t), p) <=> Queued(q, p) \/ t.package = p
           /\ QueuedOnce(q, p) /\ (t.package # p \/ ~Queued(q, p)) => QueuedOnce(Append(q, t), p)
<1>1. /\ \A k \in DOMAIN q : k \in DOMAIN Append(q, t) /\ Append(q, t)[k] = q[k]
      /\ \A k \in DOMAIN Append(q, t) : (k \in DOMAIN q /\ Append(q, t)[k] = q[k])
                                         \/ (k = Len(q) + 1 /\ Append(q, t)[k] = t)
      /\ Len(q) + 1 \in DOMAIN Append(q, t) /\ Append(q, t)[Len(q) + 1] = t
  BY Pushed
<1>2. Queued(Append(q, t), p) <=> Queued(q, p) \/ t.package = p
  BY <1>1 DEF Queued
<1>3. QueuedOnce(q, p) /\ (t.package # p \/ ~Queued(q, p)) => QueuedOnce(Append(q, t), p)
  BY <1>1, Zenon DEF Queued, QueuedOnce
<1> QED  BY <1>2, <1>3

\* A package that is asked for once has one entry in the list.
LEMMA AskedAtOneIndex ==
    ASSUME NEW p, AskedOnce(p), pending \in Seq(Task)
    PROVE  \A k, l \in 1 .. Len(pending) : pending[k].package = p /\ pending[l].package = p => k = l
<1> DEFINE I == {i \in DOMAIN pending : pending[i].package = p}
<1>1. DOMAIN pending = 1 .. Len(pending) /\ Len(pending) \in Nat
  OBVIOUS
<1>2. IsFiniteSet(I)
  <2>1. IsFiniteSet(1 .. Len(pending))
    BY <1>1, FS_Interval
  <2> QED  BY <1>1, <2>1, FS_Subset
<1>3. PICK i : I = {i}
  <2> HIDE DEF I
  <2>1. Cardinality(I) = 1
    BY DEF AskedOnce, I
  <2> QED  BY <1>2, <2>1, FS_Singleton
<1> QED  BY <1>1, <1>3

\* What a queue has been sorted out of.
LEMMA SelectedFrom ==
    ASSUME NEW T, NEW m, NEW r \in Seq(T), Selects(pending, T, m, r), NEW k \in DOMAIN r
    PROVE  \E i \in 1 .. m : r[k] = pending[i]
  BY DEF Selects

\* A package that is asked for once is in one of the queues once.
LEMMA SelectedOnce ==
    ASSUME NEW T, NEW m, NEW r \in Seq(T), Selects(pending, T, m, r), NEW p,
           \A k, l \in 1 .. m : pending[k].package = p /\ pending[l].package = p => k = l
    PROVE  QueuedOnce(r, p)
<1>1. DOMAIN r = 1 .. Len(r)
  OBVIOUS
<1>2. PICK at \in [1 .. Len(r) -> 1 .. m] :
        /\ \A k \in 1 .. Len(r) : r[k] = pending[at[k]]
        /\ \A k, l \in 1 .. Len(r) : at[k] = at[l] => k = l
  BY DEF Selects
<1>3. \A k \in 1 .. Len(r) : at[k] \in 1 .. m
  BY <1>2
<1>4. ASSUME NEW k \in DOMAIN r, NEW l \in DOMAIN r, r[k].package = p, r[l].package = p
      PROVE  k = l
  <2>1. pending[at[k]].package = p /\ pending[at[l]].package = p
    BY <1>1, <1>2, <1>4
  <2>2. at[k] = at[l]
    BY <1>1, <1>3, <1>4, <2>1
  <2> QED  BY <1>1, <1>2, <1>4, <2>2
<1> QED  BY <1>4 DEF QueuedOnce

\* Nothing is anywhere while the dialog takes clicks.
LEMMA IdlePlaces ==
    ASSUME TasksTyped', uiPc' = "idle", NEW p
    PROVE  (AtOnePlace(p) /\ ArchiveReady(p))'
<1>1. downloadQueue' = << >> /\ installQueue' = << >> /\ downloadPc' = "done" /\ installPc' = "done"
  BY DEF TasksTyped, BothThreadsDone
<1>2. DOMAIN << >> = {}
  OBVIOUS
<1> QED  BY <1>1, <1>2 DEF AtOnePlace, ArchiveReady, Queued, QueuedOnce, Downloads, Installs, AtWork

\* The places of a task that was asked for once, and its archive, through every step.
LEMMA SoleTasksKept ==
    ASSUME TasksTyped, TasksTyped', SoleTasksReady, [Next]_vars
    PROVE  SoleTasksReady'
<1> SUFFICES ASSUME NEW p \in Package, AskedOnce(p)'
             PROVE  (AtOnePlace(p) /\ ArchiveReady(p))'
  BY DEF SoleTasksReady
<1> USE DEF dialog, queues, downloader, installer, reporter, packages
<1>33. pending' = pending => AskedOnce(p) /\ AtOnePlace(p) /\ ArchiveReady(p)
  BY DEF AskedOnce, SoleTasksReady
<1>1. CASE DownloadNext
  <2>0. AskedOnce(p) /\ AtOnePlace(p) /\ ArchiveReady(p)
    BY <1>1, <1>33 DEF DownloadNext
  <2>1. downloadQueue # << >> /\ downloadQueue \in Seq(Task) /\ downloading' = Head(downloadQueue)
    BY <2>0, <1>1 DEF DownloadNext, TasksTyped, PcmTypeOK
  <2>2. /\ Queued(Tail(downloadQueue), p) => Queued(downloadQueue, p)
        /\ Head(downloadQueue).package = p => Queued(downloadQueue, p) /\ ~Queued(Tail(downloadQueue), p)
        /\ QueuedOnce(Tail(downloadQueue), p)
    BY <2>0, <2>1, QueuePopped DEF AtOnePlace
  <2>3. AtOnePlace(p)'
    BY <2>0, <1>1, <2>1, <2>2 DEF DownloadNext, AtOnePlace, Downloads, Installs
  <2>4. ArchiveReady(p)'
    <3>1. CASE Head(downloadQueue).package = p
      <4>1. ~Queued(installQueue, p) /\ ~Installs(p)
        BY <2>0, <2>2, <3>1 DEF AtOnePlace
      <4> QED  BY <2>0, <1>1, <4>1 DEF DownloadNext, ArchiveReady, Queued, Installs, AtWork
    <3>2. CASE Head(downloadQueue).package # p
      <4>1. \A u : u.package = p => ArchiveOf(u) # ArchiveOf(Head(downloadQueue))
        BY <3>2 DEF ArchiveOf
      <4> QED  BY <2>0, <1>1, <4>1 DEF DownloadNext, ArchiveReady
    <3> QED  BY <3>1, <3>2
  <2> QED  BY <2>3, <2>4
<1>2. CASE DownloadSucceeds
  <2>0. AskedOnce(p) /\ AtOnePlace(p) /\ ArchiveReady(p)
    BY <1>2, <1>33 DEF DownloadSucceeds, ArchiveOf
  <2>1. downloading \in Task /\ installQueue \in Seq(Task) /\ installQueue' = Append(installQueue, downloading)
    BY <2>0, <1>2 DEF DownloadSucceeds, TasksTyped, Fetched, Asked, PcmTypeOK
  <2>2. /\ Queued(installQueue, p)' <=> Queued(installQueue, p) \/ downloading.package = p
        /\ downloading.package # p \/ ~Queued(installQueue, p) => QueuedOnce(installQueue, p)'
    BY <2>0, <2>1, QueuePushed DEF AtOnePlace
  <2>3. AtOnePlace(p)'
    BY <2>0, <1>2, <2>2 DEF DownloadSucceeds, AtOnePlace, Downloads, Installs
  <2>4. ArchiveReady(p)'
    BY <2>0, <1>2, <2>1, Pushed DEF DownloadSucceeds, ArchiveReady
  <2> QED  BY <2>3, <2>4
<1>3. CASE DownloadFails
  <2>0. AskedOnce(p) /\ AtOnePlace(p) /\ ArchiveReady(p)
    BY <1>3, <1>33 DEF DownloadFails, ArchiveOf
  <2>1. AtOnePlace(p)'
    BY <2>0, <1>3 DEF DownloadFails, AtOnePlace, Downloads, Installs
  <2>2. ArchiveReady(p)'
    <3>1. CASE downloading.package = p
      <4>1. ~Queued(installQueue, p) /\ ~Installs(p)
        BY <2>0, <1>3, <3>1 DEF DownloadFails, AtOnePlace, Downloads
      <4> QED  BY <2>0, <1>3, <4>1 DEF DownloadFails, ArchiveReady, Queued, Installs, AtWork
    <3>2. CASE downloading.package # p
      <4>1. \A u : u.package = p => ArchiveOf(u) # ArchiveOf(downloading)
        BY <3>2 DEF ArchiveOf
      <4> QED  BY <2>0, <1>3, <4>1 DEF DownloadFails, ArchiveReady
    <3> QED  BY <3>1, <3>2
  <2> QED  BY <2>1, <2>2
<1>4. CASE NotifyInstaller
  <2>0. AskedOnce(p) /\ AtOnePlace(p) /\ ArchiveReady(p)
    BY <1>4, <1>33 DEF NotifyInstaller, Woken
  <2>1. AtOnePlace(p)'
    BY <2>0, <1>4 DEF AtOnePlace, Downloads, Installs, AtWork, NotifyInstaller, Woken
  <2>2. ArchiveReady(p)'
    BY <2>0, <1>4 DEF ArchiveReady, AtOnePlace, Installs, AtWork, NotifyInstaller, Woken
  <2> QED  BY <2>1, <2>2
<1>5. CASE DownloadsComplete
  <2>0. AskedOnce(p) /\ AtOnePlace(p) /\ ArchiveReady(p)
    BY <1>5, <1>33 DEF DownloadsComplete, Woken
  <2>1. AtOnePlace(p)'
    BY <2>0, <1>5 DEF AtOnePlace, Downloads, Installs, AtWork, DownloadsComplete, Woken
  <2>2. ArchiveReady(p)'
    BY <2>0, <1>5 DEF ArchiveReady, AtOnePlace, Installs, AtWork, DownloadsComplete, Woken
  <2> QED  BY <2>1, <2>2
<1>6. CASE CheckPredicate
  <2>0. AskedOnce(p) /\ AtOnePlace(p) /\ ArchiveReady(p)
    BY <1>6, <1>33 DEF CheckPredicate, InstallerGoes
  <2>1. AtOnePlace(p)'
    BY <2>0, <1>6 DEF AtOnePlace, Downloads, Installs, AtWork, CheckPredicate, InstallerGoes
  <2>2. ArchiveReady(p)'
    BY <2>0, <1>6 DEF ArchiveReady, AtOnePlace, Installs, AtWork, CheckPredicate, InstallerGoes
  <2> QED  BY <2>1, <2>2
<1>7. CASE FallAsleep
  <2>0. AskedOnce(p) /\ AtOnePlace(p) /\ ArchiveReady(p)
    BY <1>7, <1>33 DEF FallAsleep, InstallerGoes
  <2>1. AtOnePlace(p)'
    BY <2>0, <1>7 DEF AtOnePlace, Downloads, Installs, AtWork, FallAsleep, InstallerGoes
  <2>2. ArchiveReady(p)'
    BY <2>0, <1>7 DEF ArchiveReady, AtOnePlace, Installs, AtWork, FallAsleep, InstallerGoes
  <2> QED  BY <2>1, <2>2
<1>8. CASE LockAgain
  <2>0. AskedOnce(p) /\ AtOnePlace(p) /\ ArchiveReady(p)
    BY <1>8, <1>33 DEF LockAgain, InstallerGoes
  <2>1. AtOnePlace(p)'
    BY <2>0, <1>8 DEF AtOnePlace, Downloads, Installs, AtWork, LockAgain, InstallerGoes
  <2>2. ArchiveReady(p)'
    BY <2>0, <1>8 DEF ArchiveReady, AtOnePlace, Installs, AtWork, LockAgain, InstallerGoes
  <2> QED  BY <2>1, <2>2
<1>9. CASE LeaveDrain
  <2>0. AskedOnce(p) /\ AtOnePlace(p) /\ ArchiveReady(p)
    BY <1>9, <1>33 DEF LeaveDrain, InstallerGoes
  <2>1. AtOnePlace(p)'
    BY <2>0, <1>9 DEF AtOnePlace, Downloads, Installs, AtWork, LeaveDrain, InstallerGoes
  <2>2. ArchiveReady(p)'
    BY <2>0, <1>9 DEF ArchiveReady, AtOnePlace, Installs, AtWork, LeaveDrain, InstallerGoes
  <2> QED  BY <2>1, <2>2
<1>10. CASE WaitForMore
  <2>0. AskedOnce(p) /\ AtOnePlace(p) /\ ArchiveReady(p)
    BY <1>10, <1>33 DEF WaitForMore, InstallerGoes
  <2>1. AtOnePlace(p)'
    BY <2>0, <1>10 DEF AtOnePlace, Downloads, Installs, AtWork, WaitForMore, InstallerGoes
  <2>2. ArchiveReady(p)'
    BY <2>0, <1>10 DEF ArchiveReady, AtOnePlace, Installs, AtWork, WaitForMore, InstallerGoes
  <2> QED  BY <2>1, <2>2
<1>11. CASE FinishInstalls
  <2>0. AskedOnce(p) /\ AtOnePlace(p) /\ ArchiveReady(p)
    BY <1>11, <1>33 DEF FinishInstalls
  <2>1. AtOnePlace(p)'
    BY <2>0, <1>11 DEF AtOnePlace, Downloads, Installs, AtWork, FinishInstalls
  <2>2. ArchiveReady(p)'
    BY <2>0, <1>11 DEF ArchiveReady, AtOnePlace, Installs, AtWork, FinishInstalls
  <2> QED  BY <2>1, <2>2
<1>12. CASE InstallNext
  <2>0. AskedOnce(p) /\ AtOnePlace(p) /\ ArchiveReady(p)
    BY <1>12, <1>33 DEF InstallNext
  <2>1. installQueue # << >> /\ installQueue \in Seq(Task) /\ installing' = Head(installQueue)
    BY <2>0, <1>12 DEF InstallNext, TasksTyped, PcmTypeOK
  <2>2. /\ Queued(Tail(installQueue), p) => Queued(installQueue, p)
        /\ Head(installQueue).package = p => Queued(installQueue, p) /\ ~Queued(Tail(installQueue), p)
        /\ QueuedOnce(Tail(installQueue), p)
    BY <2>0, <2>1, QueuePopped DEF AtOnePlace
  <2>3. AtOnePlace(p)'
    BY <2>0, <1>12, <2>1, <2>2 DEF InstallNext, AtOnePlace, Downloads, Installs, AtWork
  <2>4. ArchiveReady(p)'
    BY <2>0, <1>12, <2>1, Popped DEF InstallNext, ArchiveReady
  <2> QED  BY <2>3, <2>4
<1>13. CASE HashMatches
  <2>0. AskedOnce(p) /\ AtOnePlace(p) /\ ArchiveReady(p)
    BY <1>13, <1>33 DEF HashMatches, InstallerGoes
  <2>1. AtOnePlace(p)'
    BY <2>0, <1>13 DEF AtOnePlace, Downloads, Installs, AtWork, HashMatches, InstallerGoes
  <2>2. ArchiveReady(p)'
    BY <2>0, <1>13 DEF ArchiveReady, AtOnePlace, Installs, AtWork, HashMatches, InstallerGoes
  <2> QED  BY <2>1, <2>2
<1>14. CASE HashMismatch
  <2>0. AskedOnce(p) /\ AtOnePlace(p) /\ ArchiveReady(p)
    BY <1>14, <1>33 DEF HashMismatch, ArchiveOf
  <2>1. AtOnePlace(p)'
    BY <2>0, <1>14 DEF AtOnePlace, Downloads, Installs, AtWork, HashMismatch
  <2>2. ArchiveReady(p)'
    <3>1. CASE installing.package = p
      <4>1. ~Queued(installQueue, p)
        BY <2>0, <1>14, <3>1 DEF HashMismatch, AtOnePlace, Installs, AtWork
      <4> QED  BY <2>0, <1>14, <4>1 DEF HashMismatch, ArchiveReady, Queued
    <3>2. CASE installing.package # p
      <4>1. \A u : u.package = p => ArchiveOf(u) # ArchiveOf(installing)
        BY <3>2 DEF ArchiveOf
      <4> QED  BY <2>0, <1>14, <4>1 DEF HashMismatch, ArchiveReady
    <3> QED  BY <3>1, <3>2
  <2> QED  BY <2>1, <2>2
<1>15. CASE DeleteOldVersion
  <2>0. AskedOnce(p) /\ AtOnePlace(p) /\ ArchiveReady(p)
    BY <1>15, <1>33 DEF DeleteOldVersion, DeletePackageDirectories
  <2>1. AtOnePlace(p)'
    BY <2>0, <1>15 DEF AtOnePlace, Downloads, Installs, AtWork, DeleteOldVersion
  <2>2. ArchiveReady(p)'
    BY <2>0, <1>15 DEF ArchiveReady, AtOnePlace, Installs, AtWork, DeleteOldVersion
  <2> QED  BY <2>1, <2>2
<1>16. CASE ExtractSucceeds
  <2>0. AskedOnce(p) /\ AtOnePlace(p) /\ ArchiveReady(p)
    BY <1>16, <1>33 DEF ExtractSucceeds, MarkInstalled, ArchiveOf
  <2>1. AtOnePlace(p)'
    BY <2>0, <1>16 DEF AtOnePlace, Downloads, Installs, AtWork, ExtractSucceeds
  <2>2. ArchiveReady(p)'
    BY <2>0, <1>16 DEF ArchiveReady, AtOnePlace, Installs, AtWork, ExtractSucceeds
  <2> QED  BY <2>1, <2>2
<1>17. CASE ExtractFails
  <2>0. AskedOnce(p) /\ AtOnePlace(p) /\ ArchiveReady(p)
    BY <1>17, <1>33 DEF ExtractFails, NoteLostUpdate
  <2>1. AtOnePlace(p)'
    BY <2>0, <1>17 DEF AtOnePlace, Downloads, Installs, AtWork, ExtractFails
  <2>2. ArchiveReady(p)'
    BY <2>0, <1>17 DEF ArchiveReady, AtOnePlace, Installs, AtWork, ExtractFails
  <2> QED  BY <2>1, <2>2
<1>18. CASE CleanUpExtraction
  <2>0. AskedOnce(p) /\ AtOnePlace(p) /\ ArchiveReady(p)
    BY <1>18, <1>33 DEF CleanUpExtraction, DeletePackageDirectories
  <2>1. AtOnePlace(p)'
    BY <2>0, <1>18 DEF AtOnePlace, Downloads, Installs, AtWork, CleanUpExtraction
  <2>2. ArchiveReady(p)'
    BY <2>0, <1>18 DEF ArchiveReady, AtOnePlace, Installs, AtWork, CleanUpExtraction
  <2> QED  BY <2>1, <2>2
<1>19. CASE RemoveArchive
  <2>0. AskedOnce(p) /\ AtOnePlace(p) /\ ArchiveReady(p)
    BY <1>19, <1>33 DEF RemoveArchive, ArchiveOf
  <2>1. AtOnePlace(p)'
    BY <2>0, <1>19 DEF AtOnePlace, Downloads, Installs, AtWork, RemoveArchive
  <2>2. ArchiveReady(p)'
    <3>1. CASE installing.package = p
      <4>1. ~Queued(installQueue, p)
        BY <2>0, <1>19, <3>1 DEF RemoveArchive, AtOnePlace, Installs, AtWork
      <4> QED  BY <2>0, <1>19, <4>1 DEF RemoveArchive, ArchiveReady, Queued
    <3>2. CASE installing.package # p
      <4>1. \A u : u.package = p => ArchiveOf(u) # ArchiveOf(installing)
        BY <3>2 DEF ArchiveOf
      <4> QED  BY <2>0, <1>19, <4>1 DEF RemoveArchive, ArchiveReady
    <3> QED  BY <3>1, <3>2
  <2> QED  BY <2>1, <2>2
<1>20. CASE UninstallPackage
  <2>0. AskedOnce(p) /\ AtOnePlace(p) /\ ArchiveReady(p)
    BY <1>20, <1>33 DEF UninstallPackage, MarkUninstalled, DeletePackageDirectories
  <2>1. AtOnePlace(p)'
    BY <2>0, <1>20 DEF AtOnePlace, Downloads, Installs, AtWork, UninstallPackage
  <2>2. ArchiveReady(p)'
    BY <2>0, <1>20 DEF ArchiveReady, AtOnePlace, Installs, AtWork, UninstallPackage
  <2> QED  BY <2>1, <2>2
<1>21. CASE AdvancePhase
  <2>0. AskedOnce(p) /\ AtOnePlace(p) /\ ArchiveReady(p)
    BY <1>21, <1>33 DEF AdvancePhase
  <2>1. AtOnePlace(p)'
    BY <2>0, <1>21 DEF AtOnePlace, Downloads, Installs, AtWork, AdvancePhase
  <2>2. ArchiveReady(p)'
    BY <2>0, <1>21 DEF ArchiveReady, AtOnePlace, Installs, AtWork, AdvancePhase
  <2> QED  BY <2>1, <2>2
<1>22. CASE SpuriousWakeup
  <2>0. AskedOnce(p) /\ AtOnePlace(p) /\ ArchiveReady(p)
    BY <1>22, <1>33 DEF SpuriousWakeup, InstallerGoes
  <2>1. AtOnePlace(p)'
    BY <2>0, <1>22 DEF AtOnePlace, Downloads, Installs, AtWork, SpuriousWakeup, InstallerGoes
  <2>2. ArchiveReady(p)'
    BY <2>0, <1>22 DEF ArchiveReady, AtOnePlace, Installs, AtWork, SpuriousWakeup, InstallerGoes
  <2> QED  BY <2>1, <2>2
<1>23. CASE UpdateUI
  <2>0. AskedOnce(p) /\ AtOnePlace(p) /\ ArchiveReady(p)
    BY <1>23, <1>33 DEF UpdateUI
  <2>1. AtOnePlace(p)'
    BY <2>0, <1>23 DEF AtOnePlace, Downloads, Installs, AtWork, UpdateUI
  <2>2. ArchiveReady(p)'
    BY <2>0, <1>23 DEF ArchiveReady, AtOnePlace, Installs, AtWork, UpdateUI
  <2> QED  BY <2>1, <2>2
<1>24. CASE LeaveRefresh
  <2>0. AskedOnce(p) /\ AtOnePlace(p) /\ ArchiveReady(p)
    BY <1>24, <1>33 DEF LeaveRefresh
  <2>1. AtOnePlace(p)'
    BY <2>0, <1>24 DEF AtOnePlace, Downloads, Installs, AtWork, LeaveRefresh
  <2>2. ArchiveReady(p)'
    BY <2>0, <1>24 DEF ArchiveReady, AtOnePlace, Installs, AtWork, LeaveRefresh
  <2> QED  BY <2>1, <2>2
<1>25. CASE JoinThreads
  BY <1>25, IdlePlaces DEF JoinThreads, DialogActive, reporter, queues, downloader, installer
<1>26. ASSUME NEW q \in Package, AddPending(q)
     PROVE  (AtOnePlace(p) /\ ArchiveReady(p))'
  BY <1>26, IdlePlaces DEF AddPending, DialogActive, reporter, queues, downloader, installer
<1>27. ASSUME NEW i \in DOMAIN pending, DiscardAction(i)
     PROVE  (AtOnePlace(p) /\ ArchiveReady(p))'
  BY <1>27, IdlePlaces DEF DiscardAction, DialogActive, reporter, queues, downloader, installer
<1>28. ASSUME NEW q \in Package, NEW v \in Version, InstallFromFile(q, v)
     PROVE  (AtOnePlace(p) /\ ArchiveReady(p))'
  BY <1>28, IdlePlaces DEF InstallFromFile, DialogActive, reporter, queues, downloader, installer
<1>29. CASE ApplyChanges
  <2>0. AskedOnce(p) /\ AtOnePlace(p) /\ ArchiveReady(p)
    BY <1>29, <1>33 DEF ApplyChanges
  <2>1. /\ OfKinds({"install", "update"}) \in Seq({t \in Asked : t.kind \in {"install", "update"}})
        /\ Selects(pending, {t \in Asked : t.kind \in {"install", "update"}}, Len(pending), OfKinds({"install", "update"}))
        /\ OfKinds({"uninstall"}) \in Seq({t \in Asked : t.kind \in {"uninstall"}})
        /\ Selects(pending, {t \in Asked : t.kind \in {"uninstall"}}, Len(pending), OfKinds({"uninstall"}))
    BY Sorted DEF TasksTyped
  <2>2. /\ downloadQueue' = OfKinds({"install", "update"}) /\ installQueue' = OfKinds({"uninstall"})
        /\ downloadPc' = "loop" /\ installPc' = "checking"
    BY <2>0, <1>29 DEF ApplyChanges
  <2>3. \A k, l \in 1 .. Len(pending) : pending[k].package = p /\ pending[l].package = p => k = l
    BY <2>0, AskedAtOneIndex DEF TasksTyped, PcmTypeOK
  <2>4. QueuedOnce(downloadQueue, p)' /\ QueuedOnce(installQueue, p)'
    BY <2>1, <2>2, <2>3, SelectedOnce
  <2>5. \A k \in DOMAIN downloadQueue' : downloadQueue'[k].kind \in {"install", "update"}
    BY <2>1, <2>2
  <2>6. \A k \in DOMAIN installQueue' : installQueue'[k].kind \in {"uninstall"}
    BY <2>1, <2>2
  <2>7. ~(Queued(downloadQueue, p)' /\ Queued(installQueue, p)')
    <3> SUFFICES ASSUME NEW k \in DOMAIN downloadQueue', downloadQueue'[k].package = p,
                        NEW l \in DOMAIN installQueue', installQueue'[l].package = p
                 PROVE  FALSE
      BY DEF Queued
    <3>1. PICK i \in 1 .. Len(pending) : downloadQueue'[k] = pending[i]
      BY <2>1, <2>2, SelectedFrom
    <3>2. PICK j \in 1 .. Len(pending) : installQueue'[l] = pending[j]
      BY <2>1, <2>2, SelectedFrom
    <3>3. i = j
      BY <2>3, <3>1, <3>2
    <3> QED  BY <2>5, <2>6, <3>1, <3>2, <3>3
  <2>8. AtOnePlace(p)'
    BY <2>2, <2>4, <2>7 DEF AtOnePlace, Downloads, Installs, AtWork
  <2>9. ArchiveReady(p)'
    BY <2>2, <2>6 DEF ArchiveReady, IsUninstall
  <2> QED  BY <2>8, <2>9
<1>30. CASE CancelClicked
  <2>0. AskedOnce(p) /\ AtOnePlace(p) /\ ArchiveReady(p)
    BY <1>30, <1>33 DEF CancelClicked
  <2>1. AtOnePlace(p)'
    BY <2>0, <1>30 DEF AtOnePlace, Downloads, Installs, AtWork, CancelClicked
  <2>2. ArchiveReady(p)'
    BY <2>0, <1>30 DEF ArchiveReady, AtOnePlace, Installs, AtWork, CancelClicked
  <2> QED  BY <2>1, <2>2
<1>31. CASE CloseClicked
  <2>0. AskedOnce(p) /\ AtOnePlace(p) /\ ArchiveReady(p)
    BY <1>31, <1>33 DEF CloseClicked
  <2>1. AtOnePlace(p)'
    BY <2>0, <1>31 DEF AtOnePlace, Downloads, Installs, AtWork, CloseClicked
  <2>2. ArchiveReady(p)'
    BY <2>0, <1>31 DEF ArchiveReady, AtOnePlace, Installs, AtWork, CloseClicked
  <2> QED  BY <2>1, <2>2
<1>32. CASE UNCHANGED vars
  BY <1>32, <1>33 DEF vars, AtOnePlace, ArchiveReady, Downloads, Installs, Queued, QueuedOnce
<1> QED
  BY <1>1, <1>2, <1>3, <1>4, <1>5, <1>6, <1>7, <1>8, <1>9, <1>10, <1>11, <1>12, <1>13, <1>14, <1>15,
     <1>16, <1>17, <1>18, <1>19, <1>20, <1>21, <1>22, <1>23, <1>24, <1>25, <1>26, <1>27, <1>28,
     <1>29, <1>30, <1>31, <1>32
  DEF Next, DownloadThread, InstallThread, RefreshLoop, User

\* What is asked for gets into its queue.
LEMMA SelectedAll ==
    ASSUME NEW T, NEW r \in Seq(T), pending \in Seq(Asked), Selects(pending, T, Len(pending), r),
           NEW i \in DOMAIN pending, pending[i] \in T
    PROVE  \E k \in DOMAIN r : r[k] = pending[i]
<1>1. i \in 1 .. Len(pending) /\ DOMAIN r = 1 .. Len(r)
  OBVIOUS
<1> QED  BY <1>1 DEF Selects

\* Each archive that a pending action names stays on the way to RemoveArchive.
LEMMA ArchivesStayExpected ==
    ASSUME TasksTyped, ArchivesExpected, [Next]_vars
    PROVE  ArchivesExpected'
<1> SUFFICES ASSUME uiPc' # "idle", ~cancelled', NEW a, a \in archives',
                    \E i \in DOMAIN pending' : a = ArchiveOf(pending'[i])
             PROVE  Expected(a)'
  BY DEF ArchivesExpected, ArchiveOf
<1> USE DEF dialog, queues, downloader, installer, reporter, packages
<1>33. pending' = pending /\ uiPc # "idle" /\ ~cancelled /\ a \in archives => Expected(a)
  BY DEF ArchivesExpected, ArchiveOf
<1>1. CASE DownloadNext
  <2>1. /\ a # ArchiveOf(Head(downloadQueue)) /\ a \in archives
        /\ downloadQueue # << >> /\ downloadQueue \in Seq(Task) /\ downloadQueue' = Tail(downloadQueue)
    BY <1>1 DEF DownloadNext, TasksTyped, PcmTypeOK
  <2>2. /\ Head(downloadQueue) = downloadQueue[1]
        /\ \A k \in DOMAIN downloadQueue :
              k = 1 \/ (k - 1 \in DOMAIN downloadQueue' /\ downloadQueue'[k - 1] = downloadQueue[k])
    BY <2>1, Popped
  <2>3. (\E k \in DOMAIN downloadQueue : ArchiveOf(downloadQueue[k]) = a)
            => \E k \in DOMAIN downloadQueue' : ArchiveOf(downloadQueue'[k]) = a
    BY <2>1, <2>2
  <2>4. Expected(a)
    BY <1>1, <2>1, <1>33 DEF DownloadNext
  <2> QED  BY <1>1, <2>3, <2>4 DEF DownloadNext, Expected
<1>2. CASE DownloadSucceeds
  <2>1. /\ downloading \in Fetched /\ downloading \in Task /\ installQueue \in Seq(Task)
        /\ installQueue' = Append(installQueue, downloading)
    BY <1>2 DEF DownloadSucceeds, TasksTyped, PcmTypeOK, Fetched, Asked
  <2>2. /\ \A k \in DOMAIN installQueue : k \in DOMAIN installQueue' /\ installQueue'[k] = installQueue[k]
        /\ Len(installQueue) + 1 \in DOMAIN installQueue'
        /\ installQueue'[Len(installQueue) + 1] = downloading
    BY <2>1, Pushed
  <2>3. CASE a = ArchiveOf(downloading)
    BY <2>1, <2>2, <2>3 DEF Expected, Fetched
  <2>4. CASE a # ArchiveOf(downloading)
    <3>1. Expected(a)
      BY <1>2, <2>4, <1>33 DEF DownloadSucceeds
    <3> QED  BY <1>2, <2>2, <3>1 DEF DownloadSucceeds, Expected
  <2> QED  BY <2>3, <2>4
<1>3. CASE DownloadFails
  <2>1. Expected(a)
    BY <1>3, <1>33 DEF DownloadFails
  <2> QED  BY <1>3, <2>1 DEF Expected, WithArchive, DownloadFails
<1>4. CASE NotifyInstaller
  <2>1. Expected(a)
    BY <1>4, <1>33 DEF NotifyInstaller, Woken
  <2> QED  BY <1>4, <2>1 DEF Expected, WithArchive, NotifyInstaller, Woken
<1>5. CASE DownloadsComplete
  <2>1. Expected(a)
    BY <1>5, <1>33 DEF DownloadsComplete, Woken
  <2> QED  BY <1>5, <2>1 DEF Expected, WithArchive, DownloadsComplete, Woken
<1>6. CASE CheckPredicate
  <2>1. Expected(a)
    BY <1>6, <1>33 DEF CheckPredicate, InstallerGoes
  <2> QED  BY <1>6, <2>1 DEF Expected, WithArchive, CheckPredicate, InstallerGoes
<1>7. CASE FallAsleep
  <2>1. Expected(a)
    BY <1>7, <1>33 DEF FallAsleep, InstallerGoes
  <2> QED  BY <1>7, <2>1 DEF Expected, WithArchive, FallAsleep, InstallerGoes
<1>8. CASE LockAgain
  <2>1. Expected(a)
    BY <1>8, <1>33 DEF LockAgain, InstallerGoes
  <2> QED  BY <1>8, <2>1 DEF Expected, WithArchive, LockAgain, InstallerGoes
<1>9. CASE LeaveDrain
  <2>1. Expected(a)
    BY <1>9, <1>33 DEF LeaveDrain, InstallerGoes
  <2> QED  BY <1>9, <2>1 DEF Expected, WithArchive, LeaveDrain, InstallerGoes
<1>10. CASE WaitForMore
  <2>1. Expected(a)
    BY <1>10, <1>33 DEF WaitForMore, InstallerGoes
  <2> QED  BY <1>10, <2>1 DEF Expected, WithArchive, WaitForMore, InstallerGoes
<1>11. CASE FinishInstalls
  <2>1. Expected(a)
    BY <1>11, <1>33 DEF FinishInstalls
  <2> QED  BY <1>11, <2>1 DEF Expected, WithArchive, FinishInstalls
<1>12. CASE InstallNext
  <2>1. /\ installQueue # << >> /\ installQueue \in Seq(Task) /\ installQueue' = Tail(installQueue)
        /\ installing' = Head(installQueue)
    BY <1>12 DEF InstallNext, TasksTyped, PcmTypeOK
  <2>2. /\ Head(installQueue) = installQueue[1]
        /\ \A k \in DOMAIN installQueue :
              k = 1 \/ (k - 1 \in DOMAIN installQueue' /\ installQueue'[k - 1] = installQueue[k])
    BY <2>1, Popped
  <2>3. Expected(a)
    BY <1>12, <1>33 DEF InstallNext
  <2>4. CASE \E k \in DOMAIN installQueue : ~IsUninstall(installQueue[k]) /\ ArchiveOf(installQueue[k]) = a
    <3>1. PICK k \in DOMAIN installQueue : ~IsUninstall(installQueue[k]) /\ ArchiveOf(installQueue[k]) = a
      BY <2>4
    <3>2. CASE k = 1
      BY <1>12, <2>1, <2>2, <3>1, <3>2 DEF InstallNext, Expected, WithArchive
    <3>3. CASE k # 1
      BY <2>2, <3>1, <3>3 DEF Expected
    <3> QED  BY <3>2, <3>3
  <2> QED  BY <1>12, <2>3, <2>4 DEF InstallNext, Expected, WithArchive
<1>13. CASE HashMatches
  <2>1. Expected(a)
    BY <1>13, <1>33 DEF HashMatches, InstallerGoes
  <2> QED  BY <1>13, <2>1 DEF Expected, WithArchive, HashMatches, InstallerGoes
<1>14. CASE HashMismatch
  <2>1. a # ArchiveOf(installing) /\ Expected(a)
    BY <1>14, <1>33 DEF HashMismatch
  <2> QED  BY <1>14, <2>1 DEF HashMismatch, Expected, WithArchive
<1>15. CASE DeleteOldVersion
  <2>1. Expected(a)
    BY <1>15, <1>33 DEF DeleteOldVersion
  <2> QED  BY <1>15, <2>1 DEF Expected, WithArchive, DeleteOldVersion
<1>16. CASE ExtractSucceeds
  <2>1. Expected(a)
    BY <1>16, <1>33 DEF ExtractSucceeds
  <2> QED  BY <1>16, <2>1 DEF Expected, WithArchive, ExtractSucceeds
<1>17. CASE ExtractFails
  <2>1. Expected(a)
    BY <1>17, <1>33 DEF ExtractFails
  <2> QED  BY <1>17, <2>1 DEF Expected, WithArchive, ExtractFails
<1>18. CASE CleanUpExtraction
  <2>1. Expected(a)
    BY <1>18, <1>33 DEF CleanUpExtraction
  <2> QED  BY <1>18, <2>1 DEF Expected, WithArchive, CleanUpExtraction
<1>19. CASE RemoveArchive
  <2>1. a # ArchiveOf(installing) /\ Expected(a)
    BY <1>19, <1>33 DEF RemoveArchive
  <2> QED  BY <1>19, <2>1 DEF RemoveArchive, Expected, WithArchive
<1>20. CASE UninstallPackage
  <2>1. Expected(a)
    BY <1>20, <1>33 DEF UninstallPackage
  <2> QED  BY <1>20, <2>1 DEF Expected, WithArchive, UninstallPackage
<1>21. CASE AdvancePhase
  <2>1. Expected(a)
    BY <1>21, <1>33 DEF AdvancePhase
  <2> QED  BY <1>21, <2>1 DEF AdvancePhase, Expected, WithArchive
<1>22. CASE SpuriousWakeup
  <2>1. Expected(a)
    BY <1>22, <1>33 DEF SpuriousWakeup, InstallerGoes
  <2> QED  BY <1>22, <2>1 DEF Expected, WithArchive, SpuriousWakeup, InstallerGoes
<1>23. CASE UpdateUI
  <2>1. Expected(a)
    BY <1>23, <1>33 DEF UpdateUI
  <2> QED  BY <1>23, <2>1 DEF Expected, WithArchive, UpdateUI
<1>24. CASE LeaveRefresh
  <2>1. Expected(a)
    BY <1>24, <1>33 DEF LeaveRefresh
  <2> QED  BY <1>24, <2>1 DEF Expected, WithArchive, LeaveRefresh
<1>25. CASE JoinThreads
  BY <1>25 DEF JoinThreads, DialogActive
<1>26. ASSUME NEW p \in Package, AddPending(p)
     PROVE  Expected(a)'
  BY <1>26 DEF AddPending, DialogActive
<1>27. ASSUME NEW i \in DOMAIN pending, DiscardAction(i)
     PROVE  Expected(a)'
  BY <1>27 DEF DiscardAction, DialogActive
<1>28. ASSUME NEW p \in Package, NEW v \in Version, InstallFromFile(p, v)
     PROVE  Expected(a)'
  BY <1>28 DEF InstallFromFile, DialogActive
<1>29. CASE ApplyChanges
  <2>1. /\ OfKinds({"install", "update"}) \in Seq({t \in Asked : t.kind \in {"install", "update"}})
        /\ Selects(pending, {t \in Asked : t.kind \in {"install", "update"}}, Len(pending), OfKinds({"install", "update"}))
    BY Sorted DEF TasksTyped
  <2>2. downloadQueue' = OfKinds({"install", "update"}) /\ UNCHANGED <<pending, archives>>
    BY <1>29 DEF ApplyChanges
  <2>3. PICK i \in DOMAIN pending : a = ArchiveOf(pending[i])
    BY <2>2
  <2>4. pending[i] \in Asked /\ pending[i].version # None
    BY <2>2, <2>3, PcmAssumption DEF ArchiveOf, TasksTyped, PcmTypeOK
  <2>5. pending[i] \in {t \in Asked : t.kind \in {"install", "update"}}
    BY <2>4 DEF Asked, Task, IsUninstall
  <2>6. PICK k \in DOMAIN downloadQueue' : downloadQueue'[k] = pending[i]
    BY <2>1, <2>2, <2>5, SelectedAll DEF TasksTyped
  <2> QED  BY <2>3, <2>6 DEF Expected
<1>30. CASE CancelClicked
  <2>1. Expected(a)
    BY <1>30, <1>33 DEF CancelClicked
  <2> QED  BY <1>30, <2>1 DEF Expected, WithArchive, CancelClicked
<1>31. CASE CloseClicked
  <2>1. Expected(a)
    BY <1>31, <1>33 DEF CloseClicked
  <2> QED  BY <1>31, <2>1 DEF Expected, WithArchive, CloseClicked
<1>32. CASE UNCHANGED vars
  <2>1. Expected(a)
    BY <1>32, <1>33 DEF vars
  <2> QED  BY <1>32, <2>1 DEF vars, Expected, WithArchive
<1> HIDE DEF dialog, queues, downloader, installer, reporter, packages
<1> QED
  BY <1>1, <1>2, <1>3, <1>4, <1>5, <1>6, <1>7, <1>8, <1>9, <1>10, <1>11, <1>12, <1>13, <1>14, <1>15,
     <1>16, <1>17, <1>18, <1>19, <1>20, <1>21, <1>22, <1>23, <1>24, <1>25, <1>26, <1>27, <1>28,
     <1>29, <1>30, <1>31, <1>32
  DEF Next, DownloadThread, InstallThread, RefreshLoop, User

\* The places, types and flags hold initially.
LEMMA PcmBegins ==
    ASSUME Init
    PROVE  TasksTyped /\ SoleTasksReady /\ ArchivesExpected /\ ThreadsAgree
<1>1. << >> \in Seq(Task) /\ << >> \in Seq(Asked) /\ << >> \in Seq(Fetched) /\ Len(<< >>) = 0
  OBVIOUS
<1>2. PcmTypeOK
  <2>1. files \in [Package -> Version \cup {None, Partial}] /\ kept \in SUBSET Package
    BY DEF Init
  <2>2. Len(pending) <= MaxPending /\ runs \in 0 .. MaxRuns
    BY <1>1, PcmAssumption DEF Init
  <2> QED  BY <1>1, <2>1, <2>2 DEF Init, PcmTypeOK
<1>6. TasksTyped
  BY <1>1, <1>2 DEF Init, TasksTyped, BothThreadsDone, AtWork, WithArchive
<1>3. DOMAIN << >> = {}
  OBVIOUS
<1>4. SoleTasksReady
  BY <1>3 DEF Init, SoleTasksReady, AtOnePlace, ArchiveReady, Queued, QueuedOnce, Downloads,
     Installs, AtWork
<1>5. ArchivesExpected /\ ThreadsAgree
  BY DEF Init, ArchivesExpected, ThreadsAgree, BothThreadsDone
<1> QED  BY <1>4, <1>5, <1>6

\* Everything the package manager keeps is of its type, and each task is of the kind
\* its place in the queues calls for.
THEOREM PcmTypesHold == Spec => []PcmTypeOK
<1>1. Init => TasksTyped
  BY PcmBegins
<1>2. TasksTyped /\ [Next]_vars => TasksTyped'
  BY TypesKept
<1>3. TasksTyped => PcmTypeOK
  BY DEF TasksTyped
<1> QED  BY <1>1, <1>2, <1>3, PTL DEF Spec

\* ArchivesMatchTasks: what is extracted has been downloaded, and a run that nobody
\* cancelled leaves no archive behind.
THEOREM QueuesFollowDisk == Spec => []ArchivesMatchTasks
<1> DEFINE Inv == TasksTyped /\ SoleTasksReady /\ ArchivesExpected /\ ThreadsAgree
<1>1. Init => Inv
  BY PcmBegins
<1>2. Inv /\ [Next]_vars => Inv'
  <2> SUFFICES ASSUME Inv, [Next]_vars
               PROVE  Inv'
    OBVIOUS
  <2>1. TasksTyped'
    BY TypesKept
  <2>2. SoleTasksReady'
    BY <2>1, SoleTasksKept
  <2>3. ArchivesExpected' /\ ThreadsAgree'
    BY ArchivesStayExpected, AgreementKept
  <2> QED  BY <2>1, <2>2, <2>3
<1>3. Inv => ArchivesMatchTasks
  <2> SUFFICES ASSUME Inv
               PROVE  ArchivesMatchTasks
    OBVIOUS
  <2>1. ASSUME installPc \in {"verify", "deleteOld", "extract"}, AskedOnce(installing.package)
        PROVE  ArchiveOf(installing) \in archives
    <3>1. installing \in Task
      BY <2>1 DEF TasksTyped, WithArchive, Fetched, Asked
    <3>2. installing.package \in Package
      BY <3>1 DEF Task
    <3> QED  BY <2>1, <3>2 DEF SoleTasksReady, ArchiveReady
  <2>2. ASSUME uiPc # "idle", BothThreadsDone, ~cancelled, NEW i \in DOMAIN pending
        PROVE  ArchiveOf(pending[i]) \notin archives
    <3>1. downloadQueue = << >> /\ installQueue = << >>
      BY <2>2 DEF ThreadsAgree, BothThreadsDone
    <3>2. DOMAIN << >> = {}
      OBVIOUS
    <3>3. ~Expected(ArchiveOf(pending[i]))
      BY <2>2, <3>1, <3>2 DEF Expected, BothThreadsDone, WithArchive
    <3> QED  BY <2>2, <3>3 DEF ArchivesExpected
  <2> QED  BY <2>1, <2>2 DEF ArchivesMatchTasks
<1> QED  BY <1>1, <1>2, <1>3, PTL DEF Spec

=============================================================================
