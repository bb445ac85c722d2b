--------------------------- MODULE PcmTaskManager ---------------------------
(* The package manager: DIALOG_PCM collects pending actions, Apply hands     *)
(* them to a PCM_TASK_MANAGER, whose RunQueue() starts a download thread and *)
(* an install thread and keeps the progress dialog refreshed until the user  *)
(* closes it.  The download thread feeds the install thread's queue; the two *)
(* share a mutex and a condition variable for the end of the downloads, and  *)
(* all three threads share the dialog's atomic flags.                        *)
EXTENDS Naturals, Sequences, FiniteSets, SequencesExt

CONSTANTS
    Package,        \* packages of the repositories
    Version,        \* versions a package may have
    None,           \* not installed, no files, no task
    Partial,        \* some files of a package, not all of a version
    MaxPending,     \* bound: actions the user collects before Apply
    MaxRuns         \* bound: runs of the queues

ASSUME PcmAssumption ==
    /\ None \notin Version /\ Partial \notin Version /\ None # Partial
    /\ MaxPending \in Nat /\ MaxRuns \in Nat

Task == [kind : {"install", "update", "uninstall"}, package : Package,
         version : Version \cup {None}]

VARIABLES
    pending,            \* m_pendingActions
    marked,             \* packages whose panels show a pending state
    installed,          \* m_installed: version of each package
    files,              \* what is on disk of each package
    kept,               \* packages with files their keep_on_update names
    archives,           \* archives completely downloaded to the cache
    lostUpdates,        \* history: extraction failed over an installed version
    downloadQueue, installQueue,    \* m_download_queue, m_install_queue
    downloadPc, downloading,        \* download thread and its task
    installPc, installing,          \* install thread and its task
    downloadComplete,   \* download_complete
    uiPc,               \* main thread: idle, in KeepRefreshing(), joining
    cancelled, finished,    \* m_cancelled, m_finished
    finishedShown,      \* updateUI() has swapped Cancel for Close
    closing,            \* m_progress is at its maximum: leave the refresh loop
    runs                \* history: runs of the queues, for the bound

dialog == <<pending, marked, runs>>
packages == <<installed, files, kept, lostUpdates>>
queues == <<downloadQueue, installQueue>>
downloader == <<downloadPc, downloading, downloadComplete>>
installer == <<installPc, installing>>
reporter == <<uiPc, cancelled, finished, finishedShown, closing>>
vars == <<dialog, packages, archives, queues, downloader, installer, reporter>>

PcmTypeOK ==
    /\ pending \in Seq(Task) /\ Len(pending) <= MaxPending
    /\ marked \in SUBSET Package /\ runs \in 0..MaxRuns
    /\ installed \in [Package -> Version \cup {None}]
    /\ files \in [Package -> Version \cup {None, Partial}]
    /\ kept \in SUBSET Package /\ lostUpdates \in SUBSET Package
    /\ archives \in SUBSET (Package \X Version)
    /\ downloadQueue \in Seq(Task) /\ installQueue \in Seq(Task)
    /\ downloadPc \in {"loop", "task", "notify", "done"}
    /\ downloading \in Task \cup {None}
    /\ installPc \in {"checking", "goingToSleep", "asleep", "woken", "drain", "relock",
                      "verify", "deleteOld", "extract", "cleanup", "removeArchive",
                      "uninstall", "advance", "done"}
    /\ installing \in Task \cup {None}
    /\ uiPc \in {"idle", "refreshing", "joining"}
    /\ {downloadComplete, cancelled, finished, finishedShown, closing} \subseteq BOOLEAN

-----------------------------------------------------------------------------
(* The program has been used before: some packages are installed.            *)
Init ==
    /\ pending = <<>> /\ marked = {} /\ runs = 0
    /\ installed \in [Package -> Version \cup {None}]
    /\ files = installed
    /\ kept \in SUBSET {p \in Package : installed[p] # None}
    /\ archives = {} /\ lostUpdates = {}
    /\ downloadQueue = <<>> /\ installQueue = <<>>
    /\ downloadPc = "done" /\ downloading = None /\ downloadComplete = FALSE
    /\ installPc = "done" /\ installing = None
    /\ uiPc = "idle"
    /\ cancelled = FALSE /\ finished = FALSE /\ finishedShown = FALSE /\ closing = FALSE

-----------------------------------------------------------------------------
(* Files and metadata.                                                       *)

\* deletePackageDirectories(): a directory that cannot be removed is reported
\* and left behind, with or without the files the caller did not ask to keep.
DeletePackageDirectories(p, keep) ==
    \/ /\ files' = [files EXCEPT ![p] = None]
       /\ kept' = IF keep THEN kept ELSE kept \ {p}
    \/ /\ files[p] # None
       /\ files' = [files EXCEPT ![p] = Partial]
       /\ kept' \in IF keep THEN {kept} ELSE {kept, kept \ {p}}

\* extract() has written every entry, and MarkInstalled() replaces the entry.
MarkInstalled(p, v) ==
    /\ files' = [files EXCEPT ![p] = v]
    /\ installed' = [installed EXCEPT ![p] = v]
    /\ lostUpdates' = lostUpdates \ {p}

\* Mutant: m_installed follows what is left on disk.
MarkLeftovers(p) ==
    /\ installed' = [installed EXCEPT ![p] = files'[p]]
    /\ UNCHANGED lostUpdates

MarkUninstalled(p) ==
    /\ installed' = [installed EXCEPT ![p] = None]
    /\ lostUpdates' = lostUpdates \ {p}

\* Noted when extraction fails for a package that is, and stays, in m_installed.
NoteLostUpdate(p) ==
    lostUpdates' = IF installed[p] # None THEN lostUpdates \cup {p} ELSE lostUpdates

-----------------------------------------------------------------------------
(* DIALOG_PCM, on the main thread.                                           *)

\* The dialog takes clicks; after the last run of the bound it is left alone.
DialogActive == uiPc = "idle" /\ runs < MaxRuns

\* getAction() and m_actionCallback: the panel offers what the state it shows allows.
AddPending(p) ==
    /\ DialogActive
    /\ p \notin marked
    /\ Len(pending) < MaxPending
    /\ \E t \in Task :
        /\ t.package = p
        /\ t.kind = "install" <=> installed[p] = None
        /\ t.kind = "uninstall" <=> t.version = None
        /\ t.version # installed[p] \/ t.kind = "uninstall"
        /\ pending' = Append(pending, t)
    /\ marked' = marked \cup {p}
    /\ UNCHANGED <<runs, packages, archives, queues, downloader, installer, reporter>>

\* discardAction(): the package is shown with its own state again.
DiscardAction(i) ==
    /\ DialogActive
    /\ pending' = RemoveAt(pending, i)
    /\ marked' = marked \ {pending[i].package}
    /\ UNCHANGED <<runs, packages, archives, queues, downloader, installer, reporter>>

\* OnInstallFromFileClicked(): all on the main thread.  What a failed extraction
\* wrote stays.  setInstalledPackages() then shows the installed packages
\* without looking at the pending actions.
InstallFromFile(p, v) ==
    /\ DialogActive
    /\ \/ /\ MarkInstalled(p, v)
          /\ UNCHANGED kept
       \/ /\ \E f \in {Partial, IF installed[p] = None THEN files[p] ELSE None} :
                files' = [files EXCEPT ![p] = f]
          /\ NoteLostUpdate(p)
          /\ UNCHANGED <<kept, installed>>
    /\ marked' = {q \in marked : installed'[q] = None}
    /\ UNCHANGED <<runs, pending, archives, queues, downloader, installer, reporter>>

\* OnApplyChangesClicked() and the start of RunQueue(): an uninstallation goes
\* straight to the install queue, everything else to the download queue.
IsUninstall(t) == t.kind = "uninstall"

\* The pending actions of some kinds, in the order of the list.
OfKinds(kinds) ==
    LET upTo[k \in 0..Len(pending)] ==
            IF k = 0 THEN << >>
            ELSE IF pending[k].kind \in kinds THEN Append(upTo[k - 1], pending[k]) ELSE upTo[k - 1]
    IN upTo[Len(pending)]

ApplyChanges ==
    /\ DialogActive
    /\ pending # <<>>
    /\ runs' = runs + 1
    /\ downloadQueue' = OfKinds({"install", "update"})
    /\ installQueue' = OfKinds({"uninstall"})
    /\ downloadPc' = "loop"
    /\ installPc' = "checking"
    /\ uiPc' = "refreshing"
    /\ UNCHANGED <<pending, marked, packages, archives, downloading, downloadComplete, installing,
                   cancelled, finished, finishedShown, closing>>

\* KeepRefreshing(): one more updateUI() while the progress is below its maximum.
UpdateUI ==
    /\ uiPc = "refreshing"
    /\ ~closing
    /\ finished /\ ~finishedShown
    /\ finishedShown' = TRUE
    /\ UNCHANGED <<dialog, packages, archives, queues, downloader, installer,
                   uiPc, cancelled, finished, closing>>

\* OnCancelClicked(), while the button is enabled.
CancelClicked ==
    /\ uiPc = "refreshing"
    /\ ~finishedShown
    /\ cancelled' = TRUE /\ finished' = TRUE
    /\ UNCHANGED <<dialog, packages, archives, queues, downloader, installer,
                   uiPc, finishedShown, closing>>

\* OnCloseClicked() sets the progress to its maximum.
CloseClicked ==
    /\ uiPc = "refreshing"
    /\ finishedShown
    /\ closing' = TRUE
    /\ UNCHANGED <<dialog, packages, archives, queues, downloader, installer,
                   uiPc, cancelled, finished, finishedShown>>

LeaveRefresh ==
    /\ uiPc = "refreshing"
    /\ closing
    /\ uiPc' = "joining"
    /\ UNCHANGED <<dialog, packages, archives, queues, downloader, installer,
                   cancelled, finished, finishedShown, closing>>

\* Both threads are joined, the reporter and the task manager with its queues are
\* destroyed, and the dialog forgets the pending actions.
JoinThreads ==
    /\ uiPc = "joining"
    /\ downloadPc = "done" /\ installPc = "done"
    /\ uiPc' = "idle"
    /\ pending' = <<>> /\ marked' = {}
    /\ downloadQueue' = <<>> /\ installQueue' = <<>>
    /\ downloadComplete' = FALSE
    /\ cancelled' = FALSE /\ finished' = FALSE /\ finishedShown' = FALSE /\ closing' = FALSE
    /\ UNCHANGED <<runs, packages, archives, downloadPc, downloading, installer>>

-----------------------------------------------------------------------------
(* The download thread.                                                      *)

ArchiveOf(t) == <<t.package, t.version>>

\* The installer holds the mutex while it evaluates its predicate and until it
\* sleeps; the other critical sections are single steps.
MutexHeld == installPc \in {"checking", "goingToSleep"}

Woken == IF installPc = "asleep" THEN "woken" ELSE installPc

\* Pop a task; downloadFile() truncates the archive before it transfers.
DownloadNext ==
    /\ downloadPc = "loop"
    /\ downloadQueue # <<>> /\ ~cancelled
    /\ downloading' = Head(downloadQueue)
    /\ downloadQueue' = Tail(downloadQueue)
    /\ archives' = archives \ {ArchiveOf(Head(downloadQueue))}
    /\ downloadPc' = "task"
    /\ UNCHANGED <<dialog, packages, installQueue, downloadComplete, installer, reporter>>

DownloadSucceeds ==
    /\ downloadPc = "task"
    /\ archives' = archives \cup {ArchiveOf(downloading)}
    /\ installQueue' = Append(installQueue, downloading)
    /\ downloadPc' = "notify"
    /\ UNCHANGED <<dialog, packages, downloadQueue, downloading, downloadComplete,
                   installer, reporter>>

\* Mutant: the install task is queued whatever the transfer returned.
DownloadFailsUnnoticed ==
    /\ downloadPc = "task"
    /\ archives' = archives \ {ArchiveOf(downloading)}
    /\ installQueue' = Append(installQueue, downloading)
    /\ downloadPc' = "notify"
    /\ UNCHANGED <<dialog, packages, downloadQueue, downloading, downloadComplete,
                   installer, reporter>>

\* Unknown version, no directory, a transfer that failed or was aborted by
\* IsCancelled(): the archive is removed, nothing is queued.
DownloadFails ==
    /\ downloadPc = "task"
    /\ archives' = archives \ {ArchiveOf(downloading)}
    /\ downloadPc' = "notify"
    /\ UNCHANGED <<dialog, packages, queues, downloading, downloadComplete, installer, reporter>>

\* condvar.notify_all() without the mutex.
NotifyInstaller ==
    /\ downloadPc = "notify"
    /\ installPc' = Woken
    /\ downloading' = None
    /\ downloadPc' = "loop"
    /\ UNCHANGED <<dialog, packages, archives, queues, downloadComplete, installing, reporter>>

\* Mutant: download_complete is set and notified without the mutex.
DownloadsCompleteUnlocked ==
    /\ downloadPc = "loop"
    /\ downloadQueue = <<>> \/ cancelled
    /\ downloadComplete' = TRUE
    /\ installPc' = Woken
    /\ downloadPc' = "done"
    /\ UNCHANGED <<dialog, packages, archives, queues, downloading, installing, reporter>>

\* The loop is left; download_complete is set and notified under the mutex.
DownloadsComplete ==
    /\ downloadPc = "loop"
    /\ downloadQueue = <<>> \/ cancelled
    /\ ~MutexHeld
    /\ downloadComplete' = TRUE
    /\ installPc' = Woken
    /\ downloadPc' = "done"
    /\ UNCHANGED <<dialog, packages, archives, queues, downloading, installing, reporter>>

-----------------------------------------------------------------------------
(* The install thread: the wait.                                             *)

InstallerGoes(from, to) ==
    /\ installPc = from
    /\ installPc' = to
    /\ UNCHANGED <<dialog, packages, archives, queues, downloader, installing, reporter>>

WaitIsOver == downloadComplete \/ installQueue # <<>> \/ cancelled

CheckPredicate ==
    InstallerGoes("checking", IF WaitIsOver THEN "drain" ELSE "goingToSleep")

FallAsleep == InstallerGoes("goingToSleep", "asleep")

SpuriousWakeup == InstallerGoes("asleep", "woken")

\* wait() takes the mutex again before it evaluates the predicate.
LockAgain == InstallerGoes("woken", "checking")

\* Mutant: SetFinished() as soon as the queue is found empty.
FinishEarly ==
    /\ installQueue = <<>> \/ cancelled
    /\ installPc = "drain" /\ installPc' = "relock"
    /\ finished' = TRUE
    /\ UNCHANGED <<dialog, packages, archives, queues, downloader, installing,
                   uiPc, cancelled, finishedShown, closing>>

\* The end of the inner while.
LeaveDrain ==
    /\ installQueue = <<>> \/ cancelled
    /\ InstallerGoes("drain", "relock")

\* Mutant: the loop does not wait for downloads that are still to come.
MoreQueued == installQueue # <<>> /\ ~cancelled

MoreToDo == (installQueue # <<>> \/ ~downloadComplete) /\ ~cancelled

\* The test of the do-while, under the mutex.
WaitForMore ==
    /\ MoreToDo
    /\ InstallerGoes("relock", "checking")

FinishInstalls ==
    /\ installPc = "relock"
    /\ ~MoreToDo
    /\ installPc' = "done"
    /\ finished' = TRUE
    /\ UNCHANGED <<dialog, packages, archives, queues, downloader, installing,
                   uiPc, cancelled, finishedShown, closing>>

-----------------------------------------------------------------------------
(* The install thread: its tasks.                                            *)

InstallNext ==
    /\ installPc = "drain"
    /\ installQueue # <<>> /\ ~cancelled
    /\ installing' = Head(installQueue)
    /\ installQueue' = Tail(installQueue)
    /\ installPc' = IF IsUninstall(Head(installQueue)) THEN "uninstall" ELSE "verify"
    /\ UNCHANGED <<dialog, packages, archives, downloadQueue, downloader, reporter>>

\* The hash matches, or the repository gives none.
HashMatches ==
    InstallerGoes("verify", IF installing.kind = "update" THEN "deleteOld" ELSE "extract")

HashMismatch ==
    /\ installPc = "verify"
    /\ archives' = archives \ {ArchiveOf(installing)}
    /\ installPc' = "advance"
    /\ UNCHANGED <<dialog, packages, queues, downloader, installing, reporter>>

DeleteOldVersion ==
    /\ installPc = "deleteOld"
    /\ DeletePackageDirectories(installing.package, TRUE)
    /\ installPc' = "extract"
    /\ UNCHANGED <<dialog, archives, installed, lostUpdates, queues, downloader,
                   installing, reporter>>

ExtractSucceeds ==
    /\ installPc = "extract"
    /\ ~cancelled
    /\ ArchiveOf(installing) \in archives
    /\ MarkInstalled(installing.package, installing.version)
    /\ installPc' = "removeArchive"
    /\ UNCHANGED <<dialog, kept, archives, queues, downloader, installing, reporter>>

\* Mutant: the package is marked as installed whatever extract() returned.
ExtractFailsUnnoticed ==
    /\ installPc = "extract"
    /\ files' = [files EXCEPT ![installing.package] = Partial]
    /\ installed' = [installed EXCEPT ![installing.package] = installing.version]
    /\ installPc' = "cleanup"
    /\ UNCHANGED <<dialog, lostUpdates, kept, archives, queues, downloader, installing, reporter>>

\* An error, or the user has cancelled: some entries may have been written.
ExtractFails ==
    /\ installPc = "extract"
    /\ \/ files' = [files EXCEPT ![installing.package] = Partial]
       \/ UNCHANGED files
    /\ NoteLostUpdate(installing.package)
    /\ installPc' = "cleanup"
    /\ UNCHANGED <<dialog, installed, kept, archives, queues, downloader, installing, reporter>>

CleanUpExtraction ==
    /\ installPc = "cleanup"
    /\ DeletePackageDirectories(installing.package, FALSE)
    /\ installPc' = "removeArchive"
    /\ UNCHANGED <<dialog, archives, installed, lostUpdates, queues, downloader,
                   installing, reporter>>

RemoveArchive ==
    /\ installPc = "removeArchive"
    /\ archives' = archives \ {ArchiveOf(installing)}
    /\ installPc' = "advance"
    /\ UNCHANGED <<dialog, packages, queues, downloader, installing, reporter>>

UninstallPackage ==
    /\ installPc = "uninstall"
    /\ DeletePackageDirectories(installing.package, FALSE)
    /\ MarkUninstalled(installing.package)
    /\ installPc' = "advance"
    /\ UNCHANGED <<dialog, archives, queues, downloader, installing, reporter>>

\* AdvancePhase() also resets the progress that Close has set.
AdvancePhase ==
    /\ installPc = "advance"
    /\ closing' = FALSE
    /\ installing' = None
    /\ installPc' = "drain"
    /\ UNCHANGED <<dialog, packages, archives, queues, downloader,
                   uiPc, cancelled, finished, finishedShown>>

-----------------------------------------------------------------------------
DownloadThread ==
    \/ DownloadNext \/ DownloadSucceeds \/ DownloadFails
    \/ NotifyInstaller \/ DownloadsComplete

InstallThread ==
    \/ CheckPredicate \/ FallAsleep \/ LockAgain \/ LeaveDrain \/ WaitForMore
    \/ FinishInstalls \/ InstallNext \/ HashMatches \/ HashMismatch
    \/ DeleteOldVersion \/ ExtractSucceeds \/ ExtractFails \/ CleanUpExtraction
    \/ RemoveArchive \/ UninstallPackage \/ AdvancePhase

RefreshLoop == UpdateUI \/ LeaveRefresh \/ JoinThreads

User ==
    \/ \E p \in Package : AddPending(p)
    \/ \E i \in DOMAIN pending : DiscardAction(i)
    \/ \E p \in Package, v \in Version : InstallFromFile(p, v)
    \/ ApplyChanges \/ CancelClicked \/ CloseClicked

Next == DownloadThread \/ InstallThread \/ SpuriousWakeup \/ RefreshLoop \/ User

Spec == Init /\ [][Next]_vars

\* Each thread is scheduled as long as it can run, and the download thread gets
\* the mutex if it is released again and again (the installer may wake up
\* spuriously for ever).  Nothing is asked of the user.
FairSpec ==
    /\ Spec
    /\ WF_vars(DownloadThread) /\ WF_vars(InstallThread) /\ WF_vars(RefreshLoop)
    /\ SF_vars(DownloadsComplete)

-----------------------------------------------------------------------------
BothThreadsDone == downloadPc = "done" /\ installPc = "done"

\* A run that nobody cancelled ends with both queues drained and every download
\* over (RunQueue()'s contract in the header), whatever notifications were lost.
QueuesDrained ==
    uiPc # "idle" /\ installPc = "done" /\ ~cancelled
        => downloadComplete /\ downloadQueue = <<>> /\ installQueue = <<>>

AskedOnce(p) == Cardinality({i \in DOMAIN pending : pending[i].package = p}) = 1

\* The queue outruns the disk at no point: a package asked for once is installed
\* from an archive that is completely downloaded and not yet removed; and a run
\* that nobody cancelled leaves none of its archives in the cache, although one
\* thread writes them and the other removes them.
ArchivesMatchTasks ==
    /\ installPc \in {"verify", "deleteOld", "extract"} /\ AskedOnce(installing.package)
            => ArchiveOf(installing) \in archives
    /\ uiPc # "idle" /\ BothThreadsDone /\ ~cancelled
            => \A i \in DOMAIN pending : ArchiveOf(pending[i]) \notin archives

\* m_installed does not promise what is not on disk, except of the package being
\* replaced and of those whose new version could not be extracted.
BeingReplaced(p) ==
    installPc \in {"extract", "cleanup"} /\ installing.package = p

InstalledHasFiles ==
    \A p \in Package :
        installed[p] # None /\ p \notin lostUpdates /\ ~BeingReplaced(p)
            => files[p] = installed[p]

\* The click on Close that ends a run nobody cancelled is not undone by a late
\* AdvancePhase() of the install thread.
CloseSticks ==
    [][uiPc = "refreshing" /\ closing /\ ~cancelled => closing']_vars

\* However notifications, cancellation and failures fall, both threads end.
ThreadsEnd == uiPc # "idle" ~> BothThreadsDone

\* The package schema: keep_on_update lists the files to keep on update.
KeptOnUpdate ==
    [][\A p \in kept : installing # None /\ installing.kind = "update"
                       /\ installing.package = p => p \in kept']_vars
=============================================================================
