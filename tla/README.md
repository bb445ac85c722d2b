# A verification of KiCad's edits, locks, loaders and router

TLA+ modules, TLC runs and TLAPS proofs about the code in `src/`:

- what carries every edit of a board: the commits the tools stage their changes in, the undo and
  redo lists, groups, and the code that puts documents back in an earlier state;
- the manager that dispatches events to the tools, whose handlers are coroutines;
- the worlds of the interactive router, and how they are committed to the board;
- the lock files with which programs keep each other away from a document;
- the two places where threads share queues: the package manager and the loader of footprint
  libraries.

"Inventory" lists all parts of the program, "Plan" says what is left.

## How to run it

    tlc -workers 2 -config edits.cfg MCBoardCommit      (the runs of BoardCommit)
    tlc -workers 2 -config packages.cfg MCPcmTaskManager
    tlc -workers 2 -config package_updates.cfg PcmTaskManager
    tlc -workers 2 -config locks.cfg MCDocumentLocks
    tlc -workers 2 -config footprints.cfg FootprintList
    tlc -workers 2 -config tools.cfg ToolManager
    tlc -workers 2 -config router.cfg MCPnsNode
    tlapm BoardCommit_proofs.tla      (ten minutes; the other *_proofs take up to five)

`PROJECT.json` lists runs, mutants, the map from definitions to source lines, hazards, findings
and theorems.

| file | what it is |
|---|---|
| `UndoHistory.tla` | what undo and redo promise: a linear history of documents |
| `BoardCommit.tla` | COMMIT, BOARD_COMMIT, the undo lists, groups, the tools that drive them |
| `ToolManager.tla` | TOOL_MANAGER: dispatching events to coroutines, contexts, shutdown |
| `RouterWorld.tla` | what the router's tree of nodes promises: each node is a set of items of its own |
| `PnsNode.tla` | PNS::NODE: indices, overrides, joints, owners; ROUTER::CommitRouting() |
| `LockFile.tla` | the calls of LOCKFILE, as operators |
| `DocumentLocks.tla` | the programs that use it: opening, reverting, saving, closing, dying |
| `FootprintList.tla` | FOOTPRINT_LIST_IMPL: jobs of the thread pool, stamps, caches |
| `PcmTaskManager.tla` | the package manager: dialog, queues, download and install thread, disk |
| `MC*.tla`, `*.cfg` | small instances for TLC |
| `SequenceFacts.tla` | lemmas about sequences, loops and folds that the proofs of all modules use |
| `*_proofs.tla` | theorems and proofs, one module for each module they are about |

## Inventory

For each part: its state, its operations, what it talks to, what is hard about it, what makes it
correct.

**Board commits** (`common/commit.cpp`, `pcbnew/board_commit.cpp`).  State: the lines of an open
commit (`m_changes`: item, copy, type, CHT_DONE) and the set of staged items. Operations:
`Stage()` with its wrappers `Add`, `Added`, `Remove`, `Removed`, `Modify`; `Push()` with
SKIP_UNDO and APPEND_UNDO; `Revert()`.  Used by every tool; calls BOARD, VIEW,
CONNECTIVITY_DATA, TEARDROP_MANAGER and the undo lists.  Hard: `Push()` stages further lines
while it carries out the commit (teardrops before and after, propagated nets), so that the loops
run over a list that grows; tools do part of the work themselves (CHT_DONE); flags set for one
line are read by a later one.  Correct when: board, view and connectivity agree afterwards,
`Revert()` leaves no trace, what is recorded suffices to come back.

**Undo and redo lists** (`pcbnew/undo_redo.cpp`, `common/undo_redo_container.cpp`,
`common/eda_base_frame.cpp`).  State: two lists of commands, each a list of pickers (item, link,
status).  Operations: save, append to the newest, undo, redo, rollback, drop the oldest, free.
Hard: pickers are carried out in reverse and swapped in place, their status turns round each
time; an item off the board is owned by the picker whose status is DELETED and is freed with it;
no reference is counted.  Correct when: undo and redo reproduce exactly the documents the
commands began and ended in, nothing freed is referred to, nothing is freed twice, the limit
holds.

**Groups** (`pcbnew/pcb_group.cpp`, `pcbnew/tools/group_tool.cpp`).  State: `m_items` of the
group, `m_group` of each item, the group the selection tool has entered.  Operations: group,
ungroup, remove from group, enter, exit.  Hard: one fact in two places, restored by different
cases of `PutDataInPreviousState()`; the tools write the undo list without a commit.  Correct
when: both places agree, members are on the board, the entered group exists.

**Tools that commit** (`edit_tool.cpp`, `drc_tool.cpp`, `tracks_cleaner.cpp`, `teardrop.cpp`,
the global deletion dialog, ...).  What matters of them here is what they stage and in which
order relative to what they do to the board themselves.

**Connectivity and ratsnest.**  The set of known items; propagation of nets.  Clusters are
computed by worker threads that do not write the board.

**Tool manager and coroutines** (`common/tool/tool_manager.cpp`).  State: for each tool a stack
of contexts, each with its coroutine and the events it waits for; the list of active tools;
posted events; and the call stack, as handlers have events dispatched from inside of them.
Operations: process, dispatch, invoke, run at once, post, run synchronously, wait, finish, shut
down.  Hard: lists change while somebody goes along them; a handler that starts while another of
its tool waits pushes that one's context.  Correct when: an event wakes a handler at most once,
iterators stay valid, a coroutine is known as long as it exists, active tools are those that
wait.

**Plugin and content manager** (`kicad/pcm/`).  State: the pending actions, the queues of
downloads and installations, the installed packages, two threads, the progress dialog. Hard: a
condition variable notified without its mutex; flags of the dialog set by three threads;
cancellation between any two steps; an update deletes the old version first; one package can be
asked for twice.  Correct when: a run that is not cancelled drains its queues, no package is
marked as installed without its files, both threads end.

**Footprint library loader** (`pcbnew/footprint_info_impl.cpp`).  State: two queues of
libraries, the list, errors, the cancel flag, and three things kept under time stamps: the list,
each plugin's cache, the cache file of the project.  Hard: jobs pop concurrently, cancellation
in the middle, libraries change while they are read, the cache file outlives the program.
Correct when: what is shown without reading is what is on disk, reads are complete or leave no
stamp, reading ends.

**Lock files** (`include/lockfile.h`, `pcbnew/files.cpp`, `eeschema/files-io.cpp`,
`common/settings/settings_manager.cpp`).  State: the file, and objects in several programs that
believe to own it.  Operations: create, override, unlock; open, revert, save as, load a project.
Hard: several programs and users, override, death of a program, folders that cannot be written,
objects that are copied and destroyed.  Correct when: nobody's lock is removed without consent,
no lock is left behind, two programs share a lock only after an override.

**Interactive router** (`pcbnew/router/`).  State: a tree of nodes, each with an index of items,
the root's items it overrides, and joints that it shares with the root until it touches them;
the owner of each item and of each via's hole; garbage.  Hard: branches are copied partly, an
item removed in one branch lives on in others, deletion is delayed.  Correct when: every branch
is a world of its own, joints link what is there, nothing freed is used, a commit leaves root
and board equal.

**Schematic commits** (`eeschema/sch_commit.cpp`): the second user of COMMIT, with screens.

Not candidates: zone filling, DRC tests and 3D (computational geometry), VIEW and GAL
(graphics), importers, exporters and plotters (data formats), KIWAY and settings (start-up,
files), the simulator (external program), dialogs and widgets.

## Plan

Done: the modules above.  What is left, in this order:

1. The abstract specification of a package (absent, installed in one version, or broken) and the
   restart of the package manager (`installed_packages.json` and the fall-back on directory
   names, `pcm.cpp:96-175`), which would relate `installed` and `files` across runs of the
   program.
2. `ToolManager` with `BoardCommit`: that undo is not given in the middle of a commit rests on
   each tool calling `UNDO_REDO_BLOCK` or taking undo as a cancellation; it is an assumption of
   `BoardCommit` so far.
3. `SCH_COMMIT`: screens as containers, one undo list for all sheets, and `UndoHistory` as its
   abstract specification as well.
4. Theorems: that `BoardCommit` implements `UndoHistory` for the tools without groups, which
   adds what the pickers hold (data and memberships) to the invariant that says where items are;
   `GroupsConsistent` and `GroupsEditable`, and with them the theorems about boards with groups
   without that hypothesis.

## UndoHistory

`present`, `past` and `future` are documents; `Edit`, `Amend` (APPEND_UNDO), `Undo`, `Redo` and
`Rollback` are the five commands.  Each list is cut to `MaxUndo` on its own, as
`PushCommandToUndoList()` and `PushCommandToRedoList()` do.  `HistoryDepth`: together the lists
still never exceed the limit.

## BoardCommit

State, with the member it stands for: `board` (BOARD's containers), `view` (`m_viewPrivData`),
`connectivity` (`m_connectivity`), `allocated` (what exists in memory), `data` (an item's own
data), `members` (`PCB_GROUP::m_items`), `parent` (`BOARD_ITEM::m_group`), `structDeleted`
(STRUCT_DELETED), `enteredGroup`, `commit` (`m_changes` and `m_changedItems`), `undoList`,
`redoList`; and where the thread is: `pc`, `idx`, `list`, `lastGroup`, `mode`.  `base`, `past`,
`future`, `last` are history variables; no guard reads them.

All of it happens in the user-interface thread.  `pc = "idle"`: nothing is under way.  In
"staging" and "committing" a tool has a commit open ("committing" for handlers that push before
they return and never revert).  `Push()` goes through "stale" (RemoveTeardrops), "lines" (its
main loop), "propagate" (RecalculateRatsnest), "update" (UpdateTeardrops), "late" (lines staged
meanwhile); `Revert()` is "revert"; `PutDataInPreviousState()` is "put".  Each iteration of a
loop is a step.

| code | actions |
|---|---|
| `COMMIT::Modify`, `BOARD_COMMIT::Stage` for groups | `ModifyItem`, `ModifyGroup` |
| `Add`; `Added` (AppendBoard) | `AddItem`; `AddPlacedItem` |
| `Remove` (router, dialogs) | `RemoveItem` |
| `EDIT_TOOL::DeleteItems`, `GROUP_TOOL::RemoveFromGroup` | `DeleteItem`, `DeleteGroup`, `RemoveFromGroup` |
| `TRACKS_CLEANER` | `CleanerRemove`, `CleanerMerge` |
| `BOARD_COMMIT::Push` | `Push`, `RemoveStaleTeardrop`, `StaleTeardropsDone`, `PushAdd`, `PushRemove`, `PushModify`, `LinesDone`, `PropagateNet`, `PropagateNothing`, `CreateTeardrop`, `TeardropsDone`, `PushLate`, `PushDone` |
| DRC run | `RunDrc` (and `Push`'s steps with SKIP_UNDO) |
| `BOARD_COMMIT::Revert` | `Revert`, `RevertAdd`, `RevertRemove`, `RevertModify`, `RevertDone` |
| `GROUP_TOOL::Group`, `Ungroup`; `EnterGroup`, `ExitGroup` | `GroupItems`, `UngroupItems`; `EnterGroup`, `ExitGroup` |
| `RestoreCopyFromUndoList`, `RestoreCopyFromRedoList`, `RollbackFromUndo` | `UndoCommand`, `RedoCommand`, `RollbackCommand` |
| `PutDataInPreviousState` | `PutChanged`, `PutNewItem`, `PutDeleted`, `PutRegroup`, `PutUngroup`, `PutMissing`, `PutDone` |

`Tools` is a constant: the tools and flags the user has at hand.  A run chooses them, since some
of them break some of the promises (below); the proofs hold for every set, or say which
combinations they leave out.

Refinement: `ImplementsHistory == History!HSpec` with `present` mapped to the document (what is
on the board, with data and memberships) when `pc` is "idle", and to the document the operation
began in otherwise.  So every commit is one `Edit`, every undo returns to exactly the document
of the time, and a reverted commit is a stutter.

### Abstractions and assumptions

- An item's data (position, net, layer, ...) is one value.  Copies (`makeImage()`) are clones
  without a parent.
- No groups in groups, no children of footprints.  A propagation changes at most one net per
  commit, a DRC run finds at most one violation.
- Undo, redo and rollback begin only at "idle": a tool with an open commit blocks undo or takes
  it as a cancellation (`UNDO_REDO_BLOCK`, `pcb_base_edit_frame.h:146-157`; `router_tool.cpp`,
  `pcb_point_editor.cpp:541-684`; `edit_tool_move_fct.cpp:696-698`).
- `RollbackFromUndo()` is called by tools right after the push they withdraw: no redo commands.
- RecalculateRatsnest() in `PutDataInPreviousState()` and `Revert()` gets no commit and
  propagates no nets that differ from those just restored.
- The objects a reverted commit was to add are not referred to any more; their names can be used
  again.

### Properties

- `ImplementsHistory`: undo, redo, joined commands, rollback and reverts are exact.
- `ViewMatchesBoard`, `ConnectivityMatchesBoard`: three places that are updated separately agree
  when no operation is under way.
- `NoDanglingReference`: nothing that is freed is still in the board, the view, the
  connectivity, the selection, a commit, a picker, a group or the image of a group.
- `DeletedItemsOwnedOnce`: an object off the board belongs to one picker: no double free.
- `HistoryWithinLimit`: the limit holds for both lists together, and they are as long as the
  user's history.
- `GroupsConsistent`, `EnteredGroupOnBoard`: memberships agree; no entered group off the board.
- `HistoryItemsExist`: the assertion at `undo_redo.cpp:306`.
- `GroupsEditable`: while the user edits, the members of a group on the board are on the board
  and in the connectivity, and no commit about to be pushed removes one of them without its
  group.  It is weaker than `GroupsConsistent` and holds for the tools that lose memberships,
  too; the theorems about boards with groups rest on it.
- `OperationsEnd`: loops over lists that grow or shrink end.

## PcmTaskManager

State, with the member it stands for: `pending` (`m_pendingActions`), `marked` (what the package
panels show as pending), `installed` (`m_installed`), `files` and `kept` (what is on disk of a
package, and of the files its keep_on_update names), `archives` (complete archives in the
cache), the two queues, `downloadComplete`, the atomic flags of the dialog (`cancelled`,
`finished`, and `closing` for `m_progress` at its maximum), `finishedShown` (Cancel is disabled,
Close enabled). `downloadPc`, `installPc` and `uiPc` say where the three threads are;
`lostUpdates` and `runs` are history.

| code | actions |
|---|---|
| `DIALOG_PCM`: a click on a package, discard | `AddPending`, `DiscardAction` |
| `OnInstallFromFileClicked`, `InstallFromFile` | `InstallFromFile` |
| `OnApplyChangesClicked`, `RunQueue` until the threads run | `ApplyChanges` |
| `KeepRefreshing`, `updateUI`, Cancel, Close | `UpdateUI`, `CancelClicked`, `CloseClicked`, `LeaveRefresh` |
| the two `join()`, what follows them in `RunQueue` and the dialog | `JoinThreads` |
| download thread and its tasks | `DownloadNext`, `DownloadSucceeds`, `DownloadFails`, `NotifyInstaller`, `DownloadsComplete` |
| `condvar.wait()` | `CheckPredicate`, `FallAsleep`, `SpuriousWakeup`, `LockAgain` |
| the loops of the install thread | `LeaveDrain`, `WaitForMore`, `FinishInstalls`, `InstallNext`, `AdvancePhase` |
| `installDownloadedPackage`, `extract` | `HashMatches`, `HashMismatch`, `DeleteOldVersion`, `ExtractSucceeds`, `ExtractFails`, `CleanUpExtraction`, `RemoveArchive` |
| the task of `Uninstall` | `UninstallPackage` |

The mutex is held exactly while the installer is "checking" or "goingToSleep"; the other
critical sections touch nothing in between and are single steps.  A notification reaches an
installer that is asleep and is lost otherwise, so that one that falls between the test and the
sleep is lost unless its sender holds the mutex.  The test of a loop reads a queue, which only
the reading thread empties, and then `cancelled`, which is never reset; it is one step, as is
the pop that follows.

A package's files are absent, partial or those of a version; what is left over from an older
version under a complete newer one is not told apart.  A directory that cannot be removed leaves
it partial.  The dialog offers an action for packages that it does not show as pending; after an
installation from a file, `setInstalledPackages()` (`dialog_pcm.cpp:413-444`) shows no installed
package as pending, so that the same package can be asked for twice: uninstallations then
overtake installations asked for earlier, as they skip the download queue.

- `QueuesDrained`: `RunQueue()`'s contract ("until they are drained", `pcm_task_manager.h`),
  against lost notifications and spurious wake-ups.
- `ArchivesMatchTasks`: a package asked for once is installed from an archive that is complete
  and still there, and a run that nobody cancelled leaves none of its archives in the cache,
  although one thread writes archives and the other removes them.
- `InstalledHasFiles`: disk and `m_installed` agree, except for a package whose update could not
  be extracted.
- `CloseSticks`: `AdvancePhase()` does not take back the click on Close.  In a cancelled run it
  can: Close is enabled by Cancel itself while the install thread still has a task to finish,
  and the user has to click again.
- `ThreadsEnd`: however the run goes, both threads end.
- `KeptOnUpdate` is not kept, see "Disagreements met".

## LockFile and DocumentLocks

`LockFile` has the calls of `LOCKFILE` as operators from the files and an object to the files
and the object after the call: `Construct`, `Unlock` (also the destructor), `Override`.  A file
is absent, names an owner (user and host), or is torn: created and never written to its end.  An
object in a folder that cannot be written is valid without a file.

`DocumentLocks` runs several programs, each with one board or schematic editor and a user.
`checker` is `EDA_DRAW_FRAME::m_file_checker`, `opening` the local `lock` of
`PCB_EDIT_FRAME::OpenProjectFiles()`, `projectLock` is `SETTINGS_MANAGER::m_project_lock`; `pc`
says which dialog or load a program is in.  `another` is what `SingleInstance()` said when the
program started.  `died` and `taken` are history.

| code | actions |
|---|---|
| start, end and death of a program | `Start`, `Exit`, `Crash` |
| `PCB_EDIT_FRAME::OpenProjectFiles`, `SCH_EDIT_FRAME::OpenProjectFiles`, to the first dialog | `Open` (`OpenBoard`, `OpenSchematic`) |
| `ID_REVERT_BOARD`, `SCH_EDITOR_CONTROL::Revert` | `Revert` |
| `AskOverrideLock`: Cancel, Open Anyway | `Refuse`, `Accept` |
| `HandleUnsavedChanges`, "create a new board?": Cancel | `Cancel` |
| `Clear_Pcb`, `UnloadProject`, `SETTINGS_MANAGER::LoadProject` | `Unload` |
| the load and what follows it | `Loaded`, `LoadFails` |
| `SavePcbFile`, Save As, `ID_NEW_BOARD` | `SaveBoard`, `SaveAs`, `NewBoard` |

A call of `LOCKFILE` is one step.  Between two of them, in a dialog or a load, every other
program can do anything, and the program itself may die; one that dies while it writes a lock
leaves a torn file.  What two programs can do to each other *inside* of two calls (both see no
file and both create one) is not modelled.

- `ForeignLockNeedsConsent`: nobody's lock is removed or rewritten but by that user's programs
  or after "Open Anyway".  It depends on the check of the owner in `Unlock`, which reads the
  file again, on the old object being gone before the new one is made, and on the condition
  under which a lock is overridden without a question.
- `EveryLockHasHolder`: as long as no program has died, a lock file has an object that will
  remove it.
- `OnlyOverrideSharesLock`: two schematic editors have the same lock only after an override.
  Board editors are left out: a board that is opened while it is loaded gets a second object
  (see "Disagreements met").

## FootprintList

State, with the member it stands for: `disk` (versions of the libraries), `cached` (`FP_CACHE`
of each plugin with the stamp it was loaded under), `queueIn`, `queueOut`, `parsed` (the
`SYNC_QUEUE`s), `jobs` and `work` (what the thread pool has still to start, and what each thread
is at), `list`, `stamp`, `errors`, `cancelled`, `generated`, and `cacheFile` (`fp-info-cache`).
A stamp is the versions of the libraries it was made from: hash collisions are left out.

| code | actions |
|---|---|
| `ReadFootprintFiles` of all libraries, of one | `ReadAll`, `ReadOne` |
| a job of `loadLibs`: pop, `PrefetchLib`, an exception | `StartJob`, `Fetch`, `FetchFails` |
| a job of `loadFootprints`: pop, `validateCache`, the end of `FP_CACHE::Load`, push | `StartJob`, `ValidateCache`, `StampCache`, `PushFootprints` |
| the main thread: `loadLibs` returns, the end of a cancelled and of a complete read, Cancel | `StartParsing`, `EndCancelled`, `EndRead`, `Cancel` |
| `DisplayErrors`, a board is opened | `DisplayErrors`, `OpenBoard` |
| `WriteCacheToFile`, restart or death of the program | `WriteCache`, `Restart` |
| somebody writes a library | `EditLibrary` |

`std::sort` may leave equal entries in any order (`Orders`).

- `FreshListIsCurrent`: a list under the stamp that the libraries have now, which
  `ReadFootprintFiles()` returns without reading, shows every library as it is; also after
  failed and cancelled reads, from the cache file, after a restart.  It needs `RacingStamps =
  FALSE`: a library does not change between its load and the stamp that `FP_CACHE::Load()` takes
  at the end.
- `ListedOnce`, `ReadIsComplete`: with jobs that pop concurrently, each library is listed once,
  and is in the list or among the errors unless the list has no stamp.
- `ReadEnds`: a read ends, cancelled or not.

## ToolManager

State: `state` and `stack` (the `TOOL_STATE` of each tool and its pushed contexts), `active`
(`m_activeTools`), `activeState`, `queue` (`m_eventQueue`), `shuttingDown`, and `calls`, the
call stack: frames of `processEvent()`, bodies of handlers, and `ShutdownAllTools()`, on top of
each other in one thread.  Iterators into `m_activeTools` are positions that move with their
node; an iterator whose node is erased becomes `Erased`.

| code | actions |
|---|---|
| an event of the user or the frame | `UserEvent` |
| `dispatchInternal`, handlers that wait | `WakeTool`, `NobodyWaits` |
| `dispatchInternal`, handlers that start (`TOOL_STATE::Push`) | `StartHandler`, `NobodyStarts` |
| `runTool`; posted events; `processEvent` returns | `RunTool`, `ProcessQueued`, `EndEvent` |
| `RunAction`, `RunSynchronousAction`, `ProcessEvent` in a handler; `PostAction` | `RunNow`; `Post` |
| `TOOL_INTERACTIVE::Activate`; `ScheduleWait`; the handler returns, `finishTool`, `TOOL_STATE::Pop` | `Activate`; `Wait`; `Finish` |
| `ShutdownAllTools`, `ShutdownTool` | `ShutdownAllTools`, `ShutdownTool`, `EndShutdown` |
| a new frame | `NewFrame` |

What a handler does is open: it runs, posts, activates, waits and ends in any order that three
conventions of the tools allow, each a guard at its action: a handler activates its tool before
it waits; one that is started inside of another handler of its own tool neither waits nor
activates; one that got the null event ends.  Without the first a waiting tool would get no
events; the others are what the tools in `pcbnew/tools` do, and are not enforced by the manager.

- `CoroutineRunsOrWaits`: `cofunc`, `pendingWait` and the stack of contexts agree, with
  coroutines nested three deep.
- `IteratorsValid`, `WokenOnce`: going along a list that changes meanwhile neither uses an
  erased node nor wakes anybody twice.
- `ActiveToolsWait`: when the manager is idle, the active tools are those that wait, each once.

## PnsNode and RouterWorld

`RouterWorld` has one variable, the set of items of each node that there is: a branch begins as
its parent, a change touches one branch and adds no second segment at the coordinates of
another, committing makes a branch's items those of the root.

`PnsNode` has what the code has: `parent`, `index` (`m_index`), `override` (`m_override`),
`joints` (`m_joints`), the `owner` of items and of holes, `garbage`, `allocated`, and
`parentItem` and `board`, the link to the board's items.

| code | actions |
|---|---|
| `NODE::Branch` | `Branch` |
| `Add( SEGMENT )`, `Add( VIA )` | `Add` |
| `Remove( SEGMENT* )`, `Remove( VIA* )`, `Remove( ITEM* )`, `doRemove` | `RemoveItem` |
| `Replace`, removing and adding a via by the dragger | `ReplaceVia` |
| `ROUTER::SplitAdjacentSegments` | `SplitSegment` |
| `KillChildren`, `releaseChildren`, `~NODE` | `KillChildren`, `DeleteBranch` |
| `ROUTER::CommitRouting`, `NODE::Commit`, `releaseGarbage` | `CommitRouting` (`CommitToRoot`) |

The three ways to take an item out, with what replaces it, are one operator, `Exchange`.  A
node's joints at a position are its own or else the root's; `touchJoint()` copies them.
Removing a via deletes the joints it is part of and links the other items again
(`RebuildJoint`).

- `ImplementsWorld`: the refinement, with `contents <- [n \in Live |-> Contents(n)]`.
- `JointsMatchItems`: whatever is in a node is linked at each of its ends, on all its layers;
  joints do not overlap.
- `NothingFreedIsUsed`: no node refers to an item that has been deleted, and no via has lost its
  hole to another node's destructor.
- `BoardMatchesWorld`: after each commit, root and board correspond one to one, although
  `CommitRouting()` pairs removed and added items by their parent and names new ones as it goes.

## Runs

| run | asks | bounds | distinct states |
|---|---|---|---|
| `edits` | all edits of items, nets, append, rollback | 2 items, 2 values, limit 1, 2 lines | 1.47 million |
| `groups` | groups with exact undo, append, rollback | 2 items, 2 groups, limit 2, 2 lines | 936 thousand |
| `group_tools` | ownership and members with every group operation | 2 items, 2 groups, limit 1 | 2.2 million |
| `late_lines` | teardrops, nets, cleaner inside a commit | 2 items, 1 teardrop, 2 values, limit 1 | 327 thousand |
| `markers` | markers outside of the history, missing items, termination | 1 item, 1 teardrop, 2 markers, 2 values | 339 thousand |
| `tools` | dispatch, nesting, contexts, shutdown | 2 tools, 2 contexts each, 3 nested or posted events | 2.19 million |
| `router` | branches, joints, holes, garbage, commits | 3 nodes, 5 segments, 2 vias, 3 positions, 4 items at a time, 2 changes of a branch, 1 commit | 792 thousand |
| `locks` | who removes whose lock | 2 programs, 2 users, 2 documents, one of them in a folder that cannot be written; 1 death | 1.38 million |
| `footprints` | stamps, jobs, cache file, termination | 2 libraries in 2 versions, 2 threads | 636 thousand |
| `packages` | both queues, the cache, Close | 2 packages, 2 versions, 2 actions, 1 run of the queues | 2.9 million |
| `package_updates` | disk against `m_installed`, termination | 1 package, 2 versions, 2 actions, 1 run of the queues | 185 thousand |

`undo_of_delete_group` expects a violation; see "Disagreements met".

Bounds.  `MaxLines` bounds what a tool stages itself (late lines come on top), `MaxPickers` the
length of a command that APPEND_UNDO may still make longer, `MaxUndo` the lists.  Two items and
two values are enough for an item to be staged twice, to be in two commands, to be a member of
either of two groups, and for one of two lines to be late.  With a limit of 1 every second
command drops the oldest and frees its items; with 2 (`groups`) there can be one command to undo
and one to redo, or two of either.  Runs use symmetry of values or items only when they have no
liveness property; `markers`, `footprints` and `package_updates` have none.

For the package manager, two actions are enough for one task in each thread, for one queue to be
filled while the other is drained, and for one package to be asked for twice; what an earlier
run of the queues leaves behind is covered by installations from files before the run, which
fail or succeed.  `MaxRuns` bounds the runs of the queues; a check of one package with two runs
finds nothing else.

Locks: two programs suffice for every property, as each is about two owners of one file; with
two users both the silent override and the question occur, and the same user's two programs are
covered by the choice in `Init`. One document can be locked and one cannot, so that an editor
goes from one kind to the other and back.  Two documents in writable folders were checked as
well (1.2 million states).  The theorems hold for any number.

Footprints: two libraries are needed for a partly read list, two threads for jobs that overtake
each other, one change for a stale stamp.

Tools: one selection tool (it has a handler for its own activation) and one editing tool; with
three events nested or posted, a tool that is being woken up runs an action that starts another
context of the first one, which has it woken up.

Router: the root has a track and a via; branches side by side or one on the other; a track on
the other layer meets the via, a track has the coordinates of another, a track has two halves, a
second via can replace the first.  One commit is enough to reach every joint and every owner
that a root can have after one; two commits, three changes in a branch and twins were checked
without the second via and the halves (87 thousand states).

Fairness.  `FairSpec` of `BoardCommit` is weak fairness of `ProgramStep`, the steps of an
operation that has begun: they are loops that run to their end in the user-interface thread
without yielding.  What the user does is not fair.  `undo_of_delete_group` uses it too, so that
its counterexample is a complete behaviour.  `FairSpec` of `PcmTaskManager` is weak fairness of
each thread and of the refresh loop (the scheduler runs a thread that can run; downloads and
extractions end), and strong fairness of the step with which the download thread takes the mutex
at its end: with weak fairness alone, an installer that wakes up spuriously for ever could keep
it out.  Neither the user nor a spurious wake-up is fair.  `FairSpec` of `FootprintList` is weak
fairness of each thread of the pool and of the main thread's waiting for it (`Wait`): threads
run, and a future that is ready is returned from.  Nobody has to read, cancel or edit.

Tools left out of a run.  `ImplementsHistory` is checked without the tools that lose
memberships: `delete_group`, `remove_from_group`, `regroup`, `add` or `remove` with groups.
`HistoryItemsExist` and `DeletedItemsOwnedOnce` are checked without `remove_teardrops`,
`ConnectivityMatchesBoard` without `cleanup_modified`, `NoDanglingReference` without
`remove_markers`.  The reasons are the
disagreements that follow; each run takes all the other tools that matter to its question.

## Disagreements met

Shown by a run:

- `undo_of_delete_group`: `ClearEditFlags()` at the end of the group's own line
  (`board_commit.cpp:429`) clears STRUCT_DELETED, so its members, pushed later, leave it and
  undo brings back an empty group.

Found on the way; each can be shown by adding the tool named to a run that checks the property
named, or the property named to the run of its module.

Board and undo lists:

- `cleanup_of_merged_track`: with the tools `cleanup` and `cleanup_modified`,
  `ConnectivityMatchesBoard`: a track merged into and then removed by the cleaner is put into
  the connectivity again by its CHT_MODIFY line.
- `drc_frees_undone_marker`: with `drc`, `remove` and `remove_markers`, `NoDanglingReference`
  and `HistoryItemsExist`: a marker removed with an undoable commit and brought back is deleted
  by the next DRC run while the redo list refers to it.

Found with `BoardCommit`, by adding the tool named to a run that checks the property named:

- `remove_from_group`, `ImplementsHistory`: redo leaves the item pointing to the group it left
  (`undo_redo.cpp:384-394` only sets the parent of the children the group now has).
- `add` with an entered group: redo does not restore the membership (`board_commit.cpp:259-264`
  records only NEWITEM).  `remove` of a member: undo does not (`board_commit.cpp:305`).
- `remove_teardrops` with `teardrops`, `HistoryItemsExist` and `DeletedItemsOwnedOnce`: the
  global deletion dialog and `RemoveTeardrops()` stage the same teardrop; the redo meets the
  assertion of `undo_redo.cpp:306`.  `markers` shows that references still come out right.
- `regroup`: `AddItem()` takes the item out of its old group and records nothing
  (`group_tool.cpp:276`).
- `delete` with `enter`, `GroupsNotEmpty`: deleting all members of an entered group leaves it
  empty on the board, while `board.h:331-338` says that each group must contain at least one
  item.

Seen, outside of the model: the report at the end of `RunQueue()` counts only the tasks of the
install thread, and `installDownloadedPackage()` returns SUCCESS although `extract()` failed, so
that "All operations completed successfully." (`pcm_task_manager.cpp:658`) is also said after
failed downloads, failed extractions and a cancelled run.

`EDA_DRAW_FRAME` declares its own `m_undoRedoCountMax` (`include/eda_draw_frame.h:514`, set at
`common/eda_draw_frame.cpp:103,708`), which hides the one the undo lists use
(`include/eda_base_frame.h:758`, `common/eda_base_frame.cpp:1385,1400`), so that the user's
setting does not reach them.  The model takes any limit.

Package manager:

- `KeptOnUpdate` in `package_updates`: the clean-up after a failed or cancelled extraction
  (`pcm_task_manager.cpp:224`) deletes the package's directories without its keep_on_update
  list, which the schema describes as the "files [that] should be kept on package update".

Lock files:

- `LoadedProjectLocked`: `m_project_lock` is the "Lock for loaded project"
  (`settings_manager.h:426`), but `LoadProject()` gives it a copy of its local object
  (`settings_manager.cpp:893`; the class declares a destructor and has no move constructor),
  whose destructor then removes the file.
- A board that is loaded and opened again gets a second object, which finds the lock to be its
  own user's and overrides it; the old `m_file_checker`, destroyed afterwards, removes the file.
- A schematic editor whose user refuses to open a locked file has already released the lock of
  the schematic it goes on showing.  The result of `OverrideLock()` is not looked at.

Footprint list:

- With `RacingStamps = TRUE`, `FreshListIsCurrent`: `FP_CACHE::Load()` takes its stamp after it
  has read the files (`pcb_plugin.cpp:212`), so that a change in between is never seen.
- `FOOTPRINT_LIST::Clear()` (`footprint_info.h:194`) keeps the stamp: after a board that could
  not be loaded, the list is empty under a current stamp.  The property is therefore about lists
  that are not empty.

Tool manager:

- `ActiveIsRunning`: `m_activeState` is not the "currently executed tool" after a handler has
  had an event processed.
- `ActiveOnce`, with `Restarts = TRUE`: an active tool that is alone on the list is put there
  once more, instead of "to the top" (`tool_manager.cpp:461`).
- `ShutdownEndsLoops`: a context that `Pop()` restores during the shutdown is not woken up any
  more.
- `PostAction` runs the action "after the current action (coroutine) ends"
  (`tool_manager.h:247`); it also does when the coroutine waits.  `wakeupEvent.PassEvent()` is
  read after `Pop()` has restored another context (`tool_manager.cpp:774`).

Router:

- `RefusedOnlyIfThere`: when a via is removed from a branch, its copy of the joint goes with it,
  and if nothing else is left there the root's joint is found again: `Add()` refuses a segment
  for one that the branch has removed, and "true if added" (`pns_node.h:314`) is false although
  nothing is in the way.  `LinkedItemsVisible` shows the same of the joints.
- `FindJoint()` goes on behind the entries of its own key (`pns_node.cpp:1206-1213`) and can
  return the joint of another position.
- `releaseGarbage()` never fills `cacheCheckItems` (`pns_node.cpp:1430-1443`), so that the rule
  resolver's cache keeps entries of items that have been deleted.

## Proofs

Proved by TLAPS, for every value of the constants that the named assumptions of each module
allow.

| module | proved | only model-checked |
|---|---|---|
| `UndoHistory` | types, the limit | |
| `BoardCommit` | `TypeOK`, `HistoryWithinLimit`, `EnteredGroupOnBoard`; `ViewMatchesBoard`, `ConnectivityMatchesBoard`, `HistoryItemsExist`, `DeletedItemsOwnedOnce`, `NoDanglingReference` (hypotheses below) | `ImplementsHistory`, `GroupsConsistent`, `GroupsEditable`, `OperationsEnd` |
| `ToolManager` | `ToolsTypeOK`, `CoroutineRunsOrWaits`; `IteratorsValid`, `WokenOnce`, `ActiveToolsWait` (hypotheses below) | |
| `PnsNode` | `NodeTypeOK`, `JointsMatchItems`, `NothingFreedIsUsed`, `BoardMatchesWorld`, `ImplementsWorld` | |
| `DocumentLocks` | all four properties | |
| `FootprintList` | `FpTypeOK`, `FreshListIsCurrent`, `ListedOnce`, `ReadIsComplete` | `ReadEnds` |
| `PcmTaskManager` | `PcmTypeOK`, `QueuesDrained`, `CloseSticks`, `InstalledHasFiles`, `ArchivesMatchTasks` | `ThreadsEnd` |

### BoardCommit

Assumed: kinds of objects are disjoint and finite, the loaded board's groups are consistent,
limits are natural numbers and tools are known.

- `TypeCorrect`: `Spec => []TypeOK`.  The inductive invariant is `TypeOK /\ PutModes`: `PutDone`
  chooses by `mode`, and nothing but `PutModes` ("put" implies undo, redo or rollback) says that
  one of its cases applies and that `last` keeps its type.
- `HistoryLimit`: `Spec => []HistoryWithinLimit`.  During "put" the command is on neither list,
  so the lengths are off by one against the history: `ListLengths` states by how much for each
  mode.  With it each step keeps the sum of the lengths within the limit, as what goes to one
  list has left the other.
- `EnteredGroupStays`: `Spec => []EnteredGroupOnBoard`.  The property is not inductive: between
  two iterations of an undo or a revert the entered group can be off the board, and a line
  staged earlier could remove it later.  `EnteredGroupKept` says that it is on the board except
  in these two operations, that no line of the open commit removes it, and that there is no open
  commit at "idle" and during undo; `RebuildSelection()` at the end of the two operations does
  the rest.
- `HistoryTypeCorrect`, `HistoryDepthHolds`: the same of the abstract history.

`HistoryFitsBoard` is the invariant `BoardSafe`, which says where every object is at every step
of every operation.  None of the five properties that follow from it is inductive: what
`PutDataInPreviousState()` does to view, connectivity and memory depends on what the pickers
say, what they say on the commit that made them, and that one on the board it began with.

- `Safe(near, far, b, mem)` relates the two lists to a board.  In each list the pickers of one
  item follow each other as the item was added, changed and removed (`Follows`, `Ordered`,
  `AllOrdered`); pickers of opposite lists are `Apart`, that is, they never both own an item; an
  item that a picker has is off the board exactly while one owns it (`Placed`); all of them
  exist in memory.  It is symmetric in the lists, so that undo and redo are one lemma
  (`SafeSwapped`, `SafeTurned`).
- At "idle" it holds of the lists and the board.  During "put" it holds of the lists with what
  is still to be handled of the command at the end of one, and what has been handled, turned
  round, at the end of the other (`Todo`, `Done`): a picker that is handled goes from one to the
  other, and the board with it.
- While a commit is open it holds of the lists and of `Start`, the board the commit began with.
  `LinesOK` says which lines can be behind each other (what is added is new, what is removed is
  there and removed once, ...), `Carried(lines, start, K)` is the board with the lines in `K`
  carried out, and `CommitOK` says that the board is `Start` with the lines that are done,
  announced by the tool (CHT_DONE) or passed by the loop (`Carrying`), and that the view is
  `Start` with those the loop has passed (`Seen`).  That covers the lines that `Push()` stages
  late.
- The command that `Push()` has built by its end has one picker for each line that it carried
  out (`Listed`), and may be put behind the others or joined to the last one
  (`CommandRecorded`).

From it: `ViewFollowsBoard`, `ConnectivityFollowsBoard`, `HistoryItemsPresent`, `OneOwner`.  Two
hypotheses:

- `PlainTools` leaves out exactly the combinations of "Disagreements met" that break one of the
  five: `remove_markers` with `drc` (`HistoryItemsExist` and `NoDanglingReference` are violated),
  `remove_teardrops` with `teardrops` (`HistoryItemsExist` and `DeletedItemsOwnedOnce`), and
  `cleanup_modified` (`ConnectivityMatchesBoard`).  For the second, `markers` still checks
  `NoDanglingReference`.
- `[]GroupsEditable`, stated in the theorem (`Spec /\ []GroupsEditable => ...`): deleting or
  ungrouping a group goes through `m_items`, and removes and shows what is in there.  It is not
  proved here, as it needs that undo brings the members back, which is what `ImplementsHistory`
  says and some tools do not keep.  `group_tools` checks it with all group tools; it was also
  checked, with the five properties but `NoDanglingReference`, for one group and all other tools
  together but `regroup` and `drc` (5.3 million states).
  `BoardWithoutGroups` has neither: with `Group = {}` there is nothing to assume.

`NoUseAfterFree`: `NoDanglingReference` for boards without groups; with groups it also speaks of
the images of groups in pickers, which is part of what the refinement would say.

### ToolManager

Assumed: named tools and listeners are tools, a bound on contexts of at least one; the main
tools, which have a handler for their own activation, are finitely many, as the tools of a frame
are (they are registered one by one).

- `ToolTypesHold`, `CoroutinesRunOrWait`, both from `ContextInv`.  `FramesChained`: a body is on
  the frame that dispatched to it, and a frame that goes along the active tools has only the
  handler on it that it woke up.  `ContextsAgree`: the coroutines of a tool are numbered in the
  order in which they began, one for each context that is pushed and one for the current; a
  context waits if and only if its coroutine is not on the call stack; the handlers of a tool
  are on the call stack in the order of their contexts (`HandlersOrdered`), and with one of them
  all that were started later (`LaterOnesRun`).  The last two are not part of the property: they
  say that the handler which ends, being on top, is the one whose context is current, so that
  `Pop()` gives back the right one.
- `ActiveToolsAreWaiting`, from `ContextInv /\ ActiveInv`.  `ActiveToolsWait` says something of
  idle states only; `ActiveListed` says at every step which tools are on the list: those with a
  context (`Activated`), unless the first of their handlers is `Inactive`, that is, has not
  called `Activate()` or is the one whose activation has not come to `runTool()`.  For that it
  needs that an activation is dispatched at once by the handler that calls for it, which is the
  only one of its tool up to there (`ActivationsHeld`); that no activation is posted
  (`NothingPosted`), as `Restarts = FALSE` says; that a tool is listed once (`ActiveOnceEach`);
  that selection tools stay on the list as long as the frame is there (`MainToolsStay`), so that
  a tool that is activated again is never alone on it; and that nothing is dispatched while the
  frame is destroyed (`ShutdownAlone`).
- `IteratorsStayValid` and `HandlersWokenOnce`, from these and `IteratorsInv`, which says where the
  iterator of every `dispatchInternal()` on the call stack is.  While a handler runs that it woke
  up (`Held`), the iterator is at the node of that handler's tool; of that tool it has woken only
  later contexts, which ended before, and of the tools behind it none.  While it runs itself
  (`Going`), it has woken no current context from the iterator on.  What is put first, by
  `runTool()` inside of the handler, goes in front of the iterator; it is never the tool of the
  iterator, whose handler would have to have been started by it; and the node of that tool is
  erased only by that handler itself, as `HandlersOrdered` says that all others end before.
- The three have two hypotheses.  `Restarts = FALSE`: no tool posts the activation of a
  selection tool; with it `ActiveOnce` is violated (above).  `MainTool # {}`: the frame has a
  selection tool, as the frames of all editors and viewers do; that of the project manager has
  none, nor a tool that waits.  Without one, a tool that is alone on the list and is activated
  again is listed twice, for the reason quoted at `ActiveOnce`.
- TLC confirmed `ActiveInv` and `IteratorsInv` as invariants of `tools` (2 187 133 states) before
  they were proved.

### PnsNode

Assumed: a root in the tree, finite sets of items, enough names for the initial board, and of
the geometry what the code computes it from: every item has an end and a layer, a via has one
position (`VIA::Pos()`), the halves of a split segment share an end and keep its layers
(`SEGMENT::Clone()` in `SplitAdjacentSegments()`).

- `BoardFollowsRouter`: root and board correspond after every commit. `NodeInv`: items of the
  index of a branch are owned by it or a node above it (`OwnItems`, `OwnedAbove`), the root owns
  its own, overrides are in the root, and what is in use exists.  It is needed because a name of
  the board is given to an item of the branch by what it replaces, and items of a branch are
  copies of the root's.
- `JointsFollowItems`: `JointsMatchItems`, from `JointsFollow`: at each position everything in
  the node that ends there is linked, joints are apart, and a joint spans the layers of what it
  links, which is an item of the node or the root.  `touchJoint()` merges joints, `RebuildJoint`
  takes one apart and links its items again in any order: that a loop of links over a set gives
  joints that are apart and cover every item is an induction over that set (below).
- `RouterTypesHold`, `NothingFreed`: types, and nothing freed is referred to, from the same
  invariant with `HolesOwned` (the hole of a via belongs to it or to the via's owner).
- `BranchesAreWorlds`: `Spec => ImplementsWorld`.  Every step maps to a step of `RouterWorld` or
  a stutter; a commit, which moves items one by one, maps to one step.

### The others

- `EveryQueueDrained`: `Spec => []QueuesDrained` of `PcmTaskManager`, for all packages, versions
  and bounds.  `ThreadsAgree` relates the two threads: `download_complete` says that the
  download thread is done, and the install thread is done only after it and with an empty queue.
- `CloseIsNotLost`: `Spec => CloseSticks`.  `CloseIsLate`: Close is enabled only when
  `finished`, which in a run that nobody cancelled is set by the install thread after its last
  `AdvancePhase()`.
- `InstalledIsOnDisk`: `Spec => []InstalledHasFiles`.  `FilesOnDisk` adds what is known while
  the install thread cleans up.
- `PcmTypesHold`: `PcmTypeOK` with `TasksTyped`: which kinds of task can be in which queue (no
  uninstallation is ever downloaded), and that a thread at work has a task.
- `QueuesFollowDisk`: `ArchivesMatchTasks`.  `SoleTasksReady` follows a package that was asked
  for once through the places where its task can be, one at a time (`AtOnePlace`), with its
  archive from the moment it leaves the download thread; `ArchivesExpected` says of a run that
  nobody cancelled that each archive in the cache is of a task still to come.

- `LocksTyped`, `NoStaleLock`, `LockTakenOrAlone`, `ForeignLocksAreSafe`: the four properties of
  `DocumentLocks`, for any number of programs, users, documents and folders.  The assumptions
  are that absent, torn and no owner are no users, and that the read-only documents are
  documents.  A lemma for each action shows that it is a `Step(p)`: one program changes its own
  objects, and each file goes from what it is to what `Construct`, `Unlock` and `Override` can
  make of it (`FileStep`, `ObjectStep`).  Everything follows from that.  `LocksInv`: an object
  that holds a lock has a file name, its program's user as owner and is in the right frame;
  every lock file has a holder unless a program died.  `SharingInv`: two holders of one
  schematic's file that was not taken are the same.
- `EachLibraryListedOnce`, `ReadingIsComplete`, `FootprintTypesHold` of `FootprintList`, for any
  number of libraries and threads.  `ReadInv`: what is in the queues, with the threads, parsed
  and failed is apart (`Apart`) and together all that was asked for (`NoneLost`), there are as
  many jobs as libraries to pop (`ParsingFetches`), and lists are sorted (`ListsSorted`).
  `TypeInv` adds to the types that nothing is pushed from a cache that was not loaded.
- `StampedListIsCurrent`: `FreshListIsCurrent`, under the assumption `NoRacing` (`RacingStamps =
  FALSE`).  `FpInv`: a cache, a job, the stamp being generated, the list and the cache file each
  show a library no older than their stamp says, as versions only grow.

### How the proofs are laid out

They go action by action: one lemma for each phase or operation, and under it a step for each
action.  Lemmas about operators (`SaveType`, `StageGroupType`, `SwapType`, ...) are stated with
ASSUME/PROVE and cited.

Loops and folds over data (the pending actions sorted into queues, the joints of a via linked
again, the items of a commit, the contexts of all tools) need induction.  The library's
induction theorems take an operator as a parameter, which the installed provers cannot
instantiate.  `SequenceFacts` therefore states induction with sets: a set of natural numbers
that has 0 and with each number the next has all of them (`NatSets`); a set that has {} and each
subset of a finite set whose remainder it has, when the element that a fold takes first is gone,
has all subsets (`FoldedSets`).  A proof by induction defines the set of the cases where its
claim holds and shows that it is closed.  `Selection` (what the loop over the pending actions keeps,
and in which order), `FoldExists` (that a fold has the value its recursion says) and `ByRecursion` are proved
with them.

Not proved: the properties of the last column of the table.  `OperationsEnd`, `ThreadsEnd` and
`ReadEnds` are liveness under fairness, which the prover cannot treat.  `ImplementsHistory` and
the two properties of groups need an invariant about what the pickers hold, and the first holds
for part of the tools only.

## Not modelled

- Board: footprint editor commits and footprint children, nested groups, `AddToGroup()`,
  generators, page settings and origins in the undo list, zone fills and DRC dirty flags,
  `Modified( item, copy )`, saving of files.
- Tool manager: hot keys, context menus, view controls, the tool stack of the frames
  (`TOOLS_HOLDER`), shutting down a single tool, `RunMainStack()`.
- Router: geometry, pads and solids, several nets, virtual vias, lock flags and locked joints,
  ranks and markers.
- Locks: two calls of `LOCKFILE` at the same instant, the drawing sheet editor, auto-save files,
  failures to remove a file.
- Footprint list: single footprints and files that cannot be parsed, an exception of
  `GenerateTimestamp()`, write errors of the cache file, changes of the library table.
- Package manager: the final report, repositories, the restart.
- The parts the inventory lists under the plan or as no candidates.

Most of the repository's lines are vendored code, generated tables, data formats, dialogs,
drawing and geometry, which have no behaviour in the sense of these models: the modelled code is
what keeps state over several steps.
