---------------------------- MODULE DocumentLocks ----------------------------
(* The lock files of open documents.  Programs of several users open, save,  *)
(* revert and close boards and schematics, each keeping the LOCKFILE of its  *)
(* document (EDA_DRAW_FRAME::m_file_checker) and of its project              *)
(* (SETTINGS_MANAGER::m_project_lock).  A program may die at any moment.     *)
(* A call to LOCKFILE is one step: what can come between two of them is a    *)
(* dialog, a load, the death of the program, and every other program.        *)
EXTENDS TLC

CONSTANTS
    Program,        \* processes, each with one editor frame
    Board, Schematic,   \* names of boards and of schematics; a project has the same name
    User,           \* owners: a user name at a host
    ReadOnlyDocument,   \* names of those in directories that cannot be written
    None

Document == Board \cup Schematic
\* The lock files: name.kicad_pcb.lck, name.kicad_sch.lck, name.kicad_pro.lck.
File == {"board", "schematic", "project"} \X Document
ReadOnly == {"board", "schematic", "project"} \X ReadOnlyDocument

INSTANCE LockFile

ASSUME LocksAssumption ==
    /\ None \notin User \cup Document \cup File /\ {Absent, Torn} \cap User = {}
    /\ ReadOnlyDocument \subseteq Document

VARIABLES
    kind,           \* the editor a program is: "board" or "schematic"
    user,           \* the user who runs it
    disk,           \* the lock files
    live,           \* programs that run
    another,        \* programs whose SingleInstance() found another one at their start
    doc,            \* the document in the frame
    checker,        \* m_file_checker
    opening,        \* `lock' in PCB_EDIT_FRAME::OpenProjectFiles()
    project,        \* the project that is loaded
    projectLock,    \* m_project_lock
    pc, target,     \* where OpenProjectFiles() waits, and for which document
    died,           \* history: a program has died without releasing its locks
    taken           \* history: files taken by OverrideLock() from a live program

setting == <<kind, user>>
frame == <<doc, checker, opening, pc, target>>
settings == <<project, projectLock>>
process == <<live, another>>
history == <<died, taken>>
vars == <<setting, disk, process, frame, settings, history>>

LocksTypeOK ==
    /\ kind \in [Program -> {"board", "schematic"}] /\ user \in [Program -> User]
    /\ disk \in Disk
    /\ live \subseteq Program /\ another \subseteq Program
    /\ doc \in [Program -> Document \cup {None}]
    /\ checker \in [Program -> Object] /\ opening \in [Program -> Object]
    /\ project \in [Program -> Document \cup {None}]
    /\ projectLock \in [Program -> Object]
    /\ pc \in [Program -> {"idle", "asking", "confirming", "loading"}]
    /\ target \in [Program -> Document \cup {None}]
    /\ died \in BOOLEAN /\ taken \subseteq File

Init ==
    /\ kind \in [Program -> {"board", "schematic"}] /\ user \in [Program -> User]
    /\ disk = [f \in File |-> Absent]
    /\ live = {} /\ another = {}
    /\ doc = [p \in Program |-> None]
    /\ checker = [p \in Program |-> NoLock] /\ opening = [p \in Program |-> NoLock]
    /\ project = [p \in Program |-> None] /\ projectLock = [p \in Program |-> NoLock]
    /\ pc = [p \in Program |-> "idle"] /\ target = [p \in Program |-> None]
    /\ died = FALSE /\ taken = {}

-----------------------------------------------------------------------------
(* What several operations share.                                            *)

LockOf(p, d) == <<kind[p], d>>

\* The documents an editor can be asked to open.
Openable(p) == IF kind[p] = "board" THEN Board ELSE Schematic

\* The lock files whose objects a live program would release.
Locks(p) == {l \in {checker[p], opening[p], projectLock[p]} : l.created}
HeldByAnother(p, f) ==
    \E q \in live \ {p} : \E l \in Locks(q) : l.file = f

Idle(p) == p \in live /\ pc[p] = "idle"

\* Mutant: any lock can be overridden when no other instance runs.
LockAnyOwner(p, before, f) ==
    LET made == Construct(before, f, user[p])
    IN IF ~made.lock.valid /\ p \notin another
       THEN Override(made.disk, made.lock, user[p]) ELSE made
\* Lock a document; a lock that "appears" to be one's own, left by a program
\* that crashed or was interrupted, is overridden without a question.
LockDocument(p, before, f) ==
    LET made == Construct(before, f, user[p])
    IN IF ~made.lock.valid /\ made.lock.owner = user[p] /\ p \notin another
       THEN Override(made.disk, made.lock, user[p]) ELSE made

\* History: f was held by a live program and is now p's.
NoteTaken(p, f, after) ==
    taken' = IF disk[f] # Absent /\ after.lock.created /\ HeldByAnother(p, f)
             THEN taken \cup {f} ELSE taken

\* Mutant: the old object is destroyed after the new one was made.
RelockBeforeReset(p, f) ==
    LET made == LockDocument(p, disk, f)
    IN After(Unlock(made.disk, checker[p]).disk, made.lock)
\* EDA_DRAW_FRAME::LockFile()
Relock(p, f) == LockDocument(p, Unlock(disk, checker[p]).disk, f)

-----------------------------------------------------------------------------
(* Programs start, end and die.                                              *)

\* The single-instance file in the temporary directory names the first
\* program; a program that found it taken does not look again.
Start(p) ==
    /\ p \notin live
    /\ live' = live \cup {p}
    /\ another' = IF \E q \in live \ another : user[q] = user[p] /\ kind[q] = kind[p]
                  THEN another \cup {p} ELSE another \ {p}
    /\ UNCHANGED <<setting, disk, frame, settings, history>>

\* The memory of a process that is gone.
Forget(p) ==
    /\ live' = live \ {p} /\ another' = another \ {p}
    /\ doc' = [doc EXCEPT ![p] = None]
    /\ checker' = [checker EXCEPT ![p] = NoLock] /\ opening' = [opening EXCEPT ![p] = NoLock]
    /\ project' = [project EXCEPT ![p] = None]
    /\ projectLock' = [projectLock EXCEPT ![p] = NoLock]
    /\ pc' = [pc EXCEPT ![p] = "idle"] /\ target' = [target EXCEPT ![p] = None]

\* The frame and the settings manager are destroyed, and their objects with them.
Exit(p) ==
    /\ Idle(p)
    /\ disk' = Unlock(Unlock(disk, checker[p]).disk, projectLock[p]).disk
    /\ Forget(p)
    /\ UNCHANGED <<setting, history>>

\* The lock files p writes next: one it creates, or the one it is about to override.
Writing(p, f) ==
    \/ pc[p] = "idle" /\ f[1] = kind[p] /\ disk[f] = Absent
    \/ pc[p] = "asking" /\ f = LockOf(p, target[p])

\* A program dies (bound: one does); if it was writing a lock file, what it wrote is incomplete.
Crash(p) ==
    /\ p \in live /\ ~died
    /\ \/ UNCHANGED disk
       \/ \E f \in File \ ReadOnly : Writing(p, f) /\ disk' = [disk EXCEPT ![f] = Torn]
    /\ Forget(p)
    /\ died' = TRUE
    /\ UNCHANGED <<setting, taken>>

-----------------------------------------------------------------------------
(* Opening a document.                                                       *)

AskOrConfirm(lock) == IF lock.valid THEN "confirming" ELSE "asking"

\* PCB_EDIT_FRAME::OpenProjectFiles(), to the first dialog.  The lock of the
\* board in the frame stays where it is.
OpenBoard(p, d, before) ==
    LET after == LockDocument(p, before, LockOf(p, d))
    IN /\ kind[p] = "board"
       /\ disk' = after.disk
       /\ opening' = [opening EXCEPT ![p] = after.lock]
       /\ pc' = [pc EXCEPT ![p] = AskOrConfirm(after.lock)]
       /\ NoteTaken(p, LockOf(p, d), after)

\* SCH_EDIT_FRAME::OpenProjectFiles(), to the first dialog.
OpenSchematic(p, d) ==
    LET after == Relock(p, LockOf(p, d))
    IN /\ kind[p] = "schematic"
       /\ disk' = after.disk
       /\ checker' = [checker EXCEPT ![p] = after.lock]
       /\ pc' = [pc EXCEPT ![p] = AskOrConfirm(after.lock)]
       /\ NoteTaken(p, LockOf(p, d), after)
       /\ UNCHANGED opening

Open(p, d) ==
    /\ Idle(p)
    /\ \/ OpenBoard(p, d, disk) /\ UNCHANGED checker
       \/ OpenSchematic(p, d)
    /\ target' = [target EXCEPT ![p] = d]
    /\ UNCHANGED <<setting, process, doc, settings, died>>

\* ID_REVERT_BOARD and SCH_EDITOR_CONTROL::Revert(): ReleaseFile() comes first.
Revert(p) ==
    LET released == Unlock(disk, checker[p])
    IN /\ Idle(p) /\ doc[p] # None
       /\ \/ /\ OpenBoard(p, doc[p], released.disk)
             /\ checker' = [checker EXCEPT ![p] = released.lock]
          \/ OpenSchematic(p, doc[p])
       /\ target' = [target EXCEPT ![p] = doc[p]]
       /\ UNCHANGED <<setting, process, doc, settings, died>>

\* AskOverrideLock(): Cancel.  The board editor drops its new object; the
\* schematic editor keeps it, and the document it shows.
Refuse(p) ==
    /\ p \in live /\ pc[p] = "asking"
    /\ disk' = Unlock(disk, opening[p]).disk
    /\ opening' = [opening EXCEPT ![p] = NoLock]
    /\ pc' = [pc EXCEPT ![p] = "idle"] /\ target' = [target EXCEPT ![p] = None]
    /\ UNCHANGED <<setting, process, doc, checker, settings, history>>

\* AskOverrideLock(): Open Anyway.  The result of OverrideLock() is not looked
\* at: the document is opened even if the file cannot be written.
Accept(p) ==
    LET asked == IF kind[p] = "board" THEN opening[p] ELSE checker[p]
        after == Override(disk, asked, user[p])
    IN /\ p \in live /\ pc[p] = "asking"
       /\ \/ /\ disk' = after.disk
             /\ NoteTaken(p, asked.file, after)
             /\ IF kind[p] = "board"
                THEN opening' = [opening EXCEPT ![p] = after.lock] /\ UNCHANGED checker
                ELSE checker' = [checker EXCEPT ![p] = after.lock] /\ UNCHANGED opening
          \/ UNCHANGED <<disk, taken, checker, opening>>
       /\ pc' = [pc EXCEPT ![p] = "confirming"]
       /\ UNCHANGED <<setting, process, doc, target, settings, died>>

\* The user keeps the document because of its unsaved changes, or does not
\* want a new one created.
Cancel(p) ==
    /\ p \in live /\ pc[p] = "confirming"
    /\ disk' = Unlock(disk, opening[p]).disk
    /\ opening' = [opening EXCEPT ![p] = NoLock]
    /\ pc' = [pc EXCEPT ![p] = "idle"] /\ target' = [target EXCEPT ![p] = None]
    /\ UNCHANGED <<setting, process, doc, checker, settings, history>>

-----------------------------------------------------------------------------
(* Projects.                                                                 *)

\* SETTINGS_MANAGER::LoadProject(): m_project_lock becomes a copy of the local
\* object (the class declares a destructor and so has no move constructor), the
\* previous m_project_lock is destroyed, and at the end so is the local object.
LoadProject(before, old, d, u, success) ==
    LET made == Construct(before, <<"project", d>>, u)
    IN IF success /\ made.lock.valid
       THEN After(Unlock(Unlock(made.disk, old).disk, made.lock).disk, made.lock)
       ELSE After(Unlock(made.disk, made.lock).disk, old)

\* UnloadProject(), then LoadProject() of the document's project.
SwitchProject(p, before, success) ==
    IF project[p] = target[p] THEN After(before, projectLock[p])
    ELSE LoadProject(Unlock(before, projectLock[p]).disk, NoLock, target[p], user[p], success)

\* From the last question to the load: Clear_Pcb(), whose ReleaseFile() is for
\* the board in the frame, or the schematic's screens; then the project.
Unload(p) ==
    LET cleared == IF kind[p] = "board" THEN Unlock(disk, checker[p]) ELSE After(disk, checker[p])
    IN /\ p \in live /\ pc[p] = "confirming"
       /\ \E success \in BOOLEAN :
            LET after == SwitchProject(p, cleared.disk, success)
            IN /\ disk' = after.disk
               /\ projectLock' = [projectLock EXCEPT ![p] = after.lock]
       /\ checker' = [checker EXCEPT ![p] = cleared.lock]
       /\ project' = [project EXCEPT ![p] = target[p]]
       /\ doc' = [doc EXCEPT ![p] = None]
       /\ pc' = [pc EXCEPT ![p] = "loading"]
       /\ UNCHANGED <<setting, process, opening, target, history>>

\* "Lock the file newly opened": the board editor's m_file_checker is replaced.
Loaded(p) ==
    /\ p \in live /\ pc[p] = "loading"
    /\ IF kind[p] = "board"
       THEN /\ disk' = Unlock(disk, checker[p]).disk
            /\ checker' = [checker EXCEPT ![p] = opening[p]]
            /\ opening' = [opening EXCEPT ![p] = NoLock]
       ELSE UNCHANGED <<disk, checker, opening>>
    /\ doc' = [doc EXCEPT ![p] = target[p]]
    /\ pc' = [pc EXCEPT ![p] = "idle"] /\ target' = [target EXCEPT ![p] = None]
    /\ UNCHANGED <<setting, process, settings, history>>

\* The file cannot be read: an empty document takes its place.
LoadFails(p) ==
    LET cleared == Unlock(disk, checker[p])
    IN /\ p \in live /\ pc[p] = "loading"
       /\ IF kind[p] = "board"
          THEN /\ disk' = Unlock(cleared.disk, opening[p]).disk
               /\ checker' = [checker EXCEPT ![p] = cleared.lock]
               /\ opening' = [opening EXCEPT ![p] = NoLock]
          ELSE UNCHANGED <<disk, checker, opening>>
       /\ pc' = [pc EXCEPT ![p] = "idle"] /\ target' = [target EXCEPT ![p] = None]
       /\ UNCHANGED <<setting, process, doc, settings, history>>

-----------------------------------------------------------------------------
(* The document in the frame.                                                *)

\* The end of SavePcbFile(), also when HandleUnsavedChanges() calls it, and of
\* SaveProject() when it is a Save As: LockFile(), its result not looked at.
SaveTo(p, d) ==
    LET after == Relock(p, LockOf(p, d))
    IN /\ disk' = after.disk
       /\ checker' = [checker EXCEPT ![p] = after.lock]
       /\ doc' = [doc EXCEPT ![p] = d]
       /\ NoteTaken(p, LockOf(p, d), after)
       /\ UNCHANGED <<setting, process, opening, pc, target, projectLock, died>>

SaveBoard(p) ==
    /\ p \in live /\ pc[p] \in {"idle", "confirming"}
    /\ kind[p] = "board" /\ doc[p] # None
    /\ SaveTo(p, doc[p])
    /\ UNCHANGED project

\* The project may be saved under the new name too; its lock is not.
SaveAs(p, d) ==
    /\ Idle(p) /\ doc[p] # None
    /\ SaveTo(p, d)
    /\ \/ UNCHANGED project
       \/ project' = [project EXCEPT ![p] = d]

\* ID_NEW_BOARD
NewBoard(p) ==
    LET unloaded == Unlock(disk, projectLock[p])
        cleared == Unlock(unloaded.disk, checker[p])
    IN /\ Idle(p) /\ kind[p] = "board"
       /\ disk' = cleared.disk
       /\ checker' = [checker EXCEPT ![p] = cleared.lock]
       /\ projectLock' = [projectLock EXCEPT ![p] = NoLock]
       /\ project' = [project EXCEPT ![p] = None]
       /\ doc' = [doc EXCEPT ![p] = None]
       /\ UNCHANGED <<setting, process, opening, pc, target, history>>

-----------------------------------------------------------------------------
Next ==
    \E p \in Program :
        \/ Start(p) \/ Exit(p) \/ Crash(p)
        \/ \E d \in Openable(p) : Open(p, d) \/ SaveAs(p, d)
        \/ Revert(p) \/ Refuse(p) \/ Accept(p) \/ Cancel(p)
        \/ Unload(p) \/ Loaded(p) \/ LoadFails(p)
        \/ SaveBoard(p) \/ NewBoard(p)

Spec == Init /\ [][Next]_vars

-----------------------------------------------------------------------------
(* Properties.                                                               *)

\* Nobody but p has taken a step.
Steps(p) ==
    \A q \in Program \ {p} :
        /\ q \in live <=> q \in live'
        /\ <<doc[q], checker[q], opening[q], pc[q], target[q], project[q], projectLock[q]>>'
            = <<doc[q], checker[q], opening[q], pc[q], target[q], project[q], projectLock[q]>>

\* The program that changes a lock file in which an owner is named is of that
\* owner, or its user has just agreed to "Open Anyway" (include/lockfile.h:141,
\* "as long as we still own it"; pcbnew/files.cpp:494-513): no sequence of
\* opening, reverting, saving, closing and dying removes somebody else's lock.
ForeignLockNeedsConsent ==
    [][\A f \in File : disk[f] \in User /\ disk'[f] # disk[f] =>
            \E p \in live : Steps(p) /\ (user[p] = disk[f] \/ (pc[p] = "asking" /\ LockOf(p, target[p]) = f))]_vars

\* As long as no program has died, a lock file stands for an object of a live
\* program that will remove it: nothing stale is left behind, whatever sequence
\* of opening, overriding, saving and closing led here (include/lockfile.h:141).
EveryLockHasHolder ==
    died \/ \A f \in File : disk[f] # Absent => \E p \in live : \E l \in Locks(p) : l.file = f /\ l.owner = disk[f]

\* Two schematic editors hold the lock of the same schematic only if one took
\* it from the other with OverrideLock() (common/eda_draw_frame.cpp:227: the old
\* object must be gone before the new one is made).
OnlyOverrideSharesLock ==
    \A p, q \in live : \A f \in File \ taken :
        p # q /\ kind[p] = "schematic" /\ kind[q] = "schematic"
            => ~(\E l \in Locks(p), m \in Locks(q) : l.file = f /\ m.file = f /\ f[1] = "schematic")

\* What the code does not promise, although include/settings/settings_manager.h:426
\* says "Lock for loaded project": the local LOCKFILE of LoadProject() takes the
\* file away when the function ends.
LoadedProjectLocked ==
    \A p \in live : projectLock[p].created /\ projectLock[p].file \notin taken
        => disk[projectLock[p].file] # Absent
=============================================================================
