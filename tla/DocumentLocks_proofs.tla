------------------------- MODULE DocumentLocks_proofs -------------------------
(* Theorems about DocumentLocks, for any number of programs, users and       *)
(* documents.                                                                *)
EXTENDS DocumentLocks, TLAPS

USE DEF setting, frame, settings, process, history, vars

-----------------------------------------------------------------------------
(* The invariant.                                                            *)

\* An object that created its file did so for its user, and for a file of the
\* kind.
ObjectOf(lock, u, k) ==
    /\ lock \in Object
    /\ lock.created => lock.owner = u /\ lock.file \in {k} \X Document

\* The object that AskOverrideLock() is about.
Asked(p) == IF kind[p] = "board" THEN opening[p] ELSE checker[p]

ObjectsOwned(p) ==
    /\ ObjectOf(checker[p], user[p], kind[p])
    /\ ObjectOf(opening[p], user[p], "board")
    /\ ObjectOf(projectLock[p], user[p], "project")

FrameConsistent(p) ==
    /\ p \notin live => ~checker[p].created /\ ~projectLock[p].created /\ pc[p] = "idle"
    /\ pc[p] = "idle" \/ kind[p] = "schematic" => ~opening[p].created
    /\ pc[p] # "idle" => target[p] \in Document
    /\ pc[p] = "asking" => Asked(p).file = LockOf(p, target[p]) /\ ~Asked(p).created

\* A schematic's lock file is there as long as a program has it, unless another
\* one has taken it.
SchematicLockThere ==
    \A p \in live : kind[p] = "schematic" /\ checker[p].created /\ checker[p].file \notin taken
        => disk[checker[p].file] # Absent
NotShared ==
    \A p, q \in live :
        p # q /\ kind[p] = "schematic" /\ kind[q] = "schematic" /\ checker[p].created /\ checker[q].created
            /\ checker[p].file \notin taken
        => checker[p].file # checker[q].file

LocksInv == LocksTypeOK /\ \A p \in Program : ObjectsOwned(p) /\ FrameConsistent(p)
SharingInv == SchematicLockThere /\ NotShared

-----------------------------------------------------------------------------
(* What the calls of LOCKFILE do.                                            *)

LEMMA Constants ==
    /\ None \notin User /\ None \notin Document /\ None \notin File
    /\ Absent \notin User /\ Torn \notin User
    /\ File = {"board", "schematic", "project"} \X Document
    BY LocksAssumption DEF File

LEMMA NoLockOwned == \A u, k : ObjectOf(NoLock, u, k) /\ ~NoLock.created
    BY DEF ObjectOf, NoLock, Object

LEMMA UnlockFacts ==
    ASSUME NEW d \in Disk, NEW lock, NEW u \in User, NEW k \in {"board", "schematic", "project"},
           ObjectOf(lock, u, k)
    PROVE  /\ Unlock(d, lock).disk \in Disk
           /\ \A f \in File : Unlock(d, lock).disk[f] =
                IF lock.created /\ f = lock.file /\ d[f] = u THEN Absent ELSE d[f]
           /\ ObjectOf(Unlock(d, lock).lock, u, k)
           /\ Unlock(d, lock).lock.created =>
                lock.created /\ Unlock(d, lock).lock.file = lock.file /\ d[lock.file] # u
<1> USE DEF ObjectOf, Object
<1>1. CASE lock.created /\ d[lock.file] = lock.owner
    <2>1. Unlock(d, lock) = After([d EXCEPT ![lock.file] = Absent],
                                  [lock EXCEPT !.created = FALSE, !.valid = FALSE])
        BY <1>1 DEF Unlock
    <2>2. lock.file \in File
        BY <1>1, Constants
    <2> QED
        <3>1. Unlock(d, lock).disk = [d EXCEPT ![lock.file] = Absent]
              /\ Unlock(d, lock).lock = [lock EXCEPT !.created = FALSE, !.valid = FALSE]
            BY <2>1 DEF After
        <3>2. Unlock(d, lock).disk \in Disk
              /\ \A f \in File : Unlock(d, lock).disk[f] = IF f = lock.file THEN Absent ELSE d[f]
            BY <2>2, <3>1 DEF Disk
        <3>3. ObjectOf(Unlock(d, lock).lock, u, k) /\ ~Unlock(d, lock).lock.created
            BY <3>1
        <3> QED
            BY <1>1, <3>2, <3>3
<1>2. CASE ~(lock.created /\ d[lock.file] = lock.owner)
    <2>1. Unlock(d, lock) = After(d, lock)
        BY <1>2 DEF Unlock
    <2> QED
        BY <1>2, <2>1 DEF After
<1> QED
    BY <1>1, <1>2

LEMMA ConstructFacts ==
    ASSUME NEW d \in Disk, NEW u \in User, NEW k \in {"board", "schematic", "project"},
           NEW f \in {k} \X Document
    PROVE  LET made == Construct(d, f, u)
           IN /\ made.disk \in Disk
              /\ \A g \in File : made.disk[g] = IF made.lock.created /\ g = f THEN u ELSE d[g]
              /\ ObjectOf(made.lock, u, k)
              /\ made.lock.created => made.lock.file = f /\ d[f] = Absent
              /\ ~made.lock.valid => ~made.lock.created /\ made.lock.file = f /\ made.lock.owner \in User \cup {None}
                                     /\ (made.lock.owner \in User => d[f] = made.lock.owner)
<1> USE Constants DEF ObjectOf, Object
<1>1. f \in File /\ f # None /\ d[f] \in User \cup {Absent, Torn}
    BY DEF Disk
<1>2. CASE f \in ReadOnly
    <2>1. Construct(d, f, u) = After(d, NotNeeded)
        BY <1>1, <1>2 DEF Construct
    <2> QED
        <3>1. NoLock \in Object /\ ~NoLock.created
            BY DEF NoLock
        <3>2. NotNeeded \in Object /\ ~NotNeeded.created /\ NotNeeded.valid
            BY <3>1 DEF NotNeeded
        <3> QED
            BY <2>1, <3>2 DEF After
<1>3. CASE f \notin ReadOnly /\ d[f] = Absent
    <2>1. Construct(d, f, u) = After([d EXCEPT ![f] = u], Held(f, u))
        BY <1>1, <1>3 DEF Construct, Absent, Torn
    <2> QED
        BY <1>1, <1>3, <2>1 DEF After, Held, Disk
<1>4. CASE f \notin ReadOnly /\ d[f] = Torn
    <2>1. Construct(d, f, u) = After(d, Found(f, None))
        BY <1>1, <1>4 DEF Construct, Absent, Torn
    <2> QED
        BY <1>1, <2>1 DEF After, Found
<1>5. CASE f \notin ReadOnly /\ d[f] \in User
    <2>1. Construct(d, f, u) = After(d, Found(f, d[f]))
        BY <1>1, <1>5 DEF Construct
    <2> QED
        BY <1>1, <1>5, <2>1 DEF After, Found
<1> QED
    BY <1>1, <1>2, <1>3, <1>4, <1>5

LEMMA OverrideFacts ==
    ASSUME NEW d \in Disk, NEW u \in User, NEW k \in {"board", "schematic", "project"},
           NEW lock, ObjectOf(lock, u, k), ~lock.created, lock.file \in {k} \X Document
    PROVE  LET after == Override(d, lock, u)
           IN /\ after.disk \in Disk
              /\ \A g \in File : after.disk[g] = IF g = lock.file THEN u ELSE d[g]
              /\ ObjectOf(after.lock, u, k)
              /\ after.lock.created /\ after.lock.valid /\ after.lock.file = lock.file
    BY Constants DEF Override, After, Held, ObjectOf, Object, Disk

\* Locking a document writes its file only if it was not there or was the
\* user's own.
LEMMA LockDocumentFacts ==
    ASSUME LocksTypeOK, NEW p \in Program, NEW d \in Disk, NEW k \in {"board", "schematic"},
           NEW f \in {k} \X Document
    PROVE  LET after == LockDocument(p, d, f)
           IN /\ after.disk \in Disk
              /\ \A g \in File : after.disk[g] = IF after.lock.created /\ g = f THEN user[p] ELSE d[g]
              /\ ObjectOf(after.lock, user[p], k)
              /\ after.lock.created => after.lock.file = f /\ d[f] \in {Absent, user[p]}
              /\ ~after.lock.valid => ~after.lock.created /\ after.lock.file = f
<1> DEFINE made == Construct(d, f, user[p])
<1>0. user[p] \in User
    BY DEF LocksTypeOK
<1>1. /\ made.disk \in Disk
      /\ \A g \in File : made.disk[g] = IF made.lock.created /\ g = f THEN user[p] ELSE d[g]
      /\ ObjectOf(made.lock, user[p], k)
      /\ made.lock.created => made.lock.file = f /\ d[f] = Absent
      /\ ~made.lock.valid => ~made.lock.created /\ made.lock.file = f
                             /\ (made.lock.owner \in User => d[f] = made.lock.owner)
    BY <1>0, ConstructFacts
<1>2. LockDocument(p, d, f) =
        IF ~made.lock.valid /\ made.lock.owner = user[p] /\ p \notin another
        THEN Override(made.disk, made.lock, user[p]) ELSE made
    BY DEF LockDocument
<1> HIDE DEF made
<1>3. CASE ~made.lock.valid /\ made.lock.owner = user[p] /\ p \notin another
    <2>1. LockDocument(p, d, f) = Override(made.disk, made.lock, user[p])
        BY <1>2, <1>3
    <2>2. f \in File
        BY Constants
    <2> QED
        BY <1>0, <1>1, <1>3, <2>1, <2>2, OverrideFacts
<1>4. CASE ~(~made.lock.valid /\ made.lock.owner = user[p] /\ p \notin another)
    <2>1. LockDocument(p, d, f) = made
        BY <1>2, <1>4
    <2> QED
        BY <1>1, <2>1
<1> QED
    BY <1>3, <1>4

\* Switching projects removes the lock of the one that was loaded; the new one's
\* is there and gone again.
LEMMA SwitchProjectFacts ==
    ASSUME LocksTypeOK, NEW p \in Program, ObjectsOwned(p), NEW d \in Disk, NEW success \in BOOLEAN,
           target[p] \in Document
    PROVE  LET after == SwitchProject(p, d, success)
               lock == projectLock[p]
           IN /\ after.disk \in Disk
              /\ ObjectOf(after.lock, user[p], "project")
              /\ \/ after.disk = d /\ after.lock = lock
                 \/ \A g \in File : after.disk[g] =
                        IF lock.created /\ g = lock.file /\ d[g] = user[p] THEN Absent ELSE d[g]
<1> DEFINE freed == Unlock(d, projectLock[p]).disk
           made == Construct(freed, <<"project", target[p]>>, user[p])
           kept == Unlock(Unlock(made.disk, NoLock).disk, made.lock).disk
           dropped == Unlock(made.disk, made.lock).disk
<1>0. user[p] \in User /\ ObjectOf(projectLock[p], user[p], "project")
      /\ <<"project", target[p]>> \in {"project"} \X Document
    BY DEF LocksTypeOK, ObjectsOwned
<1>1. CASE project[p] = target[p]
    BY <1>0, <1>1 DEF SwitchProject, After
<1>2. CASE project[p] # target[p]
    <2>1. freed \in Disk /\ \A g \in File : freed[g] =
                IF projectLock[p].created /\ g = projectLock[p].file /\ d[g] = user[p] THEN Absent ELSE d[g]
        BY <1>0, UnlockFacts
    <2>2. SwitchProject(p, d, success) =
            IF success /\ made.lock.valid THEN After(kept, made.lock) ELSE After(dropped, NoLock)
        BY <1>2 DEF SwitchProject, LoadProject
    <2> HIDE DEF freed
    <2>3. /\ made.disk \in Disk
          /\ \A g \in File : made.disk[g] =
                IF made.lock.created /\ g = <<"project", target[p]>> THEN user[p] ELSE freed[g]
          /\ ObjectOf(made.lock, user[p], "project")
          /\ made.lock.created => made.lock.file = <<"project", target[p]>> /\ freed[<<"project", target[p]>>] = Absent
        BY <1>0, <2>1, ConstructFacts
    <2> HIDE DEF made
    <2>4. Unlock(made.disk, NoLock).disk = made.disk
        BY NoLockOwned DEF Unlock, After
    <2>5. kept = dropped
        BY <2>4
    <2>6. dropped \in Disk /\ \A g \in File : dropped[g] =
                IF made.lock.created /\ g = made.lock.file /\ made.disk[g] = user[p] THEN Absent ELSE made.disk[g]
        <3>1. user[p] \in User /\ made.disk \in Disk /\ ObjectOf(made.lock, user[p], "project")
              /\ "project" \in {"board", "schematic", "project"}
            BY <1>0, <2>3
        <3>2. ASSUME NEW before \in Disk, NEW lock, NEW u \in User, NEW k \in {"board", "schematic", "project"},
                     ObjectOf(lock, u, k)
              PROVE  /\ Unlock(before, lock).disk \in Disk
                     /\ \A g \in File : Unlock(before, lock).disk[g] =
                            IF lock.created /\ g = lock.file /\ before[g] = u THEN Absent ELSE before[g]
            BY <3>2, UnlockFacts
        <3> HIDE DEF kept
        <3> QED
            BY <3>1, <3>2
    <2> HIDE DEF kept, dropped
    <2>7. \A g \in File : dropped[g] = freed[g]
        BY <1>0, <2>3, <2>6
    <2> QED
        BY <2>1, <2>2, <2>3, <2>5, <2>6, <2>7, NoLockOwned DEF After
<1> QED
    BY <1>1, <1>2

\* What file f holds when u's object is destroyed.
Freed(d, lock, u, f) == IF lock.created /\ f = lock.file /\ d[f] = u THEN Absent ELSE d[f]

LEMMA ReleaseFacts ==
    ASSUME LocksTypeOK, NEW p \in Program, ObjectsOwned(p), NEW d \in Disk
    PROVE  /\ Unlock(d, checker[p]).disk \in Disk
           /\ \A f \in File : Unlock(d, checker[p]).disk[f] = Freed(d, checker[p], user[p], f)
           /\ ObjectOf(Unlock(d, checker[p]).lock, user[p], kind[p])
           /\ Unlock(d, checker[p]).lock.created =>
                checker[p].created /\ Unlock(d, checker[p]).lock.file = checker[p].file /\ d[checker[p].file] # user[p]
           /\ Unlock(d, opening[p]).disk \in Disk
           /\ \A f \in File : Unlock(d, opening[p]).disk[f] = Freed(d, opening[p], user[p], f)
           /\ Unlock(d, projectLock[p]).disk \in Disk
           /\ \A f \in File : Unlock(d, projectLock[p]).disk[f] = Freed(d, projectLock[p], user[p], f)
<1>1. user[p] \in User /\ kind[p] \in {"board", "schematic", "project"}
    BY DEF LocksTypeOK
<1>2. ASSUME NEW lock, NEW k \in {"board", "schematic", "project"}, ObjectOf(lock, user[p], k)
      PROVE  /\ Unlock(d, lock).disk \in Disk
             /\ \A f \in File : Unlock(d, lock).disk[f] = Freed(d, lock, user[p], f)
             /\ ObjectOf(Unlock(d, lock).lock, user[p], k)
             /\ Unlock(d, lock).lock.created =>
                    lock.created /\ Unlock(d, lock).lock.file = lock.file /\ d[lock.file] # user[p]
    BY <1>1, <1>2, UnlockFacts DEF Freed
<1>3. "board" \in {"board", "schematic", "project"} /\ "project" \in {"board", "schematic", "project"}
    OBVIOUS
<1> QED
    BY <1>1, <1>2, <1>3 DEF ObjectsOwned

LEMMA RelockFacts ==
    ASSUME LocksTypeOK, NEW p \in Program, ObjectsOwned(p), NEW d \in Document
    PROVE  LET f == LockOf(p, d)
               after == Relock(p, f)
           IN /\ after.disk \in Disk
              /\ \A g \in File : after.disk[g] =
                    IF after.lock.created /\ g = f THEN user[p] ELSE Freed(disk, checker[p], user[p], g)
              /\ ObjectOf(after.lock, user[p], kind[p])
              /\ after.lock.created => after.lock.file = f /\ disk[f] \in {Absent, user[p]}
              /\ ~after.lock.valid => ~after.lock.created /\ after.lock.file = f
<1> DEFINE released == Unlock(disk, checker[p]).disk
<1>1. kind[p] \in {"board", "schematic"} /\ disk \in Disk
    BY DEF LocksTypeOK
<1>2. LockOf(p, d) \in {kind[p]} \X Document /\ LockOf(p, d) \in File
    BY <1>1, Constants DEF LockOf
<1>3. released \in Disk /\ \A g \in File : released[g] = Freed(disk, checker[p], user[p], g)
    BY <1>1, ReleaseFacts
<1>4. Relock(p, LockOf(p, d)) = LockDocument(p, released, LockOf(p, d))
    BY DEF Relock
<1> HIDE DEF released
<1> DEFINE after == LockDocument(p, released, LockOf(p, d))
<1>5. /\ after.disk \in Disk
      /\ \A g \in File : after.disk[g] = IF after.lock.created /\ g = LockOf(p, d) THEN user[p] ELSE released[g]
      /\ ObjectOf(after.lock, user[p], kind[p])
      /\ after.lock.created => after.lock.file = LockOf(p, d) /\ released[LockOf(p, d)] \in {Absent, user[p]}
      /\ ~after.lock.valid => ~after.lock.created /\ after.lock.file = LockOf(p, d)
    BY <1>1, <1>2, <1>3, LockDocumentFacts
<1> HIDE DEF after
<1>6. after.lock.created => disk[LockOf(p, d)] \in {Absent, user[p]}
    BY <1>2, <1>3, <1>5 DEF Freed
<1> QED
    BY <1>3, <1>4, <1>5, <1>6 DEF after

-----------------------------------------------------------------------------
(* What a program does to the lock files, and to what it knows.              *)

Owns(p, f) ==
    \/ checker[p].created /\ checker[p].file = f
    \/ opening[p].created /\ opening[p].file = f
    \/ projectLock[p].created /\ projectLock[p].file = f

Others(p) ==
    /\ kind' = kind /\ user' = user
    /\ \A q \in Program \ {p} :
        /\ q \in live <=> q \in live'
        /\ doc'[q] = doc[q] /\ checker'[q] = checker[q] /\ opening'[q] = opening[q]
        /\ pc'[q] = pc[q] /\ target'[q] = target[q]
        /\ project'[q] = project[q] /\ projectLock'[q] = projectLock[q]

\* A file is left as it is, if p had it, p still has it; or p removes its own;
\* or p writes one that was not there, its own, or the one it was asked about.
FileStep(p, f) ==
    \/ disk'[f] = disk[f] /\ (Owns(p, f) /\ disk[f] = user[p] => p \in live' /\ Owns(p, f)')
    \/ p \in live /\ disk'[f] = Absent /\ disk[f] = user[p] /\ Owns(p, f)
    \/ /\ p \in live /\ p \in live' /\ disk'[f] = user[p] /\ Owns(p, f)'
       /\ disk[f] \in {Absent, user[p]} \/ (pc[p] = "asking" /\ LockOf(p, target[p]) = f)
    \/ /\ died' /\ p \in live /\ disk'[f] \in {disk[f], Torn}
       /\ disk'[f] = disk[f] \/ disk[f] = Absent \/ (pc[p] = "asking" /\ LockOf(p, target[p]) = f)

\* A schematic editor's object is the one it had, for a file that has not
\* changed, or a new one for a file that nobody else had.
ObjectStep(p) ==
    kind[p] = "schematic" /\ p \in live' /\ checker'[p].created /\ checker'[p].file \notin taken' =>
        \/ /\ p \in live /\ checker[p].created /\ checker[p].file = checker'[p].file
           /\ disk'[checker[p].file] = disk[checker[p].file]
        \/ /\ disk'[checker'[p].file] # Absent
           /\ disk[checker'[p].file] = Absent \/ ~HeldByAnother(p, checker'[p].file)

Step(p) ==
    /\ LocksTypeOK' /\ ObjectsOwned(p)' /\ FrameConsistent(p)'
    /\ Others(p) /\ taken \subseteq taken' /\ (died => died')
    /\ \A f \in File : FileStep(p, f)
    /\ ObjectStep(p)

LEMMA InvParts ==
    ASSUME LocksInv, NEW p \in Program
    PROVE  /\ LocksTypeOK /\ ObjectsOwned(p) /\ FrameConsistent(p) /\ disk \in Disk
           /\ user[p] \in User /\ kind[p] \in {"board", "schematic"}
    BY DEF LocksInv, LocksTypeOK

LEMMA StartStep == ASSUME LocksInv, NEW p \in Program, Start(p) PROVE Step(p)
<1> USE DEF Start
<1>1. LocksTypeOK /\ ObjectsOwned(p) /\ FrameConsistent(p)
    BY InvParts
<1>2. LocksTypeOK'
    BY <1>1 DEF LocksTypeOK
<1>3. ObjectsOwned(p)' /\ FrameConsistent(p)'
    BY <1>1 DEF ObjectsOwned, FrameConsistent, Asked, LockOf
<1>4. Others(p) /\ taken' = taken /\ died' = died
    BY DEF Others
<1>5. \A f \in File : FileStep(p, f)
    BY DEF FileStep, Owns
<1>6. ObjectStep(p)
    BY <1>1 DEF ObjectStep, FrameConsistent
<1> QED
    BY <1>2, <1>3, <1>4, <1>5, <1>6 DEF Step

LEMMA ForgetFacts ==
    ASSUME LocksTypeOK, NEW p \in Program, Forget(p), user' = user, kind' = kind
    PROVE  /\ live' \subseteq Program /\ another' \subseteq Program
           /\ doc' \in [Program -> Document \cup {None}]
           /\ checker' \in [Program -> Object] /\ opening' \in [Program -> Object]
           /\ project' \in [Program -> Document \cup {None}] /\ projectLock' \in [Program -> Object]
           /\ pc' \in [Program -> {"idle", "asking", "confirming", "loading"}]
           /\ target' \in [Program -> Document \cup {None}]
           /\ ObjectsOwned(p)' /\ FrameConsistent(p)' /\ Others(p) /\ p \notin live'
<1>1. NoLock \in Object /\ ~NoLock.created
    BY NoLockOwned DEF ObjectOf
<1>2. /\ live' \subseteq Program /\ another' \subseteq Program
      /\ doc' \in [Program -> Document \cup {None}]
      /\ project' \in [Program -> Document \cup {None}]
      /\ pc' \in [Program -> {"idle", "asking", "confirming", "loading"}]
      /\ target' \in [Program -> Document \cup {None}]
    BY DEF Forget, LocksTypeOK
<1>3. checker' \in [Program -> Object] /\ opening' \in [Program -> Object] /\ projectLock' \in [Program -> Object]
    BY <1>1 DEF Forget, LocksTypeOK
<1>4. checker'[p] = NoLock /\ opening'[p] = NoLock /\ projectLock'[p] = NoLock /\ pc'[p] = "idle" /\ p \notin live'
    BY DEF Forget, LocksTypeOK
<1>5. ObjectsOwned(p)' /\ FrameConsistent(p)'
    BY <1>1, <1>4, NoLockOwned DEF ObjectsOwned, FrameConsistent
<1>6. Others(p)
    BY DEF Forget, LocksTypeOK, Others
<1> QED
    BY <1>2, <1>3, <1>4, <1>5, <1>6

LEMMA ExitStep == ASSUME LocksInv, NEW p \in Program, Exit(p) PROVE Step(p)
<1>1. LocksTypeOK /\ ObjectsOwned(p) /\ FrameConsistent(p) /\ disk \in Disk
    BY InvParts
<1>2. p \in live /\ pc[p] = "idle" /\ user' = user /\ kind' = kind /\ taken' = taken /\ died' = died /\ Forget(p)
    BY DEF Exit, Idle
<1>3. disk' \in Disk /\ \A f \in File : disk'[f] =
        Freed([g \in File |-> Freed(disk, checker[p], user[p], g)], projectLock[p], user[p], f)
    <2>1. disk' = Unlock(Unlock(disk, checker[p]).disk, projectLock[p]).disk
        BY DEF Exit
    <2>2. Unlock(disk, checker[p]).disk \in Disk
          /\ \A f \in File : Unlock(disk, checker[p]).disk[f] = Freed(disk, checker[p], user[p], f)
        BY <1>1, ReleaseFacts
    <2> QED
        BY <1>1, <2>1, <2>2, ReleaseFacts DEF Freed
<1>4. LocksTypeOK' /\ ObjectsOwned(p)' /\ FrameConsistent(p)' /\ Others(p) /\ p \notin live'
    BY <1>1, <1>2, <1>3, ForgetFacts DEF LocksTypeOK
<1>5. \A f \in File : FileStep(p, f)
    BY <1>1, <1>2, <1>3 DEF FileStep, Owns, Freed, FrameConsistent
<1> QED
    BY <1>2, <1>4, <1>5 DEF Step, ObjectStep

LEMMA CrashStep == ASSUME LocksInv, NEW p \in Program, Crash(p) PROVE Step(p)
<1>1. LocksTypeOK /\ ObjectsOwned(p) /\ FrameConsistent(p) /\ disk \in Disk
    BY InvParts
<1>2. p \in live /\ user' = user /\ kind' = kind /\ taken' = taken /\ died' = TRUE /\ Forget(p)
    BY DEF Crash
<1>3. \/ disk' = disk
      \/ \E f \in File : Writing(p, f) /\ disk' = [disk EXCEPT ![f] = Torn]
    BY DEF Crash
<1>4. disk' \in Disk /\ \A f \in File : disk'[f] = disk[f] \/ (disk'[f] = Torn /\ Writing(p, f))
    BY <1>1, <1>3 DEF Disk
<1>5. LocksTypeOK' /\ ObjectsOwned(p)' /\ FrameConsistent(p)' /\ Others(p) /\ p \notin live'
    BY <1>1, <1>2, <1>4, ForgetFacts DEF LocksTypeOK
<1>6. \A f \in File : FileStep(p, f)
    BY <1>2, <1>4 DEF FileStep, Writing
<1> QED
    BY <1>2, <1>5, <1>6 DEF Step, ObjectStep

\* What every step of p but Start, Exit and Crash leaves alone.
Stays(p) == p \in live /\ live' = live /\ another' = another /\ kind' = kind /\ user' = user /\ died' = died

\* A program that has opened or saved a document has its lock, or has not.
LEMMA RelockStep ==
    ASSUME LocksInv, NEW p \in Program, NEW d \in Document, Stays(p),
           LET after == Relock(p, LockOf(p, d))
           IN disk' = after.disk /\ checker' = [checker EXCEPT ![p] = after.lock]
              /\ NoteTaken(p, LockOf(p, d), after),
           opening' = opening, projectLock' = projectLock
    PROVE  /\ disk' \in Disk /\ checker' \in [Program -> Object] /\ taken' \subseteq File /\ taken \subseteq taken'
           /\ ObjectsOwned(p)' /\ ObjectStep(p) /\ \A f \in File : FileStep(p, f)
           /\ LET lock == Relock(p, LockOf(p, d)).lock
              IN checker'[p] = lock /\ (~lock.valid => ~lock.created /\ lock.file = LockOf(p, d))
           /\ \A q \in Program \ {p} : checker'[q] = checker[q]
<1>1. LocksTypeOK /\ ObjectsOwned(p) /\ disk \in Disk /\ user[p] \in User /\ kind[p] \in {"board", "schematic"}
    BY InvParts
<1> DEFINE after == Relock(p, LockOf(p, d))
           file == LockOf(p, d)
<1>2. /\ after.disk \in Disk
      /\ \A g \in File : after.disk[g] =
            IF after.lock.created /\ g = file THEN user[p] ELSE Freed(disk, checker[p], user[p], g)
      /\ ObjectOf(after.lock, user[p], kind[p])
      /\ after.lock.created => after.lock.file = file /\ disk[file] \in {Absent, user[p]}
      /\ ~after.lock.valid => ~after.lock.created /\ after.lock.file = file
    BY <1>1, RelockFacts
<1>3. disk' = after.disk /\ checker' = [checker EXCEPT ![p] = after.lock] /\ NoteTaken(p, file, after)
    OBVIOUS
<1>4. file \in File
    BY <1>1, Constants DEF LockOf
<1> HIDE DEF after, file
<1>5. checker'[p] = after.lock /\ \A q \in Program \ {p} : checker'[q] = checker[q]
    BY <1>1, <1>3 DEF LocksTypeOK
<1>6. checker' \in [Program -> Object]
    BY <1>1, <1>2, <1>3 DEF LocksTypeOK, ObjectOf
<1>7. taken' \subseteq File /\ taken \subseteq taken'
    BY <1>1, <1>3, <1>4 DEF NoteTaken, LocksTypeOK
<1>8. ObjectsOwned(p)'
    BY <1>1, <1>2, <1>5 DEF ObjectsOwned, Stays
<1>9. \A f \in File : FileStep(p, f)
    BY <1>1, <1>2, <1>3, <1>5 DEF FileStep, Owns, Freed, Stays
<1>10. ObjectStep(p)
    <2> SUFFICES ASSUME after.lock.created, file \notin taken'
                 PROVE  disk'[file] # Absent /\ (disk[file] = Absent \/ ~HeldByAnother(p, file))
        BY <1>2, <1>5 DEF ObjectStep
    <2> QED
        BY <1>1, <1>2, <1>3, <1>4, Constants DEF NoteTaken
<1> QED
    BY <1>2, <1>3, <1>5, <1>6, <1>7, <1>8, <1>9, <1>10 DEF after, file

LEMMA OpenSchematicStep ==
    ASSUME LocksInv, NEW p \in Program, NEW d \in Document, Stays(p), pc[p] = "idle", OpenSchematic(p, d),
           target' = [target EXCEPT ![p] = d], UNCHANGED <<doc, settings>>
    PROVE  Step(p)
<1>1. LocksTypeOK /\ ObjectsOwned(p) /\ FrameConsistent(p)
    BY InvParts
<1> DEFINE after == Relock(p, LockOf(p, d))
<1>2. /\ kind[p] = "schematic" /\ opening' = opening /\ projectLock' = projectLock
      /\ disk' = after.disk /\ checker' = [checker EXCEPT ![p] = after.lock]
      /\ pc' = [pc EXCEPT ![p] = AskOrConfirm(after.lock)] /\ NoteTaken(p, LockOf(p, d), after)
    BY DEF OpenSchematic
<1>3. /\ disk' \in Disk /\ checker' \in [Program -> Object] /\ taken' \subseteq File /\ taken \subseteq taken'
      /\ ObjectsOwned(p)' /\ ObjectStep(p) /\ \A f \in File : FileStep(p, f)
      /\ checker'[p] = after.lock /\ (~after.lock.valid => ~after.lock.created /\ after.lock.file = LockOf(p, d))
      /\ \A q \in Program \ {p} : checker'[q] = checker[q]
    BY <1>2, RelockStep
<1> HIDE DEF after
<1>4. pc'[p] = IF after.lock.valid THEN "confirming" ELSE "asking"
    BY <1>1, <1>2 DEF AskOrConfirm, LocksTypeOK
<1>5. target'[p] = d
    BY <1>1 DEF LocksTypeOK
<1>6. LocksTypeOK'
    BY <1>1, <1>2, <1>3 DEF LocksTypeOK, AskOrConfirm, Stays
<1>7. FrameConsistent(p)'
    BY <1>1, <1>2, <1>3, <1>4, <1>5 DEF FrameConsistent, Asked, LockOf, Stays
<1>8. Others(p)
    BY <1>1, <1>2, <1>3 DEF Others, Stays, LocksTypeOK
<1> QED
    BY <1>3, <1>6, <1>7, <1>8 DEF Step, Stays

LEMMA SaveToStep ==
    ASSUME LocksInv, NEW p \in Program, NEW d \in Document, p \in live, SaveTo(p, d), pc[p] # "asking",
           project' \in [Program -> Document \cup {None}], \A q \in Program \ {p} : project'[q] = project[q]
    PROVE  Step(p)
<1>1. LocksTypeOK /\ ObjectsOwned(p) /\ FrameConsistent(p)
    BY InvParts
<1>2. Stays(p) /\ opening' = opening /\ projectLock' = projectLock /\ UNCHANGED <<pc, target>>
      /\ doc' = [doc EXCEPT ![p] = d]
    BY DEF SaveTo, Stays
<1>3. /\ disk' \in Disk /\ checker' \in [Program -> Object] /\ taken' \subseteq File /\ taken \subseteq taken'
      /\ ObjectsOwned(p)' /\ ObjectStep(p) /\ \A f \in File : FileStep(p, f)
      /\ \A q \in Program \ {p} : checker'[q] = checker[q]
    BY <1>2, RelockStep DEF SaveTo
<1>4. LocksTypeOK'
    BY <1>1, <1>2, <1>3 DEF LocksTypeOK, Stays
<1>5. FrameConsistent(p)'
    BY <1>1, <1>2, <1>3 DEF FrameConsistent, Asked, LockOf, Stays
<1>6. Others(p)
    BY <1>1, <1>2, <1>3 DEF Others, Stays, LocksTypeOK
<1> QED
    BY <1>2, <1>3, <1>4, <1>5, <1>6 DEF Step, Stays

LEMMA SaveBoardStep == ASSUME LocksInv, NEW p \in Program, SaveBoard(p) PROVE Step(p)
<1>1. LocksTypeOK
    BY InvParts
<1> QED
    BY <1>1, SaveToStep DEF SaveBoard, LocksTypeOK

LEMMA SaveAsStep == ASSUME LocksInv, NEW p \in Program, NEW d \in Document, SaveAs(p, d) PROVE Step(p)
<1>1. LocksTypeOK
    BY InvParts
<1>2. project' \in [Program -> Document \cup {None}] /\ \A q \in Program \ {p} : project'[q] = project[q]
    BY <1>1 DEF SaveAs, LocksTypeOK
<1> QED
    BY <1>2, SaveToStep DEF SaveAs, Idle

\* The board editor locks the new document before the old one's lock goes;
\* before: the lock files when it does.
LEMMA OpenBoardStep ==
    ASSUME LocksInv, NEW p \in Program, NEW d \in Document, Stays(p), pc[p] = "idle",
           NEW before \in Disk, OpenBoard(p, d, before), target' = [target EXCEPT ![p] = d],
           UNCHANGED <<doc, settings>>,
           \/ before = disk /\ checker' = checker
           \/ before = Unlock(disk, checker[p]).disk
              /\ checker' = [checker EXCEPT ![p] = Unlock(disk, checker[p]).lock]
    PROVE  Step(p)
<1>1. LocksTypeOK /\ ObjectsOwned(p) /\ FrameConsistent(p) /\ disk \in Disk
      /\ user[p] \in User /\ kind[p] \in {"board", "schematic"}
    BY InvParts
<1> DEFINE after == LockDocument(p, before, LockOf(p, d))
           file == LockOf(p, d)
<1>2. /\ kind[p] = "board" /\ projectLock' = projectLock
      /\ disk' = after.disk /\ opening' = [opening EXCEPT ![p] = after.lock]
      /\ pc' = [pc EXCEPT ![p] = AskOrConfirm(after.lock)] /\ NoteTaken(p, file, after)
    BY DEF OpenBoard
<1>3. file \in File /\ file \in {"board"} \X Document
    BY <1>2, Constants DEF LockOf
<1>4. /\ after.disk \in Disk
      /\ \A g \in File : after.disk[g] = IF after.lock.created /\ g = file THEN user[p] ELSE before[g]
      /\ ObjectOf(after.lock, user[p], "board")
      /\ after.lock.created => after.lock.file = file /\ before[file] \in {Absent, user[p]}
      /\ ~after.lock.valid => ~after.lock.created /\ after.lock.file = file
    BY <1>1, <1>3, LockDocumentFacts
<1> HIDE DEF after, file
<1>5. opening'[p] = after.lock /\ target'[p] = d /\ pc'[p] = IF after.lock.valid THEN "confirming" ELSE "asking"
    BY <1>1, <1>2 DEF LocksTypeOK, AskOrConfirm
<1>6. /\ ObjectOf(checker'[p], user[p], "board") /\ \A g \in File : before[g] = disk[g] \/
            (before[g] = Absent /\ disk[g] = user[p] /\ checker[p].created /\ checker[p].file = g)
      /\ checker' \in [Program -> Object] /\ \A q \in Program \ {p} : checker'[q] = checker[q]
      /\ \A g \in File : checker[p].created /\ checker[p].file = g /\ disk[g] = user[p] /\ before[g] = disk[g]
            => checker'[p].created /\ checker'[p].file = g
    <2>1. CASE before = disk /\ checker' = checker
        BY <1>1, <1>2, <2>1 DEF ObjectsOwned, LocksTypeOK
    <2>2. CASE before = Unlock(disk, checker[p]).disk
               /\ checker' = [checker EXCEPT ![p] = Unlock(disk, checker[p]).lock]
        <3> DEFINE lock == Unlock(disk, checker[p]).lock
        <3>1. ObjectOf(lock, user[p], "board") /\ \A g \in File : before[g] = Freed(disk, checker[p], user[p], g)
            BY <1>1, <1>2, <2>2, ReleaseFacts
        <3> HIDE DEF lock
        <3>2. checker' = [checker EXCEPT ![p] = lock]
            BY <2>2 DEF lock
        <3>3. checker'[p] = lock /\ checker' \in [Program -> Object] /\ \A q \in Program \ {p} : checker'[q] = checker[q]
            BY <1>1, <3>1, <3>2 DEF LocksTypeOK, ObjectOf
        <3> QED
            BY <1>1, Constants, <3>1, <3>3 DEF Freed
    <2> QED
        BY <2>1, <2>2
<1>7. LocksTypeOK'
    <2>1. opening' \in [Program -> Object] /\ disk' \in Disk /\ taken' \subseteq File
        BY <1>1, <1>2, <1>3, <1>4 DEF LocksTypeOK, ObjectOf, NoteTaken
    <2> QED
        BY <1>1, <1>2, <1>6, <2>1 DEF LocksTypeOK, AskOrConfirm, Stays
<1>8. ObjectsOwned(p)'
    BY <1>1, <1>2, <1>4, <1>5, <1>6 DEF ObjectsOwned, Stays
<1>9. FrameConsistent(p)'
    BY <1>1, <1>2, <1>4, <1>5 DEF FrameConsistent, Asked, LockOf, Stays, file
<1>10. Others(p)
    BY <1>1, <1>2, <1>6 DEF Others, Stays, LocksTypeOK
<1>11. \A f \in File : FileStep(p, f)
    BY <1>1, <1>2, <1>3, <1>4, <1>5, <1>6 DEF FileStep, Owns, Stays, FrameConsistent
<1>12. taken \subseteq taken' /\ ObjectStep(p)
    BY <1>2 DEF NoteTaken, ObjectStep
<1> QED
    BY <1>7, <1>8, <1>9, <1>10, <1>11, <1>12 DEF Step, Stays

LEMMA OpenStep == ASSUME LocksInv, NEW p \in Program, NEW d \in Document, Open(p, d) PROVE Step(p)
<1>1. disk \in Disk /\ Stays(p) /\ pc[p] = "idle" /\ UNCHANGED <<doc, settings>>
      /\ target' = [target EXCEPT ![p] = d]
    BY InvParts DEF Open, Idle, Stays
<1>2. CASE OpenBoard(p, d, disk) /\ UNCHANGED checker
    BY <1>1, <1>2, OpenBoardStep
<1>3. CASE OpenSchematic(p, d)
    BY <1>1, <1>3, OpenSchematicStep
<1> QED
    BY <1>2, <1>3 DEF Open

LEMMA RevertStep == ASSUME LocksInv, NEW p \in Program, Revert(p) PROVE Step(p)
<1>0. LocksTypeOK /\ ObjectsOwned(p) /\ disk \in Disk
    BY InvParts
<1>1. Stays(p) /\ pc[p] = "idle" /\ UNCHANGED <<doc, settings>> /\ target' = [target EXCEPT ![p] = doc[p]]
      /\ doc[p] \in Document
    BY <1>0 DEF Revert, Idle, Stays, LocksTypeOK
<1>2. Unlock(disk, checker[p]).disk \in Disk
    BY <1>0, ReleaseFacts
<1>3. CASE OpenBoard(p, doc[p], Unlock(disk, checker[p]).disk)
           /\ checker' = [checker EXCEPT ![p] = Unlock(disk, checker[p]).lock]
    BY <1>1, <1>2, <1>3, OpenBoardStep
<1>4. CASE OpenSchematic(p, doc[p])
    BY <1>1, <1>4, OpenSchematicStep
<1> QED
    BY <1>3, <1>4 DEF Revert

LEMMA DropStep ==
    ASSUME LocksInv, NEW p \in Program, Refuse(p) \/ Cancel(p) PROVE Step(p)
<1>1. LocksTypeOK /\ ObjectsOwned(p) /\ FrameConsistent(p) /\ disk \in Disk
      /\ user[p] \in User /\ kind[p] \in {"board", "schematic"}
    BY InvParts
<1>2. /\ Stays(p) /\ taken' = taken /\ UNCHANGED <<doc, checker, settings>>
      /\ disk' = Unlock(disk, opening[p]).disk /\ opening' = [opening EXCEPT ![p] = NoLock]
      /\ pc' = [pc EXCEPT ![p] = "idle"] /\ target' = [target EXCEPT ![p] = None]
    BY DEF Refuse, Cancel, Stays
<1>3. disk' \in Disk /\ \A f \in File : disk'[f] = Freed(disk, opening[p], user[p], f)
    BY <1>1, <1>2, ReleaseFacts
<1>4. NoLock \in Object /\ ~NoLock.created /\ ObjectOf(NoLock, user[p], "board")
    BY NoLockOwned DEF ObjectOf
<1>5. opening'[p] = NoLock /\ pc'[p] = "idle" /\ opening' \in [Program -> Object]
    BY <1>1, <1>2, <1>4 DEF LocksTypeOK
<1>6. LocksTypeOK'
    BY <1>1, <1>2, <1>3, <1>5 DEF LocksTypeOK, Stays
<1>7. ObjectsOwned(p)' /\ FrameConsistent(p)'
    BY <1>1, <1>2, <1>4, <1>5 DEF ObjectsOwned, FrameConsistent, Stays
<1>8. Others(p)
    BY <1>1, <1>2 DEF Others, Stays, LocksTypeOK
<1>9. \A f \in File : FileStep(p, f)
    BY <1>1, <1>2, <1>3 DEF FileStep, Owns, Freed, Stays
<1>10. ObjectStep(p)
    BY <1>1, <1>2, <1>3, Constants DEF ObjectStep, Freed, Stays, FrameConsistent, ObjectsOwned, ObjectOf
<1> QED
    BY <1>2, <1>6, <1>7, <1>8, <1>9, <1>10 DEF Step, Stays

LEMMA AcceptStep == ASSUME LocksInv, NEW p \in Program, Accept(p) PROVE Step(p)
<1>1. LocksTypeOK /\ ObjectsOwned(p) /\ FrameConsistent(p) /\ disk \in Disk
      /\ user[p] \in User /\ kind[p] \in {"board", "schematic"}
    BY InvParts
<1> DEFINE after == Override(disk, Asked(p), user[p])
           file == LockOf(p, target[p])
<1>2. /\ Stays(p) /\ pc[p] = "asking" /\ pc' = [pc EXCEPT ![p] = "confirming"]
      /\ UNCHANGED <<doc, target, settings>>
    BY DEF Accept, Stays
<1>3. Asked(p).file = file /\ ~Asked(p).created /\ file \in {kind[p]} \X Document /\ file \in File
      /\ ObjectOf(Asked(p), user[p], kind[p])
    BY <1>1, <1>2, Constants DEF FrameConsistent, LockOf, Asked, ObjectsOwned
<1>4. /\ after.disk \in Disk
      /\ \A g \in File : after.disk[g] = IF g = file THEN user[p] ELSE disk[g]
      /\ ObjectOf(after.lock, user[p], kind[p]) /\ after.lock.created /\ after.lock.file = file
    BY <1>1, <1>3, OverrideFacts
<1>5. \/ UNCHANGED <<disk, taken, checker, opening>>
      \/ /\ disk' = after.disk /\ NoteTaken(p, file, after)
         /\ IF kind[p] = "board"
            THEN opening' = [opening EXCEPT ![p] = after.lock] /\ checker' = checker
            ELSE checker' = [checker EXCEPT ![p] = after.lock] /\ opening' = opening
    BY <1>3 DEF Accept, Asked
<1> HIDE DEF after, file
<1>6. CASE UNCHANGED <<disk, taken, checker, opening>>
    <2>1. LocksTypeOK'
        BY <1>1, <1>2, <1>6 DEF LocksTypeOK, Stays
    <2>2. ObjectsOwned(p)' /\ FrameConsistent(p)'
        BY <1>1, <1>2, <1>6 DEF ObjectsOwned, FrameConsistent, Stays, LocksTypeOK
    <2>3. Others(p)
        BY <1>1, <1>2, <1>6 DEF Others, Stays, LocksTypeOK
    <2>4. \A f \in File : FileStep(p, f)
        BY <1>2, <1>6 DEF FileStep, Owns, Stays
    <2>5. ObjectStep(p)
        BY <1>2, <1>6 DEF ObjectStep, Stays
    <2> QED
        BY <1>2, <1>6, <2>1, <2>2, <2>3, <2>4, <2>5 DEF Step, Stays
<1>7. CASE /\ disk' = after.disk /\ NoteTaken(p, file, after)
           /\ IF kind[p] = "board"
              THEN opening' = [opening EXCEPT ![p] = after.lock] /\ checker' = checker
              ELSE checker' = [checker EXCEPT ![p] = after.lock] /\ opening' = opening
    <2>0. after.lock \in Object
        BY <1>4 DEF ObjectOf
    <2>1. /\ checker' \in [Program -> Object] /\ opening' \in [Program -> Object]
          /\ \A q \in Program \ {p} : checker'[q] = checker[q] /\ opening'[q] = opening[q]
          /\ IF kind[p] = "board" THEN opening'[p] = after.lock /\ checker'[p] = checker[p]
             ELSE checker'[p] = after.lock /\ opening'[p] = opening[p]
        BY <1>1, <1>7, <2>0 DEF LocksTypeOK
    <2>2. taken' \subseteq File /\ taken \subseteq taken'
        BY <1>1, <1>3, <1>7 DEF NoteTaken, LocksTypeOK
    <2>3. LocksTypeOK'
        BY <1>1, <1>2, <1>4, <1>7, <2>1, <2>2 DEF LocksTypeOK, Stays
    <2>4. ObjectsOwned(p)'
        BY <1>1, <1>2, <1>4, <2>1 DEF ObjectsOwned, Stays
    <2>5. FrameConsistent(p)'
        BY <1>1, <1>2, <2>1 DEF FrameConsistent, Stays, LocksTypeOK
    <2>6. Others(p)
        BY <1>1, <1>2, <2>1 DEF Others, Stays, LocksTypeOK
    <2>7. \A f \in File : FileStep(p, f)
        BY <1>1, <1>2, <1>3, <1>4, <1>7, <2>1 DEF FileStep, Owns, Stays, Asked, file
    <2>8. ObjectStep(p)
        <3> SUFFICES ASSUME kind[p] = "schematic", file \notin taken'
                     PROVE  disk'[file] # Absent /\ (disk[file] = Absent \/ ~HeldByAnother(p, file))
            BY <1>4, <2>1 DEF ObjectStep
        <3> QED
            BY <1>1, <1>3, <1>4, <1>7, Constants DEF NoteTaken
    <2> QED
        BY <1>2, <2>2, <2>3, <2>4, <2>5, <2>6, <2>7, <2>8 DEF Step, Stays
<1> QED
    BY <1>5, <1>6, <1>7

LEMMA UnloadStep == ASSUME LocksInv, NEW p \in Program, Unload(p) PROVE Step(p)
<1>1. LocksTypeOK /\ ObjectsOwned(p) /\ FrameConsistent(p) /\ disk \in Disk
      /\ user[p] \in User /\ kind[p] \in {"board", "schematic"}
    BY InvParts
<1> DEFINE cleared == IF kind[p] = "board" THEN Unlock(disk, checker[p]) ELSE After(disk, checker[p])
<1>2. /\ Stays(p) /\ pc[p] = "confirming" /\ taken' = taken /\ UNCHANGED <<opening, target>>
      /\ project' = [project EXCEPT ![p] = target[p]] /\ doc' = [doc EXCEPT ![p] = None]
      /\ pc' = [pc EXCEPT ![p] = "loading"] /\ checker' = [checker EXCEPT ![p] = cleared.lock]
    BY DEF Unload, Stays
<1>3. PICK success \in BOOLEAN :
        LET after == SwitchProject(p, cleared.disk, success)
        IN disk' = after.disk /\ projectLock' = [projectLock EXCEPT ![p] = after.lock]
    BY DEF Unload
<1>4. /\ cleared.disk \in Disk /\ ObjectOf(cleared.lock, user[p], kind[p])
      /\ \/ cleared.disk = disk /\ cleared.lock = checker[p]
         \/ kind[p] = "board" /\ \A f \in File : cleared.disk[f] = Freed(disk, checker[p], user[p], f)
      /\ kind[p] = "schematic" => cleared.disk = disk /\ cleared.lock = checker[p]
    <2>1. CASE kind[p] = "board"
        BY <1>1, <2>1, ReleaseFacts
    <2>2. CASE kind[p] = "schematic"
        BY <1>1, <2>2 DEF After, ObjectsOwned
    <2> QED
        BY <1>1, <2>1, <2>2
<1>5. kind[p] = "board" => \A f \in File :
        checker[p].created /\ f = checker[p].file /\ disk[f] = user[p] => cleared.disk[f] = Absent
    BY <1>1, ReleaseFacts DEF Freed
<1> DEFINE after == SwitchProject(p, cleared.disk, success)
<1>6. disk' = after.disk /\ projectLock' = [projectLock EXCEPT ![p] = after.lock]
    BY <1>3
<1> HIDE DEF cleared
<1>7. /\ after.disk \in Disk /\ ObjectOf(after.lock, user[p], "project")
      /\ \/ after.disk = cleared.disk /\ after.lock = projectLock[p]
         \/ \A g \in File : after.disk[g] = Freed(cleared.disk, projectLock[p], user[p], g)
    <2>1. target[p] \in Document
        BY <1>1, <1>2 DEF FrameConsistent
    <2> QED
        BY <1>1, <1>4, <2>1, SwitchProjectFacts DEF Freed
<1> HIDE DEF after
<1>8. /\ checker' \in [Program -> Object] /\ projectLock' \in [Program -> Object]
      /\ checker'[p] = cleared.lock /\ projectLock'[p] = after.lock /\ pc'[p] = "loading"
    BY <1>1, <1>2, <1>4, <1>6, <1>7 DEF LocksTypeOK, ObjectOf
<1>9. LocksTypeOK'
    BY <1>1, <1>2, <1>6, <1>7, <1>8 DEF LocksTypeOK, Stays
<1>10. ObjectsOwned(p)' /\ FrameConsistent(p)'
    BY <1>1, <1>2, <1>4, <1>7, <1>8 DEF ObjectsOwned, FrameConsistent, Stays
<1>11. Others(p)
    BY <1>1, <1>2, <1>6 DEF Others, Stays, LocksTypeOK
<1>12. \A f \in File : disk'[f] = disk[f] \/ (disk'[f] = Absent /\ disk[f] = user[p] /\ Owns(p, f))
    BY <1>4, <1>6, <1>7 DEF Freed, Owns
<1>13. ASSUME NEW f \in File, disk'[f] = disk[f], Owns(p, f), disk[f] = user[p] PROVE Owns(p, f)'
    <2>1. CASE opening[p].created /\ opening[p].file = f
        BY <1>2, <2>1 DEF Owns
    <2>2. CASE checker[p].created /\ checker[p].file = f
        <3>1. user[p] # Absent
            BY <1>1, Constants
        <3>2. CASE kind[p] = "schematic"
            BY <1>4, <1>8, <2>2, <3>2 DEF Owns
        <3>3. CASE kind[p] = "board"
            BY <1>5, <1>6, <1>7, <1>13, <2>2, <3>1, <3>3 DEF Freed
        <3> QED
            BY <1>1, <3>2, <3>3
    <2>3. CASE projectLock[p].created /\ projectLock[p].file = f
        <3>1. user[p] # Absent
            BY <1>1, Constants
        <3>2. CASE after.lock = projectLock[p]
            BY <1>8, <2>3, <3>2 DEF Owns
        <3>3. CASE \A g \in File : after.disk[g] = Freed(cleared.disk, projectLock[p], user[p], g)
            BY <1>4, <1>6, <1>13, <2>3, <3>1, <3>3 DEF Freed
        <3> QED
            BY <1>7, <3>2, <3>3
    <2> QED
        BY <1>13, <2>1, <2>2, <2>3 DEF Owns
<1>14. \A f \in File : FileStep(p, f)
    BY <1>2, <1>12, <1>13 DEF FileStep, Stays
<1>15. ObjectStep(p)
    <2> SUFFICES ASSUME kind[p] = "schematic", checker[p].created
                 PROVE  disk'[checker[p].file] = disk[checker[p].file]
        BY <1>2, <1>4, <1>8 DEF ObjectStep, Stays
    <2>1. checker[p].file \in {"schematic"} \X Document /\ checker[p].file \in File
        BY <1>1, Constants DEF ObjectsOwned, ObjectOf
    <2>2. projectLock[p].created => projectLock[p].file # checker[p].file
        BY <1>1, <2>1 DEF ObjectsOwned, ObjectOf
    <2> QED
        BY <1>4, <1>6, <1>7, <2>1, <2>2 DEF Freed
<1> QED
    BY <1>2, <1>9, <1>10, <1>11, <1>14, <1>15 DEF Step, Stays

LEMMA LoadedStep == ASSUME LocksInv, NEW p \in Program, Loaded(p) PROVE Step(p)
<1>1. LocksTypeOK /\ ObjectsOwned(p) /\ FrameConsistent(p) /\ disk \in Disk
      /\ user[p] \in User /\ kind[p] \in {"board", "schematic"}
    BY InvParts
<1>2. /\ Stays(p) /\ pc[p] = "loading" /\ taken' = taken /\ UNCHANGED settings
      /\ doc' = [doc EXCEPT ![p] = target[p]]
      /\ pc' = [pc EXCEPT ![p] = "idle"] /\ target' = [target EXCEPT ![p] = None]
    BY DEF Loaded, Stays
<1>3. NoLock \in Object /\ ~NoLock.created /\ ObjectOf(NoLock, user[p], "board")
    BY NoLockOwned DEF ObjectOf
<1>4. pc'[p] = "idle" /\ target[p] \in Document
    BY <1>1, <1>2 DEF LocksTypeOK, FrameConsistent
<1>5. CASE kind[p] = "board"
    <2>1. /\ disk' = Unlock(disk, checker[p]).disk
          /\ checker' = [checker EXCEPT ![p] = opening[p]] /\ opening' = [opening EXCEPT ![p] = NoLock]
        BY <1>5 DEF Loaded
    <2>2. disk' \in Disk /\ \A f \in File : disk'[f] = Freed(disk, checker[p], user[p], f)
        BY <1>1, <2>1, ReleaseFacts
    <2>3. /\ checker' \in [Program -> Object] /\ opening' \in [Program -> Object]
          /\ checker'[p] = opening[p] /\ opening'[p] = NoLock
        BY <1>1, <1>3, <2>1 DEF LocksTypeOK
    <2>4. LocksTypeOK'
        BY <1>1, <1>2, <1>4, <2>2, <2>3 DEF LocksTypeOK, Stays
    <2>5. ObjectsOwned(p)' /\ FrameConsistent(p)'
        BY <1>1, <1>2, <1>3, <1>4, <1>5, <2>3 DEF ObjectsOwned, FrameConsistent, Stays
    <2>6. Others(p)
        BY <1>1, <1>2, <2>1 DEF Others, Stays, LocksTypeOK
    <2>7. \A f \in File : FileStep(p, f)
        BY <1>1, <1>2, <2>2, <2>3, Constants DEF FileStep, Owns, Freed, Stays
    <2> QED
        BY <1>2, <1>5, <2>4, <2>5, <2>6, <2>7 DEF Step, Stays, ObjectStep
<1>6. CASE kind[p] = "schematic"
    <2>1. UNCHANGED <<disk, checker, opening>>
        BY <1>6 DEF Loaded
    <2>2. LocksTypeOK'
        BY <1>1, <1>2, <1>4, <2>1 DEF LocksTypeOK, Stays
    <2>3. ObjectsOwned(p)' /\ FrameConsistent(p)'
        BY <1>1, <1>2, <1>4, <1>6, <2>1 DEF ObjectsOwned, FrameConsistent, Stays
    <2>4. Others(p)
        BY <1>1, <1>2, <2>1 DEF Others, Stays, LocksTypeOK
    <2>5. (\A f \in File : FileStep(p, f)) /\ ObjectStep(p)
        BY <1>2, <2>1 DEF FileStep, Owns, Stays, ObjectStep
    <2> QED
        BY <1>2, <2>2, <2>3, <2>4, <2>5 DEF Step, Stays
<1> QED
    BY <1>1, <1>5, <1>6

LEMMA LoadFailsStep == ASSUME LocksInv, NEW p \in Program, LoadFails(p) PROVE Step(p)
<1>1. LocksTypeOK /\ ObjectsOwned(p) /\ FrameConsistent(p) /\ disk \in Disk
      /\ user[p] \in User /\ kind[p] \in {"board", "schematic"}
    BY InvParts
<1>2. /\ Stays(p) /\ taken' = taken /\ UNCHANGED <<doc, settings>>
      /\ pc' = [pc EXCEPT ![p] = "idle"] /\ target' = [target EXCEPT ![p] = None]
    BY DEF LoadFails, Stays
<1>3. NoLock \in Object /\ ~NoLock.created /\ ObjectOf(NoLock, user[p], "board")
    BY NoLockOwned DEF ObjectOf
<1>4. pc'[p] = "idle"
    BY <1>1, <1>2 DEF LocksTypeOK
<1>5. CASE kind[p] = "board"
    <2> DEFINE cleared == Unlock(disk, checker[p])
    <2>1. /\ disk' = Unlock(cleared.disk, opening[p]).disk
          /\ checker' = [checker EXCEPT ![p] = cleared.lock] /\ opening' = [opening EXCEPT ![p] = NoLock]
        BY <1>5 DEF LoadFails
    <2>2. /\ cleared.disk \in Disk /\ \A f \in File : cleared.disk[f] = Freed(disk, checker[p], user[p], f)
          /\ ObjectOf(cleared.lock, user[p], kind[p])
        BY <1>1, ReleaseFacts
    <2> HIDE DEF cleared
    <2>3. disk' \in Disk /\ \A f \in File : disk'[f] = Freed(cleared.disk, opening[p], user[p], f)
        BY <1>1, <2>1, <2>2, ReleaseFacts
    <2>4. /\ checker' \in [Program -> Object] /\ opening' \in [Program -> Object]
          /\ checker'[p] = cleared.lock /\ opening'[p] = NoLock
        BY <1>1, <1>3, <2>1, <2>2 DEF LocksTypeOK, ObjectOf
    <2>5. LocksTypeOK'
        BY <1>1, <1>2, <2>3, <2>4 DEF LocksTypeOK, Stays
    <2>6. ObjectsOwned(p)' /\ FrameConsistent(p)'
        BY <1>1, <1>2, <1>3, <1>4, <2>2, <2>4 DEF ObjectsOwned, FrameConsistent, Stays
    <2>7. Others(p)
        BY <1>1, <1>2, <2>1 DEF Others, Stays, LocksTypeOK
    <2>8. \A f \in File : FileStep(p, f)
        BY <1>1, <1>2, <2>2, <2>3, <2>4, Constants DEF FileStep, Owns, Freed, Stays
    <2> QED
        BY <1>2, <1>5, <2>5, <2>6, <2>7, <2>8 DEF Step, Stays, ObjectStep
<1>6. CASE kind[p] = "schematic"
    <2>1. UNCHANGED <<disk, checker, opening>>
        BY <1>6 DEF LoadFails
    <2>2. LocksTypeOK'
        BY <1>1, <1>2, <2>1 DEF LocksTypeOK, Stays
    <2>3. ObjectsOwned(p)' /\ FrameConsistent(p)'
        BY <1>1, <1>2, <1>4, <1>6, <2>1 DEF ObjectsOwned, FrameConsistent, Stays
    <2>4. Others(p)
        BY <1>1, <1>2, <2>1 DEF Others, Stays, LocksTypeOK
    <2>5. (\A f \in File : FileStep(p, f)) /\ ObjectStep(p)
        BY <1>2, <2>1 DEF FileStep, Owns, Stays, ObjectStep
    <2> QED
        BY <1>2, <2>2, <2>3, <2>4, <2>5 DEF Step, Stays
<1> QED
    BY <1>1, <1>5, <1>6

LEMMA NewBoardStep == ASSUME LocksInv, NEW p \in Program, NewBoard(p) PROVE Step(p)
<1>1. LocksTypeOK /\ ObjectsOwned(p) /\ FrameConsistent(p) /\ disk \in Disk
      /\ user[p] \in User /\ kind[p] \in {"board", "schematic"}
    BY InvParts
<1> DEFINE unloaded == Unlock(disk, projectLock[p])
           cleared == Unlock(unloaded.disk, checker[p])
<1>2. /\ Stays(p) /\ kind[p] = "board" /\ pc[p] = "idle" /\ taken' = taken /\ UNCHANGED <<opening, pc, target>>
      /\ project' = [project EXCEPT ![p] = None] /\ doc' = [doc EXCEPT ![p] = None]
      /\ disk' = cleared.disk /\ checker' = [checker EXCEPT ![p] = cleared.lock]
      /\ projectLock' = [projectLock EXCEPT ![p] = NoLock]
    BY DEF NewBoard, Stays, Idle
<1>3. unloaded.disk \in Disk /\ \A f \in File : unloaded.disk[f] = Freed(disk, projectLock[p], user[p], f)
    BY <1>1, ReleaseFacts
<1> HIDE DEF unloaded
<1>4. /\ cleared.disk \in Disk /\ \A f \in File : cleared.disk[f] = Freed(unloaded.disk, checker[p], user[p], f)
      /\ ObjectOf(cleared.lock, user[p], kind[p])
    BY <1>1, <1>3, ReleaseFacts
<1> HIDE DEF cleared
<1>5. NoLock \in Object /\ ~NoLock.created /\ ObjectOf(NoLock, user[p], "project")
    BY NoLockOwned DEF ObjectOf
<1>6. /\ checker' \in [Program -> Object] /\ projectLock' \in [Program -> Object]
      /\ checker'[p] = cleared.lock /\ projectLock'[p] = NoLock
    BY <1>1, <1>2, <1>4, <1>5 DEF LocksTypeOK, ObjectOf
<1>7. LocksTypeOK'
    BY <1>1, <1>2, <1>4, <1>6 DEF LocksTypeOK, Stays
<1>8. ObjectsOwned(p)' /\ FrameConsistent(p)'
    BY <1>1, <1>2, <1>4, <1>5, <1>6 DEF ObjectsOwned, FrameConsistent, Stays
<1>9. Others(p)
    BY <1>1, <1>2 DEF Others, Stays, LocksTypeOK
<1>10. \A f \in File : FileStep(p, f)
    BY <1>1, <1>2, <1>3, <1>4, <1>6, Constants DEF FileStep, Owns, Freed, Stays
<1> QED
    BY <1>2, <1>7, <1>8, <1>9, <1>10 DEF Step, Stays, ObjectStep

LEMMA EveryStep ==
    ASSUME LocksInv, Next PROVE \E p \in Program : Step(p)
<1>1. PICK p \in Program :
        \/ Start(p) \/ Exit(p) \/ Crash(p)
        \/ \E d \in Openable(p) : Open(p, d) \/ SaveAs(p, d)
        \/ Revert(p) \/ Refuse(p) \/ Accept(p) \/ Cancel(p)
        \/ Unload(p) \/ Loaded(p) \/ LoadFails(p)
        \/ SaveBoard(p) \/ NewBoard(p)
    BY DEF Next
<1>2. Openable(p) \subseteq Document
    BY DEF Openable, Document
<1>3. ASSUME NEW d \in Openable(p), Open(p, d) \/ SaveAs(p, d) PROVE Step(p)
    BY <1>2, <1>3, OpenStep, SaveAsStep
<1> QED
    BY <1>1, <1>3, StartStep, ExitStep, CrashStep, RevertStep, DropStep, AcceptStep, UnloadStep,
       LoadedStep,
       LoadFailsStep, SaveBoardStep, NewBoardStep

-----------------------------------------------------------------------------
(* The invariants are inductive.                                             *)

LEMMA LocksInvInit == Init => LocksInv /\ SharingInv /\ EveryLockHasHolder
<1> SUFFICES ASSUME Init PROVE LocksInv /\ SharingInv /\ EveryLockHasHolder
    OBVIOUS
<1>1. NoLock \in Object /\ ~NoLock.created
    BY NoLockOwned DEF ObjectOf
<1>2. LocksTypeOK
    BY <1>1 DEF Init, LocksTypeOK, Disk
<1>3. \A p \in Program : ObjectsOwned(p) /\ FrameConsistent(p)
    BY <1>1, NoLockOwned DEF Init, ObjectsOwned, FrameConsistent
<1>4. SharingInv
    BY DEF Init, SharingInv, SchematicLockThere, NotShared
<1>5. EveryLockHasHolder
    BY DEF Init, EveryLockHasHolder
<1> QED
    BY <1>2, <1>3, <1>4, <1>5 DEF LocksInv

LEMMA LocksInvNext == ASSUME LocksInv, [Next]_vars PROVE LocksInv'
<1>1. CASE Next
    <2>1. PICK p \in Program : Step(p)
        BY <1>1, EveryStep
    <2>2. ASSUME NEW q \in Program \ {p} PROVE ObjectsOwned(q)' /\ FrameConsistent(q)'
        BY <2>1 DEF Step, Others, LocksInv, ObjectsOwned, FrameConsistent, Asked, LockOf
    <2> QED
        BY <2>1, <2>2 DEF Step, LocksInv
<1>2. CASE UNCHANGED vars
    <2>1. LocksTypeOK'
        BY <1>2 DEF LocksInv, LocksTypeOK
    <2>2. \A p \in Program : ObjectsOwned(p)' /\ FrameConsistent(p)'
        BY <1>2 DEF LocksInv, ObjectsOwned, FrameConsistent, Asked, LockOf
    <2> QED
        BY <2>1, <2>2 DEF LocksInv
<1> QED
    BY <1>1, <1>2

LEMMA SharingNext == ASSUME LocksInv, SharingInv, [Next]_vars PROVE SharingInv'
<1>1. CASE UNCHANGED vars
    BY <1>1 DEF SharingInv, SchematicLockThere, NotShared
<1>2. CASE Next
    <2>1. PICK p \in Program : Step(p)
        BY <1>2, EveryStep
    <2>2. LocksTypeOK /\ \A q \in Program : ObjectsOwned(q) /\ user[q] \in User
        BY InvParts
    <2>3. Others(p) /\ ObjectStep(p) /\ taken \subseteq taken' /\ \A f \in File : FileStep(p, f)
        BY <2>1 DEF Step
    \* Another schematic editor's lock is left alone.
    <2>4. ASSUME NEW q \in live \ {p}, kind[q] = "schematic", checker[q].created, checker[q].file \notin taken'
          PROVE  disk'[checker[q].file] # Absent /\ disk[checker[q].file] # Absent
        <3>1. checker[q].file \in {"schematic"} \X Document /\ checker[q].file \in File
            BY <2>2, <2>4, Constants DEF ObjectsOwned, ObjectOf, LocksTypeOK
        <3>2. disk[checker[q].file] # Absent
            BY <2>3, <2>4 DEF SharingInv, SchematicLockThere
        <3>3. ~(p \in live /\ Owns(p, checker[q].file))
            <4> SUFFICES ASSUME p \in live, Owns(p, checker[q].file) PROVE FALSE
                OBVIOUS
            <4>1. checker[p].created /\ checker[p].file = checker[q].file
                BY <2>2, <3>1 DEF Owns, ObjectsOwned, ObjectOf
            <4>2. kind[p] = "schematic"
                BY <2>2, <3>1, <4>1 DEF ObjectsOwned, ObjectOf
            <4> QED
                BY <2>3, <2>4, <4>1, <4>2 DEF SharingInv, NotShared
        <3>4. FileStep(p, checker[q].file)
            BY <2>3, <3>1
        <3>5. disk'[checker[q].file] # Absent
            BY <2>2, <3>2, <3>3, <3>4, Constants DEF FileStep, Torn, Absent
        <3> QED
            BY <3>2, <3>5
    <2>5. SchematicLockThere'
        <3> SUFFICES ASSUME NEW q \in live', (kind[q] = "schematic")', (checker[q].created)', (checker[q].file \notin taken)'
                     PROVE  disk'[checker'[q].file] # Absent
            BY DEF SchematicLockThere
        <3>1. CASE q = p
            BY <2>3, <3>1 DEF ObjectStep, Others, SharingInv, SchematicLockThere
        <3>2. CASE q # p
            <4>1. q \in Program
                BY <2>1 DEF Step, LocksTypeOK
            <4> QED
                BY <2>3, <2>4, <3>2, <4>1 DEF Others
        <3> QED
            BY <3>1, <3>2
    \* Whoever gets a lock that another one has, takes it.
    <2>6. ASSUME p \in live', NEW q \in live \ {p}, kind[p] = "schematic", kind[q] = "schematic",
                 checker'[p].created, checker[q].created, checker'[p].file \notin taken'
          PROVE  checker'[p].file # checker[q].file
        <3> SUFFICES ASSUME checker'[p].file = checker[q].file PROVE FALSE
            OBVIOUS
        <3>1. disk[checker[q].file] # Absent
            BY <2>4, <2>6
        <3>2. HeldByAnother(p, checker[q].file)
            BY <2>6 DEF HeldByAnother, Locks
        <3>3. p \in live /\ checker[p].created /\ checker[p].file = checker'[p].file
            BY <2>3, <2>6, <3>1, <3>2 DEF ObjectStep
        <3> QED
            BY <2>3, <2>6, <3>3 DEF SharingInv, NotShared
    <2>7. NotShared'
        <3> SUFFICES ASSUME NEW q \in live', NEW r \in live', q # r, kind[q] = "schematic", kind[r] = "schematic",
                            checker'[q].created, checker'[r].created, checker'[q].file \notin taken',
                            checker'[q].file = checker'[r].file
                     PROVE  FALSE
            BY <2>3 DEF NotShared, Others
        <3>1. q \in Program /\ r \in Program
            BY <2>1 DEF Step, LocksTypeOK
        <3>2. CASE q = p
            BY <2>3, <2>6, <3>1, <3>2 DEF Others
        <3>3. CASE r = p
            BY <2>3, <2>6, <3>1, <3>3 DEF Others
        <3>4. CASE q # p /\ r # p
            BY <2>3, <3>1, <3>4 DEF Others, SharingInv, NotShared
        <3> QED
            BY <3>2, <3>3, <3>4
    <2> QED
        BY <2>5, <2>7 DEF SharingInv
<1> QED
    BY <1>1, <1>2

LEMMA HolderNext == ASSUME LocksInv, EveryLockHasHolder, [Next]_vars PROVE EveryLockHasHolder'
<1>1. CASE UNCHANGED vars
    BY <1>1 DEF EveryLockHasHolder, Locks
<1>2. CASE Next
    <2>1. PICK p \in Program : Step(p)
        BY <1>2, EveryStep
    <2> SUFFICES ASSUME ~died', NEW f \in File, disk'[f] # Absent
                 PROVE  \E q \in live' : \E l \in Locks(q)' : l.file = f /\ l.owner = disk'[f]
        BY DEF EveryLockHasHolder
    <2>2. Others(p) /\ FileStep(p, f) /\ ~died /\ ObjectsOwned(p) /\ ObjectsOwned(p)'
        BY <2>1 DEF Step, LocksInv
    <2>3. ASSUME p \in live', Owns(p, f)', disk'[f] = user[p]
          PROVE  \E q \in live' : \E l \in Locks(q)' : l.file = f /\ l.owner = disk'[f]
        <3>1. user' = user
            BY <2>2 DEF Others
        <3>2. PICK l \in {checker'[p], opening'[p], projectLock'[p]} : l.created /\ l.file = f
            BY <2>3 DEF Owns
        <3>3. l.owner = disk'[f]
            BY <2>2, <2>3, <3>1, <3>2 DEF ObjectsOwned, ObjectOf
        <3> QED
            BY <2>3, <3>2, <3>3 DEF Locks
    <2>4. CASE disk'[f] = disk[f] /\ (Owns(p, f) /\ disk[f] = user[p] => p \in live' /\ Owns(p, f)')
        <3>1. PICK q \in live : \E l \in Locks(q) : l.file = f /\ l.owner = disk[f]
            BY <2>2, <2>4 DEF EveryLockHasHolder
        <3>2. CASE q = p
            <4>1. Owns(p, f) /\ disk[f] = user[p]
                BY <2>2, <3>1, <3>2 DEF Locks, Owns, ObjectsOwned, ObjectOf
            <4> QED
                BY <2>3, <2>4, <4>1
        <3>3. CASE q # p
            <4>1. q \in Program
                BY DEF LocksInv, LocksTypeOK
            <4>2. q \in live' /\ checker'[q] = checker[q] /\ opening'[q] = opening[q] /\ projectLock'[q] = projectLock[q]
                BY <2>2, <3>3, <4>1 DEF Others
            <4> QED
                BY <2>4, <3>1, <4>2 DEF Locks
        <3> QED
            BY <3>2, <3>3
    <2> QED
        BY <2>2, <2>3, <2>4 DEF FileStep
<1> QED
    BY <1>1, <1>2

LEMMA LocksInvariant == Spec => [](LocksInv /\ SharingInv /\ EveryLockHasHolder)
<1>1. LocksInv /\ SharingInv /\ EveryLockHasHolder /\ [Next]_vars
        => (LocksInv /\ SharingInv /\ EveryLockHasHolder)'
    BY LocksInvNext, SharingNext, HolderNext
<1> QED
    BY <1>1, LocksInvInit, PTL DEF Spec

-----------------------------------------------------------------------------
(* Theorems.                                                                 *)

\* Every variable keeps its type, and what LOCKFILE's calls return is an object.
THEOREM LocksTyped == Spec => []LocksTypeOK
    BY LocksInvariant, PTL DEF LocksInv

\* Unless a program has died, each lock file is one that a running program will
\* remove: opening, overriding, saving, reverting and switching projects in any
\* order leaves no stale lock behind, for any number of programs.
THEOREM NoStaleLock == Spec => []EveryLockHasHolder
    BY LocksInvariant, PTL

\* Two schematic editors have the same lock only if one took it from the other.
THEOREM LockTakenOrAlone == Spec => []OnlyOverrideSharesLock
<1>1. LocksInv /\ SharingInv => OnlyOverrideSharesLock
    <2> SUFFICES ASSUME LocksInv, SharingInv, NEW p \in live, NEW q \in live, NEW f \in File \ taken, p # q,
                        kind[p] = "schematic", kind[q] = "schematic", f[1] = "schematic",
                        NEW l \in Locks(p), NEW m \in Locks(q), l.file = f, m.file = f
                 PROVE  FALSE
        BY DEF OnlyOverrideSharesLock
    <2>1. ObjectsOwned(p) /\ FrameConsistent(p) /\ ObjectsOwned(q) /\ FrameConsistent(q)
        BY DEF LocksInv, LocksTypeOK
    <2>2. checker[p].created /\ checker[p].file = f
        BY <2>1 DEF Locks, ObjectsOwned, ObjectOf, FrameConsistent
    <2>3. checker[q].created /\ checker[q].file = f
        BY <2>1 DEF Locks, ObjectsOwned, ObjectOf, FrameConsistent
    <2> QED
        BY <2>2, <2>3 DEF SharingInv, NotShared
<1> QED
    BY <1>1, LocksInvariant, PTL

\* Nobody's lock is removed or overwritten by a program of another user, unless
\* that user has just agreed to it.
THEOREM ForeignLocksAreSafe == Spec => ForeignLockNeedsConsent
<1>1. ASSUME LocksInv, Next, NEW f \in File, disk[f] \in User, disk'[f] # disk[f]
      PROVE  \E p \in live : Steps(p) /\ (user[p] = disk[f] \/ (pc[p] = "asking" /\ LockOf(p, target[p]) = f))
    <2>1. PICK p \in Program : Step(p)
        BY <1>1, EveryStep
    <2>2. FileStep(p, f) /\ Others(p)
        BY <2>1 DEF Step
    <2>3. Steps(p)
        BY <2>2 DEF Others, Steps
    <2>4. p \in live /\ (user[p] = disk[f] \/ (pc[p] = "asking" /\ LockOf(p, target[p]) = f))
        BY <1>1, <2>2, Constants DEF FileStep
    <2> QED
        BY <2>3, <2>4
<1>2. LocksInv /\ [Next]_vars =>
        [\A f \in File : disk[f] \in User /\ disk'[f] # disk[f] =>
            \E p \in live : Steps(p) /\ (user[p] = disk[f] \/ (pc[p] = "asking" /\ LockOf(p, target[p]) = f))]_vars
    BY <1>1
<1> QED
    BY <1>2, LocksInvariant, PTL DEF Spec, ForeignLockNeedsConsent
===============================================================================
