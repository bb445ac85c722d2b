------------------------------ MODULE LockFile ------------------------------
(* LOCKFILE (include/lockfile.h): an object that creates a file beside a     *)
(* document, or finds the one another program left there.  The operators     *)
(* return the files and the object after a call; the file's two fields, user *)
(* and host name, are one owner.                                             *)

CONSTANTS
    User,           \* owners: a user name at a host
    File,           \* files that can be locked
    ReadOnly,       \* those in directories that cannot be written
    None            \* no file, no owner

\* What a lock file's place may hold.
Absent == "absent"
Torn == "torn"          \* created or truncated, and never written

Disk == [File -> User \cup {Absent, Torn}]
Object == [file : File \cup {None}, created : BOOLEAN, valid : BOOLEAN, owner : User \cup {None}]

\* An object for an empty name.
NoLock == [file |-> None, created |-> FALSE, valid |-> FALSE, owner |-> None]
\* A directory that cannot be written needs no lock.
NotNeeded == [NoLock EXCEPT !.valid = TRUE]
Held(f, u) == [file |-> f, created |-> TRUE, valid |-> TRUE, owner |-> u]
\* The owner that was read from the file; none, when it could not be parsed.
Found(f, u) == [file |-> f, created |-> FALSE, valid |-> FALSE, owner |-> u]

After(disk, lock) == [disk |-> disk, lock |-> lock]

\* Mutant: what an incomplete file says is not checked.
ConstructUnchecked(disk, f, u) ==
    CASE f = None           -> After(disk, NoLock)
      [] f \in ReadOnly     -> After(disk, NotNeeded)
      [] f \in File \ ReadOnly ->
            IF disk[f] = Absent THEN After([disk EXCEPT ![f] = u], Held(f, u))
            ELSE After(disk, Found(f, disk[f]))
\* LOCKFILE::LOCKFILE()
Construct(disk, f, u) ==
    CASE f = None           -> After(disk, NoLock)
      [] f \in ReadOnly     -> After(disk, NotNeeded)
      [] f \in File \ ReadOnly ->
            CASE disk[f] = Absent -> After([disk EXCEPT ![f] = u], Held(f, u))
              [] disk[f] = Torn   -> After(disk, Found(f, None))
              [] disk[f] \in User -> After(disk, Found(f, disk[f]))

\* LOCKFILE::UnlockFile() and the destructor: checkUserAndHost() reads the file.
\* Every caller leaves m_removeOnRelease set.
Unlock(disk, lock) ==
    IF lock.created /\ disk[lock.file] = lock.owner
    THEN After([disk EXCEPT ![lock.file] = Absent],
               [lock EXCEPT !.created = FALSE, !.valid = FALSE])
    ELSE After(disk, lock)

\* Mutant: the object does not know that the file is its own from now on.
OverrideUncreated(disk, lock, u) ==
    IF lock.created THEN After(disk, lock)
    ELSE After([disk EXCEPT ![lock.file] = u],
               [Held(lock.file, u) EXCEPT !.created = FALSE])
\* LOCKFILE::OverrideLock(), when the file opens; otherwise nothing changes.
Override(disk, lock, u) ==
    IF lock.created THEN After(disk, lock)
    ELSE After([disk EXCEPT ![lock.file] = u], Held(lock.file, u))
=============================================================================
