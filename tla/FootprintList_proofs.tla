------------------------- MODULE FootprintList_proofs -------------------------
(* Theorems about FootprintList, for any number of libraries, versions and   *)
(* threads.                                                                  *)
EXTENDS FootprintList, TLAPS

USE DEF library, reader, queues, result, vars

-----------------------------------------------------------------------------
(* The invariant.                                                            *)

\* The entries were read from versions that are there, none of them older than
\* the stamp s says.
Known(entries, s) ==
    \A i \in 1..Len(entries) :
        /\ entries[i].version <= disk[entries[i].lib]
        /\ s # None /\ entries[i].lib \in DOMAIN s => s[entries[i].lib] <= entries[i].version

CachesKnown ==
    \A l \in Lib :
        /\ cached[l].version # None => cached[l].version <= disk[l]
        /\ cached[l].stamp # None =>
            cached[l].version # None /\ cached[l].stamp <= cached[l].version

\* While its cache takes a stamp a library does not change, and what a job
\* pushes next is not older than the stamp that the list will have.
JobsKnown ==
    \A w \in Worker :
        LET l == work[w].lib
        IN /\ work[w].step = "stamp" => cached[l].version = disk[l]
           /\ work[w].step \in {"stamp", "push"} =>
                /\ cached[l].version # None
                /\ generated # None /\ l \in DOMAIN generated => generated[l] <= cached[l].version

GeneratedKnown == generated # None => \A l \in DOMAIN generated : generated[l] <= disk[l]

IdleHasNoJobs == pc = "idle" => JobsDone

\* What TypeNext needs: no cache is stamped, and no job has anything to push,
\* before the library has been loaded.
CachesLoaded == \A l \in Lib : cached[l].stamp # None => cached[l].version # None
JobsLoaded ==
    \A w \in Worker : work[w].step \in {"stamp", "push"} => cached[work[w].lib].version # None
TypeInv == FpTypeOK /\ CachesLoaded /\ JobsLoaded

FpInv ==
    /\ CachesKnown /\ JobsKnown /\ GeneratedKnown /\ IdleHasNoJobs
    /\ Known(parsed, generated) /\ Known(list, stamp)
    /\ cacheFile # None => Known(cacheFile.list, cacheFile.stamp)

-----------------------------------------------------------------------------
(* Types.                                                                    *)

LibraryType == disk \in [Lib -> Version]
               /\ cached \in [Lib -> [version : Version \cup {None}, stamp : Version \cup {None}]]
ReaderType == /\ pc \in {"idle", "fetching", "parsing"} /\ generated \in Stamp \cup {None}
              /\ reporting \in BOOLEAN /\ cancelled \in BOOLEAN
QueueType == queueIn \in Seq(Lib) /\ queueOut \in Seq(Lib) /\ parsed \in Seq(Entry)
JobType == jobs \in Nat /\ work \in [Worker -> Work] /\ errors \subseteq Lib
ResultType == list \in Seq(Entry) /\ stamp \in Stamp \cup {None} /\ cacheFile \in CacheFile \cup {None}

LEMMA TypeParts == FpTypeOK <=> LibraryType /\ ReaderType /\ QueueType /\ JobType /\ ResultType
    BY DEF FpTypeOK, LibraryType, ReaderType, QueueType, JobType, ResultType

LEMMA TypePartsNext ==
    ASSUME LibraryType', ReaderType', QueueType', JobType', ResultType' PROVE FpTypeOK'
    BY DEF FpTypeOK, LibraryType, ReaderType, QueueType, JobType, ResultType

LEMMA StampType ==
    ASSUME LibraryType, NEW libs \in {Lib} \cup {{l} : l \in Lib}
    PROVE  GenerateTimestamp(libs) \in [libs -> Version] /\ GenerateTimestamp(libs) \in Stamp
<1>1. libs \subseteq Lib
    OBVIOUS
<1>2. GenerateTimestamp(libs) \in [libs -> Version]
    BY <1>1 DEF LibraryType, GenerateTimestamp
<1> QED
    BY <1>2 DEF Stamp

\* The libraries that are read, each under one of the nicknames.
Nicknames(libs) ==
    {names \in Seq(Lib) :
        /\ \A l \in libs : \E i \in 1..Len(names) : names[i] = l
        /\ \A i, j \in 1..Len(names) : i # j => names[i] # names[j]}

LEMMA NamesType == [l \in Lib |-> l] \in Nicknames(Lib) /\ \A l \in Lib : <<l>> \in Nicknames({l})
<1> USE FootprintListAssumption
<1>1. [l \in Lib |-> l] \in Seq(Lib) /\ Len([l \in Lib |-> l]) = NLib
    BY DEF Lib
<1>2. \A l \in Lib : <<l>> \in Seq(Lib) /\ Len(<<l>>) = 1 /\ <<l>>[1] = l
    OBVIOUS
<1>3. [l \in Lib |-> l] \in Nicknames(Lib)
    BY <1>1 DEF Nicknames, Lib
<1>4. ASSUME NEW l \in Lib PROVE <<l>> \in Nicknames({l})
    BY <1>2 DEF Nicknames
<1> QED
    BY <1>3, <1>4

\* Both ways to start reading.
LEMMA Reading ==
    ASSUME ReadAll \/ ReadOne
    PROVE  \E libs \in {Lib} \cup {{l} : l \in Lib}, names \in Seq(Lib), fromCache, reports \in BOOLEAN :
                names \in Nicknames(libs) /\ Read(libs, names, fromCache, reports)
<1>1. CASE ReadAll
    BY <1>1, NamesType DEF ReadAll
<1>2. CASE ReadOne
    <2>1. PICK l \in Lib : Read({l}, <<l>>, TRUE, FALSE)
        BY <1>2 DEF ReadOne
    <2> QED
        <3>1. <<l>> \in Seq(Lib)
            OBVIOUS
        <3> QED
            BY <2>1, <3>1, NamesType
<1> QED
    BY <1>1, <1>2

LEMMA FileType ==
    ASSUME ResultType
    PROVE  Trusted(cacheFile) \in Stamp \cup {None} /\ Listed(cacheFile) \in Seq(Entry)
    BY DEF ResultType, CacheFile, Trusted, Listed

LEMMA SortType ==
    ASSUME NEW entries \in Seq(Entry), NEW order \in Orders(entries)
    PROVE  /\ [i \in 1..Len(entries) |-> entries[order[i]]] \in Seq(Entry)
           /\ \A i \in 1..Len(entries) : order[i] \in 1..Len(entries)
<1> USE DEF Orders, Bijection, Injection
<1>1. order \in [1..Len(entries) -> 1..Len(entries)]
    OBVIOUS
<1>2. \A i \in 1..Len(entries) : entries[order[i]] \in Entry
    BY <1>1
<1> QED
    BY <1>1, <1>2

LEMMA EmptyType == << >> \in Seq(Lib) /\ << >> \in Seq(Entry)
    OBVIOUS

LEMMA TypeInit == Init => FpTypeOK
<1> SUFFICES ASSUME Init PROVE LibraryType /\ ReaderType /\ QueueType /\ JobType /\ ResultType
    BY TypeParts
<1> USE FootprintListAssumption
<1>1. LibraryType
    BY DEF Init, LibraryType, Version, NoCache
<1>2. ReaderType
    BY DEF Init, ReaderType
<1>3. QueueType
    BY EmptyType, Zenon DEF Init, QueueType
<1>4. ResultType
    BY EmptyType DEF Init, ResultType
<1>5. JobType
    BY DEF Init, JobType, NoWork, Work, Lib
<1> QED
    BY <1>1, <1>2, <1>3, <1>4, <1>5

LEMMA LibraryTypeNext == ASSUME FpTypeOK, [Next]_vars PROVE LibraryType'
<1> USE FootprintListAssumption
<1>0. LibraryType /\ JobType
    BY TypeParts
<1>1. CASE UNCHANGED library
    BY <1>0, <1>1 DEF LibraryType
<1>2. ASSUME NEW w \in Worker, ValidateCache(w) PROVE LibraryType'
    <2>1. disk' = disk /\ work[w].lib \in Lib
        BY <1>0, <1>2 DEF ValidateCache, JobType, Work
    <2>2. cached' = cached
          \/ cached' = [cached EXCEPT ![work[w].lib].version = disk[work[w].lib]]
        BY <1>2 DEF ValidateCache
    <2> QED
        BY <1>0, <2>1, <2>2 DEF LibraryType
<1>3. ASSUME NEW w \in Worker, StampCache(w) PROVE LibraryType'
    BY <1>0, <1>3 DEF StampCache, LibraryType, JobType, Work
<1>4. CASE Restart
    BY <1>0, <1>4 DEF Restart, LibraryType, NoCache
<1>5. ASSUME NEW l \in Lib, EditLibrary(l) PROVE LibraryType'
    BY <1>0, <1>5 DEF EditLibrary, LibraryType, Version
<1>6. CASE ReadAll \/ ReadOne
    BY <1>1, <1>6 DEF ReadAll, ReadOne, Read
<1> QED
    BY <1>1, <1>2, <1>3, <1>4, <1>5, <1>6
    DEF Next, Wait, Job, Cancel, StartParsing, EndCancelled, EndRead, StartJob, FetchFails, Fetch,
        PushFootprints, DisplayErrors, OpenBoard, WriteCache

LEMMA ReaderTypeNext == ASSUME FpTypeOK, [Next]_vars PROVE ReaderType'
<1>0. LibraryType /\ ReaderType
    BY TypeParts
<1>1. CASE UNCHANGED reader
    BY <1>0, <1>1 DEF ReaderType
<1>2. CASE ReadAll \/ ReadOne
    <2>1. PICK libs \in {Lib} \cup {{l} : l \in Lib}, names \in Seq(Lib), fromCache, reports \in BOOLEAN :
                names \in Nicknames(libs) /\ Read(libs, names, fromCache, reports)
        BY <1>2, Reading
    <2> QED
        BY <1>0, <2>1, StampType DEF Read, ReaderType
<1>3. CASE Cancel \/ Wait \/ Restart
    BY <1>0, <1>3 DEF Cancel, Wait, StartParsing, EndCancelled, EndRead, Restart, ReaderType
<1> QED
    BY <1>1, <1>2, <1>3
    DEF Next, Job, StartJob, FetchFails, Fetch, ValidateCache, StampCache,
        PushFootprints, DisplayErrors, OpenBoard, WriteCache, EditLibrary

LEMMA QueueTypeNext == ASSUME FpTypeOK, JobsLoaded, [Next]_vars PROVE QueueType'
<1>0. LibraryType /\ QueueType /\ JobType
    BY TypeParts
<1>1. CASE UNCHANGED <<queueIn, queueOut, parsed>>
    BY <1>0, <1>1 DEF QueueType
<1>2. CASE ReadAll \/ ReadOne
    <2>1. PICK libs \in {Lib} \cup {{l} : l \in Lib}, names \in Seq(Lib), fromCache, reports \in BOOLEAN :
                names \in Nicknames(libs) /\ Read(libs, names, fromCache, reports)
        BY <1>2, Reading
    <2> SUFFICES ASSUME ~UNCHANGED <<queueIn, queueOut, parsed>> PROVE QueueType'
        BY <1>1
    <2>2. queueIn' = names /\ queueOut' = << >> /\ parsed' = << >>
        BY <2>1 DEF Read
    <2> QED
        BY <2>2, EmptyType, Zenon DEF QueueType, Nicknames
<1>3. CASE EndRead
    BY <1>0, <1>3, EmptyType, Zenon DEF EndRead, QueueType
<1>3a. CASE Restart
    BY <1>3a, EmptyType, Zenon DEF Restart, QueueType
<1>4. ASSUME NEW w \in Worker, StartJob(w) PROVE QueueType'
    <2>1. \A q \in Seq(Lib) : q # << >> => Tail(q) \in Seq(Lib)
        OBVIOUS
    <2>2. queueIn' \in Seq(Lib)
        BY <1>0, <1>4, <2>1 DEF StartJob, QueueType
    <2>3. queueOut' \in Seq(Lib)
        BY <1>0, <1>4, <2>1 DEF StartJob, QueueType
    <2> QED
        BY <1>0, <1>4, <2>2, <2>3, Zenon DEF StartJob, QueueType
<1>5. ASSUME NEW w \in Worker, Fetch(w) PROVE QueueType'
    BY <1>0, <1>5 DEF Fetch, QueueType, JobType, Work
<1>6. ASSUME NEW w \in Worker, PushFootprints(w) PROVE QueueType'
    <2>1. [lib |-> work[w].lib, version |-> cached[work[w].lib].version] \in Entry
        BY <1>0, <1>6 DEF PushFootprints, JobsLoaded, LibraryType, JobType, Work, Entry
    <2> QED
        BY <1>0, <1>6, <2>1 DEF PushFootprints, QueueType
<1> QED
    BY <1>1, <1>2, <1>3, <1>3a, <1>4, <1>5, <1>6
    DEF Next, Wait, Job, Cancel, StartParsing, EndCancelled, FetchFails, ValidateCache, StampCache,
        DisplayErrors, OpenBoard, WriteCache, EditLibrary

LEMMA JobTypeNext == ASSUME FpTypeOK, [Next]_vars PROVE JobType'
<1> USE FootprintListAssumption
<1>0. QueueType /\ JobType
    BY TypeParts
<1>1. CASE UNCHANGED <<jobs, work, errors>>
    BY <1>0, <1>1 DEF JobType
<1>2. CASE ReadAll \/ ReadOne
    <2>1. PICK libs \in {Lib} \cup {{l} : l \in Lib}, names \in Seq(Lib), fromCache, reports \in BOOLEAN :
                names \in Nicknames(libs) /\ Read(libs, names, fromCache, reports)
        BY <1>2, Reading
    <2> QED
        BY <1>0, <2>1 DEF Read, JobType, Nicknames
<1>3. CASE StartParsing \/ DisplayErrors
    BY <1>0, <1>3 DEF StartParsing, DisplayErrors, JobType, QueueType
<1>4. CASE Restart
    BY <1>4 DEF Restart, JobType, NoWork, Work, Lib
<1>5. ASSUME NEW w \in Worker, Job(w) PROVE JobType'
    <2> USE DEF EndJob, NoWork, Work, Lib, JobType
    <2>1. CASE StartJob(w)
        <3>1. \A q \in Seq(Lib) : q # << >> => Head(q) \in Lib
            OBVIOUS
        <3>2. work' = work \/ \E step \in {"fetch", "parse"}, l \in Lib :
                    work' = [work EXCEPT ![w] = [step |-> step, lib |-> l]]
            BY <1>0, <2>1, <3>1 DEF StartJob, QueueType
        <3>3. work' \in [Worker -> Work]
            BY <1>0, <3>2
        <3> QED
            BY <1>0, <2>1, <3>3 DEF StartJob
    <2>2. CASE FetchFails(w)
        <3>1. work[w].lib \in Lib
            BY <1>0
        <3>2. work' \in [Worker -> Work]
            BY <1>0, <2>2 DEF FetchFails
        <3> QED
            BY <1>0, <2>2, <3>1, <3>2 DEF FetchFails
    <2>3. CASE Fetch(w)
        BY <1>0, <2>3 DEF Fetch
    <2>4. CASE ValidateCache(w)
        BY <1>0, <2>4 DEF ValidateCache
    <2>5. CASE StampCache(w)
        BY <1>0, <2>5 DEF StampCache
    <2>6. CASE PushFootprints(w)
        BY <1>0, <2>6 DEF PushFootprints
    <2> QED
        BY <1>5, <2>1, <2>2, <2>3, <2>4, <2>5, <2>6 DEF Job
<1> QED
    BY <1>1, <1>2, <1>3, <1>4, <1>5
    DEF Next, Wait, Cancel, EndCancelled, EndRead, OpenBoard, WriteCache, EditLibrary

LEMMA ResultTypeNext == ASSUME FpTypeOK, [Next]_vars PROVE ResultType'
<1>0. ReaderType /\ QueueType /\ ResultType
    BY TypeParts
<1>1. CASE UNCHANGED <<list, stamp, cacheFile>>
    BY <1>0, <1>1 DEF ResultType
<1>2. CASE ReadAll \/ ReadOne
    <2>1. PICK libs \in {Lib} \cup {{l} : l \in Lib}, names \in Seq(Lib), fromCache, reports \in BOOLEAN :
                names \in Nicknames(libs) /\ Read(libs, names, fromCache, reports)
        BY <1>2, Reading
    <2> QED
        BY <1>0, <2>1, FileType, EmptyType, Zenon DEF Read, ResultType
<1>3. CASE EndCancelled \/ OpenBoard \/ Restart
    BY <1>0, <1>3, FileType, EmptyType, Zenon DEF EndCancelled, OpenBoard, Restart, ResultType
<1>4. CASE EndRead
    <2>1. PICK order \in Orders(parsed) : list' = [i \in 1..Len(parsed) |-> parsed[order[i]]]
        BY <1>4 DEF EndRead
    <2>2. list' \in Seq(Entry)
        BY <1>0, <2>1, SortType DEF QueueType
    <2> QED
        BY <1>0, <1>4, <2>2 DEF EndRead, ReaderType, ResultType
<1>5. CASE WriteCache
    BY <1>0, <1>5 DEF WriteCache, ResultType, CacheFile
<1> QED
    BY <1>1, <1>2, <1>3, <1>4, <1>5
    DEF Next, Wait, Job, Cancel, StartParsing, StartJob, FetchFails, Fetch, ValidateCache, StampCache,
        PushFootprints, DisplayErrors, EditLibrary

LEMMA LoadedNext ==
    ASSUME TypeInv, [Next]_vars PROVE CachesLoaded' /\ JobsLoaded'
<1> USE FootprintListAssumption DEF CachesLoaded, JobsLoaded
<1>0. LibraryType /\ JobType /\ CachesLoaded /\ JobsLoaded
    BY TypeParts DEF TypeInv
<1>1. CASE UNCHANGED <<cached, work>>
    BY <1>0, <1>1
<1>2. CASE ReadAll \/ ReadOne
    BY <1>0, <1>2 DEF ReadAll, ReadOne, Read
<1>3. CASE Restart
    BY <1>3 DEF Restart, NoCache, NoWork
<1>4. ASSUME NEW w \in Worker, Job(w) PROVE CachesLoaded' /\ JobsLoaded'
    <2> USE <1>0 DEF JobType, Work
    <2>1. CASE StartJob(w)
        <3>1. UNCHANGED cached
              /\ \A v \in Worker : work'[v] = work[v] \/ work'[v].step \in {"fetch", "parse"}
            BY <2>1 DEF StartJob
        <3> QED
            BY <3>1
    <2>2. CASE FetchFails(w) \/ Fetch(w) \/ PushFootprints(w)
        BY <2>2 DEF FetchFails, Fetch, PushFootprints, EndJob, NoWork
    <2>3. CASE ValidateCache(w)
        <3>1. /\ work[w].lib \in Lib /\ work'[w].lib = work[w].lib
              /\ \A v \in Worker : v # w => work'[v] = work[v]
            BY <2>3 DEF ValidateCache
        <3>2. CASE cached[work[w].lib].stamp = disk[work[w].lib]
            BY <2>3, <3>1, <3>2 DEF ValidateCache, LibraryType, Version
        <3>3. CASE cached[work[w].lib].stamp # disk[work[w].lib]
            <4>1. cached' = [cached EXCEPT ![work[w].lib].version = disk[work[w].lib]]
                BY <2>3, <3>3 DEF ValidateCache
            <4>2. disk[work[w].lib] # None
                BY <3>1 DEF LibraryType
            <4>3. \A l \in Lib : cached'[l].stamp = cached[l].stamp
                                /\ (cached[l].version # None => cached'[l].version # None)
                BY <4>1, <4>2 DEF LibraryType
            <4>4. cached'[work[w].lib].version # None
                BY <3>1, <4>1, <4>2 DEF LibraryType
            <4>5. CachesLoaded'
                BY <4>3
            <4>6. JobsLoaded'
                <5> SUFFICES ASSUME NEW v \in Worker, work'[v].step \in {"stamp", "push"}
                             PROVE  cached'[work'[v].lib].version # None
                    OBVIOUS
                <5>1. CASE v = w
                    BY <3>1, <4>4, <5>1
                <5>2. CASE v # w
                    <6>1. work'[v] = work[v] /\ work[v].lib \in Lib
                        BY <3>1, <5>2
                    <6> QED
                        BY <4>3, <6>1
                <5> QED
                    BY <5>1, <5>2
            <4> QED
                BY <4>5, <4>6
        <3> QED
            BY <3>2, <3>3
    <2>4. CASE StampCache(w)
        BY <2>4 DEF StampCache, LibraryType
    <2> QED
        BY <1>4, <2>1, <2>2, <2>3, <2>4 DEF Job
<1> QED
    BY <1>1, <1>2, <1>3, <1>4
    DEF Next, Wait, Cancel, StartParsing, EndCancelled, EndRead, DisplayErrors, OpenBoard, WriteCache,
        EditLibrary

LEMMA TypeNext == ASSUME TypeInv, [Next]_vars PROVE TypeInv'
    BY TypePartsNext, LibraryTypeNext, ReaderTypeNext, QueueTypeNext, JobTypeNext, ResultTypeNext,
       LoadedNext DEF TypeInv

LEMMA TypeInvariant == Spec => []TypeInv
<1>1. Init => TypeInv
    BY TypeInit DEF Init, TypeInv, CachesLoaded, JobsLoaded, NoCache, NoWork
<1>2. TypeInv /\ [Next]_vars => TypeInv'
    BY TypeNext
<1> QED
    BY <1>1, <1>2, PTL DEF Spec

-----------------------------------------------------------------------------
(* The invariant is inductive.                                               *)

\* No library changes between its load and the stamp its cache takes.
NoRacing == RacingStamps = FALSE

LEMMA InvInit == Init => FpInv
<1> SUFFICES ASSUME Init PROVE FpInv
    OBVIOUS
<1>1. CachesKnown
    BY DEF Init, CachesKnown, NoCache
<1>2. JobsKnown
    BY DEF Init, JobsKnown, NoWork
<1>3. GeneratedKnown /\ IdleHasNoJobs
    BY DEF Init, GeneratedKnown, IdleHasNoJobs, JobsDone
<1>4. Known(parsed, generated) /\ Known(list, stamp)
    BY DEF Init, Known
<1> QED
    BY <1>1, <1>2, <1>3, <1>4 DEF FpInv, Init

LEMMA CachesNext ==
    ASSUME FpTypeOK, CachesKnown, JobsKnown, [Next]_vars PROVE CachesKnown'
<1> USE FootprintListAssumption
<1>0. LibraryType /\ JobType
    BY TypeParts
<1>1. CASE UNCHANGED library
    BY <1>1 DEF CachesKnown
<1>2. ASSUME NEW w \in Worker, ValidateCache(w) PROVE CachesKnown'
    BY <1>0, <1>2 DEF ValidateCache, LibraryType, JobType, Work, CachesKnown, Version
<1>3. ASSUME NEW w \in Worker, StampCache(w) PROVE CachesKnown'
    BY <1>0, <1>3 DEF StampCache, LibraryType, JobType, Work, CachesKnown, JobsKnown, Version
<1>4. CASE Restart
    BY <1>4 DEF Restart, NoCache, CachesKnown
<1>5. ASSUME NEW l \in Lib, EditLibrary(l) PROVE CachesKnown'
    BY <1>0, <1>5 DEF EditLibrary, LibraryType, CachesKnown, Version
<1>6. CASE ReadAll \/ ReadOne
    BY <1>1, <1>6 DEF ReadAll, ReadOne, Read
<1> QED
    BY <1>1, <1>2, <1>3, <1>4, <1>5, <1>6
    DEF Next, Wait, Job, Cancel, StartParsing, EndCancelled, EndRead, StartJob, FetchFails, Fetch,
        PushFootprints, DisplayErrors, OpenBoard, WriteCache

LEMMA GeneratedNext ==
    ASSUME FpTypeOK, GeneratedKnown, [Next]_vars PROVE GeneratedKnown'
<1>0. LibraryType /\ ReaderType
    BY TypeParts
<1>1. CASE UNCHANGED <<disk, generated>>
    BY <1>1 DEF GeneratedKnown
<1>2. CASE ReadAll \/ ReadOne
    <2>1. PICK libs \in {Lib} \cup {{l} : l \in Lib}, names \in Seq(Lib), fromCache, reports \in BOOLEAN :
                names \in Nicknames(libs) /\ Read(libs, names, fromCache, reports)
        BY <1>2, Reading
    <2>2. CASE generated' = GenerateTimestamp(libs) /\ UNCHANGED disk
        <3>1. \A l \in libs : l \in Lib
            OBVIOUS
        <3> QED
            BY <1>0, <2>2, <3>1 DEF GeneratedKnown, GenerateTimestamp, LibraryType, Version
    <2> QED
        BY <1>1, <2>1, <2>2 DEF Read
<1>3. CASE Restart
    BY <1>3 DEF Restart, GeneratedKnown
<1>4. ASSUME NEW l \in Lib, EditLibrary(l) PROVE GeneratedKnown'
    <2>1. generated # None => \A k \in DOMAIN generated : k \in Lib /\ generated[k] \in Nat
        BY <1>0 DEF ReaderType, Stamp, Version
    <2> QED
        BY <1>0, <1>4, <2>1 DEF EditLibrary, GeneratedKnown, LibraryType, Version
<1> QED
    BY <1>1, <1>2, <1>3, <1>4
    DEF Next, Wait, Job, Cancel, StartParsing, EndCancelled, EndRead, StartJob, FetchFails, Fetch,
        ValidateCache, StampCache, PushFootprints, DisplayErrors, OpenBoard, WriteCache

LEMMA IdleNext == ASSUME FpTypeOK, IdleHasNoJobs, [Next]_vars PROVE IdleHasNoJobs'
<1> USE DEF IdleHasNoJobs, JobsDone
<1>0. JobType
    BY TypeParts
<1>1. CASE UNCHANGED <<pc, jobs, work>>
    BY <1>1
<1>2. CASE ReadAll \/ ReadOne
    BY <1>2 DEF ReadAll, ReadOne, Read
<1>3. CASE Wait
    BY <1>3 DEF Wait, StartParsing, EndCancelled, EndRead
<1>4. CASE Restart
    BY <1>4 DEF Restart
<1>5. ASSUME NEW w \in Worker, Job(w) PROVE IdleHasNoJobs'
    <2>1. pc # "idle"
        BY <1>5 DEF Job, StartJob, FetchFails, Fetch, ValidateCache, StampCache, PushFootprints, NoWork
    <2> QED
        BY <1>5, <2>1 DEF Job, StartJob, FetchFails, Fetch, ValidateCache, StampCache, PushFootprints
<1> QED
    BY <1>1, <1>2, <1>3, <1>4, <1>5
    DEF Next, Cancel, DisplayErrors, OpenBoard, WriteCache, EditLibrary

LEMMA JobsNext ==
    ASSUME NoRacing, FpTypeOK, FpInv, [Next]_vars PROVE JobsKnown'
<1> USE FootprintListAssumption DEF JobsKnown
<1>0. LibraryType /\ ReaderType /\ JobType /\ CachesKnown /\ JobsKnown /\ GeneratedKnown /\ IdleHasNoJobs
    BY TypeParts DEF FpInv
<1>1. CASE UNCHANGED <<disk, cached, generated, work>>
    BY <1>0, <1>1
<1>2. CASE ReadAll \/ ReadOne
    <2>1. \A w \in Worker : work[w].step = "none" /\ work' = work
        <3>1. pc = "idle" /\ work' = work
            BY <1>2 DEF ReadAll, ReadOne, Read
        <3> QED
            BY <1>0, <3>1 DEF IdleHasNoJobs, JobsDone, NoWork
    <2> QED
        BY <2>1
<1>3. CASE Restart
    BY <1>3 DEF Restart, NoWork
<1>4. ASSUME NEW w \in Worker, Job(w) PROVE JobsKnown'
    <2> USE <1>0 DEF JobType, Work
    <2>1. CASE StartJob(w)
        <3>1. UNCHANGED <<disk, cached, generated>>
              /\ \A v \in Worker : work'[v] = work[v] \/ work'[v].step \in {"fetch", "parse"}
            BY <2>1 DEF StartJob
        <3> QED
            BY <3>1
    <2>2. CASE FetchFails(w) \/ Fetch(w) \/ PushFootprints(w)
        BY <2>2 DEF FetchFails, Fetch, PushFootprints, EndJob, NoWork
    <2>3. CASE ValidateCache(w)
        <3>1. generated # None => \A k \in DOMAIN generated : k \in Lib /\ generated[k] \in Nat
            BY DEF ReaderType, Stamp, Version
        <3>2. \A v \in Worker : v # w => work'[v] = work[v]
            BY <2>3 DEF ValidateCache
        <3>3. work'[w].lib = work[w].lib /\ work[w].lib \in Lib /\ work'[w].step \in {"stamp", "push"}
            BY <2>3 DEF ValidateCache
        <3>4. UNCHANGED <<disk, generated>>
            BY <2>3 DEF ValidateCache
        <3>5. CASE cached[work[w].lib].stamp = disk[work[w].lib]
            BY <2>3, <3>1, <3>2, <3>3, <3>4, <3>5
            DEF ValidateCache, CachesKnown, GeneratedKnown, LibraryType, Version
        <3>6. CASE cached[work[w].lib].stamp # disk[work[w].lib]
            BY <2>3, <3>1, <3>2, <3>3, <3>4, <3>6
            DEF ValidateCache, CachesKnown, GeneratedKnown, LibraryType, Version
        <3> QED
            BY <3>5, <3>6
    <2>4. CASE StampCache(w)
        BY <2>4 DEF StampCache, LibraryType
    <2> QED
        BY <1>4, <2>1, <2>2, <2>3, <2>4 DEF Job
<1>5. ASSUME NEW l \in Lib, EditLibrary(l) PROVE JobsKnown'
    BY <1>0, <1>5 DEF EditLibrary, NoRacing, JobType, Work, LibraryType
<1> QED
    BY <1>1, <1>2, <1>3, <1>4, <1>5
    DEF Next, Wait, Cancel, StartParsing, EndCancelled, EndRead, DisplayErrors, OpenBoard, WriteCache

LEMMA EntriesType ==
    ASSUME NEW entries \in Seq(Entry), NEW i \in 1..Len(entries)
    PROVE  entries[i].lib \in Lib /\ entries[i].version \in Version /\ entries[i].version \in Nat
<1>1. entries[i] \in Entry
    OBVIOUS
<1> QED
    BY <1>1, FootprintListAssumption DEF Entry, Version

LEMMA ParsedNext ==
    ASSUME FpTypeOK, FpInv, [Next]_vars PROVE Known(parsed, generated)'
<1> USE FootprintListAssumption DEF Known
<1>0. LibraryType /\ ReaderType /\ QueueType /\ JobType /\ CachesKnown /\ JobsKnown /\ Known(parsed, generated)
    BY TypeParts DEF FpInv
<1>1. CASE UNCHANGED <<disk, generated, parsed>>
    BY <1>0, <1>1
<1>2. CASE parsed' = << >>
    BY <1>2
<1>3. ASSUME NEW w \in Worker, PushFootprints(w) PROVE Known(parsed, generated)'
    <2>1. work[w].lib \in Lib /\ cached[work[w].lib].version \in Version
        BY <1>0, <1>3 DEF PushFootprints, JobType, Work, JobsKnown, LibraryType
    <2>2. \A i \in 1..Len(parsed') :
            parsed'[i] = IF i \in 1..Len(parsed) THEN parsed[i]
                         ELSE [lib |-> work[w].lib, version |-> cached[work[w].lib].version]
        BY <1>0, <1>3 DEF PushFootprints, QueueType
    <2> QED
        BY <1>0, <1>3, <2>1, <2>2 DEF PushFootprints, JobsKnown, CachesKnown, LibraryType
<1>4. ASSUME NEW l \in Lib, EditLibrary(l) PROVE Known(parsed, generated)'
    <2>1. \A i \in 1..Len(parsed) : parsed[i].lib \in Lib /\ parsed[i].version \in Nat
        BY <1>0, EntriesType DEF QueueType
    <2> QED
        BY <1>0, <1>4, <2>1 DEF EditLibrary, LibraryType, Version
<1>5. CASE ReadAll \/ ReadOne
    BY <1>1, <1>2, <1>5 DEF ReadAll, ReadOne, Read
<1> QED
    BY <1>1, <1>2, <1>3, <1>4, <1>5
    DEF Next, Wait, Job, Cancel, StartParsing, EndCancelled, EndRead, StartJob, FetchFails, Fetch,
        ValidateCache, StampCache, DisplayErrors, OpenBoard, WriteCache, Restart

FileKnown == cacheFile # None => Known(cacheFile.list, cacheFile.stamp)

LEMMA ListNext ==
    ASSUME FpTypeOK, FpInv, [Next]_vars PROVE Known(list, stamp)' /\ FileKnown'
<1> USE FootprintListAssumption DEF FileKnown
<1>0. /\ LibraryType /\ ReaderType /\ QueueType /\ ResultType
      /\ Known(parsed, generated) /\ Known(list, stamp) /\ FileKnown
    BY TypeParts DEF FpInv
<1>1. CASE UNCHANGED <<disk, list, stamp, cacheFile>>
    BY <1>0, <1>1 DEF Known
<1>2. CASE UNCHANGED <<disk, cacheFile>> /\ list' = << >>
    BY <1>0, <1>2 DEF Known
<1>3. CASE UNCHANGED <<disk, cacheFile>> /\ list' = Listed(cacheFile) /\ stamp' = Trusted(cacheFile)
    BY <1>0, <1>3 DEF Known, Listed, Trusted
<1>4. CASE EndCancelled
    BY <1>0, <1>4 DEF EndCancelled, Known
<1>5. CASE EndRead
    <2>1. PICK order \in Orders(parsed) : list' = [i \in 1..Len(parsed) |-> parsed[order[i]]]
        BY <1>5 DEF EndRead
    <2>2. \A i \in 1..Len(parsed) : order[i] \in 1..Len(parsed)
        BY <1>0, SortType DEF QueueType
    <2>3. Len(list') = Len(parsed)
        BY <1>0, <2>1, SortType DEF QueueType
    <2> QED
        BY <1>0, <1>5, <2>1, <2>2, <2>3 DEF EndRead, Known
<1>6. CASE WriteCache
    BY <1>0, <1>6 DEF WriteCache, Known
<1>7. ASSUME NEW l \in Lib, EditLibrary(l) PROVE Known(list, stamp)' /\ FileKnown'
    <2>1. \A entries \in Seq(Entry) : \A i \in 1..Len(entries) : entries[i].lib \in Lib /\ entries[i].version \in Nat
        BY EntriesType
    <2>2. \A k \in Lib : disk[k] \in Nat /\ disk'[k] \in Nat /\ disk[k] <= disk'[k]
        BY <1>0, <1>7 DEF EditLibrary, LibraryType, Version
    <2>3. UNCHANGED <<list, stamp, cacheFile>>
        BY <1>7 DEF EditLibrary
    <2>4. Known(list, stamp)'
        BY <1>0, <2>1, <2>2, <2>3 DEF ResultType, Known
    <2>5. FileKnown'
        <3> SUFFICES ASSUME cacheFile # None PROVE Known(cacheFile.list, cacheFile.stamp)'
            BY <2>3
        <3>1. cacheFile.list \in Seq(Entry)
            BY <1>0 DEF ResultType, CacheFile
        <3> QED
            BY <1>0, <2>1, <2>2, <2>3, <3>1 DEF Known
    <2> QED
        BY <2>4, <2>5
<1>8. CASE ReadAll \/ ReadOne
    BY <1>0, <1>1, <1>2, <1>3, <1>8 DEF ReadAll, ReadOne, Read, Known
<1>9. CASE OpenBoard
    BY <1>2, <1>3, <1>9 DEF OpenBoard
<1>10. CASE Restart
    BY <1>2, <1>10 DEF Restart
<1> QED
    BY <1>1, <1>4, <1>5, <1>6, <1>7, <1>8, <1>9, <1>10
    DEF Next, Wait, Job, Cancel, StartParsing, StartJob, FetchFails, Fetch,
        ValidateCache, StampCache, PushFootprints, DisplayErrors

LEMMA InvNext == ASSUME NoRacing, FpTypeOK, FpInv, [Next]_vars PROVE FpInv'
<1>1. CachesKnown' /\ JobsKnown' /\ GeneratedKnown' /\ IdleHasNoJobs'
    BY CachesNext, JobsNext, GeneratedNext, IdleNext DEF FpInv
<1>2. Known(parsed, generated)' /\ Known(list, stamp)' /\ FileKnown'
    BY ParsedNext, ListNext
<1> QED
    BY <1>1, <1>2 DEF FpInv, FileKnown

LEMMA FpInvariant == ASSUME NoRacing PROVE Spec => [](FpTypeOK /\ FpInv)
<1>1. Init => FpInv
    BY InvInit
<1>2. TypeInv /\ FpInv /\ [Next]_vars => FpInv'
    BY InvNext DEF TypeInv
<1>3. TypeInv => FpTypeOK
    BY DEF TypeInv
<1> QED
    BY <1>1, <1>2, <1>3, TypeInvariant, PTL DEF Spec

-----------------------------------------------------------------------------
(* Theorems.                                                                 *)

\* Every variable keeps its type; in particular no entry of a list is without a
\* version, because nothing is pushed from a cache that has not been loaded.
THEOREM FootprintTypesHold == Spec => []FpTypeOK
<1>1. TypeInv => FpTypeOK
    BY DEF TypeInv
<1> QED
    BY <1>1, TypeInvariant, PTL

\* A list whose stamp is that of the libraries as they are shows each of them
\* as it is, for any number of libraries and threads, whatever reads, changes of
\* libraries, closed frames and restarts led here.
THEOREM StampedListIsCurrent == ASSUME NoRacing PROVE Spec => []FreshListIsCurrent
<1>1. FpTypeOK /\ FpInv => FreshListIsCurrent
    <2> SUFFICES ASSUME FpTypeOK, FpInv, stamp = GenerateTimestamp(Lib), NEW i \in 1..Len(list)
                 PROVE  list[i].version = disk[list[i].lib]
        BY DEF FreshListIsCurrent, EntriesOf
    <2> USE FootprintListAssumption
    <2>1. LibraryType /\ ResultType
        BY TypeParts
    <2>2. list[i].lib \in Lib /\ list[i].version \in Nat /\ disk[list[i].lib] \in Nat
        BY <2>1, EntriesType DEF ResultType, LibraryType, Version
    <2>3. stamp # None /\ stamp[list[i].lib] = disk[list[i].lib] /\ list[i].lib \in DOMAIN stamp
        BY <2>1, <2>2, StampType DEF GenerateTimestamp
    <2> QED
        BY <2>2, <2>3 DEF FpInv, Known
<1> QED
    BY <1>1, FpInvariant, PTL

-----------------------------------------------------------------------------
(* Where a library is while it is read.                                      *)

\* A job that is busy with a library.
Busy(w) == work[w].step # "none"

\* A library is in one place: waiting to be fetched, with a job, waiting to be
\* parsed, or parsed.
Apart ==
    /\ \A i, j \in 1..Len(queueIn) : i # j => queueIn[i] # queueIn[j]
    /\ \A i, j \in 1..Len(queueOut) : i # j => queueOut[i] # queueOut[j]
    /\ \A i, j \in 1..Len(parsed) : i # j => parsed[i].lib # parsed[j].lib
    /\ \A i \in 1..Len(queueIn), j \in 1..Len(queueOut) : queueIn[i] # queueOut[j]
    /\ \A i \in 1..Len(queueIn), j \in 1..Len(parsed) : queueIn[i] # parsed[j].lib
    /\ \A i \in 1..Len(queueOut), j \in 1..Len(parsed) : queueOut[i] # parsed[j].lib
    /\ \A w \in Worker : Busy(w) =>
        /\ \A i \in 1..Len(queueIn) : queueIn[i] # work[w].lib
        /\ \A i \in 1..Len(queueOut) : queueOut[i] # work[w].lib
        /\ \A i \in 1..Len(parsed) : parsed[i].lib # work[w].lib
        /\ \A v \in Worker \ {w} : Busy(v) => work[v].lib # work[w].lib

Sorted(entries) == \A i, j \in 1..Len(entries) : i < j => entries[i].lib < entries[j].lib
ListsSorted == Sorted(list) /\ (cacheFile # None => Sorted(cacheFile.list))

\* A library that was asked for is in some place.
Placed(l) ==
    \/ l \in errors
    \/ \E i \in 1..Len(queueIn) : queueIn[i] = l
    \/ \E i \in 1..Len(queueOut) : queueOut[i] = l
    \/ \E w \in Worker : Busy(w) /\ work[w].lib = l
    \/ \E i \in 1..Len(parsed) : parsed[i].lib = l

\* Until the user cancels, each library that waits has a job.
NoneLost ==
    pc # "idle" /\ ~cancelled =>
        /\ generated # None
        /\ \A l \in DOMAIN generated : Placed(l)
        /\ pc = "fetching" => jobs = Len(queueIn)
        /\ pc = "parsing" => jobs = Len(queueOut) /\ queueIn = << >>
ParsingFetches ==
    pc = "parsing" => ~cancelled /\ \A w \in Worker : work[w].step # "fetch"

ReadInv == Apart /\ ListsSorted /\ NoneLost /\ ParsingFetches /\ IdleHasNoJobs

LEMMA TailFacts ==
    ASSUME NEW S, NEW q \in Seq(S), q # << >>
    PROVE  /\ Head(q) = q[1] /\ 1 \in 1..Len(q)
           /\ Tail(q) \in Seq(S) /\ Len(Tail(q)) = Len(q) - 1 /\ Len(q) \in Nat
           /\ \A i \in 1..Len(Tail(q)) : Tail(q)[i] = q[i + 1] /\ i + 1 \in 1..Len(q)
           /\ \A i \in 1..Len(q) : i = 1 \/ (i - 1 \in 1..Len(Tail(q)) /\ Tail(q)[i - 1] = q[i])
    OBVIOUS

LEMMA AppendFacts ==
    ASSUME NEW S, NEW q \in Seq(S), NEW e
    PROVE  /\ Len(Append(q, e)) = Len(q) + 1 /\ Len(q) \in Nat
           /\ \A i \in 1..Len(q) : Append(q, e)[i] = q[i] /\ i \in 1..Len(Append(q, e))
           /\ Append(q, e)[Len(q) + 1] = e
           /\ \A i \in 1..Len(Append(q, e)) : i \in 1..Len(q) \/ i = Len(q) + 1
    OBVIOUS

LEMMA ReadInvInit == Init => ReadInv
<1> SUFFICES ASSUME Init PROVE ReadInv
    OBVIOUS
<1>1. Apart
    BY DEF Init, Apart, Busy, NoWork
<1>2. ListsSorted /\ ParsingFetches
    BY DEF Init, ListsSorted, Sorted, ParsingFetches
<1>3. NoneLost /\ IdleHasNoJobs
    BY DEF Init, NoneLost, IdleHasNoJobs, JobsDone
<1> QED
    BY <1>1, <1>2, <1>3 DEF ReadInv

\* What a job does to the places of libraries.
LEMMA StartJobMoves ==
    ASSUME FpTypeOK, NEW w \in Worker, StartJob(w)
    PROVE  /\ ~Busy(w) /\ UNCHANGED <<parsed, pc, generated, cancelled, errors>> /\ jobs' = jobs - 1
           /\ \/ UNCHANGED <<queueIn, queueOut, work>>
                 /\ (cancelled \/ (pc = "fetching" /\ queueIn = << >>) \/ (pc # "fetching" /\ queueOut = << >>))
              \/ /\ pc = "fetching" /\ queueIn # << >> /\ queueIn' = Tail(queueIn) /\ queueOut' = queueOut
                 /\ work' = [work EXCEPT ![w] = [step |-> "fetch", lib |-> Head(queueIn)]]
              \/ /\ pc # "fetching" /\ queueOut # << >> /\ queueOut' = Tail(queueOut) /\ queueIn' = queueIn
                 /\ work' = [work EXCEPT ![w] = [step |-> "parse", lib |-> Head(queueOut)]]
<1>1. CASE pc = "fetching"
    BY <1>1 DEF StartJob, Busy, NoWork
<1>2. CASE pc # "fetching"
    BY <1>2 DEF StartJob, Busy, NoWork
<1> QED
    BY <1>1, <1>2

LEMMA EndJobMoves ==
    ASSUME FpTypeOK, NEW w \in Worker, EndJob(w)
    PROVE  /\ ~Busy(w)' /\ work'[w].step = "none"
           /\ \A v \in Worker \ {w} : work'[v] = work[v]
    BY TypeParts DEF EndJob, JobType, Busy, NoWork

LEMMA ApartNext == ASSUME FpTypeOK, ReadInv, [Next]_vars PROVE Apart'
<1>0. QueueType /\ JobType /\ Apart /\ IdleHasNoJobs
    BY TypeParts DEF ReadInv
<1>1. CASE UNCHANGED <<queueIn, queueOut, parsed, work>>
    BY <1>0, <1>1 DEF Apart, Busy
<1>2. CASE ReadAll \/ ReadOne
    <2>1. PICK libs \in {Lib} \cup {{l} : l \in Lib}, names \in Seq(Lib), fromCache, reports \in BOOLEAN :
                names \in Nicknames(libs) /\ Read(libs, names, fromCache, reports)
        BY <1>2, Reading
    <2>2. \A w \in Worker : ~Busy(w)'
        <3>1. pc = "idle" /\ work' = work
            BY <2>1 DEF Read
        <3> QED
            BY <1>0, <3>1 DEF IdleHasNoJobs, JobsDone, NoWork, Busy
    <2>3. CASE queueIn' = names /\ queueOut' = << >> /\ parsed' = << >>
        <3>1. \A i, j \in 1..Len(names) : i # j => names[i] # names[j]
            BY <2>1 DEF Nicknames
        <3>2. Len(<< >>) = 0
            OBVIOUS
        <3> QED
            BY <2>2, <2>3, <3>1, <3>2 DEF Apart
    <2> QED
        BY <1>1, <2>1, <2>3 DEF Read
<1>3. CASE EndRead
    <2>1. queueIn' = queueIn /\ queueOut' = queueOut /\ parsed' = << >> /\ work' = work
        BY <1>3 DEF EndRead
    <2> QED
        BY <1>0, <2>1 DEF Apart, Busy
<1>4. CASE Restart
    BY <1>4 DEF Restart, Apart, Busy, NoWork
<1>5. ASSUME NEW w \in Worker, StartJob(w) PROVE Apart'
    <2>1. CASE UNCHANGED <<queueIn, queueOut, work>>
        BY <1>1, <1>5, <2>1, StartJobMoves
    <2>2. CASE /\ queueIn # << >> /\ queueIn' = Tail(queueIn) /\ queueOut' = queueOut
               /\ work' = [work EXCEPT ![w] = [step |-> "fetch", lib |-> Head(queueIn)]]
        <3>1. /\ \A v \in Worker \ {w} : work'[v] = work[v]
              /\ work'[w].lib = queueIn[1] /\ 1 \in 1..Len(queueIn) /\ parsed' = parsed
            BY <1>0, <1>5, <2>2, TailFacts, StartJobMoves DEF QueueType, JobType
        <3>2. \A i \in 1..Len(queueIn') : queueIn'[i] = queueIn[i + 1] /\ i + 1 \in 1..Len(queueIn) /\ i + 1 # 1
            BY <1>0, <2>2, TailFacts DEF QueueType
        <3>3. \A i, j \in 1..Len(queueIn') : i # j => i + 1 # j + 1
            BY <1>0, <2>2 DEF QueueType
        <3> QED
            BY <1>0, <2>2, <3>1, <3>2, <3>3 DEF Apart, Busy
    <2>3. CASE /\ queueOut # << >> /\ queueOut' = Tail(queueOut) /\ queueIn' = queueIn
               /\ work' = [work EXCEPT ![w] = [step |-> "parse", lib |-> Head(queueOut)]]
        <3>1. /\ \A v \in Worker \ {w} : work'[v] = work[v]
              /\ work'[w].lib = queueOut[1] /\ 1 \in 1..Len(queueOut) /\ parsed' = parsed
            BY <1>0, <1>5, <2>3, TailFacts, StartJobMoves DEF QueueType, JobType
        <3>2. \A i \in 1..Len(queueOut') : queueOut'[i] = queueOut[i + 1] /\ i + 1 \in 1..Len(queueOut) /\ i + 1 # 1
            BY <1>0, <2>3, TailFacts DEF QueueType
        <3>3. \A i, j \in 1..Len(queueOut') : i # j => i + 1 # j + 1
            BY <1>0, <2>3 DEF QueueType
        <3> QED
            BY <1>0, <2>3, <3>1, <3>2, <3>3 DEF Apart, Busy
    <2> QED
        BY <1>5, <2>1, <2>2, <2>3, StartJobMoves
<1>6. ASSUME NEW w \in Worker, FetchFails(w) PROVE Apart'
    <2>1. queueIn' = queueIn /\ queueOut' = queueOut /\ parsed' = parsed
        BY <1>6 DEF FetchFails
    <2> QED
        BY <1>0, <1>6, <2>1, EndJobMoves DEF FetchFails, Apart, Busy
<1>7. ASSUME NEW w \in Worker, Fetch(w) PROVE Apart'
    <2>1. queueIn' = queueIn /\ queueOut' = Append(queueOut, work[w].lib) /\ parsed' = parsed /\ Busy(w)
        BY <1>7 DEF Fetch, Busy
    <2>2. \A i \in 1..Len(queueOut') :
            (i \in 1..Len(queueOut) /\ queueOut'[i] = queueOut[i])
            \/ (i = Len(queueOut) + 1 /\ queueOut'[i] = work[w].lib)
        BY <1>0, <2>1, AppendFacts DEF QueueType
    <2>3. ~Busy(w)' /\ \A v \in Worker \ {w} : work'[v] = work[v]
        BY <1>7, EndJobMoves DEF Fetch
    <2> QED
        BY <1>0, <2>1, <2>2, <2>3 DEF Apart, Busy
<1>8. ASSUME NEW w \in Worker, PushFootprints(w) PROVE Apart'
    <2>1. /\ queueIn' = queueIn /\ queueOut' = queueOut /\ Busy(w)
          /\ parsed' = Append(parsed, [lib |-> work[w].lib, version |-> cached[work[w].lib].version])
        BY <1>8 DEF PushFootprints, Busy
    <2>2. \A i \in 1..Len(parsed') :
            (i \in 1..Len(parsed) /\ parsed'[i] = parsed[i])
            \/ (i = Len(parsed) + 1 /\ parsed'[i].lib = work[w].lib)
        BY <1>0, <2>1, AppendFacts DEF QueueType
    <2>3. ~Busy(w)' /\ \A v \in Worker \ {w} : work'[v] = work[v]
        BY <1>8, EndJobMoves DEF PushFootprints
    <2> QED
        BY <1>0, <2>1, <2>2, <2>3 DEF Apart, Busy
<1>9. ASSUME NEW w \in Worker, ValidateCache(w) \/ StampCache(w) PROVE Apart'
    <2>1. UNCHANGED <<queueIn, queueOut, parsed>> /\ Busy(w)
        BY <1>9 DEF ValidateCache, StampCache, Busy
    <2>2. \A v \in Worker : work'[v].lib = work[v].lib /\ (Busy(v)' <=> Busy(v))
        <3>1. \E step \in {"stamp", "push"} : work' = [work EXCEPT ![w].step = step]
            BY <1>9 DEF ValidateCache, StampCache
        <3> QED
            BY <1>0, <2>1, <3>1 DEF Busy, JobType, Work
    <2> QED
        BY <1>0, <2>1, <2>2 DEF Apart
<1> QED
    BY <1>1, <1>2, <1>3, <1>4, <1>5, <1>6, <1>7, <1>8, <1>9
    DEF Next, Wait, Job, Cancel, StartParsing, EndCancelled, DisplayErrors, OpenBoard, WriteCache, EditLibrary

LEMMA SortedNext == ASSUME FpTypeOK, ReadInv, [Next]_vars PROVE ListsSorted'
<1> USE DEF ListsSorted
<1>0. QueueType /\ ResultType /\ Apart /\ ListsSorted
    BY TypeParts DEF ReadInv
<1>1. CASE UNCHANGED <<list, cacheFile>>
    BY <1>0, <1>1 DEF Sorted
<1>2. CASE cacheFile' = cacheFile /\ list' = << >>
    BY <1>0, <1>2 DEF Sorted
<1>3. CASE cacheFile' = cacheFile /\ list' = Listed(cacheFile)
    BY <1>0, <1>3 DEF Sorted, Listed
<1>4. CASE EndRead
    <2>1. PICK order \in Orders(parsed) : list' = [i \in 1..Len(parsed) |-> parsed[order[i]]]
        BY <1>4 DEF EndRead
    <2>2. /\ order \in [1..Len(parsed) -> 1..Len(parsed)]
          /\ \A i, j \in 1..Len(parsed) : order[i] = order[j] => i = j
          /\ \A i, j \in 1..Len(parsed) : i < j => parsed[order[i]].lib <= parsed[order[j]].lib
        BY DEF Orders, Bijection, Injection, IsInjective
    <2>3. Len(list') = Len(parsed) /\ Len(parsed) \in Nat
        BY <1>0, <2>1, <2>2, SortType DEF QueueType
    <2>4. Sorted(list)'
        <3> SUFFICES ASSUME NEW i \in 1..Len(parsed), NEW j \in 1..Len(parsed), i < j
                     PROVE  list'[i].lib < list'[j].lib
            BY <2>3 DEF Sorted
        <3>1. order[i] \in 1..Len(parsed) /\ order[j] \in 1..Len(parsed) /\ order[i] # order[j]
            BY <2>2, <2>3
        <3>2. parsed[order[i]].lib \in Nat /\ parsed[order[j]].lib \in Nat
            BY <1>0, <3>1, EntriesType DEF QueueType, Lib
        <3>3. parsed[order[i]].lib # parsed[order[j]].lib
            BY <1>0, <3>1 DEF Apart
        <3> QED
            BY <2>1, <2>2, <3>2, <3>3
    <2> QED
        BY <1>0, <1>4, <2>4 DEF EndRead, Sorted
<1>5. CASE WriteCache
    BY <1>0, <1>5 DEF WriteCache, Sorted
<1>6. CASE ReadAll \/ ReadOne
    BY <1>1, <1>2, <1>3, <1>6 DEF ReadAll, ReadOne, Read
<1>7. CASE OpenBoard \/ Restart
    BY <1>2, <1>3, <1>7 DEF OpenBoard, Restart
<1> QED
    BY <1>1, <1>4, <1>5, <1>6, <1>7
    DEF Next, Wait, Job, Cancel, StartParsing, EndCancelled, StartJob, FetchFails, Fetch, ValidateCache,
        StampCache, PushFootprints, DisplayErrors, EditLibrary

LEMMA ParsingNext == ASSUME FpTypeOK, ReadInv, [Next]_vars PROVE ParsingFetches'
<1> USE DEF ParsingFetches
<1>0. JobType /\ ParsingFetches
    BY TypeParts DEF ReadInv
<1>1. CASE UNCHANGED <<pc, cancelled, work>>
    BY <1>0, <1>1
<1>2. CASE ReadAll \/ ReadOne
    BY <1>1, <1>2 DEF ReadAll, ReadOne, Read
<1>3. CASE Cancel \/ EndCancelled \/ EndRead \/ Restart
    BY <1>3 DEF Cancel, EndCancelled, EndRead, Restart
<1>4. CASE StartParsing
    BY <1>4 DEF StartParsing, JobsDone, NoWork
<1>5. ASSUME NEW w \in Worker, Job(w) PROVE ParsingFetches'
    <2>1. UNCHANGED <<pc, cancelled>>
        BY <1>5 DEF Job, StartJob, FetchFails, Fetch, ValidateCache, StampCache, PushFootprints
    <2>2. CASE StartJob(w)
        BY <1>0, <2>1, <2>2, StartJobMoves DEF JobType
    <2>3. CASE FetchFails(w) \/ Fetch(w) \/ PushFootprints(w)
        BY <1>0, <2>1, <2>3, EndJobMoves DEF FetchFails, Fetch, PushFootprints
    <2>4. CASE ValidateCache(w) \/ StampCache(w)
        <3>1. \E step \in {"stamp", "push"} : work' = [work EXCEPT ![w].step = step]
            BY <2>4 DEF ValidateCache, StampCache
        <3> QED
            BY <1>0, <2>1, <3>1 DEF JobType, Work
    <2> QED
        BY <1>5, <2>2, <2>3, <2>4 DEF Job
<1> QED
    BY <1>1, <1>2, <1>3, <1>4, <1>5
    DEF Next, Wait, DisplayErrors, OpenBoard, WriteCache, EditLibrary

LEMMA NoneLostNext == ASSUME FpTypeOK, ReadInv, [Next]_vars PROVE NoneLost'
<1>0. ReaderType /\ QueueType /\ JobType /\ NoneLost /\ ParsingFetches
    BY TypeParts DEF ReadInv
<1>1. CASE UNCHANGED <<pc, cancelled, generated, jobs, queueIn, queueOut, parsed, work, errors>>
    BY <1>0, <1>1 DEF NoneLost, Placed, Busy
<1>2. CASE ReadAll \/ ReadOne
    <2>1. PICK libs \in {Lib} \cup {{l} : l \in Lib}, names \in Seq(Lib), fromCache, reports \in BOOLEAN :
                names \in Nicknames(libs) /\ Read(libs, names, fromCache, reports)
        BY <1>2, Reading
    <2>2. CASE pc' = "idle"
        BY <2>2 DEF NoneLost
    <2>3. CASE /\ pc' = "fetching" /\ generated' = GenerateTimestamp(libs)
               /\ queueIn' = names /\ jobs' = Len(names)
        <3>1. GenerateTimestamp(libs) # None /\ DOMAIN GenerateTimestamp(libs) = libs
            BY TypeParts, StampType, FootprintListAssumption DEF GenerateTimestamp
        <3>2. \A l \in libs : \E i \in 1..Len(names) : names[i] = l
            BY <2>1 DEF Nicknames
        <3> QED
            BY <2>3, <3>1, <3>2 DEF NoneLost, Placed
    <2> QED
        BY <2>1, <2>2, <2>3 DEF Read
<1>3. CASE Cancel \/ EndCancelled \/ EndRead \/ Restart
    BY <1>3 DEF Cancel, EndCancelled, EndRead, Restart, NoneLost
<1>4. CASE StartParsing
    <2>1. queueIn = << >>
        BY <1>0, <1>4 DEF StartParsing, JobsDone, NoneLost, QueueType
    <2> QED
        BY <1>0, <1>4, <2>1 DEF StartParsing, NoneLost, Placed, Busy
<1>5. CASE DisplayErrors \/ OpenBoard \/ WriteCache
    BY <1>5 DEF DisplayErrors, OpenBoard, WriteCache, NoneLost
<1>6. ASSUME NEW w \in Worker, Job(w) PROVE NoneLost'
    <2>1. UNCHANGED <<pc, cancelled, generated>>
        BY <1>6 DEF Job, StartJob, FetchFails, Fetch, ValidateCache, StampCache, PushFootprints
    <2>2. ASSUME NEW l, Placed(l) PROVE Placed(l)'
        <3>1. CASE StartJob(w)
            <4>1. CASE UNCHANGED <<queueIn, queueOut, work>>
                BY <2>2, <3>1, <4>1, StartJobMoves DEF Placed, Busy
            <4>2. CASE /\ queueIn # << >> /\ queueIn' = Tail(queueIn) /\ queueOut' = queueOut
                       /\ work' = [work EXCEPT ![w] = [step |-> "fetch", lib |-> Head(queueIn)]]
                <5>1. /\ \A v \in Worker \ {w} : work'[v] = work[v]
                      /\ work'[w].lib = queueIn[1] /\ work'[w].step = "fetch"
                      /\ UNCHANGED <<parsed, errors>> /\ ~Busy(w)
                    BY <1>0, <3>1, <4>2, TailFacts, StartJobMoves DEF QueueType, JobType
                <5>2. \A i \in 1..Len(queueIn) :
                        i = 1 \/ (i - 1 \in 1..Len(queueIn') /\ queueIn'[i - 1] = queueIn[i])
                    BY <1>0, <4>2, TailFacts DEF QueueType
                <5>3. CASE \E i \in 1..Len(queueIn) : queueIn[i] = l
                    BY <5>1, <5>2, <5>3 DEF Placed, Busy
                <5>4. CASE \E v \in Worker : Busy(v) /\ work[v].lib = l
                    BY <5>1, <5>4 DEF Placed, Busy
                <5> QED
                    BY <2>2, <4>2, <5>1, <5>3, <5>4 DEF Placed
            <4>3. CASE /\ queueOut # << >> /\ queueOut' = Tail(queueOut) /\ queueIn' = queueIn
                       /\ work' = [work EXCEPT ![w] = [step |-> "parse", lib |-> Head(queueOut)]]
                <5>1. /\ \A v \in Worker \ {w} : work'[v] = work[v]
                      /\ work'[w].lib = queueOut[1] /\ work'[w].step = "parse"
                      /\ UNCHANGED <<parsed, errors>> /\ ~Busy(w)
                    BY <1>0, <3>1, <4>3, TailFacts, StartJobMoves DEF QueueType, JobType
                <5>2. \A i \in 1..Len(queueOut) :
                        i = 1 \/ (i - 1 \in 1..Len(queueOut') /\ queueOut'[i - 1] = queueOut[i])
                    BY <1>0, <4>3, TailFacts DEF QueueType
                <5>3. CASE \E i \in 1..Len(queueOut) : queueOut[i] = l
                    BY <5>1, <5>2, <5>3 DEF Placed, Busy
                <5>4. CASE \E v \in Worker : Busy(v) /\ work[v].lib = l
                    BY <5>1, <5>4 DEF Placed, Busy
                <5> QED
                    BY <2>2, <4>3, <5>1, <5>3, <5>4 DEF Placed
            <4> QED
                BY <3>1, <4>1, <4>2, <4>3, StartJobMoves
        <3>2. CASE FetchFails(w)
            <4>1. UNCHANGED <<queueIn, queueOut, parsed>> /\ errors' = errors \cup {work[w].lib}
                BY <3>2 DEF FetchFails
            <4> QED
                BY <2>2, <3>2, <4>1, EndJobMoves DEF FetchFails, Placed, Busy
        <3>3. CASE Fetch(w)
            <4>1. UNCHANGED <<queueIn, parsed, errors>> /\ queueOut' = Append(queueOut, work[w].lib)
                BY <3>3 DEF Fetch
            <4>2. /\ \A i \in 1..Len(queueOut) : i \in 1..Len(queueOut') /\ queueOut'[i] = queueOut[i]
                  /\ Len(queueOut) + 1 \in 1..Len(queueOut') /\ queueOut'[Len(queueOut) + 1] = work[w].lib
                BY <1>0, <4>1, AppendFacts DEF QueueType
            <4> QED
                BY <2>2, <3>3, <4>1, <4>2, EndJobMoves DEF Fetch, Placed, Busy
        <3>4. CASE PushFootprints(w)
            <4>1. /\ UNCHANGED <<queueIn, queueOut, errors>>
                  /\ parsed' = Append(parsed, [lib |-> work[w].lib, version |-> cached[work[w].lib].version])
                BY <3>4 DEF PushFootprints
            <4>2. /\ \A i \in 1..Len(parsed) : i \in 1..Len(parsed') /\ parsed'[i] = parsed[i]
                  /\ Len(parsed) + 1 \in 1..Len(parsed') /\ parsed'[Len(parsed) + 1].lib = work[w].lib
                BY <1>0, <4>1, AppendFacts DEF QueueType
            <4> QED
                BY <2>2, <3>4, <4>1, <4>2, EndJobMoves DEF PushFootprints, Placed, Busy
        <3>5. CASE ValidateCache(w) \/ StampCache(w)
            <4>1. UNCHANGED <<queueIn, queueOut, parsed, errors>>
                BY <3>5 DEF ValidateCache, StampCache
            <4>2. \E step \in {"stamp", "push"} : work' = [work EXCEPT ![w].step = step]
                BY <3>5 DEF ValidateCache, StampCache
            <4>3. \A v \in Worker : work'[v].lib = work[v].lib /\ (Busy(v) => Busy(v)')
                BY <1>0, <4>2 DEF Busy, JobType, Work
            <4> QED
                BY <2>2, <4>1, <4>3 DEF Placed
        <3> QED
            BY <1>6, <3>1, <3>2, <3>3, <3>4, <3>5 DEF Job
    <2>3. ASSUME pc # "idle", ~cancelled
          PROVE  /\ pc = "fetching" => jobs' = Len(queueIn')
                 /\ pc = "parsing" => jobs' = Len(queueOut') /\ queueIn' = << >>
        <3>0. /\ pc = "fetching" => jobs = Len(queueIn)
              /\ pc = "parsing" => jobs = Len(queueOut) /\ queueIn = << >>
            BY <1>0, <2>3 DEF NoneLost
        <3>1. CASE StartJob(w)
            <4>1. jobs > 0 /\ jobs' = jobs - 1
                BY <3>1 DEF StartJob
            <4>2. CASE pc = "fetching"
                <5>1. queueIn # << >> /\ queueIn' = Tail(queueIn)
                    BY <2>3, <3>0, <3>1, <4>1, <4>2, StartJobMoves
                <5> QED
                    BY <1>0, <3>0, <4>1, <4>2, <5>1, TailFacts DEF QueueType
            <4>3. CASE pc = "parsing"
                <5>1. queueOut # << >> /\ queueOut' = Tail(queueOut) /\ queueIn' = queueIn
                    BY <2>3, <3>0, <3>1, <4>1, <4>3, StartJobMoves
                <5> QED
                    BY <1>0, <3>0, <4>1, <4>3, <5>1, TailFacts DEF QueueType
            <4> QED
                BY <4>2, <4>3
        <3>2. CASE Fetch(w)
            BY <1>0, <3>0, <3>2 DEF Fetch, ParsingFetches
        <3>3. CASE FetchFails(w) \/ ValidateCache(w) \/ StampCache(w) \/ PushFootprints(w)
            BY <3>0, <3>3 DEF FetchFails, ValidateCache, StampCache, PushFootprints
        <3> QED
            BY <1>6, <3>1, <3>2, <3>3 DEF Job
    <2> QED
        BY <1>0, <2>1, <2>2, <2>3 DEF NoneLost
<1>7. ASSUME NEW l \in Lib, EditLibrary(l) PROVE NoneLost'
    BY <1>1, <1>7 DEF EditLibrary
<1> QED
    BY <1>1, <1>2, <1>3, <1>4, <1>5, <1>6, <1>7 DEF Next, Wait

LEMMA ReadInvariant == Spec => [](FpTypeOK /\ ReadInv)
<1>1. Init => ReadInv
    BY ReadInvInit
<1>2. FpTypeOK /\ ReadInv /\ [Next]_vars => ReadInv'
    BY ApartNext, SortedNext, NoneLostNext, ParsingNext, IdleNext DEF ReadInv
<1> QED
    BY <1>1, <1>2, FootprintTypesHold, PTL DEF Spec

-----------------------------------------------------------------------------
(* Theorems about reading.                                                   *)

\* No library is listed twice, for any number of threads popping from the
\* queues, and whatever std::sort() does with equal entries.
THEOREM EachLibraryListedOnce == Spec => []ListedOnce
<1>1. ReadInv => ListedOnce
    BY DEF ReadInv, ListsSorted, Sorted, ListedOnce
<1> QED
    BY <1>1, ReadInvariant, PTL

LEMMA EndIsComplete ==
    ASSUME FpTypeOK, ReadInv, EndRead, generated # None, NEW l \in DOMAIN generated
    PROVE  l \in errors' \/ \E e \in EntriesOf(list') : e.lib = l
<1>0. QueueType /\ NoneLost /\ ParsingFetches
    BY TypeParts DEF ReadInv
<1>1. pc = "parsing" /\ JobsDone /\ errors' = errors
    BY DEF EndRead
<1>2. Placed(l) /\ queueIn = << >> /\ Len(queueOut) = 0
    BY <1>0, <1>1 DEF NoneLost, ParsingFetches, JobsDone
<1>3. l \in errors \/ \E i \in 1..Len(parsed) : parsed[i].lib = l
    BY <1>1, <1>2 DEF Placed, JobsDone, Busy, NoWork
<1>4. ASSUME NEW i \in 1..Len(parsed), parsed[i].lib = l PROVE \E e \in EntriesOf(list') : e.lib = l
    <2>1. PICK order \in Orders(parsed) : list' = [k \in 1..Len(parsed) |-> parsed[order[k]]]
        BY DEF EndRead
    <2>2. PICK k \in 1..Len(parsed) : order[k] = i
        BY <1>4 DEF Orders, Bijection, Surjection
    <2>3. Len(list') = Len(parsed)
        BY <1>0, <2>1, SortType DEF QueueType
    <2> QED
        BY <1>4, <2>1, <2>2, <2>3 DEF EntriesOf
<1> QED
    BY <1>1, <1>3, <1>4

\* When a read ends that was not cancelled, each library that was asked for is
\* listed or among the errors: the jobs are as many as the libraries that wait.
THEOREM ReadingIsComplete == Spec => ReadIsComplete
<1>1. ASSUME FpTypeOK, ReadInv, [Next]_vars, pc # "idle", pc' = "idle", generated' # None
      PROVE  \/ stamp' = None
             \/ stamp' = generated
                /\ \A l \in DOMAIN generated : l \in errors' \/ \E e \in EntriesOf(list') : e.lib = l
    <2>1. EndCancelled \/ EndRead
        BY <1>1
        DEF Next, Wait, ReadAll, ReadOne, Read, Cancel, StartParsing, Job, StartJob, FetchFails, Fetch,
            ValidateCache, StampCache, PushFootprints, DisplayErrors, OpenBoard, WriteCache, Restart,
            EditLibrary
    <2>2. CASE EndCancelled
        BY <2>2 DEF EndCancelled
    <2>3. CASE EndRead
        <3>1. stamp' = generated /\ generated' = generated
            BY <2>3 DEF EndRead
        <3> QED
            BY <1>1, <2>3, <3>1, EndIsComplete
    <2> QED
        BY <2>1, <2>2, <2>3
<1>2. FpTypeOK /\ ReadInv /\ [Next]_vars
        => [pc # "idle" /\ pc' = "idle" /\ generated' # None =>
                \/ stamp' = None
                \/ stamp' = generated
                   /\ \A l \in DOMAIN generated : l \in errors' \/ \E e \in EntriesOf(list') : e.lib = l]_vars
    BY <1>1
<1> QED
    BY <1>2, ReadInvariant, PTL DEF Spec, ReadIsComplete

===============================================================================
