---------------------------- MODULE FootprintList ----------------------------
(* FOOTPRINT_LIST_IMPL: the list of the footprints of all libraries.         *)
(* ReadFootprintFiles() generates a time stamp of the libraries and, unless  *)
(* it is the one the list was read under, has jobs of the thread pool fetch  *)
(* and then parse the libraries while the main thread waits and refreshes a  *)
(* progress dialog.  Each library's plugin keeps a cache of its own          *)
(* (FP_CACHE), also under a time stamp.  The list and its stamp go to the    *)
(* project's fp-info-cache when a frame closes.  Libraries change on disk at *)
(* any time, and the program may end at any time.                            *)
(*                                                                           *)
(* A library is its number and its version; the footprints read from it are  *)
(* one entry, [lib, version].  Time stamps do not collide: a stamp is the    *)
(* versions of the libraries it was generated for.                           *)
EXTENDS Naturals, Sequences, Functions

CONSTANTS
    NLib,           \* the libraries of the table are 1..NLib
    MaxVersion,     \* bound: changes of a library on disk
    Worker,         \* threads of the pool
    None,           \* no stamp, no content, no file
    RacingStamps    \* BOOLEAN: may a library change between its load and the
                    \* stamp its cache takes (FP_CACHE::Load())

Lib == 1..NLib
Version == 0..MaxVersion
Entry == [lib : Lib, version : Version]
\* GenerateTimestamp() of the table, or of one library.
Stamp == UNION {[libs -> Version] : libs \in {Lib} \cup {{l} : l \in Lib}}

ASSUME FootprintListAssumption ==
    /\ NLib \in Nat \ {0} /\ MaxVersion \in Nat
    /\ None \notin Version \cup Stamp
    /\ RacingStamps \in BOOLEAN

VARIABLES
    disk,           \* version of each library on disk
    cached,         \* FP_CACHE of each library: [version, stamp]
    pc,             \* main thread: "idle", "fetching" (loadLibs), "parsing" (loadFootprints)
    generated,      \* generatedTimestamp
    reporting,      \* there is a progress reporter
    cancelled,      \* m_cancelled
    queueIn, queueOut, parsed,  \* m_queue_in, m_queue_out, queue_parsed
    jobs,           \* submitted jobs that have not started
    work,           \* what each worker does
    list, stamp,    \* m_list, m_list_timestamp
    errors,         \* m_errors: libraries that could not be fetched
    cacheFile       \* fp-info-cache: [stamp, list]

library == <<disk, cached>>
reader == <<pc, generated, reporting, cancelled>>
queues == <<queueIn, queueOut, parsed, jobs, work>>
result == <<list, stamp, errors>>
vars == <<library, reader, queues, result, cacheFile>>

NoWork == [step |-> "none", lib |-> 1]
Work == [step : {"none", "fetch", "parse", "stamp", "push"}, lib : Lib]
NoCache == [version |-> None, stamp |-> None]
CacheFile == [stamp : Stamp \cup {None}, list : Seq(Entry)]

FpTypeOK ==
    /\ disk \in [Lib -> Version]
    /\ cached \in [Lib -> [version : Version \cup {None}, stamp : Version \cup {None}]]
    /\ pc \in {"idle", "fetching", "parsing"}
    /\ generated \in Stamp \cup {None}
    /\ reporting \in BOOLEAN /\ cancelled \in BOOLEAN
    /\ queueIn \in Seq(Lib) /\ queueOut \in Seq(Lib) /\ parsed \in Seq(Entry)
    /\ jobs \in Nat
    /\ work \in [Worker -> Work]
    /\ list \in Seq(Entry) /\ stamp \in Stamp \cup {None}
    /\ errors \subseteq Lib
    /\ cacheFile \in CacheFile \cup {None}

Init ==
    /\ disk = [l \in Lib |-> 0] /\ cached = [l \in Lib |-> NoCache]
    /\ pc = "idle" /\ generated = None /\ reporting = FALSE /\ cancelled = FALSE
    /\ queueIn = << >> /\ queueOut = << >> /\ parsed = << >>
    /\ jobs = 0 /\ work = [w \in Worker |-> NoWork]
    /\ list = << >> /\ stamp = None /\ errors = {}
    /\ cacheFile = None

-----------------------------------------------------------------------------
(* Reading.                                                                  *)

GenerateTimestamp(libs) == [l \in libs |-> disk[l]]

\* A cache without entries is not trusted.
Trusted(file) == IF file = None \/ file.list = << >> THEN None ELSE file.stamp
Listed(file) == IF file = None THEN << >> ELSE file.list

\* ReadFootprintFiles() of libs, in the order of their nicknames, up to the jobs
\* of loadLibs().  The footprint editor and GetInstance() look at the project's
\* cache first when the list is empty; the footprint chooser does not.
Read(libs, nicknames, fromCache, reports) ==
    LET known == IF fromCache /\ list = << >> THEN Trusted(cacheFile) ELSE stamp
        shown == IF fromCache /\ list = << >> THEN Listed(cacheFile) ELSE list
    IN /\ pc = "idle"
       /\ stamp' = known
       /\ IF GenerateTimestamp(libs) = known
          THEN /\ list' = shown
               /\ UNCHANGED <<reader, queues, errors>>
          ELSE /\ pc' = "fetching" /\ generated' = GenerateTimestamp(libs)
               /\ reporting' = reports /\ cancelled' = FALSE
               /\ list' = << >> /\ errors' = {}
               /\ queueIn' = nicknames /\ queueOut' = << >> /\ parsed' = << >>
               /\ jobs' = Len(nicknames)
               /\ UNCHANGED work
       /\ UNCHANGED <<library, cacheFile>>

ReadAll == \E fromCache, reports \in BOOLEAN : Read(Lib, [l \in Lib |-> l], fromCache, reports)
\* The footprint viewer reads one library, and no table but its own is shown.
ReadOne == \E l \in Lib : Read({l}, <<l>>, TRUE, FALSE)

\* The main thread sees Cancel in KeepRefreshing(); loadFootprints() ignores it.
Cancel ==
    /\ pc = "fetching" /\ reporting /\ ~cancelled
    /\ cancelled' = TRUE
    /\ UNCHANGED <<library, pc, generated, reporting, queues, result, cacheFile>>

JobsDone == jobs = 0 /\ \A w \in Worker : work[w] = NoWork

\* loadLibs() returns and loadFootprints() submits a job for each library
\* that was fetched.
StartParsing ==
    /\ pc = "fetching" /\ JobsDone /\ ~cancelled
    /\ pc' = "parsing"
    /\ jobs' = Len(queueOut)
    /\ UNCHANGED <<library, generated, reporting, cancelled, queueIn, queueOut, parsed, work,
                   result, cacheFile>>

\* Mutant: the queue has to be empty, whatever the jobs do.
EndCancelledWhenEmpty ==
    /\ pc = "fetching" /\ JobsDone /\ cancelled /\ queueIn = << >>
    /\ pc' = "idle" /\ stamp' = None
    /\ UNCHANGED <<library, generated, reporting, cancelled, queues, list, errors, cacheFile>>
\* "God knows what we got before we were canceled"
EndCancelled ==
    /\ pc = "fetching" /\ JobsDone /\ cancelled
    /\ pc' = "idle" /\ stamp' = None
    /\ UNCHANGED <<library, generated, reporting, cancelled, queues, list, errors, cacheFile>>

\* What std::sort() may do: every entry goes to a place of its own.
Orders(entries) ==
    {order \in Bijection(1..Len(entries), 1..Len(entries)) :
        \A i, j \in 1..Len(entries) : i < j => entries[order[i]].lib <= entries[order[j]].lib}

\* Mutant: the stamp is generated when the libraries have been read.
EndReadStampedLate ==
    /\ pc = "parsing" /\ JobsDone
    /\ pc' = "idle"
    /\ stamp' = [l \in DOMAIN generated |-> disk[l]]
    /\ \E order \in Orders(parsed) : list' = [i \in 1..Len(parsed) |-> parsed[order[i]]]
    /\ parsed' = << >>
    /\ UNCHANGED <<library, generated, reporting, cancelled, queueIn, queueOut, jobs, work,
                   errors, cacheFile>>
\* The futures are ready: the list is moved out of the queue and sorted.
EndRead ==
    /\ pc = "parsing" /\ JobsDone
    /\ pc' = "idle"
    /\ stamp' = generated
    /\ \E order \in Orders(parsed) : list' = [i \in 1..Len(parsed) |-> parsed[order[i]]]
    /\ parsed' = << >>
    /\ UNCHANGED <<library, generated, reporting, cancelled, queueIn, queueOut, jobs, work,
                   errors, cacheFile>>

-----------------------------------------------------------------------------
(* Jobs of the thread pool.                                                  *)

\* Mutant: the job looks at the head of the queue and leaves it there.
StartJobPeeking(w) ==
    LET queue == IF pc = "fetching" THEN queueIn ELSE queueOut
    IN /\ jobs > 0 /\ work[w] = NoWork
       /\ jobs' = jobs - 1
       /\ work' = IF cancelled \/ queue = << >> THEN work
                  ELSE [work EXCEPT ![w] = [step |-> IF pc = "fetching" THEN "fetch" ELSE "parse",
                                            lib |-> Head(queue)]]
       /\ IF cancelled \/ queue = << >> \/ jobs > 1 THEN UNCHANGED <<queueIn, queueOut>>
          ELSE IF pc = "fetching" THEN queueIn' = Tail(queue) /\ UNCHANGED queueOut
          ELSE queueOut' = Tail(queue) /\ UNCHANGED queueIn
       /\ UNCHANGED <<library, reader, parsed, result, cacheFile>>
\* A thread starts a job, which pops a library from its queue.
StartJob(w) ==
    LET queue == IF pc = "fetching" THEN queueIn ELSE queueOut
        popped == ~cancelled /\ queue # << >>
    IN /\ jobs > 0 /\ work[w] = NoWork
       /\ jobs' = jobs - 1
       /\ work' = IF ~popped THEN work
                  ELSE [work EXCEPT ![w] = [step |-> IF pc = "fetching" THEN "fetch" ELSE "parse",
                                            lib |-> Head(queue)]]
       /\ queueIn' = IF popped /\ pc = "fetching" THEN Tail(queue) ELSE queueIn
       /\ queueOut' = IF popped /\ pc # "fetching" THEN Tail(queue) ELSE queueOut
       /\ UNCHANGED <<library, reader, parsed, result, cacheFile>>

EndJob(w) == work' = [work EXCEPT ![w] = NoWork]

\* Mutant: the exception ends the job without a trace.
LoseError(w) ==
    /\ work[w].step = "fetch"
    /\ EndJob(w)
    /\ UNCHANGED errors
    /\ UNCHANGED <<library, reader, queueIn, queueOut, parsed, jobs, list, stamp, cacheFile>>
\* CatchErrors() keeps what PrefetchLib() throws; the library is not passed on.
FetchFails(w) ==
    /\ work[w].step = "fetch"
    /\ EndJob(w)
    /\ errors' = errors \cup {work[w].lib}
    /\ UNCHANGED <<library, reader, queueIn, queueOut, parsed, jobs, list, stamp, cacheFile>>

Fetch(w) ==
    /\ work[w].step = "fetch"
    /\ EndJob(w)
    /\ queueOut' = Append(queueOut, work[w].lib)
    /\ UNCHANGED <<library, reader, queueIn, parsed, jobs, result, cacheFile>>

\* Mutant: the cache is used as it is.
ValidateNever(w) ==
    /\ work[w].step = "parse"
    /\ work' = [work EXCEPT ![w].step = "push"]
    /\ UNCHANGED <<library, reader, queueIn, queueOut, parsed, jobs, result, cacheFile>>
\* FootprintEnumerate(): validateCache() loads the library anew when the cache's
\* stamp is not the library's.  A file that cannot be parsed is an error of its
\* own and the rest is listed.
ValidateCache(w) ==
    LET l == work[w].lib
    IN /\ work[w].step = "parse"
       /\ IF cached[l].stamp = disk[l]
          THEN /\ work' = [work EXCEPT ![w].step = "push"]
               /\ UNCHANGED cached
          ELSE /\ work' = [work EXCEPT ![w].step = "stamp"]
               /\ cached' = [cached EXCEPT ![l].version = disk[l]]
       /\ UNCHANGED <<disk, reader, queueIn, queueOut, parsed, jobs, result, cacheFile>>

\* FP_CACHE::Load() takes the stamp when every file has been read.
StampCache(w) ==
    LET l == work[w].lib
    IN /\ work[w].step = "stamp"
       /\ work' = [work EXCEPT ![w].step = "push"]
       /\ cached' = [cached EXCEPT ![l].stamp = disk[l]]
       /\ UNCHANGED <<disk, reader, queueIn, queueOut, parsed, jobs, result, cacheFile>>

\* GetEnumeratedFootprint() does not look at the disk again.
PushFootprints(w) ==
    LET l == work[w].lib
    IN /\ work[w].step = "push"
       /\ EndJob(w)
       /\ parsed' = Append(parsed, [lib |-> l, version |-> cached[l].version])
       /\ UNCHANGED <<library, reader, queueIn, queueOut, jobs, result, cacheFile>>

-----------------------------------------------------------------------------
(* The rest of the program, and the world.                                   *)

\* DisplayErrors() pops what it shows.
DisplayErrors ==
    /\ pc = "idle" /\ errors # {}
    /\ errors' = {}
    /\ UNCHANGED <<library, reader, queues, list, stamp, cacheFile>>

\* PCB_EDIT_FRAME::OpenProjectFiles() clears the list, and reads the cache
\* unless the board cannot be loaded.
OpenBoard ==
    /\ pc = "idle"
    /\ \/ list' = Listed(cacheFile) /\ stamp' = Trusted(cacheFile)
       \/ list' = << >> /\ UNCHANGED stamp
    /\ UNCHANGED <<library, reader, queues, errors, cacheFile>>

\* A frame closes: WriteCacheToFile() writes a temporary file and renames it,
\* or fails to.
WriteCache ==
    /\ pc = "idle"
    /\ cacheFile' = [stamp |-> stamp, list |-> list]
    /\ UNCHANGED <<library, reader, queues, result>>

\* The program ends, or dies, and is started again.
Restart ==
    /\ cached' = [l \in Lib |-> NoCache]
    /\ pc' = "idle" /\ generated' = None /\ reporting' = FALSE /\ cancelled' = FALSE
    /\ queueIn' = << >> /\ queueOut' = << >> /\ parsed' = << >>
    /\ jobs' = 0 /\ work' = [w \in Worker |-> NoWork]
    /\ list' = << >> /\ stamp' = None /\ errors' = {}
    /\ UNCHANGED <<disk, cacheFile>>

\* Somebody changes a library.
EditLibrary(l) ==
    /\ disk[l] < MaxVersion
    /\ RacingStamps \/ \A w \in Worker : ~(work[w].step = "stamp" /\ work[w].lib = l)
    /\ disk' = [disk EXCEPT ![l] = @ + 1]
    /\ UNCHANGED <<cached, reader, queues, result, cacheFile>>

-----------------------------------------------------------------------------
Job(w) ==
    StartJob(w) \/ FetchFails(w) \/ Fetch(w) \/ ValidateCache(w) \/ StampCache(w)
    \/ PushFootprints(w)
Wait == StartParsing \/ EndCancelled \/ EndRead

Next ==
    \/ ReadAll \/ ReadOne \/ Cancel \/ Wait
    \/ \E w \in Worker : Job(w)
    \/ DisplayErrors \/ OpenBoard \/ WriteCache \/ Restart
    \/ \E l \in Lib : EditLibrary(l)

Spec == Init /\ [][Next]_vars

\* The threads of the pool run, and the main thread returns from a future that
\* is ready.  Nobody has to edit, cancel or read.
FairSpec == Spec /\ WF_vars(Wait) /\ \A w \in Worker : WF_vars(Job(w))

-----------------------------------------------------------------------------
(* Properties.                                                               *)

EntriesOf(s) == {s[i] : i \in 1..Len(s)}

\* A list that is not empty and whose stamp is the one of the libraries as they
\* are shows every library as it is, but for those that could not be fetched
\* when it was read.  It is the list ReadFootprintFiles() returns without
\* reading (pcbnew/footprint_info_impl.cpp:113), now or after a restart.
FreshListIsCurrent ==
    pc = "idle" /\ list # << >> /\ stamp = GenerateTimestamp(Lib) =>
        \A e \in EntriesOf(list) : e.version = disk[e.lib]

\* No library is listed twice, whichever jobs popped it.
ListedOnce ==
    \A i, j \in 1..Len(list) : i < j => list[i].lib < list[j].lib

\* When the jobs are done, each library that was asked for is in the list or
\* among the errors; after Cancel the list has no stamp to be found under.
ReadIsComplete ==
    [][pc # "idle" /\ pc' = "idle" /\ generated' # None =>
        \/ stamp' = None
        \/ stamp' = generated
           /\ \A l \in DOMAIN generated : l \in errors' \/ \E e \in EntriesOf(list') : e.lib = l]_vars

\* Reading ends, cancelled or not.
ReadEnds == pc # "idle" ~> pc = "idle"
=============================================================================
