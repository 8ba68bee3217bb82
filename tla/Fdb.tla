-------------------------------- MODULE Fdb ---------------------------------
(***************************************************************************)
(* fdb (src/src/fdb): one thread walks a directory tree and pushes every   *)
(* regular file it meets to an APR thread pool; the pool's threads hash    *)
(* the files and insert one row per file into an SQLite table.             *)
(*                                                                         *)
(* A work item carries the length of the path, the size of the file and a  *)
(* POINTER to the path: the array full_path on the stack of the            *)
(* walk_recur call that pushed it.  The walker writes the next path to the *)
(* same array while workers read it, and the array dies with the call.     *)
(* Calls at the same depth of the recursion have it at the same address,   *)
(* so buf is indexed by depth.  What a reader sees in the middle of a      *)
(* write, or after the call has returned and the stack was reused, is      *)
(* Junk: no path at all.                                                   *)
(*                                                                         *)
(* The database file outlives the process: fdb may be killed or give up at *)
(* any moment, and be run again on the same database.  Everything but      *)
(* table and runs is the process's memory and starts afresh.               *)
(*                                                                         *)
(* External, modelled from their use: the APR pool (push, cancel, which    *)
(* drops what is queued and waits for what runs), SQLite in its serialised *)
(* mode (each call is one step, an insert is its own transaction; a        *)
(* statement reads bound text when it is stepped; closing a handle that    *)
(* still has a statement is refused) and the file system (a path hashes to *)
(* the content of the file it names; a directory opens and hashes like an  *)
(* empty file).                                                            *)
(***************************************************************************)
EXTENDS Integers, Sequences, FiniteSets, SequencesExt

CONSTANTS Files,      \* the regular files under the start directory
          Dirs,       \* the directories, the start directory included
          Root,       \* argv[2]
          Entries,    \* Entries[d]: what readdir returns for d
          PathLen,    \* PathLen[p]: strlen of the path of p
          Workers,    \* the threads of the pool, FDB_THREADS in the code
          Junk,       \* bytes that are no path
          NoFile,     \* a worker's item when it has none
          Failures,   \* which calls may fail, and whether fdb may be killed
          MaxRuns     \* bound: how often fdb is run on the database

Paths == Files \cup Dirs

\* Directories form a tree: a directory is deeper than the one it is in, and no
\* path from the root is longer than there are directories.
DeeperInside(depth) == \A d \in Dirs : \A e \in Entries[d] \cap Dirs : depth[d] < depth[e]

ASSUME TreeAssumption == /\ Root \in Dirs /\ IsFiniteSet(Dirs)
                         /\ Entries \in [Dirs -> SUBSET (Paths \ {Root})]
                         /\ \E depth \in [Dirs -> 1 .. Cardinality(Dirs)] : DeeperInside(depth)
                         /\ PathLen \in [Paths -> Nat]
                         /\ Junk \notin Paths /\ NoFile \notin Paths
                         /\ NoFile \notin [full_path : Nat, pathlen : Nat, file : Files]
ASSUME RunAssumption == /\ MaxRuns \in Nat /\ IsFiniteSet(Workers)
                        /\ Failures \subseteq {"access", "open", "create", "codes", "allocator",
                                               "pool", "push", "cancel", "sqlite", "kill"}

VARIABLES stage,      \* the call main is about to make; "ended": no process
          db,         \* the handle: "none", "open", "closed", "closed again"
          stack,      \* the active walk_recur calls: directory, entries to come
          entry,      \* the dirent being handled, NoFile between two
          written,    \* full_path holds the whole path of entry
          buf,        \* full_path of the walk_recur call at each depth
          threads,    \* the pool of workers exists
          queued,     \* items pushed and not started
          started,    \* history: how many items workers have started
          item,       \* the item each worker runs
          at,         \* where in do_work each worker is
          seen,       \* its local values: a counter it has read, a hash
          table,      \* the rows of fdb_files
          runs,       \* history: how often fdb has been started
          count,      \* file_count
          inserted    \* file_insert_count

walker == <<stack, entry, written, buf>>
pool == <<threads, queued, started, item, at, seen>>
counters == <<count, inserted>>
disk == <<table, runs>>
vars == <<stage, db, walker, pool, counters, disk>>

Depth == 1 .. Cardinality(Dirs)
Top == Last(stack)

Init == /\ stage = "ended" /\ db = "none"
        /\ stack = <<>> /\ entry = NoFile /\ written = FALSE
        /\ buf = [d \in Depth |-> Junk]
        /\ threads = FALSE /\ queued = {} /\ started = 0
        /\ item = [w \in Workers |-> NoFile]
        /\ at = [w \in Workers |-> "idle"]
        /\ seen = [w \in Workers |-> 0]
        /\ count = 0 /\ inserted = 0
        /\ table = {} /\ runs = 0

\* The process is gone, with its memory and all its threads: by a return from
\* main, exit(-1), a failed assertion in any thread, or a signal.
ProcessEnds == /\ stage' = "ended" /\ db' = "none"
               /\ stack' = <<>> /\ entry' = NoFile /\ written' = FALSE
               /\ buf' = [d \in Depth |-> Junk]
               /\ threads' = FALSE /\ queued' = {} /\ started' = 0
               /\ item' = [w \in Workers |-> NoFile]
               /\ at' = [w \in Workers |-> "idle"]
               /\ seen' = [w \in Workers |-> 0]
               /\ count' = 0 /\ inserted' = 0
               /\ UNCHANGED disk

-----------------------------------------------------------------------------
(* main, up to the walk *)

\* fdb is started.  Its first assertion is that the start directory is there.
Begin == /\ stage = "ended" /\ runs < MaxRuns
         /\ runs' = runs + 1
         /\ \/ stage' = "open"
            \/ "access" \in Failures /\ UNCHANGED stage
         /\ UNCHANGED <<db, walker, pool, counters, table>>

\* main goes on to its next call; what these calls leave alone.
Goto(from, to) == stage = from /\ stage' = to /\ UNCHANGED <<walker, counters, disk>>
Fails(call) == stage = call /\ call \in Failures

\* sqlite3_open; when it fails the handle is closed and an assertion aborts.
OpenDb == \/ Goto("open", "create") /\ db' = "open" /\ UNCHANGED pool
          \/ Fails("open") /\ ProcessEnds

\* sqlite3_close refuses a handle that has a statement which is not finalised.
HasStatement == \E w \in Workers : at[w] = "insert"
CloseHandle == db' = IF db # "open" THEN "closed again"
                     ELSE IF HasStatement THEN db ELSE "closed"

\* "create table if not exists" keeps the table that is there.  When it fails
\* (the file is no database) main closes the handle and jumps to quick_exit.
CreateTable == /\ \/ Goto("create", "codes") /\ UNCHANGED db
                  \/ Fails("create") /\ Goto("create", "close") /\ CloseHandle
               /\ UNCHANGED pool

\* A call whose failure makes main jump to quick_exit.
OrQuickExit(call, next) == /\ Goto(call, next) \/ (Fails(call) /\ Goto(call, "close"))
                           /\ UNCHANGED <<db, pool>>
ResultCodes == OrQuickExit("codes", "allocator")
Allocator == OrQuickExit("allocator", "pool")

\* fdb_start_workers, which exits when there is no thread pool, and the call of
\* walk_recur, which returns at once when it cannot open the directory.
StartWorkers == \/ /\ stage = "pool"
                   /\ \/ stage' = "walk" /\ stack' = <<[dir |-> Root, todo |-> Entries[Root]]>>
                      \/ stage' = "cancel" /\ UNCHANGED stack
                   /\ threads' = TRUE
                   /\ UNCHANGED <<db, entry, written, buf, queued, started, item, at, seen,
                                  counters, disk>>
                \/ Fails("pool") /\ ProcessEnds

-----------------------------------------------------------------------------
(* walk_recur *)

\* readdir returns the next entry, in any order, and snprintf starts on its path.
ReadEntry(e) == /\ stage = "walk" /\ entry = NoFile
                /\ e \in Top.todo
                /\ entry' = e
                /\ stack' = [stack EXCEPT ![Len(stack)].todo = @ \ {e}]
                /\ buf' = [buf EXCEPT ![Len(stack)] = Junk]
                /\ UNCHANGED <<stage, db, written, pool, counters, disk>>

WritePath == /\ stage = "walk" /\ entry # NoFile /\ ~written
             /\ buf' = [buf EXCEPT ![Len(stack)] = entry]
             /\ written' = TRUE
             /\ UNCHANGED <<stage, db, stack, entry, pool, counters, disk>>

\* The entry's path is there, and the loop goes on to the next one.
Entered == /\ stage = "walk" /\ written /\ entry' = NoFile /\ written' = FALSE
           /\ UNCHANGED <<stage, db, buf, threads, started, item, at, seen, counters, disk>>

\* stat fails, or opendir does in the nested call: the entry is passed over.
SkipEntry == Entered /\ UNCHANGED <<stack, queued>>

\* A regular file: a filework is pushed that points at this call's full_path.
PushFile == /\ Entered
            /\ entry \in Files
            /\ queued' = queued \cup {[full_path |-> Len(stack), pathlen |-> PathLen[entry],
                                       file |-> entry]}
            /\ UNCHANGED stack

\* The push fails: exit(-1), whatever the workers are doing.
PushFails == /\ stage = "walk" /\ written
             /\ entry \in Files
             /\ "push" \in Failures
             /\ ProcessEnds

Descend == /\ Entered
           /\ entry \in Dirs
           /\ stack' = Append(stack, [dir |-> entry, todo |-> Entries[entry]])
           /\ UNCHANGED queued

\* The directory is finished: the call returns, and its full_path is dead.
Return == /\ stage = "walk" /\ entry = NoFile /\ Top.todo = {}
          /\ \E left \in {buf[Len(stack)], Junk} : buf' = [buf EXCEPT ![Len(stack)] = left]
          /\ stack' = Front(stack)
          /\ stage' = IF Len(stack) = 1 THEN "cancel" ELSE stage
          /\ UNCHANGED <<db, entry, written, pool, counters, disk>>

-----------------------------------------------------------------------------
(* main, after the walk *)

\* apr_thread_pool_tasks_cancel removes the items that have not started ...
\* If it fails, main jumps to quick_exit and leaves the pool to itself.
Cancel == /\ UNCHANGED <<db, threads, started, item, at, seen>>
          /\ \/ Goto("cancel", "wait") /\ queued' = {}
             \/ Fails("cancel") /\ Goto("cancel", "close") /\ UNCHANGED queued

\* Mutant of Cancelled: main does not wait for the items that run.
CancelledAtOnce == Goto("wait", "destroy") /\ UNCHANGED <<db, pool>>

\* ... and returns when no item of this owner runs.
Cancelled == /\ Goto("wait", "destroy")
             /\ \A w \in Workers : item[w] = NoFile
             /\ UNCHANGED <<db, pool>>

\* The idle pool is destroyed; a failure is only printed.
DestroyPool == /\ Goto("destroy", "close")
               /\ threads' = FALSE
               /\ UNCHANGED <<db, queued, started, item, at, seen>>

\* quick_exit: the handle is closed, and main returns.
CloseDb == Goto("close", "return") /\ CloseHandle /\ UNCHANGED pool
ReturnFromMain == stage = "return" /\ ProcessEnds

-----------------------------------------------------------------------------
(* do_work, by worker w *)

\* The bytes that full_path points at, and the name that pathlen of them make.
Path(w) == buf[item[w].full_path]
Name(p, n) == IF p = Junk THEN Junk
              ELSE IF PathLen[p] = n THEN p
              ELSE <<p, n>>             \* cut short, or longer than the path
BoundName(w) == Name(Path(w), item[w].pathlen)

Goes(w, from, to) == at[w] = from /\ at' = [at EXCEPT ![w] = to]

Start(w) == /\ threads
            /\ Goes(w, "idle", "count")
            /\ \E fw \in queued : /\ item' = [item EXCEPT ![w] = fw]
                                  /\ queued' = queued \ {fw}
            /\ started' = started + 1
            /\ UNCHANGED <<stage, db, walker, threads, seen, counters, disk>>

\* What the steps of a worker that has its item leave alone.
Rest == UNCHANGED <<stage, db, walker, threads, queued, started, runs>>

\* file_count++ is a load and a store.
LoadCount(w) == /\ Goes(w, "count", "count+1")
                /\ seen' = [seen EXCEPT ![w] = count]
                /\ Rest /\ UNCHANGED <<item, table, counters>>

\* Mutant of StoreCount: file_count is raised twice.
StoreCountTwice(w) == /\ Goes(w, "count+1", "exists")
                      /\ count' = seen[w] + 2
                      /\ seen' = [seen EXCEPT ![w] = 0]
                      /\ Rest /\ UNCHANGED <<item, table, inserted>>

StoreCount(w) == /\ Goes(w, "count+1", "exists")
                 /\ count' = seen[w] + 1
                 /\ seen' = [seen EXCEPT ![w] = 0]
                 /\ Rest /\ UNCHANGED <<item, table, inserted>>

\* sql_file_exists: a file that is in the table is not looked at again.
Exists(w) == /\ db = "open"
             /\ LET known == \E r \in table : r.fname = BoundName(w)
                IN  Goes(w, "exists", IF known THEN "done" ELSE "md5")
             /\ Rest /\ UNCHANGED <<item, seen, table, counters>>

\* Any error of the query is a failed assertion, which ends every thread.
ExistsFails(w) == /\ at[w] = "exists"
                  /\ db # "open" \/ "sqlite" \in Failures
                  /\ ProcessEnds

\* Mutant of Md5: the test for -1 is left out.
Md5Unchecked(w) == /\ Goes(w, "md5", "insert")
                   /\ seen' = [seen EXCEPT ![w] = IF Path(w) = Junk THEN 0 ELSE Path(w)]
                   /\ Rest /\ UNCHANGED <<item, table, counters>>

\* sql_insert_file, first half: the statement is prepared and io_md5 opens the
\* path as it is now.  When it cannot, no row is inserted, but do_work counts
\* one all the same.
Md5(w) == /\ at[w] = "md5"
          /\ db = "open" \/ Path(w) = Junk
          /\ Goes(w, "md5", IF Path(w) = Junk THEN "inserted" ELSE "insert")
          /\ seen' = [seen EXCEPT ![w] = IF Path(w) = Junk THEN 0 ELSE Path(w)]
          /\ Rest /\ UNCHANGED <<item, table, counters>>

\* Without a handle there is no statement to bind to: an assertion fails.
Md5Aborts(w) == /\ at[w] = "md5" /\ db # "open"
                /\ Path(w) # Junk
                /\ ProcessEnds

Row(w) == [fname |-> BoundName(w), fsize |-> item[w].file, md5_full |-> seen[w]]
Named(w) == {r \in table : r.fname = BoundName(w)}

\* Mutant of Insert: fname is not a primary key, and Exists the only guard.
InsertAlways(w) == /\ Goes(w, "insert", "inserted")
                   /\ table' = table \cup {Row(w)}
                   /\ seen' = [seen EXCEPT ![w] = 0]
                   /\ Rest /\ UNCHANGED <<item, counters>>

\* Mutant of Insert: "insert or replace".
InsertReplaces(w) == /\ Goes(w, "insert", "inserted")
                     /\ table' = (table \ Named(w)) \cup {Row(w)}
                     /\ seen' = [seen EXCEPT ![w] = 0]
                     /\ Rest /\ UNCHANGED <<item, counters>>

\* Second half: the statement is stepped.  A primary key violation, and any
\* other error, is one that "if(SQLITE_DONE)" takes for success.
Insert(w) == /\ Goes(w, "insert", "inserted")
             /\ \/ Named(w) = {} /\ table' = table \cup {Row(w)}
                \/ /\ Named(w) # {} \/ "sqlite" \in Failures
                   /\ UNCHANGED table
             /\ seen' = [seen EXCEPT ![w] = 0]
             /\ Rest /\ UNCHANGED <<item, counters>>

\* file_insert_count++ is a load and a store.
LoadInserted(w) == /\ Goes(w, "inserted", "inserted+1")
                   /\ seen' = [seen EXCEPT ![w] = inserted]
                   /\ Rest /\ UNCHANGED <<item, table, counters>>
StoreInserted(w) == /\ Goes(w, "inserted+1", "done")
                    /\ inserted' = seen[w] + 1
                    /\ seen' = [seen EXCEPT ![w] = 0]
                    /\ Rest /\ UNCHANGED <<item, table, count>>

\* do_work returns to the pool.
Finish(w) == /\ Goes(w, "done", "idle")
             /\ item' = [item EXCEPT ![w] = NoFile]
             /\ Rest /\ UNCHANGED <<seen, table, counters>>

-----------------------------------------------------------------------------
Main == \/ OpenDb \/ CreateTable \/ ResultCodes \/ Allocator \/ StartWorkers
        \/ \E e \in Paths : ReadEntry(e)
        \/ WritePath \/ SkipEntry \/ PushFile \/ PushFails \/ Descend \/ Return
        \/ Cancel \/ Cancelled \/ DestroyPool \/ CloseDb \/ ReturnFromMain

Work(w) == \/ LoadCount(w) \/ StoreCount(w) \/ Exists(w) \/ ExistsFails(w)
           \/ Md5(w) \/ Md5Aborts(w) \/ Insert(w)
           \/ LoadInserted(w) \/ StoreInserted(w) \/ Finish(w)

\* A signal, or the machine stops, between any two steps.
Kill == "kill" \in Failures /\ stage # "ended" /\ ProcessEnds

NotStartedAgain == stage = "ended" /\ runs = MaxRuns /\ UNCHANGED vars

Next == \/ Begin \/ Main \/ Kill \/ NotStartedAgain
        \/ \E w \in Workers : Start(w) \/ Work(w)

\* The walker and every thread that has an item are scheduled.  Whether a
\* queued item is started before main cancels it is anybody's guess.
Fairness == WF_vars(Main) /\ \A w \in Workers : WF_vars(Work(w))

Spec == Init /\ [][Next]_vars /\ Fairness
-----------------------------------------------------------------------------
Names == Paths \cup {Junk} \cup (Paths \X {PathLen[p] : p \in Paths})
Items == [full_path : Depth, pathlen : {PathLen[p] : p \in Paths}, file : Files]

\* Every variable has its type; the walk is never deeper than the tree, so each
\* walk_recur call has a full_path of its own.
TypeOK == /\ stage \in {"ended", "open", "create", "codes", "allocator", "pool", "walk",
                        "cancel", "wait", "destroy", "close", "return"}
          /\ db \in {"none", "open", "closed", "closed again"}
          /\ Len(stack) <= Cardinality(Dirs)
          /\ \A i \in DOMAIN stack : stack[i].dir \in Dirs /\ stack[i].todo \subseteq Paths
          /\ entry \in Paths \cup {NoFile} /\ written \in BOOLEAN
          /\ buf \in [Depth -> Paths \cup {Junk}]
          /\ threads \in BOOLEAN
          /\ queued \subseteq Items /\ started \in Nat
          /\ item \in [Workers -> Items \cup {NoFile}]
          /\ \A w \in Workers : item[w] = NoFile <=> at[w] = "idle"
          /\ table \subseteq [fname : Names, fsize : Files, md5_full : Paths]
          /\ runs \in 0 .. MaxRuns
          /\ count \in Nat /\ inserted \in Nat

\* When main has destroyed the pool and closed the database, no worker is inside
\* do_work, where it would call SQLite on the closed handle, and no item is left
\* for one to start.  (If the cancel fails main leaves the pool alive.)
NoUseAfterClose == db \notin {"none", "open"} /\ ~threads
                      => queued = {} /\ \A w \in Workers : at[w] = "idle"

\* Two workers can both find a name missing and both insert it (they may even
\* read the same overwritten path): there is still one row per name.
OneRowPerName == \A r1, r2 \in table : r1.fname = r2.fname => r1 = r2

\* The unsynchronised counters may lose updates but never run ahead: neither
\* exceeds the number of items that this process has started.
CountersNeverAhead == count <= started /\ inserted <= started

\* Whatever fails, and however often fdb is killed and run again, its database
\* is a table of rows that are only added, by a running fdb, under new names; and
\* every fdb exits: its walk ends, and cancelling does not wait for ever.
FileTable == INSTANCE FileTable WITH rows <- table, running <- stage # "ended"
ImplementsTable == FileTable!TableSpec

\* main closes the database as sqlite3.h:292-309 asks: "Applications should finalize
\* all prepared statements ... prior to attempting to close the object", so no worker is
\* between preparing and finalising its insert when main gets there, and the handle is
\* one "not previously closed".
ClosedAsDocumented == /\ db # "closed again"
                      /\ stage = "close" => ~HasStatement

\* A row of fdb_files describes one file: its name, its size and its hash belong
\* together (the columns of fdb.c:31-35).
RowDescribesItsFile == \A r \in table : r.fname = r.fsize /\ r.md5_full = r.fsize
=============================================================================
