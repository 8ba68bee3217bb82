----------------------------- MODULE FdbProofs ------------------------------
(***************************************************************************)
(* What fdb keeps for every directory tree, every number of workers and    *)
(* every set of calls that fail: its shutdown is clean, its table has one  *)
(* row per name, its counters never run ahead, and whatever happens to it  *)
(* the table only grows (FileTable).                                       *)
(***************************************************************************)
EXTENDS Fdb, FiniteSetTheorems, SequenceTheorems, TLAPS

-----------------------------------------------------------------------------
(* The inductive invariant, by the parts of the state *)

Stages == {"ended", "open", "create", "codes", "allocator", "pool", "walk",
           "cancel", "wait", "destroy", "close", "return"}
Frame == [dir : Dirs, todo : SUBSET Paths]
Places == {"idle", "count", "count+1", "exists", "md5", "insert", "inserted",
           "inserted+1", "done"}

\* Some measure of how deep in the tree a directory is.
HowDeep == CHOOSE depth \in [Dirs -> 1 .. Cardinality(Dirs)] : DeeperInside(depth)

Process == /\ stage \in Stages
           /\ db \in {"none", "open", "closed", "closed again"}
           /\ runs \in 0 .. MaxRuns
           /\ threads \in BOOLEAN
           /\ stage = "ended" => ~threads

\* The walk is where the stack says it is, and no call is deeper in the
\* recursion than its directory is in the tree.
Walking == /\ stack \in Seq(Frame)
           /\ stage = "walk" <=> stack # <<>>
           /\ stage = "walk" => threads
           /\ entry \in Paths \cup {NoFile} /\ written \in BOOLEAN
           /\ entry # NoFile => stage = "walk" /\ entry \in Entries[Top.dir]
           /\ written => entry # NoFile
           /\ buf \in [Depth -> Paths \cup {Junk}]
           /\ \A i \in 1 .. Len(stack) : /\ stack[i].todo \subseteq Entries[stack[i].dir]
                                         /\ i <= HowDeep[stack[i].dir]

\* What a worker holds fits the place it is at.
Working == /\ queued \subseteq Items
           /\ item \in [Workers -> Items \cup {NoFile}]
           /\ at \in [Workers -> Places]
           /\ seen \in [Workers -> Nat \cup Paths]
           /\ \A w \in Workers : /\ item[w] = NoFile <=> at[w] = "idle"
                                 /\ at[w] \in {"count+1", "inserted+1"} => seen[w] \in Nat
                                 /\ at[w] = "insert" => seen[w] \in Paths

\* There is nothing to do and nobody doing it before the pool exists and after
\* it has been destroyed.
Shutdown == /\ ~threads => queued = {} /\ \A w \in Workers : at[w] = "idle"
            /\ stage \in {"wait", "destroy"} => queued = {}
            /\ stage = "destroy" => \A w \in Workers : at[w] = "idle"

Rows == /\ table \subseteq [fname : Names, fsize : Files, md5_full : Paths]
        /\ OneRowPerName

\* Workers that have not yet counted their item, before the query and after the
\* insert.
Uncounted == {w \in Workers : at[w] \in {"count", "count+1"}}
Uninserted == {w \in Workers : at[w] \notin {"idle", "done"}}

\* Each of them leaves room for the one it is going to add, also to the value
\* that a worker has read before.
Counting ==
    /\ started \in Nat /\ count \in Nat /\ inserted \in Nat
    /\ count + Cardinality(Uncounted) <= started
    /\ inserted + Cardinality(Uninserted) <= started
    /\ \A w \in Workers :
          /\ at[w] = "count+1" => seen[w] + Cardinality(Uncounted) <= started
          /\ at[w] = "inserted+1" => seen[w] + Cardinality(Uninserted) <= started

IInv == Process /\ Walking /\ Working /\ Shutdown /\ Rows /\ Counting
-----------------------------------------------------------------------------
(* Lemmas about the tree and the stack *)

LEMMA HowDeepFits == /\ HowDeep \in [Dirs -> 1 .. Cardinality(Dirs)]
                     /\ DeeperInside(HowDeep)
BY TreeAssumption, Zenon DEF HowDeep

LEMMA DirsCount == Cardinality(Dirs) \in Nat /\ Cardinality(Dirs) >= 1
<1>1. Cardinality(Dirs) \in Nat
    BY TreeAssumption, FS_CardinalityType
<1>2. Cardinality(Dirs) # 0
    BY TreeAssumption, FS_EmptySet
<1> QED
    BY <1>1, <1>2

\* The array full_path of an active call.
LEMMA TopIsShallow ==
  ASSUME Walking, stage = "walk"
  PROVE  /\ Len(stack) \in Depth
         /\ Top \in Frame
         /\ Top = stack[Len(stack)]
         /\ Top.todo \subseteq Entries[Top.dir]
         /\ Len(stack) <= HowDeep[Top.dir]
<1>1. stack \in Seq(Frame) /\ stack # <<>>
    BY DEF Walking
<1>2. Len(stack) \in 1 .. Len(stack)
    BY <1>1
<1>3. /\ Top = stack[Len(stack)] /\ Top \in Frame
      /\ Top.todo \subseteq Entries[Top.dir] /\ Len(stack) <= HowDeep[Top.dir]
    BY <1>1, <1>2 DEF Walking, Top, Last
<1>4. Len(stack) \in Depth
    BY <1>1, <1>3, HowDeepFits, DirsCount DEF Depth, Frame
<1> QED
    BY <1>3, <1>4

LEMMA NoFileIsNoItem == NoFile \notin Items
<1>1. Depth \subseteq Nat
    BY DirsCount DEF Depth
<1>2. {PathLen[p] : p \in Paths} \subseteq Nat
    BY TreeAssumption
<1>3. Items \subseteq [full_path : Nat, pathlen : Nat, file : Files]
    BY <1>1, <1>2 DEF Items
<1> QED
    BY <1>3, TreeAssumption

LEMMA WorkerHolds ==
  ASSUME Walking, Working, NEW w \in Workers, at[w] # "idle"
  PROVE  /\ item[w] \in Items
         /\ Path(w) \in Paths \cup {Junk}
         /\ BoundName(w) \in Names
<1>1. item[w] \in Items
    BY DEF Working
<1>2. item[w].full_path \in Depth /\ item[w].pathlen \in {PathLen[p] : p \in Paths}
    BY <1>1 DEF Items
<1>3. Path(w) \in Paths \cup {Junk}
    BY <1>2 DEF Path, Walking
<1>4. BoundName(w) \in Names
    BY <1>2, <1>3 DEF BoundName, Name, Names
<1> QED
    BY <1>1, <1>3, <1>4

\* The invariant has the types, which the runs check as they are written in Fdb.
LEMMA IInvTypeOK == ASSUME IInv PROVE TypeOK
<1>1. Len(stack) <= Cardinality(Dirs)
  <2>1. CASE stage = "walk"
      BY <2>1, TopIsShallow, DirsCount DEF IInv, Depth
  <2>2. CASE stage # "walk"
      BY <2>2, DirsCount DEF IInv, Walking
  <2> QED
      BY <2>1, <2>2
<1>2. \A i \in DOMAIN stack : stack[i].dir \in Dirs /\ stack[i].todo \subseteq Paths
  <2> SUFFICES ASSUME NEW i \in DOMAIN stack
               PROVE  stack[i].dir \in Dirs /\ stack[i].todo \subseteq Paths
      OBVIOUS
  <2>1. stack \in Seq(Frame)
      BY DEF IInv, Walking
  <2>2. stack[i] \in Frame
      BY <2>1
  <2> QED
      BY <2>2 DEF Frame
<1> QED
    BY <1>1, <1>2 DEF IInv, TypeOK, Process, Stages, Walking, Working, Rows, Counting

-----------------------------------------------------------------------------
(* The steps *)

\* A new process starts from nothing but the table.
LEMMA NothingRuns ==
  ASSUME IInv, stack' = <<>>, entry' = NoFile, written' = FALSE,
         buf' = [d \in Depth |-> Junk], threads' = FALSE, queued' = {}, started' = 0,
         item' = [w \in Workers |-> NoFile], at' = [w \in Workers |-> "idle"],
         seen' = [w \in Workers |-> 0], count' = 0, inserted' = 0,
         UNCHANGED disk, stage' = "ended", db' = "none"
  PROVE  IInv'
<1>1. Process'
    BY DEF IInv, Process, Stages, disk
<1>2. Walking'
  <2>1. stack' \in Seq(Frame) /\ 1 .. Len(stack') = {}
      OBVIOUS
  <2>2. buf' \in [Depth -> Paths \cup {Junk}]
      OBVIOUS
  <2>3. stage' # "walk"
      OBVIOUS
  <2>4. entry' = NoFile /\ written' = FALSE /\ stack' = <<>>
      OBVIOUS
  <2> QED
      BY ONLY <2>1, <2>2, <2>3, <2>4 DEF Walking
<1>3. Working'
    BY DEF Working, Places
<1>4. Shutdown'
    BY DEF Shutdown
<1>5. Rows'
    BY DEF IInv, Rows, OneRowPerName, disk
<1>6. Counting'
  <2>1. Uncounted' = {} /\ Uninserted' = {}
      BY DEF Uncounted, Uninserted
  <2>2. \A w \in Workers : at'[w] = "idle"
      OBVIOUS
  <2> QED
      BY <2>1, <2>2, FS_EmptySet DEF Counting
<1> QED
    BY <1>1, <1>2, <1>3, <1>4, <1>5, <1>6 DEF IInv

LEMMA EndStep == ASSUME IInv, ProcessEnds PROVE IInv'
BY NothingRuns DEF ProcessEnds
-----------------------------------------------------------------------------
(* What a step leaves alone it keeps *)

LEMMA KeepWalking ==
  ASSUME Walking, UNCHANGED walker,
         (stage # "walk" /\ stage' # "walk") \/ UNCHANGED <<stage, threads>>
  PROVE  Walking'
BY DEF Walking, walker, Top

LEMMA KeepWorking == ASSUME Working, UNCHANGED <<queued, item, at, seen>> PROVE Working'
BY DEF Working

LEMMA KeepRows == ASSUME Rows, UNCHANGED table PROVE Rows'
BY DEF Rows, OneRowPerName

LEMMA KeepCounting ==
  ASSUME Counting, UNCHANGED <<started, at, seen, count, inserted>>
  PROVE  Counting'
BY DEF Counting, Uncounted, Uninserted

\* A call of main outside the walk, that the pool does not notice.
LEMMA MainCall ==
  ASSUME IInv, UNCHANGED <<walker, pool, count, inserted, table>>,
         stage # "walk", stage' \in Stages \ {"walk", "ended", "wait", "destroy"},
         db' \in {"none", "open", "closed", "closed again"}, runs' \in 0 .. MaxRuns
  PROVE  IInv'
<1>1. Process'
    BY DEF IInv, Process, pool
<1>2. Walking'
    BY KeepWalking DEF IInv, Stages
<1>3. Shutdown'
    BY DEF IInv, Shutdown, pool, Stages
<1> QED
    BY <1>1, <1>2, <1>3, KeepWorking, KeepRows, KeepCounting DEF IInv, pool

-----------------------------------------------------------------------------
(* main, outside the walk *)

LEMMA BeginStep == ASSUME IInv, Begin PROVE IInv'
<1>1. runs' \in 0 .. MaxRuns
  <2>1. runs < MaxRuns /\ runs' = runs + 1
      BY DEF Begin
  <2>2. runs \in 0 .. MaxRuns /\ MaxRuns \in Nat
      BY RunAssumption DEF IInv, Process
  <2> QED
      BY ONLY <2>1, <2>2
<1>2. CASE stage' = "open"
    BY <1>1, <1>2, MainCall DEF IInv, Process, Begin, counters, Stages
<1>3. CASE UNCHANGED stage
  <2>1. Process' /\ Shutdown'
      BY <1>1, <1>3 DEF IInv, Process, Shutdown, Begin, pool
  <2> QED
      BY <1>3, <2>1, KeepWalking, KeepWorking, KeepRows, KeepCounting
      DEF IInv, Begin, counters, pool
<1> QED
    BY <1>2, <1>3 DEF Begin

LEMMA HandleClosed == ASSUME Process, CloseHandle
                      PROVE  db' \in {"none", "open", "closed", "closed again"}
BY DEF Process, CloseHandle

LEMMA CallsStep ==
  ASSUME IInv, OpenDb \/ CreateTable \/ ResultCodes \/ Allocator \/ CloseDb
  PROVE  IInv'
<1>1. CASE OpenDb /\ ~ProcessEnds
    BY <1>1, MainCall DEF IInv, Process, OpenDb, Goto, counters, disk, Stages
<1>2. CASE CreateTable
  <2>1. db' \in {"none", "open", "closed", "closed again"}
      BY <1>2, HandleClosed DEF IInv, Process, CreateTable
  <2> QED
      BY <1>2, <2>1, MainCall DEF IInv, Process, CreateTable, Goto, Fails, counters, disk, Stages
<1>3. CASE ResultCodes \/ Allocator
    BY <1>3, MainCall DEF IInv, Process, ResultCodes, Allocator, OrQuickExit, Goto, Fails,
                          counters, disk, Stages
<1>4. CASE CloseDb
  <2>1. db' \in {"none", "open", "closed", "closed again"}
      BY <1>4, HandleClosed DEF IInv, CloseDb
  <2> QED
      BY <1>4, <2>1, MainCall DEF IInv, Process, CloseDb, Goto, counters, disk, Stages
<1>5. CASE OpenDb /\ ProcessEnds
    BY <1>5, EndStep
<1> QED
    BY <1>1, <1>2, <1>3, <1>4, <1>5

LEMMA StartWorkersStep == ASSUME IInv, StartWorkers PROVE IInv'
<1>1. CASE ProcessEnds
    BY <1>1, EndStep
<1>2. CASE ~ProcessEnds
  <2>1. /\ stage = "pool" /\ stage' \in {"walk", "cancel"} /\ threads' = TRUE
        /\ UNCHANGED <<db, entry, written, buf, queued, started, item, at, seen, counters, disk>>
      BY <1>2 DEF StartWorkers
  <2>2. stack = <<>> /\ entry = NoFile /\ ~written
      BY <2>1 DEF IInv, Walking
  <2>3. Process'
      BY <2>1 DEF IInv, Process, Stages, disk
  <2>4. Walking'
    <3>1. CASE stage' = "walk"
      <4>1. stack' = <<[dir |-> Root, todo |-> Entries[Root]]>>
          BY <1>2, <3>1 DEF StartWorkers
      <4>2. /\ stack' \in Seq(Frame) /\ Len(stack') = 1 /\ stack' # <<>>
            /\ stack'[1] = [dir |-> Root, todo |-> Entries[Root]]
        <5>1. [dir |-> Root, todo |-> Entries[Root]] \in Frame
            BY TreeAssumption DEF Frame
        <5> QED
            BY <4>1, <5>1
      <4>3. 1 <= HowDeep[Root]
          BY HowDeepFits, TreeAssumption, DirsCount
      <4>4. \A i \in 1 .. Len(stack') : /\ stack'[i].todo \subseteq Entries[stack'[i].dir]
                                        /\ i <= HowDeep[stack'[i].dir]
          BY <4>2, <4>3
      <4> QED
          BY <2>1, <2>2, <3>1, <4>2, <4>4 DEF IInv, Walking
    <3>2. CASE stage' = "cancel"
      <4>1. stack' = stack
          BY <1>2, <3>2 DEF StartWorkers
      <4> QED
          BY <2>1, <2>2, <3>2, <4>1 DEF IInv, Walking
    <3> QED
        BY <2>1, <3>1, <3>2
  <2>5. Shutdown'
      BY <2>1 DEF Shutdown
  <2> QED
      BY <2>1, <2>3, <2>4, <2>5, KeepWorking, KeepRows, KeepCounting DEF IInv, counters, disk
<1> QED
    BY <1>1, <1>2

\* Cancelling empties the queue before it waits for the workers.
LEMMA CancelStep == ASSUME IInv, Cancel \/ Cancelled \/ DestroyPool PROVE IInv'
<1>1. /\ stage \in {"cancel", "wait", "destroy"} /\ stage' \in {"wait", "destroy", "close"}
      /\ UNCHANGED <<walker, counters, disk, db, started, item, at, seen>>
    BY DEF Cancel, Cancelled, DestroyPool, Goto, pool
<1>2. queued' \subseteq queued /\ threads' \in {threads, FALSE}
    BY DEF Cancel, Cancelled, DestroyPool, Goto, pool
<1>3. Process'
    BY <1>1, <1>2 DEF IInv, Process, Stages, disk
<1>4. Walking'
    BY <1>1, KeepWalking DEF IInv
<1>5. Working'
    BY <1>1, <1>2 DEF IInv, Working
<1>6. Shutdown'
  <2>1. CASE Cancel
      BY <2>1, <1>1 DEF IInv, Shutdown, Cancel, Goto
  <2>2. CASE Cancelled
      BY <2>2, <1>1 DEF IInv, Shutdown, Cancelled, Goto, Working, pool
  <2>3. CASE DestroyPool
      BY <2>3, <1>1 DEF IInv, Shutdown, DestroyPool, Goto
  <2> QED
      BY <2>1, <2>2, <2>3
<1> QED
    BY <1>1, <1>3, <1>4, <1>5, <1>6, KeepRows, KeepCounting DEF IInv, counters, disk
-----------------------------------------------------------------------------
(* walk_recur *)

\* What the steps of the walk leave alone.
LEMMA WalkStep ==
  ASSUME IInv, Walking', stage = "walk", stage' \in {"walk", "cancel"},
         UNCHANGED <<db, threads, started, item, at, seen, counters, disk>>,
         queued' \subseteq Items
  PROVE  IInv'
<1>1. threads = TRUE
    BY DEF IInv, Process, Walking
<1>2. Process'
    BY DEF IInv, Process, Stages, disk
<1>3. Working'
    BY DEF IInv, Working
<1>4. Shutdown'
    BY <1>1 DEF IInv, Shutdown
<1> QED
    BY <1>2, <1>3, <1>4, KeepRows, KeepCounting DEF IInv, counters, disk

LEMMA ReadEntryStep == ASSUME IInv, NEW e \in Paths, ReadEntry(e) PROVE IInv'
<1> DEFINE n == Len(stack)
           f == [Top EXCEPT !.todo = @ \ {e}]
<1>1. /\ stage = "walk" /\ e \in Top.todo /\ entry' = e
      /\ stack' = [stack EXCEPT ![n].todo = @ \ {e}]
      /\ buf' = [buf EXCEPT ![n] = Junk]
      /\ UNCHANGED <<stage, db, written, pool, counters, disk>>
    BY DEF ReadEntry
<1>2. /\ stack \in Seq(Frame) /\ stack # <<>> /\ n \in 1 .. Len(stack)
      /\ Top = stack[n] /\ Top \in Frame /\ Top.todo \subseteq Entries[Top.dir]
    BY <1>1, TopIsShallow DEF IInv, Walking
<1>3. f \in Frame /\ f.dir = Top.dir /\ f.todo = Top.todo \ {e}
    BY <1>2 DEF Frame
<1>4. stack' = [stack EXCEPT ![n] = f]
    BY <1>1, <1>2
<1>5. /\ stack' \in Seq(Frame) /\ Len(stack') = n /\ stack' # <<>>
      /\ \A j \in 1 .. n : stack'[j] = IF j = n THEN f ELSE stack[j]
  <2>1. /\ stack' \in Seq(Frame) /\ Len(stack') = n
        /\ \A j \in 1 .. n : stack'[j] = IF j = n THEN f ELSE stack[j]
      BY <1>2, <1>3, <1>4, ExceptSeq
  <2>2. Len(stack') # 0
      BY <1>2, <2>1
  <2>3. stack' # <<>>
      BY ONLY <2>2
  <2> QED
      BY ONLY <2>1, <2>3
<1>6. Top'.dir = Top.dir
    BY <1>2, <1>3, <1>5 DEF Top, Last
<1>7. \A i \in 1 .. Len(stack') : /\ stack'[i].todo \subseteq Entries[stack'[i].dir]
                                  /\ i <= HowDeep[stack'[i].dir]
    BY <1>2, <1>3, <1>5 DEF IInv, Walking
<1>8. buf' \in [Depth -> Paths \cup {Junk}]
    BY <1>1 DEF IInv, Walking
<1>9. entry' \in Entries[Top'.dir] /\ entry' \in Paths
    BY <1>1, <1>2, <1>6
<1>10. written' => entry' # NoFile
    BY <1>1, TreeAssumption
<1>11. Walking'
    BY <1>1, <1>5, <1>7, <1>8, <1>9, <1>10 DEF IInv, Walking, pool
<1> QED
    BY <1>1, <1>11, WalkStep DEF pool, IInv, Working

LEMMA WritePathStep == ASSUME IInv, WritePath PROVE IInv'
<1>1. /\ stage = "walk" /\ entry # NoFile /\ written' = TRUE
      /\ buf' = [buf EXCEPT ![Len(stack)] = entry]
      /\ UNCHANGED <<stage, db, stack, entry, pool, counters, disk>>
    BY DEF WritePath
<1>2. buf' \in [Depth -> Paths \cup {Junk}]
    BY <1>1 DEF IInv, Walking
<1>3. Walking'
    BY <1>1, <1>2 DEF IInv, Walking, Top, pool
<1> QED
    BY <1>1, <1>3, WalkStep DEF pool, IInv, Working

LEMMA SkipOrPushStep == ASSUME IInv, SkipEntry \/ PushFile PROVE IInv'
<1>1. /\ stage = "walk" /\ written /\ entry' = NoFile /\ written' = FALSE
      /\ UNCHANGED <<stage, db, stack, buf, threads, started, item, at, seen, counters, disk>>
    BY DEF SkipEntry, PushFile, Entered
<1>2. Walking'
    BY <1>1 DEF IInv, Walking
<1>3. CASE SkipEntry
    BY <1>1, <1>2, <1>3, WalkStep DEF SkipEntry, IInv, Working
<1>4. CASE PushFile
  <2>1. entry \in Files
      BY <1>4 DEF PushFile
  <2>2. [full_path |-> Len(stack), pathlen |-> PathLen[entry], file |-> entry] \in Items
      BY <1>1, <2>1, TopIsShallow DEF IInv, Items, Paths
  <2>3. queued' \subseteq Items
      BY <1>4, <2>2 DEF PushFile, IInv, Working
  <2> QED
      BY <1>1, <1>2, <2>3, WalkStep
<1> QED
    BY <1>3, <1>4

\* A directory that is entered is deeper in the tree than the one it is in.
LEMMA DescendStep == ASSUME IInv, Descend PROVE IInv'
<1> DEFINE n == Len(stack)
           f == [dir |-> entry, todo |-> Entries[entry]]
<1>1. /\ stage = "walk" /\ written /\ entry' = NoFile /\ written' = FALSE
      /\ entry \in Dirs /\ stack' = Append(stack, f)
      /\ UNCHANGED <<stage, db, buf, queued, threads, started, item, at, seen, counters, disk>>
    BY DEF Descend, Entered
<1>2. /\ stack \in Seq(Frame) /\ n \in Nat /\ Top \in Frame /\ n <= HowDeep[Top.dir]
      /\ entry \in Entries[Top.dir]
    BY <1>1, TopIsShallow DEF IInv, Walking
<1>3. f \in Frame
    BY <1>1, TreeAssumption DEF Frame
<1>4. n + 1 <= HowDeep[entry]
  <2>1. HowDeep[Top.dir] < HowDeep[entry]
      BY <1>1, <1>2, HowDeepFits DEF DeeperInside, Frame
  <2>2. HowDeep[Top.dir] \in Nat /\ HowDeep[entry] \in Nat
      BY <1>1, <1>2, HowDeepFits, DirsCount DEF Frame
  <2> QED
      BY <1>2, <2>1, <2>2
<1>5. /\ stack' \in Seq(Frame) /\ stack' # <<>> /\ Len(stack') = n + 1
      /\ \A i \in 1 .. n : stack'[i] = stack[i]
      /\ stack'[n + 1] = f
    BY <1>1, <1>2, <1>3, AppendProperties
<1>6. \A i \in 1 .. Len(stack') : /\ stack'[i].todo \subseteq Entries[stack'[i].dir]
                                  /\ i <= HowDeep[stack'[i].dir]
  <2> SUFFICES ASSUME NEW i \in 1 .. n + 1
               PROVE  /\ stack'[i].todo \subseteq Entries[stack'[i].dir]
                      /\ i <= HowDeep[stack'[i].dir]
      BY <1>5
  <2>1. CASE i = n + 1
      BY <1>4, <1>5, <2>1
  <2>2. CASE i \in 1 .. n
      BY <1>5, <2>2 DEF IInv, Walking
  <2> QED
      BY <1>2, <2>1, <2>2
<1>7. Walking'
    BY <1>1, <1>5, <1>6 DEF IInv, Walking
<1> QED
    BY <1>1, <1>7, WalkStep DEF IInv, Working

LEMMA ReturnStep == ASSUME IInv, Return PROVE IInv'
<1> DEFINE n == Len(stack)
<1>1. /\ stage = "walk" /\ entry = NoFile /\ stack' = Front(stack)
      /\ \E left \in {buf[n], Junk} : buf' = [buf EXCEPT ![n] = left]
      /\ stage' = IF n = 1 THEN "cancel" ELSE stage
      /\ UNCHANGED <<db, entry, written, pool, counters, disk>>
    BY DEF Return
<1>2. stack \in Seq(Frame) /\ stack # <<>> /\ n \in Nat \ {0} /\ n \in Depth
    BY <1>1, TopIsShallow DEF IInv, Walking
<1>3. /\ stack' \in Seq(Frame) /\ Len(stack') = n - 1
      /\ \A i \in 1 .. n - 1 : stack'[i] = stack[i]
  <2>1. \A i \in 1 .. n - 1 : stack[i] \in Frame
      BY <1>2
  <2>2. stack' = SubSeq(stack, 1, n - 1)
      BY <1>1 DEF Front
  <2>3. /\ stack' \in Seq(Frame)
        /\ Len(stack') = IF 1 <= n - 1 THEN n - 1 - 1 + 1 ELSE 0
        /\ \A i \in 1 .. n - 1 - 1 + 1 : stack'[i] = stack[1 + i - 1]
      BY <1>2, <2>1, <2>2, SubSeqProperties, Z3
  <2> HIDE DEF n
  <2> QED
      BY ONLY <1>2, <2>3
<1>4. stage' = "walk" <=> stack' # <<>>
    BY <1>1, <1>2, <1>3
<1>5. buf' \in [Depth -> Paths \cup {Junk}]
    BY <1>1, <1>2 DEF IInv, Walking
<1>6. \A i \in 1 .. Len(stack') : /\ stack'[i].todo \subseteq Entries[stack'[i].dir]
                                  /\ i <= HowDeep[stack'[i].dir]
    BY <1>2, <1>3 DEF IInv, Walking
<1>7. Walking'
    BY <1>1, <1>3, <1>4, <1>5, <1>6 DEF IInv, Walking, pool
<1> QED
    BY <1>1, <1>7, WalkStep DEF pool, IInv, Working

LEMMA MainStep == ASSUME IInv, Main PROVE IInv'
<1>1. CASE OpenDb \/ CreateTable \/ ResultCodes \/ Allocator \/ CloseDb
    BY <1>1, CallsStep
<1>2. CASE Cancel \/ Cancelled \/ DestroyPool
    BY <1>2, CancelStep
<1>3. CASE PushFails \/ ReturnFromMain
    BY <1>3, EndStep DEF PushFails, ReturnFromMain
<1>4. CASE StartWorkers
    BY <1>4, StartWorkersStep
<1>5. CASE \E e \in Paths : ReadEntry(e)
    BY <1>5, ReadEntryStep
<1>6. CASE WritePath \/ SkipEntry \/ PushFile \/ Descend \/ Return
    BY <1>6, WritePathStep, SkipOrPushStep, DescendStep, ReturnStep
<1> QED
    BY <1>1, <1>2, <1>3, <1>4, <1>5, <1>6 DEF Main
-----------------------------------------------------------------------------
(* do_work *)

OwesCount(place) == IF place \in {"count", "count+1"} THEN 1 ELSE 0
OwesInsert(place) == IF place \in {"idle", "done"} THEN 0 ELSE 1

\* What is owed at each place.
LEMMA Owed ==
  /\ \A place \in {"count", "count+1"} : /\ place \in Places
                                        /\ OwesCount(place) = 1 /\ OwesInsert(place) = 1
  /\ \A place \in {"exists", "md5", "insert", "inserted", "inserted+1"} :
        place \in Places /\ OwesCount(place) = 0 /\ OwesInsert(place) = 1
  /\ \A place \in {"idle", "done"} : /\ place \in Places
                                     /\ OwesCount(place) = 0 /\ OwesInsert(place) = 0
BY DEF Places, OwesCount, OwesInsert

\* When one worker moves, the number of those that have still to count changes
\* by what this one owed before and owes after.
Moved(from, to) ==
  /\ Cardinality(Uncounted) \in Nat /\ Cardinality(Uninserted) \in Nat
  /\ Cardinality(Uncounted') = Cardinality(Uncounted) + OwesCount(to) - OwesCount(from)
  /\ Cardinality(Uninserted')
       = Cardinality(Uninserted) + OwesInsert(to) - OwesInsert(from)

LEMMA Moves ==
  ASSUME Working, NEW w \in Workers, NEW to \in Places, at' = [at EXCEPT ![w] = to]
  PROVE  Moved(at[w], to)
<1>1. at \in [Workers -> Places]
    BY DEF Working
<1>2. IsFiniteSet(Uncounted) /\ IsFiniteSet(Uninserted)
    BY RunAssumption, FS_Subset DEF Uncounted, Uninserted
<1>3. Cardinality(Uncounted) \in Nat /\ Cardinality(Uninserted) \in Nat
    BY <1>2, FS_CardinalityType
<1>4. Cardinality(Uncounted') = Cardinality(Uncounted) + OwesCount(to) - OwesCount(at[w])
  <2>1. Uncounted' = IF OwesCount(to) = 1 THEN Uncounted \cup {w} ELSE Uncounted \ {w}
      BY <1>1 DEF Uncounted, OwesCount
  <2>2. w \in Uncounted <=> OwesCount(at[w]) = 1
      BY DEF Uncounted, OwesCount
  <2>3. /\ Cardinality(Uncounted \cup {w}) =
             IF w \in Uncounted THEN Cardinality(Uncounted) ELSE Cardinality(Uncounted) + 1
        /\ Cardinality(Uncounted \ {w}) =
             IF w \in Uncounted THEN Cardinality(Uncounted) - 1 ELSE Cardinality(Uncounted)
      BY <1>2, FS_AddElement, FS_RemoveElement
  <2>4. OwesCount(to) \in {0, 1} /\ OwesCount(at[w]) \in {0, 1}
      BY DEF OwesCount
  <2> QED
      BY <1>3, <2>1, <2>2, <2>3, <2>4
<1>5. Cardinality(Uninserted') = Cardinality(Uninserted) + OwesInsert(to) - OwesInsert(at[w])
  <2>1. Uninserted' = IF OwesInsert(to) = 1 THEN Uninserted \cup {w} ELSE Uninserted \ {w}
      BY <1>1 DEF Uninserted, OwesInsert
  <2>2. w \in Uninserted <=> OwesInsert(at[w]) = 1
      BY DEF Uninserted, OwesInsert
  <2>3. /\ Cardinality(Uninserted \cup {w}) =
             IF w \in Uninserted THEN Cardinality(Uninserted) ELSE Cardinality(Uninserted) + 1
        /\ Cardinality(Uninserted \ {w}) =
             IF w \in Uninserted THEN Cardinality(Uninserted) - 1 ELSE Cardinality(Uninserted)
      BY <1>2, FS_AddElement, FS_RemoveElement
  <2>4. OwesInsert(to) \in {0, 1} /\ OwesInsert(at[w]) \in {0, 1}
      BY DEF OwesInsert
  <2> QED
      BY <1>3, <2>1, <2>2, <2>3, <2>4
<1> QED
    BY <1>3, <1>4, <1>5 DEF Moved

\* A step of a worker that has an item disturbs at most its own place and value,
\* the table and the counters.
LEMMA WorkerStep ==
  ASSUME IInv, NEW w \in Workers, NEW to \in Places, at[w] # "idle", Rest,
         at' = [at EXCEPT ![w] = to], Working', Rows', Counting', UNCHANGED db
  PROVE  IInv'
<1>1. UNCHANGED <<stage, db, walker, threads, queued, started, runs>>
    BY DEF Rest
<1>2. Process' /\ Walking'
    BY <1>1, KeepWalking DEF IInv, Process
<1>3. threads /\ stage # "destroy"
    BY DEF IInv, Shutdown
<1>4. Shutdown'
    BY <1>1, <1>3 DEF IInv, Shutdown
<1> QED
    BY <1>2, <1>4 DEF IInv

LEMMA StartStep == ASSUME IInv, NEW w \in Workers, Start(w) PROVE IInv'
<1>1. PICK fw \in queued : item' = [item EXCEPT ![w] = fw] /\ queued' = queued \ {fw}
    BY DEF Start
<1>2. /\ threads /\ at[w] = "idle" /\ at' = [at EXCEPT ![w] = "count"]
      /\ started' = started + 1
      /\ UNCHANGED <<stage, db, walker, threads, seen, counters, disk>>
    BY DEF Start, Goes
<1>3. Process' /\ Walking'
    BY <1>2, KeepWalking DEF IInv, Process, disk
<1>4. Working'
    BY <1>1, <1>2, NoFileIsNoItem DEF IInv, Working, Places
<1>5. Shutdown'
    BY <1>1, <1>2 DEF IInv, Shutdown
<1>6. Counting'
  <2>1. /\ Cardinality(Uncounted) \in Nat /\ Cardinality(Uninserted) \in Nat
        /\ Cardinality(Uncounted') = Cardinality(Uncounted) + 1
        /\ Cardinality(Uninserted') = Cardinality(Uninserted) + 1
    <3>1. /\ "count" \in Places /\ OwesCount("count") = 1 /\ OwesInsert("count") = 1
          /\ OwesCount(at[w]) = 0 /\ OwesInsert(at[w]) = 0
        BY <1>2, Owed
    <3>2. Moved(at[w], "count")
        BY <1>2, <3>1, Moves DEF IInv
    <3> QED
        BY <3>1, <3>2 DEF Moved
  <2>2. \A v \in Workers : at'[v] \in {"count+1", "inserted+1"} => at[v] = at'[v]
      BY <1>2 DEF IInv, Working
  <2> QED
      BY <1>2, <2>1, <2>2 DEF IInv, Counting, counters, Working
<1> QED
    BY <1>2, <1>3, <1>4, <1>5, <1>6, KeepRows DEF IInv, disk

\* Both stores add one to a value that left room for it.
LEMMA CountStep ==
  ASSUME IInv, NEW w \in Workers, LoadCount(w) \/ StoreCount(w)
  PROVE  IInv'
<1>1. CASE LoadCount(w)
  <2>1. /\ at[w] = "count" /\ at' = [at EXCEPT ![w] = "count+1"]
        /\ seen' = [seen EXCEPT ![w] = count]
        /\ Rest /\ UNCHANGED <<item, table, counters>>
      BY <1>1 DEF LoadCount, Goes
  <2>2. Working'
      BY <2>1 DEF Rest, IInv, Working, Places, Counting
  <2>3. /\ Cardinality(Uncounted) \in Nat /\ Cardinality(Uninserted) \in Nat
        /\ Cardinality(Uncounted') = Cardinality(Uncounted)
        /\ Cardinality(Uninserted') = Cardinality(Uninserted)
    <3>1. /\ "count+1" \in Places /\ OwesCount("count+1") = 1 /\ OwesInsert("count+1") = 1
          /\ OwesCount(at[w]) = 1 /\ OwesInsert(at[w]) = 1
        BY <2>1, Owed
    <3>2. Moved(at[w], "count+1")
        BY <2>1, <3>1, Moves DEF IInv
    <3> QED
        BY <3>1, <3>2 DEF Moved
  <2>4. Counting'
      BY <2>1, <2>3 DEF Rest, IInv, Working, Counting, counters
  <2> QED
      BY <2>1, <2>2, <2>4, KeepRows, WorkerStep DEF IInv, Places, Rest
<1>2. CASE StoreCount(w)
  <2>1. /\ at[w] = "count+1" /\ at' = [at EXCEPT ![w] = "exists"]
        /\ count' = seen[w] + 1 /\ seen' = [seen EXCEPT ![w] = 0]
        /\ Rest /\ UNCHANGED <<item, table, inserted>>
      BY <1>2 DEF StoreCount, Goes
  <2>2. Working'
      BY <2>1 DEF Rest, IInv, Working, Places
  <2>3. /\ Cardinality(Uncounted) \in Nat /\ Cardinality(Uninserted) \in Nat
        /\ Cardinality(Uncounted') = Cardinality(Uncounted) - 1
        /\ Cardinality(Uninserted') = Cardinality(Uninserted)
    <3>1. /\ "exists" \in Places /\ OwesCount("exists") = 0 /\ OwesInsert("exists") = 1
          /\ OwesCount(at[w]) = 1 /\ OwesInsert(at[w]) = 1
        BY <2>1, Owed
    <3>2. Moved(at[w], "exists")
        BY <2>1, <3>1, Moves DEF IInv
    <3> QED
        BY <3>1, <3>2 DEF Moved
  <2>4. Counting'
      BY <2>1, <2>3 DEF Rest, IInv, Working, Counting
  <2> QED
      BY <2>1, <2>2, <2>4, KeepRows, WorkerStep DEF IInv, Places, Rest
<1> QED
    BY <1>1, <1>2

LEMMA InsertedStep ==
  ASSUME IInv, NEW w \in Workers, LoadInserted(w) \/ StoreInserted(w)
  PROVE  IInv'
<1>1. CASE LoadInserted(w)
  <2>1. /\ at[w] = "inserted" /\ at' = [at EXCEPT ![w] = "inserted+1"]
        /\ seen' = [seen EXCEPT ![w] = inserted]
        /\ Rest /\ UNCHANGED <<item, table, counters>>
      BY <1>1 DEF LoadInserted, Goes
  <2>2. Working'
      BY <2>1 DEF Rest, IInv, Working, Places, Counting
  <2>3. /\ Cardinality(Uncounted) \in Nat /\ Cardinality(Uninserted) \in Nat
        /\ Cardinality(Uncounted') = Cardinality(Uncounted)
        /\ Cardinality(Uninserted') = Cardinality(Uninserted)
    <3>1. /\ "inserted+1" \in Places /\ OwesCount("inserted+1") = 0 /\ OwesInsert("inserted+1") = 1
          /\ OwesCount(at[w]) = 0 /\ OwesInsert(at[w]) = 1
        BY <2>1, Owed
    <3>2. Moved(at[w], "inserted+1")
        BY <2>1, <3>1, Moves DEF IInv
    <3> QED
        BY <3>1, <3>2 DEF Moved
  <2>4. Counting'
      BY <2>1, <2>3 DEF Rest, IInv, Working, Counting, counters
  <2> QED
      BY <2>1, <2>2, <2>4, KeepRows, WorkerStep DEF IInv, Places, Rest
<1>2. CASE StoreInserted(w)
  <2>1. /\ at[w] = "inserted+1" /\ at' = [at EXCEPT ![w] = "done"]
        /\ inserted' = seen[w] + 1 /\ seen' = [seen EXCEPT ![w] = 0]
        /\ Rest /\ UNCHANGED <<item, table, count>>
      BY <1>2 DEF StoreInserted, Goes
  <2>2. Working'
      BY <2>1 DEF Rest, IInv, Working, Places
  <2>3. /\ Cardinality(Uncounted) \in Nat /\ Cardinality(Uninserted) \in Nat
        /\ Cardinality(Uncounted') = Cardinality(Uncounted)
        /\ Cardinality(Uninserted') = Cardinality(Uninserted) - 1
    <3>1. /\ "done" \in Places /\ OwesCount("done") = 0 /\ OwesInsert("done") = 0
          /\ OwesCount(at[w]) = 0 /\ OwesInsert(at[w]) = 1
        BY <2>1, Owed
    <3>2. Moved(at[w], "done")
        BY <2>1, <3>1, Moves DEF IInv
    <3> QED
        BY <3>1, <3>2 DEF Moved
  <2>4. Counting'
      BY <2>1, <2>3 DEF Rest, IInv, Working, Counting
  <2> QED
      BY <2>1, <2>2, <2>4, KeepRows, WorkerStep DEF IInv, Places, Rest
<1> QED
    BY <1>1, <1>2

\* The steps between the two counters move a worker to a place at which it owes
\* no more than before.
LEMMA BetweenCounters ==
  ASSUME IInv, NEW w \in Workers, NEW to \in {"md5", "insert", "inserted", "done", "idle"},
         at[w] \in {"exists", "md5", "insert", "done"}, at[w] = "done" => to = "idle",
         to = "idle" => at[w] = "done",
         at' = [at EXCEPT ![w] = to], UNCHANGED <<started, counters>>,
         \A v \in Workers \ {w} : seen'[v] = seen[v]
  PROVE  Counting'
<1>1. /\ Cardinality(Uncounted) \in Nat /\ Cardinality(Uninserted) \in Nat
      /\ Cardinality(Uncounted') = Cardinality(Uncounted)
      /\ Cardinality(Uninserted') \in {Cardinality(Uninserted), Cardinality(Uninserted) - 1}
  <2>1. /\ to \in Places /\ OwesCount(to) = 0 /\ OwesInsert(to) \in {0, 1}
        /\ OwesCount(at[w]) = 0 /\ OwesInsert(at[w]) \in {0, 1}
        /\ OwesInsert(at[w]) = 0 => OwesInsert(to) = 0
      BY Owed
  <2>2. Moved(at[w], to)
      BY <2>1, Moves DEF IInv
  <2> QED
      BY <2>1, <2>2 DEF Moved
<1>2. \A v \in Workers : at'[v] \in {"count+1", "inserted+1"} =>
                             v # w /\ at[v] = at'[v] /\ seen'[v] = seen[v] /\ seen[v] \in Nat
    BY DEF IInv, Working
<1> QED
    BY <1>1, <1>2 DEF IInv, Counting, counters

LEMMA ExistsStep == ASSUME IInv, NEW w \in Workers, Exists(w) \/ ExistsFails(w) PROVE IInv'
<1>1. CASE ExistsFails(w)
    BY <1>1, EndStep DEF ExistsFails
<1>2. CASE Exists(w)
  <2>1. PICK to \in {"done", "md5"} : at' = [at EXCEPT ![w] = to]
      BY <1>2 DEF Exists, Goes
  <2>2. at[w] = "exists" /\ Rest /\ UNCHANGED <<item, seen, table, counters>>
      BY <1>2 DEF Exists, Goes
  <2>3. Working'
      BY <2>1, <2>2 DEF Rest, IInv, Working, Places
  <2>4. Counting'
      BY <2>1, <2>2, BetweenCounters DEF Rest
  <2> QED
      BY <2>1, <2>2, <2>3, <2>4, KeepRows, WorkerStep DEF IInv, Places, Rest
<1> QED
    BY <1>1, <1>2

\* What is hashed is the path of something: Junk cannot be opened.
LEMMA Md5Step == ASSUME IInv, NEW w \in Workers, Md5(w) \/ Md5Aborts(w) PROVE IInv'
<1>1. CASE Md5Aborts(w)
    BY <1>1, EndStep DEF Md5Aborts
<1>2. CASE Md5(w)
  <2>1. /\ at[w] = "md5" /\ Rest /\ UNCHANGED <<item, table, counters>>
        /\ at' = [at EXCEPT ![w] = IF Path(w) = Junk THEN "inserted" ELSE "insert"]
        /\ seen' = [seen EXCEPT ![w] = IF Path(w) = Junk THEN 0 ELSE Path(w)]
      BY <1>2 DEF Md5, Goes
  <2>2. PICK to \in {"inserted", "insert"}, s \in Nat \cup Paths :
              /\ at' = [at EXCEPT ![w] = to] /\ seen' = [seen EXCEPT ![w] = s]
              /\ to = "insert" => s \in Paths
      BY <2>1, WorkerHolds DEF IInv
  <2>3. Working'
      BY <2>1, <2>2 DEF Rest, IInv, Working, Places
  <2>4. \A v \in Workers \ {w} : seen'[v] = seen[v]
      BY <2>2 DEF IInv, Working
  <2>5. Counting'
      BY <2>1, <2>2, <2>4, BetweenCounters DEF Rest
  <2> QED
      BY <2>1, <2>2, <2>3, <2>5, KeepRows, WorkerStep DEF IInv, Places, Rest
<1> QED
    BY <1>1, <1>2

\* A row is added only under a name that the table does not have.
LEMMA InsertStep == ASSUME IInv, NEW w \in Workers, Insert(w) PROVE IInv'
<1>1. /\ at[w] = "insert" /\ at' = [at EXCEPT ![w] = "inserted"]
      /\ seen' = [seen EXCEPT ![w] = 0]
      /\ Rest /\ UNCHANGED <<item, counters>>
    BY DEF Insert, Goes
<1>2. Working'
    BY <1>1 DEF Rest, IInv, Working, Places
<1>3. \A v \in Workers \ {w} : seen'[v] = seen[v]
    BY <1>1 DEF IInv, Working
<1>4. Counting'
    BY <1>1, <1>3, BetweenCounters DEF Rest
<1>5. Rows'
  <2>1. CASE UNCHANGED table
      BY <2>1, KeepRows DEF IInv
  <2>2. CASE Named(w) = {} /\ table' = table \cup {Row(w)}
    <3>1. item[w] \in Items /\ BoundName(w) \in Names
        BY <1>1, WorkerHolds DEF IInv
    <3>2. seen[w] \in Paths
        BY <1>1 DEF IInv, Working
    <3>3. Row(w) \in [fname : Names, fsize : Files, md5_full : Paths]
        BY <3>1, <3>2 DEF Row, Items
    <3>4. \A r \in table : r.fname # Row(w).fname
        BY <2>2 DEF Named, Row
    <3> QED
        BY <2>2, <3>3, <3>4 DEF IInv, Rows, OneRowPerName
  <2> QED
      BY <2>1, <2>2 DEF Insert
<1> QED
    BY <1>1, <1>2, <1>4, <1>5, WorkerStep DEF Places, Rest

LEMMA FinishStep == ASSUME IInv, NEW w \in Workers, Finish(w) PROVE IInv'
<1>1. /\ at[w] = "done" /\ at' = [at EXCEPT ![w] = "idle"]
      /\ item' = [item EXCEPT ![w] = NoFile]
      /\ Rest /\ UNCHANGED <<seen, table, counters>>
    BY DEF Finish, Goes
<1>2. Working'
    BY <1>1 DEF Rest, IInv, Working, Places
<1>3. Counting'
    BY <1>1, BetweenCounters DEF Rest
<1> QED
    BY <1>1, <1>2, <1>3, KeepRows, WorkerStep DEF IInv, Places, Rest

LEMMA WorkStep == ASSUME IInv, NEW w \in Workers, Work(w) PROVE IInv'
BY CountStep, InsertedStep, ExistsStep, Md5Step, InsertStep, FinishStep DEF Work
-----------------------------------------------------------------------------
(* The invariant, and what the runs check of it *)

LEMMA IInvInit == ASSUME Init PROVE IInv
<1>1. Process
  <2>1. runs = 0 /\ MaxRuns \in Nat
      BY RunAssumption DEF Init
  <2>2. runs \in 0 .. MaxRuns
      BY ONLY <2>1
  <2> QED
      BY <2>2 DEF Init, Process, Stages
<1>2. Walking
  <2>1. stack \in Seq(Frame) /\ 1 .. Len(stack) = {}
      BY DEF Init
  <2>2. buf \in [Depth -> Paths \cup {Junk}]
      BY DEF Init
  <2>3. stage # "walk" /\ entry = NoFile /\ written = FALSE /\ stack = <<>>
      BY DEF Init
  <2> QED
      BY ONLY <2>1, <2>2, <2>3 DEF Walking
<1>3. Working
    BY DEF Init, Working, Places
<1>4. Shutdown
    BY DEF Init, Shutdown
<1>5. Rows
    BY DEF Init, Rows, OneRowPerName
<1>6. Counting
  <2>1. Uncounted = {} /\ Uninserted = {}
      BY DEF Init, Uncounted, Uninserted
  <2>2. \A w \in Workers : at[w] = "idle"
      BY DEF Init
  <2> QED
      BY <2>1, <2>2, FS_EmptySet DEF Init, Counting
<1> QED
    BY <1>1, <1>2, <1>3, <1>4, <1>5, <1>6 DEF IInv

LEMMA IInvStep == ASSUME IInv, [Next]_vars PROVE IInv'
<1>1. CASE Begin
    BY <1>1, BeginStep
<1>2. CASE Main
    BY <1>2, MainStep
<1>3. CASE Kill
    BY <1>3, EndStep DEF Kill
<1>4. CASE \E w \in Workers : Start(w) \/ Work(w)
    BY <1>4, StartStep, WorkStep
<1>5. CASE UNCHANGED vars
  <2>1. UNCHANGED <<stage, db, walker, pool, counters, disk>>
      BY <1>5 DEF vars
  <2>2. Process' /\ Shutdown'
      BY <2>1 DEF IInv, Process, Shutdown, pool, disk
  <2> QED
      BY <2>1, <2>2, KeepWalking, KeepWorking, KeepRows, KeepCounting
      DEF IInv, pool, counters, disk
<1> QED
    BY <1>1, <1>2, <1>3, <1>4, <1>5 DEF Next, NotStartedAgain

LEMMA IInvHolds == Spec => []IInv
BY IInvInit, IInvStep, PTL DEF Spec

\* The variables have their types in every run of fdb; above all, walk_recur never
\* recurses deeper than the directories are nested, so every active call has a
\* full_path of its own.
THEOREM TypeCorrect == Spec => []TypeOK
BY IInvHolds, IInvTypeOK, PTL

\* However main, the walk and the workers interleave and whatever fails: when the
\* database is closed and the pool destroyed no worker is left inside do_work and
\* no item is left for one to start.
THEOREM CleanShutdown == Spec => []NoUseAfterClose
<1>1. IInv => NoUseAfterClose
    BY DEF IInv, Shutdown, NoUseAfterClose
<1> QED
    BY <1>1, IInvHolds, PTL

\* Workers that look a name up and insert it later, and an fdb that is run again
\* on the table that another left, never give a name two rows.
THEOREM OneRow == Spec => []OneRowPerName
<1>1. IInv => OneRowPerName
    BY DEF IInv, Rows
<1> QED
    BY <1>1, IInvHolds, PTL

\* file_count and file_insert_count may lose updates of unsynchronised workers but
\* never exceed the number of items started, with any number of workers.
THEOREM CountersBehind == Spec => []CountersNeverAhead
<1>1. IInv => CountersNeverAhead
  <2>1. Cardinality(Uncounted) \in Nat /\ Cardinality(Uninserted) \in Nat
      BY RunAssumption, FS_Subset, FS_CardinalityType DEF Uncounted, Uninserted
  <2> QED
      BY <2>1 DEF IInv, Counting, CountersNeverAhead
<1> QED
    BY <1>1, IInvHolds, PTL

-----------------------------------------------------------------------------
(* Every step of fdb is a step of the table, or none that it notices *)

LEMMA NotNoticed ==
  ASSUME UNCHANGED table, stage' = "ended" <=> stage = "ended"
  PROVE  [FileTable!TableNext]_(FileTable!fileTable)
BY DEF FileTable!fileTable

LEMMA EndIsNoticed ==
  ASSUME ProcessEnds
  PROVE  [FileTable!TableNext]_(FileTable!fileTable)
<1>1. CASE stage = "ended"
    BY <1>1, NotNoticed DEF ProcessEnds, disk
<1>2. CASE stage # "ended"
    BY <1>2 DEF ProcessEnds, disk, FileTable!TableNext, FileTable!EndFdb
<1> QED
    BY <1>1, <1>2

LEMMA MainImplements ==
  ASSUME Main
  PROVE  [FileTable!TableNext]_(FileTable!fileTable)
<1>1. CASE ProcessEnds
    BY <1>1, EndIsNoticed
<1>2. CASE OpenDb /\ ~ProcessEnds
    BY <1>2, NotNoticed DEF OpenDb, Goto, disk
<1>3. CASE CreateTable
    BY <1>3, NotNoticed DEF CreateTable, Fails, Goto, disk
<1>4. CASE ResultCodes \/ Allocator
    BY <1>4, NotNoticed DEF ResultCodes, Allocator, OrQuickExit, Fails, Goto, disk
<1>5. CASE StartWorkers /\ ~ProcessEnds
    BY <1>5, NotNoticed DEF StartWorkers, disk
<1>6. CASE (\E e \in Paths : ReadEntry(e)) \/ WritePath
    BY <1>6, NotNoticed DEF ReadEntry, WritePath, disk
<1>7. CASE SkipEntry \/ PushFile \/ Descend
    BY <1>7, NotNoticed DEF SkipEntry, PushFile, Descend, Entered, disk
<1>8. CASE Return
    BY <1>8, NotNoticed DEF Return, disk
<1>9. CASE Cancel \/ Cancelled \/ DestroyPool \/ CloseDb
    BY <1>9, NotNoticed DEF Cancel, Cancelled, DestroyPool, CloseDb, Fails, Goto, disk
<1> QED
    BY <1>1, <1>2, <1>3, <1>4, <1>5, <1>6, <1>7, <1>8, <1>9
    DEF Main, PushFails, ReturnFromMain

\* A worker that is in do_work belongs to a process that runs, and what it inserts
\* is a row of the table under a name that is new.
LEMMA WorkImplements ==
  ASSUME IInv, NEW w \in Workers, Start(w) \/ Work(w)
  PROVE  [FileTable!TableNext]_(FileTable!fileTable)
<1>1. CASE ProcessEnds
    BY <1>1, EndIsNoticed
<1>2. CASE Start(w)
    BY <1>2, NotNoticed DEF Start, disk
<1>3. CASE Insert(w)
  <2>1. at[w] = "insert" /\ UNCHANGED stage
      BY <1>3 DEF Insert, Goes, Rest
  <2>2. CASE UNCHANGED table
      BY <2>1, <2>2, NotNoticed
  <2>3. CASE Named(w) = {} /\ table' = table \cup {Row(w)}
    <3>1. stage # "ended"
        BY <2>1 DEF IInv, Process, Shutdown
    <3>2. BoundName(w) \in Names /\ item[w].file \in Files /\ seen[w] \in Paths
        BY <2>1, WorkerHolds DEF IInv, Working, Items
    <3>3. \A r \in table : r.fname # BoundName(w)
        BY <2>3 DEF Named
    <3>4. FileTable!AddRow(BoundName(w))
        BY <2>1, <2>3, <3>1, <3>2, <3>3 DEF FileTable!AddRow, Row
    <3> QED
        BY <3>2, <3>4 DEF FileTable!TableNext
  <2> QED
      BY <1>3, <2>2, <2>3 DEF Insert
<1>4. CASE LoadCount(w) \/ StoreCount(w) \/ LoadInserted(w) \/ StoreInserted(w) \/ Finish(w)
    BY <1>4, NotNoticed DEF LoadCount, StoreCount, LoadInserted, StoreInserted, Finish, Rest
<1>5. CASE Exists(w) \/ Md5(w)
    BY <1>5, NotNoticed DEF Exists, Md5, Rest
<1> QED
    BY <1>1, <1>2, <1>3, <1>4, <1>5 DEF Work, ExistsFails, Md5Aborts

\* Kills, failures and restarts included, fdb implements the safety part of the
\* table it promises: rows are only added, by a running fdb, under new names.
THEOREM ImplementsTableSafety == Spec => FileTable!TableSafety
<1>1. Init => FileTable!TableInit
    BY DEF Init, FileTable!TableInit
<1>2. IInv /\ [Next]_vars => [FileTable!TableNext]_(FileTable!fileTable)
  <2> SUFFICES ASSUME IInv, [Next]_vars
               PROVE  [FileTable!TableNext]_(FileTable!fileTable)
      OBVIOUS
  <2>1. CASE Begin
    <3>1. table' = table /\ stage = "ended" /\ stage' \in {"open", "ended"}
        BY <2>1 DEF Begin
    <3> QED
        BY <3>1, NotNoticed DEF FileTable!TableNext, FileTable!StartFdb
  <2>2. CASE Main
      BY <2>2, MainImplements
  <2>3. CASE Kill
      BY <2>3, EndIsNoticed DEF Kill
  <2>4. CASE \E w \in Workers : Start(w) \/ Work(w)
      BY <2>4, WorkImplements
  <2>5. CASE UNCHANGED vars
      BY <2>5, NotNoticed DEF vars, disk
  <2> QED
      BY <2>1, <2>2, <2>3, <2>4, <2>5 DEF Next, NotStartedAgain
<1> QED
    BY <1>1, <1>2, IInvHolds, PTL DEF Spec, FileTable!TableSafety
=============================================================================
