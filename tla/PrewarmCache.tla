---------------------------- MODULE PrewarmCache ----------------------------
(***************************************************************************)
(* bant/util/filesystem-prewarm-cache.cc: class ThreadPool, and on top of  *)
(* it class FilesystemPrewarmCache with the life of the process around it, *)
(* over several runs of bant with the same arguments: replay the accesses  *)
(* the last run logged on a thread pool, log those of this run, shut down  *)
(* as the static object goes away.                                         *)
(***************************************************************************)
EXTENDS Sequences, FiniteSets, Integers

-----------------------------------------------------------------------------
(* The pool.  Every critical section of lock_ is one step: none of them    *)
(* waits inside, so another thread only ever sees the state before or      *)
(* after it.  The call of notify_one() or notify_all() follows the         *)
(* unlock() and is a step of its own; so is the work item, which runs      *)
(* unlocked.                                                               *)

CONSTANTS
  Runner,      \* the threads of the pool, kPrewarmParallelism of them
  NoItem       \* not a work item

ASSUME RunnerAssumption == IsFiniteSet(Runner)

VARIABLES
  pool,         \* "none", "alive" or "freed"
  work_queue,   \* work_queue_
  exiting,      \* exiting_
  thread,       \* where each thread is: "check", "waiting", "run", "exited"
  item,         \* the work item each thread has taken
  taken         \* history: the items taken off the queue, in order

poolVars == <<pool, work_queue, exiting, thread, item, taken>>

NoPool ==
  /\ pool = "none"
  /\ work_queue = <<>>
  /\ exiting = FALSE
  /\ thread = [r \in Runner |-> "exited"]
  /\ item = [r \in Runner |-> NoItem]
  /\ taken = <<>>

\* The constructor: the threads exist, each about to enter its loop.
CreatePool ==
  /\ pool = "none"
  /\ pool' = "alive"
  /\ thread' = [r \in Runner |-> "check"]
  /\ UNCHANGED <<work_queue, exiting, item, taken>>

Waiting == {r \in Runner : thread[r] = "waiting"}

\* First part of ExecAsync(), under the lock.
Push(x) ==
  /\ work_queue' = Append(work_queue, x)
  /\ UNCHANGED <<pool, exiting, thread, item, taken>>

\* Its second part: wakes any one waiting thread, if there is one.
NotifyOne ==
  /\ \/ Waiting = {} /\ UNCHANGED thread
     \/ \E r \in Waiting : thread' = [thread EXCEPT ![r] = "check"]
  /\ UNCHANGED <<pool, work_queue, exiting, item, taken>>

\* Mutant: notify_all() forgotten, sleeping threads do not learn of exiting_.
WokenByCancelNobody == {}

\* The threads notify_all() of CancelAllWork() has check their condition again.
WokenByCancel == Waiting

Awake(R) == [r \in Runner |-> IF r \in R THEN "check" ELSE thread[r]]

-----------------------------------------------------------------------------
(* Runner(), the loop of each thread.                                      *)

\* The predicate of cv_.wait() does not hold.
MayWait == work_queue = <<>> /\ ~exiting

Wait(r) ==
  /\ thread[r] = "check"
  /\ MayWait
  /\ thread' = [thread EXCEPT ![r] = "waiting"]
  /\ UNCHANGED <<pool, work_queue, exiting, item, taken>>

\* A condition variable may wake a thread for no reason.
SpuriousWakeup(r) ==
  /\ thread[r] = "waiting"
  /\ thread' = [thread EXCEPT ![r] = "check"]
  /\ UNCHANGED <<pool, work_queue, exiting, item, taken>>

Exit(r) ==
  /\ thread[r] = "check"
  /\ ~MayWait
  /\ exiting
  /\ thread' = [thread EXCEPT ![r] = "exited"]
  /\ UNCHANGED <<pool, work_queue, exiting, item, taken>>

\* Mutant: the youngest item first.
TakeFrontIsBack(q) == <<q[Len(q)], SubSeq(q, 1, Len(q) - 1)>>

\* front() and what pop_front() leaves.
TakeFront(q) == <<Head(q), Tail(q)>>

Take(r) ==
  /\ thread[r] = "check"
  /\ ~MayWait
  /\ ~exiting
  /\ work_queue' = TakeFront(work_queue)[2]
  /\ item' = [item EXCEPT ![r] = TakeFront(work_queue)[1]]
  /\ taken' = Append(taken, TakeFront(work_queue)[1])
  /\ thread' = [thread EXCEPT ![r] = "run"]
  /\ UNCHANGED <<pool, exiting>>

\* process_work_item() of an item that only touches the file system.
Finish(r) ==
  /\ thread[r] = "run"
  /\ thread' = [thread EXCEPT ![r] = "check"]
  /\ item' = [item EXCEPT ![r] = NoItem]
  /\ UNCHANGED <<pool, work_queue, exiting, taken>>

\* process_work_item() of an item that calls CancelAllWork(): under the lock ...
SetExiting(r) ==
  /\ thread[r] = "run"
  /\ exiting' = TRUE
  /\ thread' = [thread EXCEPT ![r] = "notify"]
  /\ UNCHANGED <<pool, work_queue, item, taken>>

\* ... and after it.
NotifyAll(r) ==
  /\ thread[r] = "notify"
  /\ thread' = Awake(WokenByCancel \cup {r})
  /\ item' = [item EXCEPT ![r] = NoItem]
  /\ UNCHANGED <<pool, work_queue, exiting, taken>>

-----------------------------------------------------------------------------
(* The destructor, in the thread that owns the pool.                       *)

DestroySetExiting ==
  /\ pool = "alive"
  /\ exiting' = TRUE
  /\ UNCHANGED <<pool, work_queue, thread, item, taken>>

DestroyNotifyAll ==
  /\ thread' = Awake(WokenByCancel)
  /\ UNCHANGED <<pool, work_queue, exiting, item, taken>>

\* Mutant: the destructor does not wait for the threads.
JoinedNever == TRUE

\* Every thread has been joined.
Joined == \A r \in Runner : thread[r] = "exited"

DestroyFree ==
  /\ Joined
  /\ pool' = "freed"
  /\ UNCHANGED <<work_queue, exiting, thread, item, taken>>

PoolTypeOK(Item) ==
  /\ pool \in {"none", "alive", "freed"}
  /\ work_queue \in Seq(Item)
  /\ exiting \in BOOLEAN
  /\ thread \in [Runner -> {"check", "waiting", "run", "notify", "exited"}]
  /\ item \in [Runner -> Item \cup {NoItem}]
  /\ taken \in Seq(Item)

-----------------------------------------------------------------------------
(* The cache and the process.                                              *)

CONSTANTS
  Path,        \* the paths bant reads or lists
  Torn,        \* what is left of a path in a line cut off as the process died
  Cancel,      \* the work item that cancels the pool
  NoFile,      \* the cache file does not exist
  PointerCleared,  \* ~unique_ptr() resets pool_ before it deletes the pool, as
                   \* libc++ does and libstdc++ does not
  MaxRuns,     \* bound: runs of bant
  MaxAccesses  \* bound: calls of FileWasAccessed() and DirWasAccessed() per run

\* A prefix of a path may by chance be the path of another access; that line is
\* told apart from the other's here.
ASSUME TornAssumption == Torn \notin Path
ASSUME CancelAssumption == Cancel \notin Nat /\ Cancel # NoItem
ASSUME BoundsAssumption == MaxRuns \in Nat \ {0} /\ MaxAccesses \in Nat

Type == {"F", "D"}

\* A line of the cache file; "" stands for any type InitCacheFile() ignores.
Line == [type : Type \cup {""}, path : Path \cup {Torn}]

VARIABLES
  main,          \* where the main thread is
  run,           \* number of this run
  cache_file,    \* what is on disk: NoFile or a sequence of lines
  lines,         \* what this run has found in it
  next_line,     \* the line getline() returns next
  writer,        \* writer_ is there
  log,           \* what has been written to writer_, flushed or not
  already_seen,  \* already_seen_
  accesses       \* accesses of this run so far

mainVars == <<main, run, cache_file, lines, next_line, writer, log,
              already_seen, accesses>>

vars == <<poolVars, mainVars>>

Init ==
  /\ NoPool
  /\ main = "start"
  /\ run = 1
  /\ cache_file = NoFile
  /\ lines = <<>>
  /\ next_line = 1
  /\ writer = FALSE
  /\ log = <<>>
  /\ already_seen = {}
  /\ accesses = 0

-----------------------------------------------------------------------------
(* FilesystemPrewarmCacheInit() and InitCacheFile().                       *)

\* No home directory or no directory ~/.cache/bant in it.
Disabled ==
  /\ main = "start"
  /\ main' = "body"
  /\ UNCHANGED <<poolVars, run, cache_file, lines, next_line, writer, log,
                 already_seen, accesses>>

OpenCacheFile ==
  /\ main = "start"
  /\ IF cache_file = NoFile
     THEN main' = "open" /\ UNCHANGED <<poolVars, lines>>
     ELSE main' = "read" /\ CreatePool /\ lines' = cache_file
  /\ UNCHANGED <<run, cache_file, next_line, writer, log, already_seen, accesses>>

Useful(line) == line.type \in Type

ReadLine ==
  /\ main = "read"
  /\ next_line <= Len(lines)
  /\ IF Useful(lines[next_line])
     THEN main' = "notify" /\ Push(next_line)
     ELSE UNCHANGED <<main, poolVars>>
  /\ next_line' = next_line + 1
  /\ UNCHANGED <<run, cache_file, lines, writer, log, already_seen, accesses>>

\* "As last operation, let's shutdown ourselves."
PushCancel ==
  /\ main = "read"
  /\ next_line > Len(lines)
  /\ Push(Cancel)
  /\ main' = "notify_last"
  /\ UNCHANGED <<run, cache_file, lines, next_line, writer, log, already_seen,
                 accesses>>

NotifyPushed ==
  /\ main \in {"notify", "notify_last"}
  /\ NotifyOne
  /\ main' = IF main = "notify" THEN "read" ELSE "open"
  /\ UNCHANGED <<run, cache_file, lines, next_line, writer, log, already_seen,
                 accesses>>

\* Opening for writing truncates the file, or fails and leaves it alone.
OpenWriter ==
  /\ main = "open"
  /\ main' = "body"
  /\ \/ writer' = TRUE /\ cache_file' = <<>>
     \/ writer' = FALSE /\ UNCHANGED cache_file
  /\ UNCHANGED <<poolVars, run, lines, next_line, log, already_seen, accesses>>

-----------------------------------------------------------------------------
(* The program reads files and lists directories, all in its main thread.  *)

Logged(t, p) == [type |-> t, path |-> p]

\* Mutant: files and directories are told apart.
SeenBeforeAsSuch(t, p) == \E i \in DOMAIN log : log[i] = Logged(t, p)

\* already_seen_.insert(path).second is false.
SeenBefore(t, p) == p \in already_seen

\* WritePrefixed()
Access(t, p) ==
  /\ main = "body"
  /\ accesses < MaxAccesses
  /\ accesses' = accesses + 1
  /\ IF writer /\ ~SeenBefore(t, p)
     THEN log' = Append(log, Logged(t, p)) /\ already_seen' = already_seen \cup {p}
     ELSE UNCHANGED <<log, already_seen>>
  /\ UNCHANGED <<poolVars, main, run, cache_file, lines, next_line, writer>>

-----------------------------------------------------------------------------
(* The static object is destroyed: pool_, then already_seen_, then writer_. *)

Leave ==
  /\ main = "body"
  /\ main' = IF pool = "alive" THEN "cancel" ELSE "close"
  /\ UNCHANGED <<poolVars, run, cache_file, lines, next_line, writer, log,
                 already_seen, accesses>>

DestroyPool ==
  /\ \/ main = "cancel" /\ DestroySetExiting /\ main' = "notify_exit"
     \/ main = "notify_exit" /\ DestroyNotifyAll /\ main' = "join"
     \/ main = "join" /\ DestroyFree /\ main' = "close"
  /\ UNCHANGED <<run, cache_file, lines, next_line, writer, log, already_seen,
                 accesses>>

\* ~fstream() flushes what was logged.
CloseWriter ==
  /\ main = "close"
  /\ main' = "gone"
  /\ cache_file' = IF writer THEN log ELSE cache_file
  /\ UNCHANGED <<poolVars, run, lines, next_line, writer, log, already_seen,
                 accesses>>

-----------------------------------------------------------------------------
(* The threads of the pool.                                                *)

Dead == {"gone", "killed", "crashed"}

RunItem(r) == IF item[r] = Cancel THEN SetExiting(r) ELSE Finish(r)

RunnerStep(r) ==
  /\ main \notin Dead
  /\ Wait(r) \/ Exit(r) \/ Take(r) \/ RunItem(r) \/ NotifyAll(r)
  /\ UNCHANGED mainVars

Wakeup(r) ==
  /\ main \notin Dead
  /\ SpuriousWakeup(r)
  /\ UNCHANGED mainVars

-----------------------------------------------------------------------------
(* The end of the process, and the next one.                               *)

\* What a file holds if only a part of the lines got there: the last one may be
\* cut off within its path, or so early that it is ignored.
CutOff(s) ==
  {SubSeq(s, 1, k) : k \in 0..Len(s)} \cup
  UNION {{Append(SubSeq(s, 1, k - 1), [type |-> t, path |-> Torn]) : t \in {"", "F", "D"}} :
           k \in DOMAIN s}

\* The process ends without destructors; the system has written some of the log.
Die(how) ==
  /\ main \notin Dead
  /\ main' = how
  /\ cache_file' \in IF writer THEN CutOff(log) ELSE {cache_file}
  /\ pool' = "none" /\ work_queue' = <<>> /\ exiting' = FALSE
  /\ thread' = [r \in Runner |-> "exited"]
  /\ item' = [r \in Runner |-> NoItem]
  /\ taken' = <<>>
  /\ UNCHANGED <<run, lines, next_line, writer, log, already_seen, accesses>>

Kill == Die("killed")

\* pool_->CancelAllWork() in a thread, racing with ~unique_ptr() in main: whether
\* it reads the pointer before (RunItem) or after it is cleared (here) is open.
NullPointer ==
  /\ PointerCleared
  /\ main \in {"cancel", "notify_exit", "join"}
  /\ \E r \in Runner : thread[r] = "run" /\ item[r] = Cancel
  /\ Die("crashed")

Restart ==
  /\ main \in Dead
  /\ run < MaxRuns
  /\ run' = run + 1
  /\ main' = "start"
  /\ lines' = <<>> /\ next_line' = 1 /\ writer' = FALSE /\ log' = <<>>
  /\ already_seen' = {} /\ accesses' = 0
  /\ pool' = "none" /\ work_queue' = <<>> /\ exiting' = FALSE
  /\ thread' = [r \in Runner |-> "exited"]
  /\ item' = [r \in Runner |-> NoItem]
  /\ taken' = <<>>
  /\ UNCHANGED cache_file

Finished ==
  /\ main \in Dead
  /\ run = MaxRuns
  /\ UNCHANGED vars

-----------------------------------------------------------------------------

MainStep ==
  \/ Disabled
  \/ OpenCacheFile
  \/ ReadLine
  \/ PushCancel
  \/ NotifyPushed
  \/ OpenWriter
  \/ DestroyPool
  \/ CloseWriter

Next ==
  \/ MainStep
  \/ \E t \in Type, p \in Path : Access(t, p)
  \/ Leave
  \/ \E r \in Runner : RunnerStep(r) \/ Wakeup(r)
  \/ Kill
  \/ NullPointer
  \/ Restart
  \/ Finished

Spec == Init /\ [][Next]_vars

\* The system schedules every thread that can run, and access() and opendir()
\* return. How long the program itself runs is open.
FairSpec ==
  /\ Spec
  /\ WF_vars(MainStep)
  /\ \A r \in Runner : WF_vars(RunnerStep(r))

-----------------------------------------------------------------------------

Item == Nat \cup {Cancel}

\* Every variable has its type.
TypeOK ==
  /\ PoolTypeOK(Item)
  /\ main \in {"start", "read", "notify", "notify_last", "open", "body", "cancel",
               "notify_exit", "join", "close"} \cup Dead
  /\ run \in 1..MaxRuns
  /\ cache_file \in Seq(Line) \cup {NoFile}
  /\ lines \in Seq(Line)
  /\ next_line \in 1..(Len(lines) + 1)
  /\ writer \in BOOLEAN
  /\ log \in Seq(Line)
  /\ already_seen \in SUBSET Path
  /\ accesses \in 0..MaxAccesses

\* The items pushed so far: the useful lines read, and the one that cancels.
Pushed ==
  {i \in 1..(next_line - 1) : Useful(lines[i])}
    \cup (IF main \in {"start", "read", "notify"} THEN {} ELSE {Cancel})

\* The order in which a line, or the item that cancels, is to be taken.
Before(i, j) == i # Cancel /\ (j = Cancel \/ i < j)

\* Each access of the last run is replayed at most once and in the order it was
\* logged, by whichever thread; what was not taken yet is still queued.
ReplayInOrder ==
  pool # "none" =>
    LET items == taken \o work_queue
    IN  /\ {items[i] : i \in DOMAIN items} = Pushed
        /\ \A i, j \in DOMAIN items : i < j => Before(items[i], items[j])

\* The item that cancels the pool is the last one, so that a pool that shuts
\* itself down has dropped nothing; only a program that ends early drops items.
ShutdownIsLast ==
  exiting =>
    \/ main \in {"notify_exit", "join", "close"} \cup Dead
    \/ work_queue = <<>> /\ main \notin {"start", "read", "notify"}

\* The pool, its mutex and its condition variable are freed after the last thread
\* has left Runner(), also if a thread is about to cancel the pool itself.
NoUseAfterFree ==
  pool = "freed" => \A r \in Runner : thread[r] = "exited"

\* However runs end, no path is in the cache file twice, as file or directory.
NoPathLoggedTwice ==
  cache_file # NoFile =>
    \A i, j \in DOMAIN cache_file :
      i # j => cache_file[i].path # cache_file[j].path

\* Without waiting for the program to end, all threads leave once the replay is
\* over: no wakeup is lost between the queue, the flag and the sleeping threads.
PoolDrains ==
  (main = "body" /\ pool = "alive") ~> \A r \in Runner : thread[r] = "exited"

\* The program ends as it leaves main(): the destructor never joins a thread that
\* sleeps forever.
ExitReturns == main = "cancel" ~> main \in Dead

\* No wakeup is lost, be it of a push, of CancelAllWork() or of the destructor:
\* the threads leave after the replay, and main() does not wait for them forever.
ThePoolWindsDown == PoolDrains /\ ExitReturns
=============================================================================
