--------------------------- MODULE ClangTidyCache ---------------------------
(***************************************************************************)
(* scripts/run-clang-tidy-cached.cc, run after run: hash the sources, have *)
(* clang-tidy look at those without a result in the content-addressed      *)
(* store, in several threads, and make the report of what the store holds. *)
(*                                                                         *)
(* hashContent() is taken to be injective, so that a hash is the set of    *)
(* the contents that were combined an odd number of times. One script runs *)
(* at a time, and whatever ends it ends the clang-tidys it started.        *)
(***************************************************************************)
EXTENDS Integers, Sequences, FiniteSets

CONSTANTS
  File,         \* the files that clang-tidy may read
  Gathered,     \* the files of interest: those found below start_dir
  Header,       \* those whose extension is one of an include file
  Name,         \* file names without directory
  NameOf,       \* the name of each file
  Content,      \* what a file may contain
  TextsOf,      \* the contents an edit may give each file
  Includes,     \* the headers a content includes itself, in order
  Worker,       \* the threads, hardware_concurrency() of them
  Nothing,      \* no file, no output
  EditWhileRunning,  \* may files change while the script runs?
  MaxRuns,      \* bound: runs of the script
  MaxChanges,   \* bound: edits, and changes of the build environment
  MaxFailures   \* bound: clang-tidys that die of themselves, and power failures

ASSUME FilesAssumption ==
  /\ Header \subseteq File /\ Gathered \subseteq File
  /\ NameOf \in [File -> Name]
  /\ TextsOf \in [File -> (SUBSET Content) \ {{}}]
  /\ Includes \in [Content -> Seq(Header)]
  /\ Nothing \notin File
  /\ Worker # {}

ASSUME BoundsAssumption ==
  MaxRuns \in Nat /\ MaxChanges \in Nat /\ MaxFailures \in Nat

Elements(s) == {s[n] : n \in DOMAIN s}

Hash == SUBSET Content

\* filepath_contenthash_t as far as PathFor() looks at it.
Key == [name : Name, hash : Hash]

\* What clang-tidy has read: the file, and the headers that it includes, that
\* these include, and so on.
Look == [text : Content, headers : UNION {[H -> Content] : H \in SUBSET Header}]

ASSUME NothingAssumption == Nothing \notin Look

\* The contents of an output file; long says that its size is not 0, stamp
\* counts the changes of the build environment before it was written. It is
\* empty before clang-tidy has written it; complete if clang-tidy came to its end;
\* crashed if clang-tidy died of itself, was killed by another than the user, or
\* could not be started; cut if it ended together with the script or by Ctrl-C;
\* mixed if two wrote it at a time; torn if it was a result, and a power failure
\* took some of it.
Output ==
  [is    : {"empty", "cut", "mixed", "complete", "crashed", "torn"},
   look  : Look \cup {Nothing},
   long  : BOOLEAN,
   stamp : Nat]

\* A directory entry: an output and the workers whose clang-tidy has it open. An
\* open file stays open when it is renamed.
Entry == [output : Output, writers : SUBSET Worker]

VARIABLES
  text,           \* what the files contain
  build_env,      \* changes so far of compile_commands.json or MODULE.bazel
  edits,          \* edits so far
  runs,           \* runs so far
  failures,       \* failures so far
  main,           \* where main() is
  header_hashes,  \* header_hashes
  min_freshness,  \* build_env_latest_change
  key,            \* files_of_interest_: PathFor() of each
  work_queue,     \* work_queue; directories list files in no order
  worker,         \* where each thread is
  work,           \* the file each thread works on
  in_content,     \* what RepairFilenameOccurences() has read
  tmp,            \* the *.tmp files of the store
  final,          \* its results
  interrupted,    \* history: this run was interrupted
  settled         \* history: nothing changed since a run came to its end

userVars == <<text, build_env, edits>>
listVars == <<header_hashes, min_freshness, key>>
threadVars == <<worker, work, in_content>>
vars == <<userVars, runs, failures, main, listVars, work_queue, threadVars, tmp, final,
          interrupted, settled>>

\* A directory with one more entry, or with one less.
Put(dir, k, entry) == [x \in DOMAIN dir \cup {k} |-> IF x = k THEN entry ELSE dir[x]]
Drop(dir, k) == [x \in DOMAIN dir \ {k} |-> dir[x]]

Unfinished(is) == [is |-> is, look |-> Nothing, long |-> FALSE, stamp |-> 0]

Init ==
  /\ text \in [File -> Content]
  /\ \A f \in File : text[f] \in TextsOf[f]
  /\ build_env = 0 /\ edits = 0 /\ runs = 0 /\ failures = 0
  /\ main = "idle"
  /\ header_hashes = <<>> /\ min_freshness = 0 /\ key = <<>>
  /\ work_queue = {}
  /\ worker = [w \in Worker |-> "left"]
  /\ work = [w \in Worker |-> Nothing]
  /\ in_content = [w \in Worker |-> Nothing]
  /\ tmp = <<>> /\ final = <<>>
  /\ interrupted = FALSE /\ settled = FALSE

-----------------------------------------------------------------------------
(* main() and FileGatherer::BuildWorkList()                                *)

\* The modification times are read first.
Start ==
  /\ main \in {"idle", "killed"}
  /\ runs < MaxRuns
  /\ runs' = runs + 1
  /\ main' = "headers"
  /\ min_freshness' = build_env
  /\ UNCHANGED <<userVars, failures, header_hashes, key, work_queue, threadVars, tmp, final,
                 interrupted, settled>>

Odd(n) == n % 2 = 1

Hashed == Header \cap Gathered

\* For each name of a header, the hashes of all headers of that name combined,
\* with the files as in t.
HashesOf(t) ==
  [n \in {NameOf[h] : h \in Hashed} |->
     {c \in Content :
        Odd(Cardinality({h \in Hashed : NameOf[h] = n /\ t[h] = c}))}]

HeaderHashes == HashesOf(text)

HashHeaders ==
  /\ main = "headers"
  /\ main' = "list"
  /\ header_hashes' = HeaderHashes
  /\ UNCHANGED <<userVars, runs, failures, min_freshness, key, work_queue, threadVars, tmp,
                 final, interrupted, settled>>

\* Mutant: a change of a header is no reason to revisit a file that includes it.
ContentHashAlone(c, hashes) == {c}

\* The hash of a content, combined with that of the name of each include if there
\* is one.
ContentHash(c, hashes) ==
  {x \in Content :
     Odd(Cardinality({n \in DOMAIN Includes[c] :
                        LET name == NameOf[Includes[c][n]]
                        IN  name \in DOMAIN hashes /\ x \in hashes[name]})
         + (IF x = c THEN 1 ELSE 0))}

KeyOf(f, c, hashes) == [name |-> NameOf[f], hash |-> ContentHash(c, hashes)]
KeyFor(f, hashes) == KeyOf(f, text[f], hashes)

\* Mutant: findings are not revisited.
NeedsRefreshIfMissing(k) == k \notin DOMAIN final

NeedsRefresh(k) ==
  \/ k \notin DOMAIN final
  \/ final[k].output.long /\ final[k].output.stamp < min_freshness

\* RunClangTidyOn() returns at once if there is no work, or starts the threads.
BuildWorkList ==
  /\ main = "list"
  /\ key' = [f \in Gathered |-> KeyFor(f, header_hashes)]
  /\ work_queue' = {f \in Gathered : NeedsRefresh(key'[f])}
  /\ IF work_queue' = {}
     THEN main' = "report" /\ UNCHANGED worker
     ELSE main' = "work" /\ worker' = [w \in Worker |-> "take"]
  /\ UNCHANGED <<userVars, runs, failures, header_hashes, min_freshness, work, in_content,
                 tmp, final, interrupted, settled>>

-----------------------------------------------------------------------------
(* The threads of ClangTidyRunner::RunClangTidyOn()                        *)

At(w, where) == main = "work" /\ worker[w] = where

\* What a thread changes that only talks to the file system.
GoTo(w, where) ==
  /\ worker' = [worker EXCEPT ![w] = where]
  /\ UNCHANGED <<userVars, runs, main, listVars, work_queue, interrupted, settled>>

\* Mutant: pop_front() forgotten.
WithoutPopped(f) == work_queue

Without(f) == work_queue \ {f}

\* Under queue_access_lock: the next file, or none.
Take(w) ==
  /\ At(w, "take")
  /\ \E f \in work_queue :
       /\ work_queue' = Without(f)
       /\ work' = [work EXCEPT ![w] = f]
  /\ worker' = [worker EXCEPT ![w] = "start"]
  /\ UNCHANGED <<userVars, runs, failures, main, listVars, in_content, tmp, final,
                 interrupted, settled>>

NoMoreWork(w) ==
  /\ At(w, "take")
  /\ work_queue = {}
  /\ GoTo(w, "left")
  /\ UNCHANGED <<failures, work, in_content, tmp, final>>

\* system(): the shell opens the output and truncates it, then runs clang-tidy.
RunCommand(w) ==
  /\ At(w, "start")
  /\ LET k    == key[work[w]]
         open == IF k \in DOMAIN tmp THEN tmp[k].writers ELSE {}
     IN  tmp' = Put(tmp, k, [output  |-> Unfinished("empty"),
                             writers |-> open \cup {w}])
  /\ GoTo(w, "tidy")
  /\ UNCHANGED <<failures, work, in_content, final>>

\* Nothing can be created in the store, for want of space or permission: the shell
\* runs nothing, RepairFilenameOccurences() reads and writes nothing, and neither
\* says so to the thread, which goes on to rename().
StoreRefuses(w) ==
  /\ At(w, "start")
  /\ key[work[w]] \notin DOMAIN tmp
  /\ failures < MaxFailures
  /\ failures' = failures + 1
  /\ GoTo(w, "refused")
  /\ UNCHANGED <<work, in_content, tmp, final>>

\* A directory in which w has written out to its open file, and closed it.
\* Different outputs written over each other are neither.
Written(dir, w, out) ==
  [k \in DOMAIN dir |->
     IF w \notin dir[k].writers THEN dir[k]
     ELSE [output  |-> IF dir[k].output.is = "empty" \/ dir[k].output = out THEN out
                       ELSE [out EXCEPT !.is = "mixed", !.look = Nothing],
           writers |-> dir[k].writers \ {w}]]

\* The headers read with content c: the least set that has those it includes, and
\* those its members include.
Closed(H, t) == \A h \in H : Elements(Includes[t[h]]) \subseteq H
HeadersRead(c, t) ==
  {h \in Header : \A H \in SUBSET Header :
     Elements(Includes[c]) \subseteq H /\ Closed(H, t) => h \in H}

LookIn(f, t) ==
  [text    |-> t[f],
   headers |-> [h \in HeadersRead(t[f], t) |-> t[h]]]

LookAt(f) == LookIn(f, text)

\* clang-tidy has read its files, written something or nothing, and is gone.
TidyLeaves(w, is) ==
  /\ At(w, "tidy")
  /\ \E long \in BOOLEAN :
       LET out == [is |-> is, look |-> LookAt(work[w]), long |-> long,
                   stamp |-> build_env]
       IN  tmp' = Written(tmp, w, out) /\ final' = Written(final, w, out)
  /\ GoTo(w, "repair")
  /\ UNCHANGED <<work, in_content>>

\* It comes to its end, with or without complaints.
TidyEnds(w) == TidyLeaves(w, "complete") /\ UNCHANGED failures

\* It dies of an error of its own or a signal other than Ctrl-C, or could not be
\* started at all. Nothing but Ctrl-C is looked for: its output is used as well.
TidyDies(w) ==
  /\ failures < MaxFailures
  /\ failures' = failures + 1
  /\ TidyLeaves(w, "crashed")

\* RepairFilenameOccurences() reads the file; nothing, if there is none ...
ReadOutput(w) ==
  /\ At(w, "repair")
  /\ in_content' = [in_content EXCEPT ![w] =
       IF key[work[w]] \in DOMAIN tmp THEN tmp[key[work[w]]].output
       ELSE Unfinished("empty")]
  /\ GoTo(w, "write")
  /\ UNCHANGED <<failures, work, tmp, final>>

\* ... and writes it again, or a new one.
WriteOutput(w) ==
  /\ At(w, "write")
  /\ LET k    == key[work[w]]
         open == IF k \in DOMAIN tmp THEN tmp[k].writers ELSE {}
     IN  tmp' = Put(tmp, k, [output  |-> [in_content[w] EXCEPT !.stamp = build_env],
                             writers |-> open])
  /\ in_content' = [in_content EXCEPT ![w] = Nothing]
  /\ GoTo(w, "rename")
  /\ UNCHANGED <<failures, work, final>>

AtRename(w) == main = "work" /\ worker[w] \in {"rename", "refused"}

\* "atomic replacement"
Rename(w) ==
  /\ AtRename(w)
  /\ key[work[w]] \in DOMAIN tmp
  /\ final' = Put(final, key[work[w]], tmp[key[work[w]]])
  /\ tmp' = Drop(tmp, key[work[w]])
  /\ work' = [work EXCEPT ![w] = Nothing]
  /\ GoTo(w, "take")
  /\ UNCHANGED <<failures, in_content>>

\* fs::rename() without error code throws, and nothing in the thread catches it.
RenameThrows(w) ==
  /\ AtRename(w)
  /\ key[work[w]] \notin DOMAIN tmp
  /\ main' = "terminated"
  /\ UNCHANGED <<userVars, runs, failures, listVars, work_queue, threadVars, tmp, final,
                 interrupted, settled>>

-----------------------------------------------------------------------------
(* The end of a run.                                                       *)

AllLeft == \A w \in Worker : worker[w] = "left"

Join ==
  /\ main = "work"
  /\ AllLeft
  /\ main' = "report"
  /\ UNCHANGED <<userVars, runs, failures, listVars, work_queue, threadVars, tmp, final,
                 interrupted, settled>>

\* CreateReport() reads the result of each file and changes nothing in the store.
CreateReport ==
  /\ main = "report"
  /\ main' = "idle"
  /\ settled' = (~interrupted /\ min_freshness = build_env)
  /\ header_hashes' = <<>> /\ min_freshness' = 0 /\ key' = <<>>
  /\ work_queue' = {} /\ interrupted' = FALSE
  /\ UNCHANGED <<userVars, runs, failures, threadVars, tmp, final>>

\* What the clang-tidy of each worker of W leaves as it is killed.
Cut(dir, W) ==
  [k \in DOMAIN dir |->
     IF dir[k].writers \cap W = {} THEN dir[k]
     ELSE [output |-> Unfinished("cut"), writers |-> dir[k].writers \ W]]

Tidying == {w \in Worker : worker[w] = "tidy"}

\* Mutant: nobody looks how the command ended.
AfterSignalGoesOn == "repair"

AfterSignal == "left"

\* Ctrl-C kills each clang-tidy, whose threads leave. The script itself ignores
\* it while a thread is in system(); other threads just go on.
CtrlC ==
  /\ main = "work"
  /\ Tidying # {}
  /\ worker' = [w \in Worker |-> IF w \in Tidying THEN AfterSignal ELSE worker[w]]
  /\ tmp' = Cut(tmp, Tidying) /\ final' = Cut(final, Tidying)
  /\ interrupted' = TRUE
  /\ UNCHANGED <<userVars, runs, failures, main, listVars, work_queue, work, in_content,
                 settled>>

\* What is left of main() and its threads: nothing.
ScriptIsGone ==
  /\ main' = "killed"
  /\ worker' = [w \in Worker |-> "left"]
  /\ work' = [w \in Worker |-> Nothing]
  /\ in_content' = [w \in Worker |-> Nothing]
  /\ header_hashes' = <<>> /\ min_freshness' = 0 /\ key' = <<>>
  /\ work_queue' = {} /\ interrupted' = FALSE
  /\ settled' = FALSE
  /\ UNCHANGED <<userVars, runs>>

\* The script is killed together with all commands it started: Ctrl-C while no
\* thread is in system(), or the terminal is closed. Files keep what they have,
\* but for what stdio had not written yet.
Kill ==
  /\ main \in {"headers", "list", "work", "report"}
  /\ tmp' = [k \in DOMAIN tmp |-> [output |-> Unfinished("cut"), writers |-> {}]]
  /\ final' = Cut(final, Worker)
  /\ ScriptIsGone
  /\ UNCHANGED failures

\* What a power failure leaves of a result: there is nothing to lose in an empty one.
AfterFailure(entry, fate) ==
  IF fate = "kept" \/ ~entry.output.long THEN entry
  ELSE [entry EXCEPT !.output.is = "torn", !.output.long = (fate = "cut")]

\* The machine goes down. Nothing is ever synced, so that a result may be gone, or
\* its name may be on the disk without all or any of its contents.
PowerFails ==
  /\ main # "terminated"
  /\ failures < MaxFailures
  /\ failures' = failures + 1
  /\ tmp' = [k \in DOMAIN tmp |-> [output |-> Unfinished("cut"), writers |-> {}]]
  /\ \E fate \in [DOMAIN final -> {"kept", "gone", "cut", "lost"}] :
       LET left == Cut(final, Worker)
       IN  final' = [k \in {x \in DOMAIN final : fate[x] # "gone"} |->
                       AfterFailure(left[k], fate[k])]
  /\ ScriptIsGone

-----------------------------------------------------------------------------
(* The user.                                                               *)

Edit(f) ==
  /\ main \in {"idle", "killed"} \/ EditWhileRunning
  /\ edits + build_env < MaxChanges
  /\ edits' = edits + 1
  /\ \E c \in TextsOf[f] \ {text[f]} : text' = [text EXCEPT ![f] = c]
  /\ settled' = FALSE
  /\ UNCHANGED <<build_env, runs, failures, main, listVars, work_queue, threadVars, tmp,
                 final, interrupted>>

ChangeBuild ==
  /\ edits + build_env < MaxChanges
  /\ build_env' = build_env + 1
  /\ settled' = FALSE
  /\ UNCHANGED <<text, edits, runs, failures, main, listVars, work_queue, threadVars, tmp,
                 final, interrupted>>

Finished ==
  /\ \/ main = "terminated"
     \/ main \in {"idle", "killed"} /\ runs = MaxRuns
  /\ UNCHANGED vars

WorkerStep(w) ==
  \/ Take(w)
  \/ NoMoreWork(w)
  \/ RunCommand(w)
  \/ StoreRefuses(w)
  \/ TidyEnds(w)
  \/ TidyDies(w)
  \/ ReadOutput(w)
  \/ WriteOutput(w)
  \/ Rename(w)
  \/ RenameThrows(w)

\* main() once it has started.
MainStep == HashHeaders \/ BuildWorkList \/ Join \/ CreateReport

Next ==
  \/ Start
  \/ MainStep
  \/ \E w \in Worker : WorkerStep(w)
  \/ CtrlC
  \/ Kill
  \/ PowerFails
  \/ \E f \in File : Edit(f)
  \/ ChangeBuild
  \/ Finished

Spec == Init /\ [][Next]_vars

\* clang-tidy ends, one way or other, and the system runs every thread that can
\* run, main() as well. Nobody has to start the script.
FairSpec ==
  /\ Spec
  /\ WF_vars(MainStep)
  /\ \A w \in Worker : WF_vars(WorkerStep(w))

-----------------------------------------------------------------------------

\* Every variable has its type, and no thread is left behind as main() goes on.
TypeOK ==
  /\ text \in [File -> Content]
  /\ build_env \in 0..MaxChanges /\ edits \in 0..MaxChanges /\ runs \in 0..MaxRuns
  /\ failures \in 0..MaxFailures
  /\ main \in {"idle", "headers", "list", "work", "report", "terminated", "killed"}
  /\ DOMAIN header_hashes \subseteq Name
  /\ \A n \in DOMAIN header_hashes : header_hashes[n] \subseteq Content
  /\ min_freshness \in 0..build_env
  /\ DOMAIN key \subseteq Gathered
  /\ \A f \in DOMAIN key : key[f].name = NameOf[f] /\ key[f].hash \subseteq Content
  /\ work_queue \in SUBSET Gathered
  /\ worker \in [Worker -> {"take", "start", "tidy", "repair", "write", "rename", "refused",
                         "left"}]
  /\ main \notin {"work", "terminated"} => \A w \in Worker : worker[w] = "left"
  /\ work \in [Worker -> Gathered \cup {Nothing}]
  /\ \A w \in Worker : in_content[w] = Nothing \/ in_content[w] \in Output
  /\ \A k \in DOMAIN tmp : k \in Key /\ tmp[k] \in Entry
  /\ \A k \in DOMAIN final : k \in Key /\ final[k] \in Entry
  /\ interrupted \in BOOLEAN /\ settled \in BOOLEAN

\* "Atomic replacement": whatever Ctrl-C or a kill interrupts, and in which order
\* threads get on, nothing in the store is being written, was cut by the
\* interruption or is of two writers: a result is what one clang-tidy has said
\* until it ended. It is less than all clang-tidy had to say only if that died
\* for a reason of its own, or if a power failure took what was never synced.
NothingInterruptedIsStored ==
  \A k \in DOMAIN final :
    /\ final[k].writers = {}
    /\ final[k].output.is \in {"complete", "crashed", "torn"}

\* "Revisit a source file if any of its include files changed content": what a run
\* would find in the store for a file as it is now is what clang-tidy said of this
\* content of it. MCClangTidyCacheNames.cfg shows where it is not.
CacheHitIsCurrent ==
  \A f \in Gathered :
    LET k == KeyFor(f, HeaderHashes)
    IN  k \in DOMAIN final => final[k].output.look \in {LookAt(f), Nothing}

\* What holds where no two hashes cancel: the file and each header of interest it
\* includes itself were as they are now. Of the headers these include, and those
\* outside of start_dir, nothing is said: the key does not depend on them, and a
\* change of one leaves the result as it is.
HitHasDirectIncludes ==
  \A f \in Gathered :
    LET k == KeyFor(f, HeaderHashes)
    IN  k \in DOMAIN final /\ final[k].output.look # Nothing =>
          LET look == final[k].output.look
          IN  /\ look.text = text[f]
              /\ \A h \in Elements(Includes[text[f]]) \cap Hashed :
                   h \in DOMAIN look.headers /\ look.headers[h] = text[h]

\* After a run nobody interrupted there is a result for each file, and none with
\* complaints is from before the build environment this run started with.
EverythingRefreshed ==
  (main = "report" /\ ~interrupted) =>
    \A f \in Gathered :
      /\ key[f] \in DOMAIN final
      /\ final[key[f]].output.long => final[key[f]].output.stamp >= min_freshness

\* If nothing changed since a run came to its end, the next one has no work.
WarmRunIsQuiet == settled => main # "work"

\* A run does the work that is left and no more: all is fresh in its end, and the
\* run after it has nothing to do.
RerunsAreExact == EverythingRefreshed /\ WarmRunIsQuiet

\* "Name is human readable, the content hash makes it unique": no thread ever
\* finds its temporary file taken away by another, so that an exception ends the
\* script only where the store took no file. MCClangTidyCacheCopies.cfg has two
\* headers with one name and one content, for which this fails.
ThrowsOnlyIfRefused == main = "terminated" => \E w \in Worker : worker[w] = "refused"

\* A run that is not killed comes to its end with a report, interrupted by Ctrl-C
\* or not, as CreateReport alone leads back to "idle"; or else the store took no
\* file, and the exception of that thread ended it.
RunEnds ==
  main \in {"headers", "list", "work", "report"} ~>
    \/ main \in {"idle", "killed"}
    \/ main = "terminated" /\ ThrowsOnlyIfRefused
=============================================================================
