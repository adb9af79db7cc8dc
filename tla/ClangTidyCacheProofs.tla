------------------------ MODULE ClangTidyCacheProofs ------------------------
(***************************************************************************)
(* The content-addressed store of run-clang-tidy-cached for any number of  *)
(* files, threads and runs, whatever is interrupted, killed or fails.      *)
(***************************************************************************)
EXTENDS ClangTidyCache, FiniteSetTheorems, TLAPS

Busy == {"start", "tidy", "repair", "write", "rename", "refused"}
MyKey(w) == key[work[w]]

(* A thread at work has a file, for which there is a key, and something to *)
(* write when it comes to that.                                            *)
Typed ==
  /\ TypeOK
  /\ main \in {"work", "terminated"} => key \in [Gathered -> Key]
  /\ \A w \in Worker : worker[w] \in Busy => work[w] \in Gathered
  /\ DOMAIN in_content = Worker
  /\ \A w \in Worker : worker[w] = "write" => in_content[w] \in Output

LEMMA PutIsStore ==
  ASSUME NEW dir, \A k \in DOMAIN dir : k \in Key /\ dir[k] \in Entry,
         NEW x \in Key, NEW e \in Entry
  PROVE  \A k \in DOMAIN Put(dir, x, e) : k \in Key /\ Put(dir, x, e)[k] \in Entry
BY DEF Put

LEMMA UnfinishedIsOutput ==
  /\ Unfinished("empty") \in Output
  /\ Unfinished("cut") \in Output
BY DEF Unfinished, Output

LEMMA WrittenIsStore ==
  ASSUME NEW dir, \A k \in DOMAIN dir : k \in Key /\ dir[k] \in Entry,
         NEW w \in Worker, NEW out \in Output
  PROVE  \A k \in DOMAIN Written(dir, w, out) : k \in Key /\ Written(dir, w, out)[k] \in Entry
<1>1. [out EXCEPT !.is = "mixed", !.look = Nothing] \in Output
  BY DEF Output
<1> QED BY <1>1 DEF Written, Entry

LEMMA CutIsStore ==
  ASSUME NEW dir, \A k \in DOMAIN dir : k \in Key /\ dir[k] \in Entry, NEW W \in SUBSET Worker
  PROVE  \A k \in DOMAIN Cut(dir, W) : k \in Key /\ Cut(dir, W)[k] \in Entry
BY UnfinishedIsOutput DEF Cut, Entry

LEMMA FailureLeavesEntry ==
  ASSUME NEW e \in Entry, NEW fate
  PROVE  AfterFailure(e, fate) \in Entry
BY DEF AfterFailure, Entry, Output

LEMMA LookIsLook ==
  ASSUME Typed, NEW f \in File
  PROVE  LookAt(f) \in Look
<1> DEFINE read == HeadersRead(text[f], text)
<1>1. text[f] \in Content /\ text \in [File -> Content]
  BY DEF Typed, TypeOK
<1>2. read \in SUBSET Header /\ Header \subseteq File
  BY FilesAssumption DEF HeadersRead
<1>3. LookAt(f) = [text |-> text[f], headers |-> [h \in read |-> text[h]]]
  BY DEF LookAt, LookIn
<1> HIDE DEF read
<1>4. [h \in read |-> text[h]] \in [read -> Content]
  BY <1>1, <1>2
<1> QED BY <1>1, <1>2, <1>3, <1>4 DEF Look

LEMMA NothingIsEmpty == DOMAIN <<>> = {}
  OBVIOUS

LEMMA TypeInit == Init => Typed
<1> SUFFICES ASSUME Init PROVE Typed
  OBVIOUS
<1>1. DOMAIN header_hashes = {} /\ DOMAIN key = {} /\ DOMAIN tmp = {} /\ DOMAIN final = {}
  BY NothingIsEmpty DEF Init
<1>2. /\ build_env \in 0..MaxChanges /\ edits \in 0..MaxChanges /\ runs \in 0..MaxRuns
      /\ failures \in 0..MaxFailures /\ min_freshness \in 0..build_env
  BY BoundsAssumption DEF Init
<1>3. /\ worker \in [Worker -> {"left"}]
      /\ work \in [Worker -> Gathered \cup {Nothing}]
      /\ \A w \in Worker : worker[w] = "left" /\ in_content[w] = Nothing
  BY DEF Init
<1> QED BY <1>1, <1>2, <1>3 DEF Init, Typed, TypeOK, Busy

LEMMA TypeWorker ==
  ASSUME Typed, NEW w \in Worker, WorkerStep(w)
  PROVE  Typed'
<1> USE DEF Typed, TypeOK, Busy
<1>1. CASE Take(w)
  BY <1>1 DEF Take, At, Without, userVars, listVars
<1>2. CASE NoMoreWork(w)
  BY <1>2 DEF NoMoreWork, At, GoTo, userVars, listVars
<1>3. CASE RunCommand(w)
  <2> DEFINE open == IF MyKey(w) \in DOMAIN tmp THEN tmp[MyKey(w)].writers ELSE {}
             entry == [output |-> Unfinished("empty"), writers |-> open \cup {w}]
  <2>1. MyKey(w) \in Key
    BY <1>3 DEF RunCommand, At, MyKey
  <2>2. open \in SUBSET Worker
    BY DEF Entry
  <2>3. entry \in Entry
    BY <2>2, UnfinishedIsOutput DEF Entry
  <2>4. tmp' = Put(tmp, MyKey(w), entry)
    BY <1>3 DEF RunCommand, MyKey
  <2> HIDE DEF entry
  <2>5. \A k \in DOMAIN tmp' : k \in Key /\ tmp'[k] \in Entry
    BY <2>1, <2>3, <2>4, PutIsStore
  <2> QED BY <1>3, <2>5 DEF RunCommand, At, GoTo, userVars, listVars
<1>3a. CASE StoreRefuses(w)
  <2>1. failures' \in 0..MaxFailures
    BY <1>3a, BoundsAssumption DEF StoreRefuses
  <2> QED BY <1>3a, <2>1 DEF StoreRefuses, At, GoTo, userVars, listVars
<1>4. ASSUME NEW is \in {"complete", "crashed"}, TidyLeaves(w, is), failures' \in 0..MaxFailures
      PROVE  Typed'
  <2>1. PICK long \in BOOLEAN :
          LET out == [is |-> is, look |-> LookAt(work[w]), long |-> long, stamp |-> build_env]
          IN  tmp' = Written(tmp, w, out) /\ final' = Written(final, w, out)
    BY <1>4 DEF TidyLeaves
  <2> DEFINE out == [is |-> is, look |-> LookAt(work[w]), long |-> long, stamp |-> build_env]
  <2>2. LookAt(work[w]) \in Look
    BY <1>4, LookIsLook, FilesAssumption DEF TidyLeaves, At
  <2>3. build_env \in Nat
    BY BoundsAssumption
  <2>4. out \in Output
    BY <2>2, <2>3 DEF Output
  <2> HIDE DEF out
  <2>5. tmp' = Written(tmp, w, out) /\ final' = Written(final, w, out)
    BY <2>1 DEF out
  <2>6. /\ \A k \in DOMAIN tmp' : k \in Key /\ tmp'[k] \in Entry
        /\ \A k \in DOMAIN final' : k \in Key /\ final'[k] \in Entry
    BY <2>4, <2>5, WrittenIsStore
  <2> QED BY <1>4, <2>6 DEF TidyLeaves, At, GoTo, userVars, listVars
<1>4a. CASE TidyEnds(w)
  BY <1>4, <1>4a DEF TidyEnds
<1>4b. CASE TidyDies(w)
  <2>1. failures' \in 0..MaxFailures
    BY <1>4b, BoundsAssumption DEF TidyDies
  <2> QED BY <1>4, <1>4b, <2>1 DEF TidyDies
<1>5. CASE ReadOutput(w)
  <2>1. MyKey(w) \in DOMAIN tmp => tmp[MyKey(w)].output \in Output
    BY DEF Entry
  <2>2. in_content' = [in_content EXCEPT ![w] =
          IF MyKey(w) \in DOMAIN tmp THEN tmp[MyKey(w)].output ELSE Unfinished("empty")]
    BY <1>5 DEF ReadOutput, MyKey
  <2>3. \A v \in Worker : in_content'[v] = Nothing \/ in_content'[v] \in Output
    BY <2>1, <2>2, UnfinishedIsOutput
  <2>4. worker' = [worker EXCEPT ![w] = "write"] /\ in_content'[w] \in Output
    <3>1. (IF MyKey(w) \in DOMAIN tmp THEN tmp[MyKey(w)].output ELSE Unfinished("empty")) \in Output
      BY <2>1, UnfinishedIsOutput
    <3>2. in_content'[w] = IF MyKey(w) \in DOMAIN tmp THEN tmp[MyKey(w)].output ELSE Unfinished("empty")
      BY <1>5, <2>2 DEF ReadOutput
    <3>3. worker' = [worker EXCEPT ![w] = "write"]
      BY <1>5 DEF ReadOutput, GoTo
    <3> QED BY <3>1, <3>2, <3>3
  <2>5. \A v \in Worker : worker'[v] = "write" => in_content'[v] \in Output
    BY <2>2, <2>4
  <2> QED BY <1>5, <2>3, <2>4, <2>5 DEF ReadOutput, At, GoTo, userVars, listVars
<1>6. CASE WriteOutput(w)
  <2> DEFINE open == IF MyKey(w) \in DOMAIN tmp THEN tmp[MyKey(w)].writers ELSE {}
             entry == [output |-> [in_content[w] EXCEPT !.stamp = build_env], writers |-> open]
  <2>1. MyKey(w) \in Key /\ in_content[w] \in Output /\ build_env \in Nat
    BY <1>6, BoundsAssumption DEF WriteOutput, At, MyKey
  <2>2. open \in SUBSET Worker
    BY DEF Entry
  <2>3. [in_content[w] EXCEPT !.stamp = build_env] \in Output
    BY <2>1 DEF Output
  <2>4. entry \in Entry
    BY <2>2, <2>3 DEF Entry
  <2>5. tmp' = Put(tmp, MyKey(w), entry)
    BY <1>6 DEF WriteOutput, MyKey
  <2> HIDE DEF entry
  <2>6. \A k \in DOMAIN tmp' : k \in Key /\ tmp'[k] \in Entry
    BY <2>1, <2>4, <2>5, PutIsStore
  <2>7. /\ worker' = [worker EXCEPT ![w] = "rename"]
        /\ in_content' = [in_content EXCEPT ![w] = Nothing]
    BY <1>6 DEF WriteOutput, GoTo
  <2>8. /\ \A v \in Worker : worker'[v] = "write" => in_content'[v] \in Output
        /\ \A v \in Worker : in_content'[v] = Nothing \/ in_content'[v] \in Output
    BY <2>7
  <2> QED BY <1>6, <2>6, <2>7, <2>8 DEF WriteOutput, At, GoTo, userVars, listVars
<1>7. CASE Rename(w)
  <2>1. MyKey(w) \in Key /\ MyKey(w) \in DOMAIN tmp /\ tmp[MyKey(w)] \in Entry
    BY <1>7 DEF Rename, AtRename, MyKey
  <2>2. final' = Put(final, MyKey(w), tmp[MyKey(w)]) /\ tmp' = Drop(tmp, MyKey(w))
    BY <1>7 DEF Rename, MyKey
  <2>3. \A k \in DOMAIN final' : k \in Key /\ final'[k] \in Entry
    BY <2>1, <2>2, PutIsStore
  <2>4. \A k \in DOMAIN tmp' : k \in Key /\ tmp'[k] \in Entry
    BY <2>2 DEF Drop
  <2> QED BY <1>7, <2>3, <2>4 DEF Rename, AtRename, GoTo, userVars, listVars
<1>8. CASE RenameThrows(w)
  BY <1>8 DEF RenameThrows, AtRename, userVars, listVars, threadVars
<1> QED BY <1>1, <1>2, <1>3, <1>3a, <1>4a, <1>4b, <1>5, <1>6, <1>7, <1>8 DEF WorkerStep

LEMMA TypeInductive ==
  ASSUME Typed, [Next]_vars
  PROVE  Typed'
<1> USE DEF Typed, TypeOK, Busy
<1>1. CASE Start
  BY <1>1, BoundsAssumption DEF Start, userVars, threadVars
<1>2. CASE HashHeaders
  <2>1. DOMAIN HeaderHashes \subseteq Name
    BY FilesAssumption DEF HeaderHashes, HashesOf, Hashed
  <2>2. \A n \in DOMAIN HeaderHashes : HeaderHashes[n] \subseteq Content
    BY DEF HeaderHashes, HashesOf
  <2> QED BY <1>2, <2>1, <2>2 DEF HashHeaders, userVars, threadVars
<1>3. CASE BuildWorkList
  <2>1. \A f \in Gathered : KeyFor(f, header_hashes) \in Key
    BY FilesAssumption DEF KeyFor, KeyOf, ContentHash, Key, Hash
  <2>2. key' \in [Gathered -> Key]
    BY <1>3, <2>1 DEF BuildWorkList
  <2>3. \A f \in DOMAIN key' : key'[f].name = NameOf[f] /\ key'[f].hash \subseteq Content
    BY <1>3 DEF BuildWorkList, KeyFor, KeyOf, ContentHash
  <2>4. work_queue' \in SUBSET Gathered
    BY <1>3 DEF BuildWorkList
  <2>5. CASE main' = "report" /\ UNCHANGED worker
    BY <1>3, <2>2, <2>3, <2>4, <2>5 DEF BuildWorkList, userVars
  <2>6. CASE main' = "work" /\ worker' = [w \in Worker |-> "take"]
    BY <1>3, <2>2, <2>3, <2>4, <2>6 DEF BuildWorkList, userVars
  <2> QED BY <1>3, <2>5, <2>6 DEF BuildWorkList
<1>4. ASSUME NEW w \in Worker, WorkerStep(w) PROVE Typed'
  BY <1>4, TypeWorker
<1>5. CASE Join
  BY <1>5 DEF Join, AllLeft, userVars, listVars, threadVars
<1>6. CASE CreateReport
  <2>1. DOMAIN header_hashes' = {} /\ DOMAIN key' = {}
    BY <1>6, NothingIsEmpty DEF CreateReport
  <2>2. build_env' = build_env /\ min_freshness' \in 0..build_env
    BY <1>6, BoundsAssumption DEF CreateReport, userVars
  <2>3. main = "report" /\ main' = "idle" /\ work_queue' = {}
        /\ interrupted' \in BOOLEAN /\ settled' \in BOOLEAN
    BY <1>6 DEF CreateReport
  <2> QED BY <1>6, <2>1, <2>2, <2>3 DEF CreateReport, userVars, threadVars
<1>7. CASE CtrlC
  <2>1. Tidying \in SUBSET Worker
    BY DEF Tidying
  <2>2. /\ \A k \in DOMAIN tmp' : k \in Key /\ tmp'[k] \in Entry
        /\ \A k \in DOMAIN final' : k \in Key /\ final'[k] \in Entry
    BY <1>7, <2>1, CutIsStore DEF CtrlC
  <2>3. /\ worker' \in [Worker -> {"take", "start", "tidy", "repair", "write",
                                   "rename", "refused", "left"}]
        /\ \A w \in Worker : worker'[w] \in Busy => worker[w] = worker'[w]
    BY <1>7 DEF CtrlC, AfterSignal
  <2> QED BY <1>7, <2>2, <2>3 DEF CtrlC, userVars, listVars
<1>8. ASSUME ScriptIsGone, failures' \in 0..MaxFailures,
             \A k \in DOMAIN tmp' : k \in Key /\ tmp'[k] \in Entry,
             \A k \in DOMAIN final' : k \in Key /\ final'[k] \in Entry
      PROVE  Typed'
  <2>1. DOMAIN header_hashes' = {} /\ DOMAIN key' = {}
    BY <1>8, NothingIsEmpty DEF ScriptIsGone
  <2>2. build_env' = build_env /\ min_freshness' \in 0..build_env
    BY <1>8, BoundsAssumption DEF ScriptIsGone, userVars
  <2>3. \A w \in Worker : worker'[w] = "left" /\ in_content'[w] = Nothing
    BY <1>8 DEF ScriptIsGone
  <2> QED BY <1>8, <2>1, <2>2, <2>3 DEF ScriptIsGone, userVars
<1>8a. CASE Kill
  <2>1. \A k \in DOMAIN tmp' : k \in Key /\ tmp'[k] \in Entry
    BY <1>8a, UnfinishedIsOutput DEF Kill, Entry
  <2>2. \A k \in DOMAIN final' : k \in Key /\ final'[k] \in Entry
    BY <1>8a, CutIsStore DEF Kill
  <2> QED BY <1>8, <1>8a, <2>1, <2>2 DEF Kill
<1>8b. CASE PowerFails
  <2>1. \A k \in DOMAIN tmp' : k \in Key /\ tmp'[k] \in Entry
    BY <1>8b, UnfinishedIsOutput DEF PowerFails, Entry
  <2> DEFINE left == Cut(final, Worker)
  <2>2. PICK fate : final' = [k \in {x \in DOMAIN final : fate[x] # "gone"} |->
                                AfterFailure(left[k], fate[k])]
    BY <1>8b DEF PowerFails
  <2>3. DOMAIN left = DOMAIN final /\ \A k \in DOMAIN left : k \in Key /\ left[k] \in Entry
    BY CutIsStore DEF Cut
  <2> HIDE DEF left
  <2>4. \A k \in DOMAIN final' : k \in Key /\ final'[k] \in Entry
    <3> SUFFICES ASSUME NEW k \in DOMAIN final' PROVE k \in Key /\ final'[k] \in Entry
      OBVIOUS
    <3>1. k \in Key /\ left[k] \in Entry /\ final'[k] = AfterFailure(left[k], fate[k])
      BY <2>2, <2>3
    <3> QED BY <3>1, FailureLeavesEntry
  <2>5. failures' \in 0..MaxFailures
    BY <1>8b, BoundsAssumption DEF PowerFails
  <2> QED BY <1>8, <1>8b, <2>1, <2>4, <2>5 DEF PowerFails
<1>9. ASSUME NEW f \in File, Edit(f) PROVE Typed'
  <2>1. text' \in [File -> Content]
    <3>1. TextsOf[f] \subseteq Content
      BY FilesAssumption
    <3> QED BY <1>9, <3>1 DEF Edit
  <2>2. edits' \in 0..MaxChanges
    BY <1>9, BoundsAssumption DEF Edit
  <2> QED BY <1>9, <2>1, <2>2 DEF Edit, listVars, threadVars
<1>10. CASE ChangeBuild
  <2>1. build_env \in 0..MaxChanges /\ build_env < MaxChanges /\ build_env' = build_env + 1
    BY <1>10, BoundsAssumption DEF ChangeBuild
  <2>2. build_env' \in 0..MaxChanges /\ min_freshness \in 0..build_env'
    BY <2>1, BoundsAssumption
  <2> QED BY <1>10, <2>2 DEF ChangeBuild, listVars, threadVars
<1>11. CASE UNCHANGED vars
  BY <1>11 DEF vars, userVars, listVars, threadVars
<1> QED
  BY <1>1, <1>2, <1>3, <1>4, <1>5, <1>6, <1>7, <1>8a, <1>8b, <1>9, <1>10, <1>11
  DEF Next, MainStep, Finished

(* Every variable has its type, and main() leaves no thread behind.        *)
THEOREM StoreTyped == Spec => []TypeOK
<1>1. Typed => TypeOK
  BY DEF Typed
<1> QED BY <1>1, TypeInit, TypeInductive, PTL DEF Spec

-----------------------------------------------------------------------------
(* If no two files ever have the same key, no two threads use the same     *)
(* temporary file. (MCClangTidyCacheCopies shows what happens otherwise.)  *)
(* Files may well have the same name: it is the hashes that must differ.   *)

\* What the files may contain.
Texts == {t \in [File -> Content] : \A f \in File : t[f] \in TextsOf[f]}

\* The key of a file, its headers hashed as they were in t and itself in u.
KeyIn(f, t, u) == KeyOf(f, u[f], HashesOf(t))

KeysApart ==
  \A f, g \in Gathered : f # g => \A t, u \in Texts : KeyIn(f, t, u) # KeyIn(g, t, u)

\* Hashes are of texts that the files had, and keys differ for good.
KeysDiffer ==
  /\ text \in Texts
  /\ main = "list" => \E t \in Texts : header_hashes = HashesOf(t)
  /\ main \in {"work", "terminated"} =>
       \A f, g \in Gathered : f # g => key[f] # key[g]

IsBusy(w) == worker[w] \in Busy

\* Every file is with one thread or in the queue, not both.
Exclusive ==
  \A w \in Worker : IsBusy(w) =>
    /\ work[w] \notin work_queue
    /\ \A v \in Worker \ {w} : IsBusy(v) => work[v] # work[w]

\* Only the thread that waits for its clang-tidy has an open file, its own.
OpenFiles ==
  \A k \in DOMAIN tmp : \A v \in tmp[k].writers : worker[v] = "tidy" /\ MyKey(v) = k

\* What clang-tidy has left.
Said == {"complete", "crashed"}

\* What a thread finds in its temporary file.
Held(w) ==
  /\ worker[w] = "tidy" =>
       /\ MyKey(w) \in DOMAIN tmp
       /\ tmp[MyKey(w)].writers = {w} /\ tmp[MyKey(w)].output.is = "empty"
  /\ worker[w] \in {"repair", "rename"} =>
       /\ MyKey(w) \in DOMAIN tmp
       /\ tmp[MyKey(w)].writers = {} /\ tmp[MyKey(w)].output.is \in Said
  /\ worker[w] = "write" => in_content[w].is \in Said
  /\ worker[w] = "refused" => MyKey(w) \notin DOMAIN tmp

Alone ==
  /\ Typed
  /\ KeysDiffer
  /\ ThrowsOnlyIfRefused
  /\ Exclusive
  /\ OpenFiles
  /\ \A w \in Worker : Held(w)
  /\ NothingInterruptedIsStored

LEMMA BusyAtWork ==
  ASSUME Alone, NEW w \in Worker, IsBusy(w)
  PROVE  main \in {"work", "terminated"} /\ key \in [Gathered -> Key] /\ work[w] \in Gathered
BY DEF Alone, Typed, TypeOK, ThrowsOnlyIfRefused, IsBusy, Busy

LEMMA MyKeysDiffer ==
  ASSUME Alone, NEW v \in Worker, NEW w \in Worker, v # w, IsBusy(v), IsBusy(w)
  PROVE  MyKey(v) # MyKey(w)
<1>1. main \in {"work", "terminated"} /\ work[v] \in Gathered /\ work[w] \in Gathered
  BY BusyAtWork
<1>2. work[v] # work[w]
  BY DEF Alone, Exclusive
<1> QED BY <1>1, <1>2 DEF Alone, KeysDiffer, MyKey

\* A thread that does not wait for its clang-tidy finds its file closed.
LEMMA OnlyMineIsOpen ==
  ASSUME Alone, NEW w \in Worker, IsBusy(w), MyKey(w) \in DOMAIN tmp
  PROVE  tmp[MyKey(w)].writers \subseteq {w} /\ (worker[w] # "tidy" => tmp[MyKey(w)].writers = {})
<1>1. tmp[MyKey(w)].writers \subseteq Worker
  BY DEF Alone, Typed, TypeOK, Entry
<1>2. ASSUME NEW v \in tmp[MyKey(w)].writers
      PROVE  v = w /\ worker[w] = "tidy"
  <2>1. v \in Worker /\ worker[v] = "tidy" /\ MyKey(v) = MyKey(w) /\ IsBusy(v)
    BY <1>1, <1>2 DEF Alone, OpenFiles, IsBusy, Busy
  <2> QED BY <2>1, MyKeysDiffer
<1> QED BY <1>2

\* What a thread does to its own file leaves the others what they hold.
LEMMA OthersHold ==
  ASSUME Alone, NEW w \in Worker, IsBusy(w), NEW where,
         worker' = [worker EXCEPT ![w] = where], key' = key,
         \A v \in Worker \ {w} : work'[v] = work[v] /\ in_content'[v] = in_content[v],
         \A k \in DOMAIN tmp \ {MyKey(w)} : k \in DOMAIN tmp' /\ tmp'[k] = tmp[k],
         DOMAIN tmp' \subseteq DOMAIN tmp \cup {MyKey(w)}
  PROVE  \A v \in Worker \ {w} : Held(v)'
<1> SUFFICES ASSUME NEW v \in Worker \ {w} PROVE Held(v)'
  OBVIOUS
<1>1. worker'[v] = worker[v] /\ MyKey(v)' = MyKey(v) /\ in_content'[v] = in_content[v]
  BY DEF Alone, Typed, TypeOK, MyKey
<1>2. Held(v)
  BY DEF Alone
<1>3. CASE IsBusy(v)
  <2>1. MyKey(v) # MyKey(w)
    BY <1>3, MyKeysDiffer
  <2> QED BY <1>1, <1>2, <2>1 DEF Held
<1>4. CASE ~IsBusy(v)
  BY <1>1, <1>4 DEF Held, IsBusy, Busy
<1> QED BY <1>3, <1>4

\* A thread that goes on with its file takes none of another.
LEMMA StillExclusive ==
  ASSUME Alone, NEW w \in Worker, IsBusy(w), NEW where,
         worker' = [worker EXCEPT ![w] = where],
         UNCHANGED <<work, work_queue>>
  PROVE  Exclusive'
<1>1. \A v \in Worker : IsBusy(v)' => IsBusy(v)
  BY DEF Alone, Typed, TypeOK, IsBusy
<1> QED BY <1>1 DEF Alone, Exclusive

LEMMA AloneWorker ==
  ASSUME Alone, NEW w \in Worker, WorkerStep(w)
  PROVE  Alone'
<1>0. Typed'
  BY TypeWorker DEF Alone
<1> USE DEF IsBusy, Busy
<1>d. KeysDiffer'
  <2>1. main = "work" /\ main' \in {"work", "terminated"} /\ UNCHANGED <<text, key>>
    BY DEF WorkerStep, Take, NoMoreWork, RunCommand, StoreRefuses, TidyEnds, TidyDies,
       TidyLeaves, ReadOutput,
       WriteOutput, Rename, RenameThrows, AtRename, At, GoTo, userVars, listVars
  <2> QED BY <2>1 DEF Alone, KeysDiffer
<1>w. worker \in [Worker -> {"take", "start", "tidy", "repair", "write",
                             "rename", "refused", "left"}]
  BY DEF Alone, Typed, TypeOK
<1>m. main = "work"
  BY DEF WorkerStep, Take, NoMoreWork, RunCommand, StoreRefuses, TidyEnds, TidyDies, TidyLeaves,
     ReadOutput, WriteOutput, Rename, RenameThrows, AtRename, At
<1>1. CASE Take(w)
  <2>1. PICK f \in work_queue : /\ work_queue' = work_queue \ {f}
                                /\ work' = [work EXCEPT ![w] = f]
    BY <1>1 DEF Take, Without
  <2>2. /\ worker' = [worker EXCEPT ![w] = "start"] /\ worker[w] = "take"
        /\ UNCHANGED <<main, key, tmp, final, in_content>>
    BY <1>1 DEF Take, At, listVars
  <2>3. work \in [Worker -> Gathered \cup {Nothing}]
    BY DEF Alone, Typed, TypeOK
  <2>4. Exclusive'
    BY <2>1, <2>2, <2>3, <1>w DEF Alone, Exclusive
  <2>5. \A v \in Worker \ {w} : MyKey(v)' = MyKey(v) /\ worker'[v] = worker[v]
    BY <2>1, <2>2, <2>3, <1>w DEF MyKey
  <2>6. \A v \in Worker : Held(v)'
    BY <2>2, <2>5, <1>w DEF Alone, Held
  <2>7. OpenFiles'
    <3> SUFFICES ASSUME NEW k \in DOMAIN tmp, NEW v \in tmp[k].writers
                 PROVE  worker'[v] = "tidy" /\ MyKey(v)' = k
      BY <2>2 DEF OpenFiles
    <3>1. worker[v] = "tidy" /\ MyKey(v) = k /\ v \in Worker
      BY DEF Alone, OpenFiles, Typed, TypeOK, Entry
    <3>2. v # w
      BY <2>2, <3>1
    <3> QED BY <3>1, <3>2, <2>5
  <2> QED BY <1>0, <1>d, <1>m, <2>2, <2>4, <2>6, <2>7
      DEF Alone, ThrowsOnlyIfRefused, NothingInterruptedIsStored
<1>2. CASE NoMoreWork(w)
  <2>1. /\ worker' = [worker EXCEPT ![w] = "left"] /\ worker[w] = "take"
        /\ UNCHANGED <<main, key, tmp, final, in_content, work, work_queue>>
    BY <1>2 DEF NoMoreWork, At, GoTo, listVars
  <2>2. Exclusive'
    BY <2>1, <1>w DEF Alone, Exclusive
  <2>3. \A v \in Worker : Held(v)'
    BY <2>1, <1>w DEF Alone, Held, MyKey
  <2>4. OpenFiles'
    <3> SUFFICES ASSUME NEW k \in DOMAIN tmp, NEW v \in tmp[k].writers
                 PROVE  worker'[v] = "tidy" /\ MyKey(v)' = k
      BY <2>1 DEF OpenFiles
    <3>1. worker[v] = "tidy" /\ MyKey(v) = k /\ v \in Worker
      BY DEF Alone, OpenFiles, Typed, TypeOK, Entry
    <3> QED BY <3>1, <2>1, <1>w DEF MyKey
  <2> QED BY <1>0, <1>d, <1>m, <2>1, <2>2, <2>3, <2>4
      DEF Alone, ThrowsOnlyIfRefused, NothingInterruptedIsStored
<1>3. CASE RunCommand(w)
  <2>1. /\ worker' = [worker EXCEPT ![w] = "tidy"] /\ worker[w] = "start"
        /\ UNCHANGED <<main, key, final, in_content, work, work_queue>>
    BY <1>3 DEF RunCommand, At, GoTo, listVars
  <2>2. tmp' = Put(tmp, MyKey(w), [output |-> Unfinished("empty"), writers |-> {w}])
    <3>1. MyKey(w) \in DOMAIN tmp => tmp[MyKey(w)].writers = {}
      BY <2>1, OnlyMineIsOpen
    <3>2. {} \cup {w} = {w}
      OBVIOUS
    <3> QED BY <1>3, <3>1, <3>2 DEF RunCommand, MyKey
  <2>3. \A v \in Worker : MyKey(v)' = MyKey(v)
    BY <2>1 DEF MyKey
  <2>4. /\ MyKey(w) \in DOMAIN tmp'
        /\ tmp'[MyKey(w)] = [output |-> Unfinished("empty"), writers |-> {w}]
        /\ DOMAIN tmp' = DOMAIN tmp \cup {MyKey(w)}
        /\ \A k \in DOMAIN tmp \ {MyKey(w)} : k \in DOMAIN tmp' /\ tmp'[k] = tmp[k]
    BY <2>2 DEF Put
  <2>5. Held(w)'
    BY <2>1, <2>3, <2>4, <1>w DEF Held, Unfinished
  <2>6. \A v \in Worker \ {w} : Held(v)'
    BY <2>1, <2>4, OthersHold
  <2>7. Exclusive'
    BY <2>1, StillExclusive
  <2>8. OpenFiles'
    <3> SUFFICES ASSUME NEW k \in DOMAIN tmp', NEW v \in tmp'[k].writers
                 PROVE  worker'[v] = "tidy" /\ MyKey(v)' = k
      BY DEF OpenFiles
    <3>1. CASE k = MyKey(w)
      BY <3>1, <2>1, <2>3, <2>4, <1>w
    <3>2. CASE k # MyKey(w)
      <4>1. k \in DOMAIN tmp /\ v \in tmp[k].writers
        BY <3>2, <2>4
      <4>2. worker[v] = "tidy" /\ MyKey(v) = k /\ v \in Worker
        BY <4>1 DEF Alone, OpenFiles, Typed, TypeOK, Entry
      <4> QED BY <4>2, <2>1, <2>3, <1>w
    <3> QED BY <3>1, <3>2
  <2> QED BY <1>0, <1>d, <1>m, <2>1, <2>5, <2>6, <2>7, <2>8
      DEF Alone, ThrowsOnlyIfRefused, NothingInterruptedIsStored
<1>3a. CASE StoreRefuses(w)
  <2>1. /\ worker' = [worker EXCEPT ![w] = "refused"] /\ worker[w] = "start"
        /\ MyKey(w) \notin DOMAIN tmp
        /\ UNCHANGED <<main, key, tmp, final, in_content, work, work_queue>>
    BY <1>3a DEF StoreRefuses, At, GoTo, listVars, MyKey
  <2>2. Held(w)'
    BY <2>1, <1>w DEF Held, MyKey
  <2>3. \A v \in Worker \ {w} : Held(v)'
    BY <2>1, OthersHold
  <2>4. Exclusive'
    BY <2>1, StillExclusive
  <2>5. OpenFiles'
    BY <2>1, <1>w DEF Alone, OpenFiles, MyKey, Typed, TypeOK, Entry
  <2> QED BY <1>0, <1>d, <1>m, <2>1, <2>2, <2>3, <2>4, <2>5
      DEF Alone, ThrowsOnlyIfRefused, NothingInterruptedIsStored
<1>4. ASSUME NEW is \in Said, TidyLeaves(w, is)
      PROVE  Alone'
  <2>1. PICK long \in BOOLEAN :
          LET out == [is |-> is, look |-> LookAt(work[w]), long |-> long, stamp |-> build_env]
          IN  tmp' = Written(tmp, w, out) /\ final' = Written(final, w, out)
    BY <1>4 DEF TidyLeaves
  <2> DEFINE out == [is |-> is, look |-> LookAt(work[w]), long |-> long, stamp |-> build_env]
  <2>2. /\ worker' = [worker EXCEPT ![w] = "repair"] /\ worker[w] = "tidy"
        /\ UNCHANGED <<main, key, in_content, work, work_queue>>
    BY <1>4 DEF TidyLeaves, At, GoTo, listVars
  <2>3. out.is = is /\ tmp' = Written(tmp, w, out) /\ final' = Written(final, w, out)
    BY <2>1
  <2> HIDE DEF out
  <2>4. /\ MyKey(w) \in DOMAIN tmp
        /\ tmp[MyKey(w)].writers = {w} /\ tmp[MyKey(w)].output.is = "empty"
    BY <2>2 DEF Alone, Held
  <2>5. \A k \in DOMAIN tmp \ {MyKey(w)} : w \notin tmp[k].writers
    BY DEF Alone, OpenFiles
  <2>6. /\ DOMAIN tmp' = DOMAIN tmp
        /\ tmp'[MyKey(w)].output = out /\ tmp'[MyKey(w)].writers = {}
        /\ \A k \in DOMAIN tmp \ {MyKey(w)} : k \in DOMAIN tmp' /\ tmp'[k] = tmp[k]
    BY <2>3, <2>4, <2>5 DEF Written
  <2>7. MyKey(w)' = MyKey(w)
    BY <2>2 DEF MyKey
  <2>8. Held(w)'
    BY <2>2, <2>3, <2>4, <2>6, <2>7, <1>w DEF Held
  <2>9. \A v \in Worker \ {w} : Held(v)'
    BY <2>2, <2>6, OthersHold
  <2>10. Exclusive'
    BY <2>2, StillExclusive
  <2>11. OpenFiles'
    <3> SUFFICES ASSUME NEW k \in DOMAIN tmp', NEW v \in tmp'[k].writers
                 PROVE  worker'[v] = "tidy" /\ MyKey(v)' = k
      BY DEF OpenFiles
    <3>1. k # MyKey(w) /\ k \in DOMAIN tmp /\ v \in tmp[k].writers
      BY <2>6
    <3>2. worker[v] = "tidy" /\ MyKey(v) = k /\ v \in Worker /\ v # w
      BY <3>1 DEF Alone, OpenFiles, Typed, TypeOK, Entry
    <3> QED BY <3>2, <2>2, <1>w DEF MyKey
  <2>12. NothingInterruptedIsStored'
    BY <2>3 DEF Written, Alone, NothingInterruptedIsStored
  <2>13. ThrowsOnlyIfRefused'
    BY <1>m, <2>2 DEF Alone, ThrowsOnlyIfRefused
  <2> QED BY <1>0, <1>d, <2>8, <2>9, <2>10, <2>11, <2>12, <2>13 DEF Alone
<1>4a. CASE TidyEnds(w)
  BY <1>4, <1>4a DEF TidyEnds, Said
<1>4b. CASE TidyDies(w)
  BY <1>4, <1>4b DEF TidyDies, Said
<1>5. CASE ReadOutput(w)
  <2>1. /\ worker' = [worker EXCEPT ![w] = "write"] /\ worker[w] = "repair"
        /\ UNCHANGED <<main, key, tmp, final, work, work_queue>>
    BY <1>5 DEF ReadOutput, At, GoTo, listVars
  <2>2. MyKey(w) \in DOMAIN tmp /\ tmp[MyKey(w)].output.is \in Said
    BY <2>1 DEF Alone, Held
  <2>3. in_content' = [in_content EXCEPT ![w] = tmp[MyKey(w)].output]
    BY <1>5, <2>2 DEF ReadOutput, MyKey
  <2>4. Held(w)'
    BY <2>1, <2>2, <2>3, <1>w DEF Held, Alone, Typed
  <2>5. \A v \in Worker \ {w} : Held(v)'
    <3>1. \A v \in Worker \ {w} : work'[v] = work[v] /\ in_content'[v] = in_content[v]
      BY <2>1, <2>3 DEF Alone, Typed
    <3> QED BY <2>1, <2>3, <3>1, OthersHold
  <2>6. Exclusive'
    BY <2>1, StillExclusive
  <2>7. OpenFiles'
    BY <2>1, <1>w DEF Alone, OpenFiles, MyKey, Typed, TypeOK, Entry
  <2>8. ThrowsOnlyIfRefused' /\ NothingInterruptedIsStored'
    BY <1>m, <2>1 DEF Alone, ThrowsOnlyIfRefused, NothingInterruptedIsStored
  <2> QED BY <1>0, <1>d, <2>4, <2>5, <2>6, <2>7, <2>8 DEF Alone
<1>6. CASE WriteOutput(w)
  <2> DEFINE entry == [output |-> [in_content[w] EXCEPT !.stamp = build_env], writers |-> {}]
  <2>1. /\ worker' = [worker EXCEPT ![w] = "rename"] /\ worker[w] = "write"
        /\ in_content' = [in_content EXCEPT ![w] = Nothing]
        /\ UNCHANGED <<main, key, final, work, work_queue>>
    BY <1>6 DEF WriteOutput, At, GoTo, listVars
  <2>2. tmp' = Put(tmp, MyKey(w), entry)
    <3>1. MyKey(w) \in DOMAIN tmp => tmp[MyKey(w)].writers = {}
      BY <2>1, OnlyMineIsOpen
    <3> QED BY <1>6, <3>1 DEF WriteOutput, MyKey
  <2>3. entry.output.is \in Said /\ entry.writers = {}
    BY <2>1 DEF Alone, Held, Typed, Output
  <2> HIDE DEF entry
  <2>4. /\ MyKey(w) \in DOMAIN tmp' /\ tmp'[MyKey(w)] = entry
        /\ DOMAIN tmp' = DOMAIN tmp \cup {MyKey(w)}
        /\ \A k \in DOMAIN tmp \ {MyKey(w)} : k \in DOMAIN tmp' /\ tmp'[k] = tmp[k]
    BY <2>2 DEF Put
  <2>5. MyKey(w)' = MyKey(w)
    BY <2>1 DEF MyKey
  <2>6. Held(w)'
    BY <2>1, <2>3, <2>4, <2>5, <1>w DEF Held
  <2>7. \A v \in Worker \ {w} : Held(v)'
    <3>1. \A v \in Worker \ {w} : work'[v] = work[v] /\ in_content'[v] = in_content[v]
      BY <2>1, <2>4 DEF Alone, Typed
    <3> QED BY <2>1, <2>4, <3>1, OthersHold
  <2>8. Exclusive'
    BY <2>1, StillExclusive
  <2>9. OpenFiles'
    <3> SUFFICES ASSUME NEW k \in DOMAIN tmp', NEW v \in tmp'[k].writers
                 PROVE  worker'[v] = "tidy" /\ MyKey(v)' = k
      BY DEF OpenFiles
    <3>1. k # MyKey(w) /\ k \in DOMAIN tmp /\ v \in tmp[k].writers
      BY <2>3, <2>4
    <3>2. worker[v] = "tidy" /\ MyKey(v) = k /\ v \in Worker
      BY <3>1 DEF Alone, OpenFiles, Typed, TypeOK, Entry
    <3> QED BY <3>2, <2>1, <1>w DEF MyKey
  <2>10. ThrowsOnlyIfRefused' /\ NothingInterruptedIsStored'
    BY <1>m, <2>1 DEF Alone, ThrowsOnlyIfRefused, NothingInterruptedIsStored
  <2> QED BY <1>0, <1>d, <2>6, <2>7, <2>8, <2>9, <2>10 DEF Alone
<1>7. CASE Rename(w)
  <2>1. /\ worker' = [worker EXCEPT ![w] = "take"] /\ worker[w] \in {"rename", "refused"}
        /\ work' = [work EXCEPT ![w] = Nothing]
        /\ UNCHANGED <<main, key, in_content, work_queue>>
    BY <1>7 DEF Rename, AtRename, GoTo, listVars
  <2>2. /\ final' = Put(final, MyKey(w), tmp[MyKey(w)]) /\ tmp' = Drop(tmp, MyKey(w))
        /\ MyKey(w) \in DOMAIN tmp
    BY <1>7 DEF Rename, MyKey
  <2>3. tmp[MyKey(w)].writers = {} /\ tmp[MyKey(w)].output.is \in Said
    BY <2>1, <2>2 DEF Alone, Held
  <2>4. DOMAIN tmp' = DOMAIN tmp \ {MyKey(w)} /\ \A k \in DOMAIN tmp' : tmp'[k] = tmp[k]
    BY <2>2 DEF Drop
  <2>5. Held(w)'
    BY <2>1, <1>w DEF Held
  <2>6. work \in [Worker -> Gathered \cup {Nothing}]
    BY DEF Alone, Typed, TypeOK
  <2>7. \A v \in Worker \ {w} : work'[v] = work[v] /\ worker'[v] = worker[v] /\ MyKey(v)' = MyKey(v)
    BY <2>1, <2>6, <1>w DEF MyKey
  <2>8. \A v \in Worker \ {w} : Held(v)'
    BY <2>1, <2>4, <2>7, OthersHold
  <2>9. Exclusive'
    BY <2>1, <2>7, <1>w DEF Alone, Exclusive
  <2>10. OpenFiles'
    <3> SUFFICES ASSUME NEW k \in DOMAIN tmp', NEW v \in tmp'[k].writers
                 PROVE  worker'[v] = "tidy" /\ MyKey(v)' = k
      BY DEF OpenFiles
    <3>1. k \in DOMAIN tmp /\ v \in tmp[k].writers
      BY <2>4
    <3>2. worker[v] = "tidy" /\ MyKey(v) = k /\ v \in Worker
      BY <3>1 DEF Alone, OpenFiles, Typed, TypeOK, Entry
    <3> QED BY <3>2, <2>1, <2>7
  <2>11. NothingInterruptedIsStored'
    BY <2>2, <2>3 DEF Put, Alone, NothingInterruptedIsStored, Said
  <2>12. ThrowsOnlyIfRefused'
    BY <1>m, <2>1 DEF Alone, ThrowsOnlyIfRefused
  <2> QED BY <1>0, <1>d, <2>5, <2>8, <2>9, <2>10, <2>11, <2>12 DEF Alone
<1>8. CASE RenameThrows(w)
  <2>1. /\ worker[w] \in {"rename", "refused"} /\ MyKey(w) \notin DOMAIN tmp
        /\ UNCHANGED <<key, tmp, final, in_content, worker, work, work_queue>>
    BY <1>8 DEF RenameThrows, AtRename, listVars, threadVars, MyKey
  <2>2. worker[w] = "refused"
    BY <2>1 DEF Alone, Held
  <2>3. Exclusive' /\ OpenFiles' /\ \A v \in Worker : Held(v)'
    BY <2>1 DEF Alone, Exclusive, OpenFiles, Held, MyKey
  <2> QED BY <1>0, <1>d, <2>1, <2>2, <2>3 DEF Alone, ThrowsOnlyIfRefused, NothingInterruptedIsStored
<1> QED BY <1>1, <1>2, <1>3, <1>3a, <1>4a, <1>4b, <1>5, <1>6, <1>7, <1>8 DEF WorkerStep

LEMMA AloneInit == Init => Alone
<1> SUFFICES ASSUME Init PROVE Alone
  OBVIOUS
<1>1. Typed
  BY TypeInit
<1>2. DOMAIN tmp = {} /\ DOMAIN final = {} /\ \A w \in Worker : worker[w] = "left"
  BY NothingIsEmpty DEF Init
<1>3. KeysDiffer
  BY <1>1 DEF Init, KeysDiffer, Texts
<1> QED
  BY <1>1, <1>2, <1>3 DEF Init, Alone, ThrowsOnlyIfRefused, Exclusive, IsBusy, Busy, OpenFiles, Held,
     NothingInterruptedIsStored

\* While no thread runs nothing is open, and nothing can go wrong.
LEMMA AloneIdle ==
  ASSUME Alone, Typed', KeysDiffer', main' # "terminated", UNCHANGED final,
         \A k \in DOMAIN tmp' : tmp'[k].writers = {},
         \A w \in Worker : worker'[w] \in {"take", "left"}
  PROVE  Alone'
BY DEF Alone, ThrowsOnlyIfRefused, Exclusive, IsBusy, Busy, OpenFiles, Held, NothingInterruptedIsStored

\* A power failure takes some of a result, and nothing else happens to it.
LEMMA FailureTears ==
  ASSUME NEW e \in Entry, NEW fate
  PROVE  /\ AfterFailure(e, fate).writers = e.writers
         /\ AfterFailure(e, fate).output.is \in {e.output.is, "torn"}
         /\ AfterFailure(e, fate).output.look = e.output.look
BY DEF AfterFailure, Entry, Output

\* Keys are made once in a run, of texts that the files have had.
LEMMA KeysStayApart ==
  ASSUME KeysApart, Alone, [Next]_vars
  PROVE  KeysDiffer'
<1>1. CASE HashHeaders
  <2>1. main' = "list" /\ UNCHANGED text /\ header_hashes' = HashesOf(text) /\ text \in Texts
    BY <1>1 DEF HashHeaders, HeaderHashes, userVars, Alone, KeysDiffer
  <2> QED BY <2>1 DEF KeysDiffer
<1>2. CASE BuildWorkList
  <2>1. PICK t \in Texts : header_hashes = HashesOf(t)
    BY <1>2 DEF BuildWorkList, Alone, KeysDiffer
  <2>2. text \in Texts /\ text' = text /\ main' # "list"
    BY <1>2 DEF BuildWorkList, userVars, Alone, KeysDiffer
  <2>3. \A f \in Gathered : key'[f] = KeyIn(f, t, text)
    BY <1>2, <2>1 DEF BuildWorkList, KeyFor, KeyIn
  <2> QED BY <2>1, <2>2, <2>3 DEF KeysDiffer, KeysApart
<1>3. ASSUME NEW f \in File, Edit(f) PROVE KeysDiffer'
  <2>1. PICK c \in TextsOf[f] : text' = [text EXCEPT ![f] = c]
    BY <1>3 DEF Edit
  <2>2. c \in Content /\ text \in Texts
    BY FilesAssumption DEF Alone, KeysDiffer
  <2>3. text' \in Texts
    BY <2>1, <2>2 DEF Texts
  <2> QED BY <1>3, <2>3 DEF Edit, listVars, Alone, KeysDiffer
<1>4. ASSUME UNCHANGED text, main' \notin {"list", "work", "terminated"} PROVE KeysDiffer'
  BY <1>4 DEF Alone, KeysDiffer
<1>5. ASSUME UNCHANGED <<text, main, header_hashes, key>> PROVE KeysDiffer'
  BY <1>5 DEF Alone, KeysDiffer
<1>6. ASSUME NEW w \in Worker, WorkerStep(w) PROVE KeysDiffer'
  <2>1. main = "work" /\ main' \in {"work", "terminated"} /\ UNCHANGED <<text, key>>
    BY <1>6 DEF WorkerStep, Take, NoMoreWork, RunCommand, StoreRefuses, TidyEnds, TidyDies,
       TidyLeaves, ReadOutput,
       WriteOutput, Rename, RenameThrows, AtRename, At, GoTo, userVars, listVars
  <2> QED BY <2>1 DEF Alone, KeysDiffer
<1>7. CASE Start
  BY <1>4, <1>7 DEF Start, userVars
<1>8. CASE Join
  BY <1>4, <1>8 DEF Join, userVars
<1>9. CASE CreateReport
  BY <1>4, <1>9 DEF CreateReport, userVars
<1>10. CASE CtrlC
  BY <1>5, <1>10 DEF CtrlC, userVars, listVars
<1>11. CASE Kill \/ PowerFails
  BY <1>4, <1>11 DEF Kill, PowerFails, ScriptIsGone, userVars
<1>12. CASE ChangeBuild
  BY <1>5, <1>12 DEF ChangeBuild, listVars
<1>13. CASE UNCHANGED vars
  BY <1>5, <1>13 DEF vars, userVars, listVars
<1> QED
  BY <1>1, <1>2, <1>3, <1>6, <1>7, <1>8, <1>9, <1>10, <1>11, <1>12, <1>13 DEF Next, MainStep, Finished

LEMMA AloneInductive ==
  ASSUME KeysApart, Alone, [Next]_vars
  PROVE  Alone'
<1>0. Typed /\ Typed'
  BY TypeInductive DEF Alone
<1>a. ASSUME \A w \in Worker : worker[w] = "left"
      PROVE  \A k \in DOMAIN tmp : tmp[k].writers = {}
  <2> SUFFICES ASSUME NEW k \in DOMAIN tmp, NEW v \in tmp[k].writers
               PROVE  FALSE
    OBVIOUS
  <2>1. worker[v] = "tidy" /\ v \in Worker
    BY DEF Alone, OpenFiles, Typed, TypeOK, Entry
  <2> QED BY <2>1, <1>a
<1>b. main \notin {"work", "terminated"} => \A w \in Worker : worker[w] = "left"
  BY DEF Alone, Typed, TypeOK
<1>d. KeysDiffer'
  BY KeysStayApart
<1>1. CASE Start
  BY <1>1, <1>0, <1>d, <1>a, <1>b, AloneIdle DEF Start, threadVars
<1>2. CASE HashHeaders
  BY <1>2, <1>0, <1>d, <1>a, <1>b, AloneIdle DEF HashHeaders, threadVars
<1>3. CASE BuildWorkList
  <2>1. \A k \in DOMAIN tmp : tmp[k].writers = {}
    BY <1>3, <1>a, <1>b DEF BuildWorkList
  <2>2. main' # "terminated" /\ UNCHANGED <<tmp, final>>
    BY <1>3 DEF BuildWorkList
  <2>3. \A w \in Worker : worker'[w] \in {"take", "left"}
    BY <1>3, <1>b DEF BuildWorkList
  <2> QED BY <1>0, <1>d, <2>1, <2>2, <2>3, AloneIdle
<1>4. ASSUME NEW w \in Worker, WorkerStep(w) PROVE Alone'
  BY <1>4, AloneWorker
<1>5. CASE Join
  BY <1>5, <1>0, <1>d, <1>a, AloneIdle DEF Join, AllLeft, threadVars
<1>6. CASE CreateReport
  BY <1>6, <1>0, <1>d, <1>a, <1>b, AloneIdle DEF CreateReport, threadVars
<1>7. CASE CtrlC
  <2>1. /\ worker' = [w \in Worker |-> IF w \in Tidying THEN "left" ELSE worker[w]]
        /\ tmp' = Cut(tmp, Tidying) /\ final' = Cut(final, Tidying)
        /\ UNCHANGED <<main, key, work, work_queue, in_content>>
    BY <1>7 DEF CtrlC, AfterSignal, listVars
  <2>2. /\ DOMAIN tmp' = DOMAIN tmp
        /\ \A k \in DOMAIN tmp : tmp[k].writers = {} => tmp'[k] = tmp[k]
        /\ NothingInterruptedIsStored'
    BY <2>1 DEF Cut, Alone, NothingInterruptedIsStored
  <2>3. \A k \in DOMAIN tmp : tmp'[k].writers = {}
    <3> SUFFICES ASSUME NEW k \in DOMAIN tmp PROVE tmp'[k].writers = {}
      OBVIOUS
    <3>1. tmp[k].writers \subseteq Tidying
      BY DEF Alone, OpenFiles, Tidying, Typed, TypeOK, Entry
    <3> QED BY <3>1, <2>1 DEF Cut
  <2>4. \A w \in Worker : Held(w)'
    <3> SUFFICES ASSUME NEW w \in Worker PROVE Held(w)'
      OBVIOUS
    <3>1. Held(w) /\ MyKey(w)' = MyKey(w) /\ in_content' = in_content
      BY <2>1 DEF Alone, MyKey
    <3>2. worker'[w] # "tidy" /\ (worker'[w] \in {"repair", "write", "rename", "refused"} => worker'[w] = worker[w])
      BY <2>1 DEF Tidying
    <3> QED BY <3>1, <3>2, <2>2 DEF Held
  <2>5. OpenFiles'
    BY <2>2, <2>3 DEF OpenFiles
  <2>6. Exclusive'
    <3>1. \A w \in Worker : IsBusy(w)' => IsBusy(w)
      BY <2>1 DEF IsBusy, Busy
    <3> QED BY <3>1, <2>1 DEF Alone, Exclusive
  <2> QED BY <1>0, <1>d, <1>7, <2>1, <2>2, <2>4, <2>5, <2>6 DEF CtrlC, Alone, ThrowsOnlyIfRefused
<1>8. ASSUME ScriptIsGone, NothingInterruptedIsStored',
             \A k \in DOMAIN tmp' : tmp'[k].writers = {}
      PROVE  Alone'
  <2>1. main' = "killed" /\ \A w \in Worker : worker'[w] = "left"
    BY <1>8 DEF ScriptIsGone
  <2> QED
    BY <1>0, <1>d, <1>8, <2>1
    DEF Alone, ThrowsOnlyIfRefused, Exclusive, IsBusy, Busy, OpenFiles, Held
<1>8a. CASE Kill
  <2>1. NothingInterruptedIsStored'
    BY <1>8a DEF Kill, Cut, Alone, NothingInterruptedIsStored
  <2>2. \A k \in DOMAIN tmp' : tmp'[k].writers = {}
    BY <1>8a DEF Kill
  <2> QED BY <1>8, <1>8a, <2>1, <2>2 DEF Kill
<1>8b. CASE PowerFails
  <2> DEFINE left == Cut(final, Worker)
  <2>1. PICK fate : final' = [k \in {x \in DOMAIN final : fate[x] # "gone"} |->
                                AfterFailure(left[k], fate[k])]
    BY <1>8b DEF PowerFails
  <2>2. \A k \in DOMAIN final : left[k] = final[k]
    BY DEF Cut, Alone, NothingInterruptedIsStored
  <2> HIDE DEF left
  <2>3. NothingInterruptedIsStored'
    <3> SUFFICES ASSUME NEW k \in DOMAIN final'
                 PROVE  final'[k].writers = {} /\ final'[k].output.is \in Said \cup {"torn"}
      BY DEF NothingInterruptedIsStored, Said
    <3>1. k \in DOMAIN final /\ final'[k] = AfterFailure(final[k], fate[k])
      BY <2>1, <2>2
    <3>2. final[k] \in Entry /\ final[k].writers = {} /\ final[k].output.is \in Said \cup {"torn"}
      BY <3>1, <1>0 DEF Typed, TypeOK, Alone, NothingInterruptedIsStored, Said
    <3> QED BY <3>1, <3>2, FailureTears
  <2>4. \A k \in DOMAIN tmp' : tmp'[k].writers = {}
    BY <1>8b DEF PowerFails
  <2> QED BY <1>8, <1>8b, <2>3, <2>4 DEF PowerFails
<1>9. ASSUME UNCHANGED <<main, key, work_queue, worker, work, in_content, tmp, final>>
      PROVE  Alone'
  BY <1>0, <1>d, <1>9
  DEF Alone, ThrowsOnlyIfRefused, Exclusive, IsBusy, OpenFiles, Held, MyKey, NothingInterruptedIsStored
<1>10. ASSUME NEW f \in File, Edit(f) PROVE Alone'
  BY <1>9, <1>10 DEF Edit, listVars, threadVars
<1>11. CASE ChangeBuild
  BY <1>9, <1>11 DEF ChangeBuild, listVars, threadVars
<1>12. CASE UNCHANGED vars
  BY <1>9, <1>12 DEF vars, listVars, threadVars
<1>13. CASE Finished
  BY <1>9, <1>13 DEF Finished, vars, listVars, threadVars
<1> QED
  BY <1>1, <1>2, <1>3, <1>4, <1>5, <1>6, <1>7, <1>8a, <1>8b, <1>10, <1>11, <1>12, <1>13
  DEF Next, MainStep

(* If no two files of interest have the same key, whatever they contain:   *)
(* what has its final name is what one clang-tidy had said when it ended,  *)
(* never output in the making, of two writers, or cut off by Ctrl-C or the *)
(* end of the script. What a power failure takes later is not counted.     *)
THEOREM NothingInterrupted ==
  ASSUME KeysApart
  PROVE  Spec => []NothingInterruptedIsStored
<1>1. Init => Alone
  BY AloneInit
<1>2. Alone /\ [Next]_vars => Alone'
  BY AloneInductive
<1>3. Alone => NothingInterruptedIsStored
  BY DEF Alone
<1> QED BY <1>1, <1>2, <1>3, PTL DEF Spec

-----------------------------------------------------------------------------
(* A run does what is left, and no more. Nothing is assumed of the names   *)
(* here: threads may well take each other's temporary file away.           *)

Fresh(output, from) == output.long => output.stamp >= from
Found(k, from) == k \in DOMAIN final /\ Fresh(final[k].output, from)

\* A file is in the queue, with a thread, or done; threads that are done have
\* left an empty queue behind.
WorkIsKept ==
  (main = "work" /\ ~interrupted) =>
    /\ \A f \in Gathered :
         \/ f \in work_queue
         \/ \E w \in Worker : IsBusy(w) /\ work[w] = f
         \/ Found(key[f], min_freshness)
    /\ \A w \in Worker : worker[w] = "left" => work_queue = {}

\* What a thread is to rename is of this run, whoever has written it.
FreshFiles ==
  \A w \in Worker :
    (worker[w] \in Busy \ {"start"} /\ MyKey(w) \in DOMAIN tmp) =>
      Fresh(tmp[MyKey(w)].output, min_freshness)

\* What the run works with is what the files contain.
KeysAreCurrent ==
  /\ main = "list" => header_hashes = HeaderHashes
  /\ main \in {"work", "report"} => \A f \in Gathered : key[f] = KeyFor(f, HeaderHashes)

\* As long as nothing changes a run would find everything in the store.
SettledIsFound ==
  settled =>
    /\ main \in {"idle", "headers", "list", "report"}
    /\ main # "idle" => min_freshness = build_env
    /\ \A f \in Gathered : Found(KeyFor(f, HeaderHashes), build_env)

Exact ==
  /\ Typed
  /\ main \in {"idle", "killed", "headers", "list"} => ~interrupted
  /\ main = "report" => key \in [Gathered -> Key]
  /\ WorkIsKept
  /\ FreshFiles
  /\ KeysAreCurrent
  /\ SettledIsFound
  /\ EverythingRefreshed

LEMMA ExactInit == Init => Exact
<1> SUFFICES ASSUME Init PROVE Exact
  OBVIOUS
<1>1. Typed
  BY TypeInit
<1> QED
  BY <1>1 DEF Init, Exact, WorkIsKept, FreshFiles, KeysAreCurrent, SettledIsFound,
     EverythingRefreshed, Busy

\* The hashes of the headers depend on what the files contain, and on nothing else.
LEMMA SameTextSameKeys ==
  ASSUME UNCHANGED text
  PROVE  /\ HeaderHashes' = HeaderHashes
         /\ \A f : KeyFor(f, HeaderHashes)' = KeyFor(f, HeaderHashes)
<1>1. HeaderHashes' = HeaderHashes
  BY DEF HeaderHashes, HashesOf
<1> QED BY <1>1 DEF KeyFor, KeyOf

\* What is fresh stays so if something fresh is written over it.
LEMMA WrittenIsFresh ==
  ASSUME NEW dir, NEW w, NEW out, NEW from, Fresh(out, from), NEW k \in DOMAIN dir,
         \/ Fresh(dir[k].output, from)
         \/ w \in dir[k].writers /\ out \in Output
  PROVE  k \in DOMAIN Written(dir, w, out) /\ Fresh(Written(dir, w, out)[k].output, from)
BY DEF Written, Fresh, Output

LEMMA CutIsFresh ==
  ASSUME NEW dir, NEW W, NEW from, NEW k \in DOMAIN dir, Fresh(dir[k].output, from)
  PROVE  k \in DOMAIN Cut(dir, W) /\ Fresh(Cut(dir, W)[k].output, from)
BY DEF Cut, Fresh, Unfinished

\* Of a step of a thread only two things are left to be shown: that what it is to
\* rename is of this run, and that no work is lost.
LEMMA ExactFrame ==
  ASSUME Exact, NEW w \in Worker, main = "work", Typed',
         UNCHANGED <<userVars, main, listVars, interrupted, settled>>,
         WorkIsKept', FreshFiles'
  PROVE  Exact'
<1>1. HeaderHashes' = HeaderHashes /\ \A f : KeyFor(f, HeaderHashes)' = KeyFor(f, HeaderHashes)
  BY SameTextSameKeys DEF userVars
<1>2. KeysAreCurrent'
  BY <1>1 DEF Exact, KeysAreCurrent, listVars
<1>3. ~settled
  BY DEF Exact, SettledIsFound
<1> QED
  BY <1>2, <1>3 DEF Exact, SettledIsFound, EverythingRefreshed

\* A thread that goes on with its file loses no work.
LEMMA GoingOnKeepsWork ==
  ASSUME Exact, NEW w \in Worker, worker[w] \in Busy, NEW where \in Busy,
         worker' = [worker EXCEPT ![w] = where], UNCHANGED <<main, key, work_queue, work, interrupted, min_freshness>>,
         \A k \in DOMAIN final : Fresh(final[k].output, min_freshness) =>
            k \in DOMAIN final' /\ Fresh(final'[k].output, min_freshness)
  PROVE  WorkIsKept'
<1>1. \A v \in Worker : IsBusy(v) => IsBusy(v)'
  BY DEF IsBusy, Exact, Typed, TypeOK
<1>2. \A v \in Worker : worker'[v] = "left" => worker[v] = "left"
  BY DEF Busy, Exact, Typed, TypeOK
<1> QED BY <1>1, <1>2 DEF Exact, WorkIsKept, Found

LEMMA ExactWorker ==
  ASSUME Exact, NEW w \in Worker, WorkerStep(w)
  PROVE  Exact'
<1>0. Typed'
  BY TypeWorker DEF Exact
<1>w. worker \in [Worker -> {"take", "start", "tidy", "repair", "write",
                             "rename", "refused", "left"}]
  BY DEF Exact, Typed, TypeOK
<1>k. work \in [Worker -> Gathered \cup {Nothing}]
  BY DEF Exact, Typed, TypeOK
<1>f. min_freshness <= build_env /\ build_env \in Nat /\ min_freshness \in Nat
  BY BoundsAssumption DEF Exact, Typed, TypeOK
<1>1. CASE Take(w)
  <2>1. PICK f \in work_queue : /\ work_queue' = work_queue \ {f}
                                /\ work' = [work EXCEPT ![w] = f]
    BY <1>1 DEF Take, Without
  <2>2. /\ worker' = [worker EXCEPT ![w] = "start"] /\ worker[w] = "take" /\ main = "work"
        /\ UNCHANGED <<userVars, main, listVars, key, min_freshness, tmp, final, interrupted, settled>>
    BY <1>1 DEF Take, At, listVars
  <2>3. \A v \in Worker \ {w} : worker'[v] = worker[v] /\ work'[v] = work[v] /\ MyKey(v)' = MyKey(v)
    BY <2>1, <2>2, <1>w, <1>k DEF MyKey
  <2>4. worker'[w] = "start" /\ work'[w] = f
    BY <2>1, <2>2, <1>w, <1>k
  <2>5. WorkIsKept'
    <3>1. \A v \in Worker : IsBusy(v) => IsBusy(v)' /\ work'[v] = work[v]
      BY <2>2, <2>3 DEF IsBusy, Busy
    <3>2. IsBusy(w)'
      BY <2>4 DEF IsBusy, Busy
    <3>3. \A v \in Worker : worker'[v] = "left" => worker[v] = "left"
      BY <2>3, <2>4
    <3> QED BY <2>1, <2>2, <2>4, <3>1, <3>2, <3>3 DEF Exact, WorkIsKept, Found
  <2>6. FreshFiles'
    BY <2>2, <2>3, <2>4 DEF Exact, FreshFiles
  <2> QED BY <1>0, <2>2, <2>5, <2>6, ExactFrame
<1>2. CASE NoMoreWork(w)
  <2>1. /\ worker' = [worker EXCEPT ![w] = "left"] /\ worker[w] = "take" /\ main = "work"
        /\ work_queue = {}
        /\ UNCHANGED <<userVars, main, listVars, key, min_freshness, tmp, final, work, work_queue,
                       interrupted, settled>>
    BY <1>2 DEF NoMoreWork, At, GoTo, listVars
  <2>2. \A v \in Worker : IsBusy(v)' <=> IsBusy(v)
    BY <2>1, <1>w DEF IsBusy, Busy
  <2>3. WorkIsKept'
    BY <2>1, <2>2 DEF Exact, WorkIsKept, Found
  <2>4. FreshFiles'
    <3>1. \A v \in Worker : worker'[v] \in Busy \ {"start"} => worker[v] \in Busy \ {"start"}
      BY <2>1, <1>w DEF Busy
    <3> QED BY <2>1, <3>1 DEF Exact, FreshFiles, MyKey
  <2> QED BY <1>0, <2>1, <2>3, <2>4, ExactFrame
<1>3. CASE RunCommand(w)
  <2> DEFINE open == IF MyKey(w) \in DOMAIN tmp THEN tmp[MyKey(w)].writers ELSE {}
             entry == [output |-> Unfinished("empty"), writers |-> open \cup {w}]
  <2>1. /\ worker' = [worker EXCEPT ![w] = "tidy"] /\ worker[w] = "start" /\ main = "work"
        /\ UNCHANGED <<userVars, main, listVars, key, min_freshness, final, work, work_queue,
                       interrupted, settled>>
    BY <1>3 DEF RunCommand, At, GoTo, listVars
  <2>2. tmp' = Put(tmp, MyKey(w), entry)
    BY <1>3 DEF RunCommand, MyKey
  <2>3. Fresh(entry.output, min_freshness)
    BY DEF Fresh, Unfinished
  <2> HIDE DEF entry
  <2>4. FreshFiles'
    <3> SUFFICES ASSUME NEW v \in Worker, worker'[v] \in Busy \ {"start"}, MyKey(v)' \in DOMAIN tmp'
                 PROVE  Fresh(tmp'[MyKey(v)'].output, min_freshness)
      BY <2>1 DEF FreshFiles, Fresh
    <3>1. MyKey(v)' = MyKey(v)
      BY <2>1 DEF MyKey
    <3>2. CASE MyKey(v) = MyKey(w)
      BY <2>2, <2>3, <3>1, <3>2 DEF Put
    <3>3. CASE MyKey(v) # MyKey(w)
      <4>1. worker[v] \in Busy \ {"start"} /\ MyKey(v) \in DOMAIN tmp /\ tmp'[MyKey(v)] = tmp[MyKey(v)]
        BY <2>1, <2>2, <3>1, <3>3, <1>w DEF Put
      <4> QED BY <3>1, <4>1 DEF Exact, FreshFiles
    <3> QED BY <3>2, <3>3
  <2>5. WorkIsKept'
    <3>1. worker[w] \in Busy /\ "tidy" \in Busy
      BY <2>1 DEF Busy
    <3> QED BY <2>1, <3>1, GoingOnKeepsWork
  <2> QED BY <1>0, <2>1, <2>4, <2>5, ExactFrame
<1>3a. CASE StoreRefuses(w)
  <2>1. /\ worker' = [worker EXCEPT ![w] = "refused"] /\ worker[w] = "start" /\ main = "work"
        /\ MyKey(w) \notin DOMAIN tmp
        /\ UNCHANGED <<userVars, main, listVars, key, min_freshness, tmp, final, work, work_queue,
                       interrupted, settled>>
    BY <1>3a DEF StoreRefuses, At, GoTo, listVars, MyKey
  <2>2. FreshFiles'
    <3> SUFFICES ASSUME NEW v \in Worker, worker'[v] \in Busy \ {"start"}, MyKey(v)' \in DOMAIN tmp'
                 PROVE  Fresh(tmp'[MyKey(v)'].output, min_freshness)
      BY <2>1 DEF FreshFiles, Fresh
    <3>1. MyKey(v)' = MyKey(v) /\ MyKey(v) \in DOMAIN tmp /\ v # w
      BY <2>1 DEF MyKey
    <3>2. worker'[v] = worker[v]
      BY <2>1, <3>1, <1>w
    <3> QED BY <2>1, <3>1, <3>2 DEF Exact, FreshFiles
  <2>3. WorkIsKept'
    <3>1. worker[w] \in Busy /\ "refused" \in Busy
      BY <2>1 DEF Busy
    <3> QED BY <2>1, <3>1, GoingOnKeepsWork
  <2> QED BY <1>0, <2>1, <2>2, <2>3, ExactFrame
<1>4. ASSUME NEW is \in {"complete", "crashed"}, TidyLeaves(w, is)
      PROVE  Exact'
  <2>1. PICK long \in BOOLEAN :
          LET out == [is |-> is, look |-> LookAt(work[w]), long |-> long, stamp |-> build_env]
          IN  tmp' = Written(tmp, w, out) /\ final' = Written(final, w, out)
    BY <1>4 DEF TidyLeaves
  <2> DEFINE out == [is |-> is, look |-> LookAt(work[w]), long |-> long, stamp |-> build_env]
  <2>2. /\ worker' = [worker EXCEPT ![w] = "repair"] /\ worker[w] = "tidy" /\ main = "work"
        /\ UNCHANGED <<userVars, main, listVars, key, min_freshness, work, work_queue, interrupted, settled>>
    BY <1>4 DEF TidyLeaves, At, GoTo, listVars
  <2>3. LookAt(work[w]) \in Look
    BY <1>4, LookIsLook, FilesAssumption DEF TidyLeaves, At, Exact, Typed, Busy
  <2>4. out \in Output /\ Fresh(out, min_freshness)
    BY <2>3, <1>f DEF Output, Fresh
  <2> HIDE DEF out
  <2>5. tmp' = Written(tmp, w, out) /\ final' = Written(final, w, out)
    BY <2>1 DEF out
  <2>6. FreshFiles'
    <3> SUFFICES ASSUME NEW v \in Worker, worker'[v] \in Busy \ {"start"}, MyKey(v)' \in DOMAIN tmp'
                 PROVE  Fresh(tmp'[MyKey(v)'].output, min_freshness)
      BY <2>2 DEF FreshFiles, Fresh
    <3>1. MyKey(v)' = MyKey(v) /\ DOMAIN tmp' = DOMAIN tmp
      BY <2>2, <2>5 DEF MyKey, Written
    <3>2. worker[v] \in Busy \ {"start"}
      BY <2>2, <1>w DEF Busy
    <3>3. Fresh(tmp[MyKey(v)].output, min_freshness)
      BY <3>1, <3>2 DEF Exact, FreshFiles
    <3> QED BY <2>4, <2>5, <3>1, <3>3, WrittenIsFresh
  <2>7. WorkIsKept'
    <3>1. worker[w] \in Busy /\ "repair" \in Busy
      BY <2>2 DEF Busy
    <3>2. \A k \in DOMAIN final : Fresh(final[k].output, min_freshness) =>
            k \in DOMAIN final' /\ Fresh(final'[k].output, min_freshness)
      BY <2>4, <2>5, WrittenIsFresh
    <3> QED BY <2>2, <3>1, <3>2, GoingOnKeepsWork
  <2> QED BY <1>0, <2>2, <2>6, <2>7, ExactFrame
<1>4a. CASE TidyEnds(w)
  BY <1>4, <1>4a DEF TidyEnds
<1>4b. CASE TidyDies(w)
  BY <1>4, <1>4b DEF TidyDies
<1>5. CASE ReadOutput(w)
  <2>1. /\ worker' = [worker EXCEPT ![w] = "write"] /\ worker[w] = "repair" /\ main = "work"
        /\ UNCHANGED <<userVars, main, listVars, key, min_freshness, tmp, final, work, work_queue,
                       interrupted, settled>>
    BY <1>5 DEF ReadOutput, At, GoTo, listVars
  <2>2. FreshFiles'
    <3>1. \A v \in Worker : worker'[v] \in Busy \ {"start"} => worker[v] \in Busy \ {"start"}
      BY <2>1, <1>w DEF Busy
    <3> QED BY <2>1, <3>1 DEF Exact, FreshFiles, MyKey
  <2>3. WorkIsKept'
    <3>1. worker[w] \in Busy /\ "write" \in Busy
      BY <2>1 DEF Busy
    <3> QED BY <2>1, <3>1, GoingOnKeepsWork
  <2> QED BY <1>0, <2>1, <2>2, <2>3, ExactFrame
<1>6. CASE WriteOutput(w)
  <2> DEFINE open == IF MyKey(w) \in DOMAIN tmp THEN tmp[MyKey(w)].writers ELSE {}
             entry == [output |-> [in_content[w] EXCEPT !.stamp = build_env], writers |-> open]
  <2>1. /\ worker' = [worker EXCEPT ![w] = "rename"] /\ worker[w] = "write" /\ main = "work"
        /\ UNCHANGED <<userVars, main, listVars, key, min_freshness, final, work, work_queue,
                       interrupted, settled>>
    BY <1>6 DEF WriteOutput, At, GoTo, listVars
  <2>2. tmp' = Put(tmp, MyKey(w), entry)
    BY <1>6 DEF WriteOutput, MyKey
  <2>3. Fresh(entry.output, min_freshness)
    <3>1. in_content[w] \in Output
      BY <2>1 DEF Exact, Typed
    <3>2. entry.output.stamp = build_env
      BY <3>1 DEF Output
    <3> QED BY <3>2, <1>f DEF Fresh
  <2> HIDE DEF entry
  <2>4. FreshFiles'
    <3> SUFFICES ASSUME NEW v \in Worker, worker'[v] \in Busy \ {"start"}, MyKey(v)' \in DOMAIN tmp'
                 PROVE  Fresh(tmp'[MyKey(v)'].output, min_freshness)
      BY <2>1 DEF FreshFiles, Fresh
    <3>1. MyKey(v)' = MyKey(v)
      BY <2>1 DEF MyKey
    <3>2. CASE MyKey(v) = MyKey(w)
      BY <2>2, <2>3, <3>1, <3>2 DEF Put
    <3>3. CASE MyKey(v) # MyKey(w)
      <4>1. worker[v] \in Busy \ {"start"} /\ MyKey(v) \in DOMAIN tmp /\ tmp'[MyKey(v)] = tmp[MyKey(v)]
        BY <2>1, <2>2, <3>1, <3>3, <1>w DEF Put, Busy
      <4> QED BY <3>1, <4>1 DEF Exact, FreshFiles
    <3> QED BY <3>2, <3>3
  <2>5. WorkIsKept'
    <3>1. worker[w] \in Busy /\ "rename" \in Busy
      BY <2>1 DEF Busy
    <3> QED BY <2>1, <3>1, GoingOnKeepsWork
  <2> QED BY <1>0, <2>1, <2>4, <2>5, ExactFrame
<1>7. CASE Rename(w)
  <2>1. /\ worker' = [worker EXCEPT ![w] = "take"] /\ worker[w] \in {"rename", "refused"} /\ main = "work"
        /\ work' = [work EXCEPT ![w] = Nothing]
        /\ UNCHANGED <<userVars, main, listVars, key, min_freshness, work_queue, interrupted, settled>>
    BY <1>7 DEF Rename, AtRename, GoTo, listVars
  <2>2. /\ final' = Put(final, MyKey(w), tmp[MyKey(w)]) /\ tmp' = Drop(tmp, MyKey(w))
        /\ MyKey(w) \in DOMAIN tmp
    BY <1>7 DEF Rename, MyKey
  <2>3. Fresh(tmp[MyKey(w)].output, min_freshness)
    BY <2>1, <2>2 DEF Exact, FreshFiles, Busy
  <2>4. \A v \in Worker \ {w} : worker'[v] = worker[v] /\ work'[v] = work[v] /\ MyKey(v)' = MyKey(v)
    BY <2>1, <1>w, <1>k DEF MyKey
  <2>5. worker'[w] = "take"
    BY <2>1, <1>w
  <2>6. FreshFiles'
    <3>1. \A k \in DOMAIN tmp' : k \in DOMAIN tmp /\ tmp'[k] = tmp[k]
      BY <2>2 DEF Drop
    <3>2. \A v \in Worker : worker'[v] \in Busy => v # w
      BY <2>5 DEF Busy
    <3> QED BY <2>1, <2>4, <3>1, <3>2 DEF Exact, FreshFiles
  <2>7. WorkIsKept'
    <3> SUFFICES ASSUME ~interrupted PROVE WorkIsKept'
      BY <2>1 DEF WorkIsKept
    <3>1. ASSUME NEW f \in Gathered
          PROVE  \/ f \in work_queue'
                 \/ \E v \in Worker : IsBusy(v)' /\ work'[v] = f
                 \/ Found(key[f], min_freshness)'
      <4>1. CASE f \in work_queue
        BY <2>1, <4>1
      <4>2. ASSUME NEW v \in Worker, IsBusy(v), work[v] = f, v # w
            PROVE  IsBusy(v)' /\ work'[v] = f
        BY <4>2, <2>4 DEF IsBusy
      <4>3. CASE work[w] = f
        BY <4>3, <2>1, <2>2, <2>3 DEF Found, Put, Fresh, MyKey
      <4>4. CASE Found(key[f], min_freshness)
        <5>1. CASE key[f] = MyKey(w)
          BY <5>1, <2>1, <2>2, <2>3 DEF Found, Put, Fresh
        <5>2. CASE key[f] # MyKey(w)
          <6>1. key[f] \in DOMAIN final' /\ final'[key[f]] = final[key[f]]
            BY <5>2, <4>4, <2>2 DEF Found, Put
          <6> QED BY <6>1, <4>4, <2>1 DEF Found, Fresh
        <5> QED BY <5>1, <5>2
      <4> QED BY <4>1, <4>2, <4>3, <4>4, <2>1 DEF Exact, WorkIsKept
    <3>2. \A v \in Worker : worker'[v] = "left" => worker[v] = "left"
      BY <2>4, <2>5
    <3> QED BY <2>1, <3>1, <3>2 DEF Exact, WorkIsKept
  <2> QED BY <1>0, <2>1, <2>6, <2>7, ExactFrame
<1>8. CASE RenameThrows(w)
  <2>1. main' = "terminated" /\ main = "work"
        /\ UNCHANGED <<userVars, listVars, threadVars, tmp, key, min_freshness, settled>>
    BY <1>8 DEF RenameThrows, AtRename, listVars
  <2>2. ~settled
    BY <2>1 DEF Exact, SettledIsFound
  <2>3. FreshFiles'
    BY <2>1 DEF Exact, FreshFiles, MyKey, threadVars
  <2> QED
    BY <1>0, <2>1, <2>2, <2>3 DEF Exact, WorkIsKept, KeysAreCurrent, SettledIsFound, EverythingRefreshed
<1> QED BY <1>1, <1>2, <1>3, <1>3a, <1>4a, <1>4b, <1>5, <1>6, <1>7, <1>8 DEF WorkerStep

LEMMA ExactInductive ==
  ASSUME ~EditWhileRunning, Exact, [Next]_vars
  PROVE  Exact'
<1>0. Typed /\ Typed'
  BY TypeInductive DEF Exact
<1>l. main \notin {"work", "terminated"} => \A w \in Worker : worker[w] = "left"
  BY DEF Exact, Typed, TypeOK
<1>q. ASSUME \A w \in Worker : worker[w] \in {"take", "left"} PROVE FreshFiles
  BY <1>q DEF FreshFiles, Busy
<1>q2. ASSUME \A w \in Worker : worker'[w] \in {"take", "left"} PROVE FreshFiles'
  BY <1>q2 DEF FreshFiles, Busy
<1>t. ASSUME UNCHANGED text
      PROVE  HeaderHashes' = HeaderHashes /\ \A f : KeyFor(f, HeaderHashes)' = KeyFor(f, HeaderHashes)
  BY <1>t, SameTextSameKeys
<1>s. ASSUME UNCHANGED <<text, final, build_env, settled>>
      PROVE  settled' => \A f \in Gathered : Found(KeyFor(f, HeaderHashes), build_env)'
  <2>1. \A f \in Gathered : KeyFor(f, HeaderHashes)' = KeyFor(f, HeaderHashes)
    BY <1>s, <1>t
  <2> QED BY <1>s, <2>1 DEF Exact, SettledIsFound, Found
<1>1. CASE Start
  <2>1. /\ main \in {"idle", "killed"} /\ main' = "headers" /\ min_freshness' = build_env
        /\ UNCHANGED <<text, build_env, worker, final, interrupted, settled>>
    BY <1>1 DEF Start, userVars, threadVars
  <2>2. FreshFiles'
    BY <2>1, <1>l, <1>q2
  <2>3. SettledIsFound'
    BY <2>1, <1>s DEF SettledIsFound
  <2> QED
    BY <1>0, <2>1, <2>2, <2>3 DEF Exact, WorkIsKept, KeysAreCurrent, EverythingRefreshed
<1>2. CASE HashHeaders
  <2>1. /\ main = "headers" /\ main' = "list" /\ header_hashes' = HeaderHashes
        /\ UNCHANGED <<text, build_env, min_freshness, worker, final, interrupted, settled>>
    BY <1>2 DEF HashHeaders, userVars, threadVars
  <2>2. FreshFiles'
    BY <2>1, <1>l, <1>q2
  <2>3. SettledIsFound'
    BY <2>1, <1>s DEF SettledIsFound, Exact
  <2>4. KeysAreCurrent'
    BY <2>1, <1>t DEF KeysAreCurrent
  <2> QED
    BY <1>0, <2>1, <2>2, <2>3, <2>4 DEF Exact, WorkIsKept, EverythingRefreshed
<1>3. CASE BuildWorkList
  <2>1. /\ main = "list" /\ header_hashes = HeaderHashes
        /\ key' = [f \in Gathered |-> KeyFor(f, HeaderHashes)]
        /\ work_queue' = {f \in Gathered : NeedsRefresh(key'[f])}
        /\ UNCHANGED <<text, build_env, min_freshness, final, interrupted, settled>>
    BY <1>3 DEF BuildWorkList, userVars, Exact, KeysAreCurrent
  <2>2. \/ work_queue' = {} /\ main' = "report" /\ UNCHANGED worker
        \/ work_queue' # {} /\ main' = "work" /\ worker' = [w \in Worker |-> "take"]
    BY <1>3 DEF BuildWorkList
  <2>3. \A w \in Worker : worker'[w] \in {"take", "left"}
    BY <2>1, <2>2, <1>l
  <2>4. FreshFiles'
    BY <2>3, <1>q2
  <2>5. \A f \in Gathered : f \in work_queue' \/ Found(key'[f], min_freshness)
    <3> SUFFICES ASSUME NEW f \in Gathered, ~NeedsRefresh(key'[f]) PROVE Found(key'[f], min_freshness)
      BY <2>1
    <3>1. key'[f] \in DOMAIN final
      BY DEF NeedsRefresh
    <3>2. final[key'[f]].output.stamp \in Nat /\ min_freshness \in Nat
      BY <3>1, <1>0, BoundsAssumption DEF Typed, TypeOK, Entry, Output
    <3> QED BY <3>1, <3>2 DEF NeedsRefresh, Found, Fresh
  <2>6. \A f \in Gathered : key'[f] = KeyFor(f, HeaderHashes)
    BY <2>1
  <2>7. KeysAreCurrent'
    <3>1. HeaderHashes' = HeaderHashes /\ \A f : KeyFor(f, HeaderHashes)' = KeyFor(f, HeaderHashes)
      BY <2>1, <1>t
    <3> QED BY <2>2, <2>6, <3>1 DEF KeysAreCurrent
  <2>8. settled => work_queue' = {}
    <3>1. ASSUME settled, NEW f \in Gathered PROVE ~NeedsRefresh(key'[f])
      <4>1. Found(key'[f], min_freshness)
        BY <2>1, <2>6, <3>1 DEF Exact, SettledIsFound
      <4>2. final[key'[f]].output.stamp \in Nat /\ min_freshness \in Nat
        BY <4>1, <1>0, BoundsAssumption DEF Typed, TypeOK, Entry, Output, Found
      <4> QED BY <4>1, <4>2 DEF Found, Fresh, NeedsRefresh
    <3> QED BY <2>1, <3>1
  <2>9. SettledIsFound'
    BY <2>1, <2>2, <2>8, <1>s DEF SettledIsFound, Exact
  <2>10. WorkIsKept'
    <3>1. \A f \in Gathered : Found(key[f], min_freshness)' <=> Found(key'[f], min_freshness)
      BY <2>1 DEF Found, Fresh
    <3>2. main' = "work" => \A w \in Worker : worker'[w] # "left"
      BY <2>2
    <3> QED BY <2>5, <3>1, <3>2 DEF WorkIsKept
  <2>11. EverythingRefreshed'
    BY <2>1, <2>2, <2>5 DEF EverythingRefreshed, Found, Fresh
  <2>12. key' \in [Gathered -> Key]
    <3>1. \A f \in Gathered : KeyFor(f, HeaderHashes) \in Key
      BY FilesAssumption DEF KeyFor, KeyOf, ContentHash, Key, Hash
    <3> QED BY <2>1, <3>1
  <2> QED
    BY <1>0, <2>2, <2>4, <2>7, <2>9, <2>10, <2>11, <2>12 DEF Exact
<1>4. ASSUME NEW w \in Worker, WorkerStep(w) PROVE Exact'
  BY <1>4, ExactWorker
<1>5. CASE Join
  <2>1. /\ main = "work" /\ main' = "report" /\ \A w \in Worker : worker[w] = "left"
        /\ UNCHANGED <<text, build_env, min_freshness, key, worker, final, interrupted, settled>>
    BY <1>5 DEF Join, AllLeft, userVars, listVars, threadVars
  <2>2. FreshFiles'
    BY <2>1, <1>q2
  <2>3. ~settled
    BY <2>1 DEF Exact, SettledIsFound
  <2>4. EverythingRefreshed'
    <3> SUFFICES ASSUME ~interrupted PROVE EverythingRefreshed'
      BY <2>1 DEF EverythingRefreshed
    <3>1. \A w \in Worker : ~IsBusy(w)
      BY <2>1 DEF IsBusy, Busy
    <3>2. work_queue = {}
      BY <2>1, FilesAssumption DEF Exact, WorkIsKept
    <3>3. \A f \in Gathered : Found(key[f], min_freshness)
      BY <2>1, <3>1, <3>2 DEF Exact, WorkIsKept
    <3> QED BY <2>1, <3>3 DEF EverythingRefreshed, Found, Fresh
  <2>5. KeysAreCurrent'
    BY <2>1, <1>t DEF Exact, KeysAreCurrent
  <2>6. key' \in [Gathered -> Key]
    BY <1>0, <2>1 DEF Typed
  <2> QED
    BY <1>0, <2>1, <2>2, <2>3, <2>4, <2>5, <2>6 DEF Exact, WorkIsKept, SettledIsFound
<1>6. CASE CreateReport
  <2>1. /\ main = "report" /\ main' = "idle" /\ settled' = (~interrupted /\ min_freshness = build_env)
        /\ interrupted' = FALSE
        /\ UNCHANGED <<text, build_env, worker, final>>
    BY <1>6 DEF CreateReport, userVars, threadVars
  <2>2. FreshFiles'
    BY <2>1, <1>l, <1>q2
  <2>3. SettledIsFound'
    <3> SUFFICES ASSUME ~interrupted, min_freshness = build_env, NEW f \in Gathered
                 PROVE  Found(KeyFor(f, HeaderHashes), build_env)'
      BY <2>1 DEF SettledIsFound
    <3>1. KeyFor(f, HeaderHashes)' = KeyFor(f, HeaderHashes) /\ key[f] = KeyFor(f, HeaderHashes)
      BY <2>1, <1>t DEF Exact, KeysAreCurrent
    <3>2. Found(key[f], min_freshness)
      BY <2>1 DEF Exact, EverythingRefreshed, Found, Fresh
    <3> QED BY <2>1, <3>1, <3>2 DEF Found
  <2> QED
    BY <1>0, <2>1, <2>2, <2>3 DEF Exact, WorkIsKept, KeysAreCurrent, EverythingRefreshed
<1>7. CASE CtrlC
  <2>1. /\ main = "work" /\ interrupted' = TRUE
        /\ worker' = [w \in Worker |-> IF w \in Tidying THEN "left" ELSE worker[w]]
        /\ tmp' = Cut(tmp, Tidying)
        /\ UNCHANGED <<text, build_env, main, key, min_freshness, header_hashes, work, settled>>
    BY <1>7 DEF CtrlC, AfterSignal, userVars, listVars
  <2>2. ~settled
    BY <2>1 DEF Exact, SettledIsFound
  <2>3. FreshFiles'
    <3> SUFFICES ASSUME NEW v \in Worker, worker'[v] \in Busy \ {"start"}, MyKey(v)' \in DOMAIN tmp'
                 PROVE  Fresh(tmp'[MyKey(v)'].output, min_freshness)
      BY <2>1 DEF FreshFiles, Fresh
    <3>1. MyKey(v)' = MyKey(v) /\ DOMAIN tmp' = DOMAIN tmp /\ worker[v] \in Busy \ {"start"}
      BY <2>1 DEF MyKey, Cut, Busy
    <3>2. Fresh(tmp[MyKey(v)].output, min_freshness)
      BY <3>1 DEF Exact, FreshFiles
    <3> QED BY <2>1, <3>1, <3>2, CutIsFresh
  <2>4. KeysAreCurrent'
    BY <2>1, <1>t DEF Exact, KeysAreCurrent
  <2> QED
    BY <1>0, <2>1, <2>2, <2>3, <2>4 DEF Exact, WorkIsKept, SettledIsFound, EverythingRefreshed
<1>8. CASE Kill \/ PowerFails
  <2>1. main' = "killed" /\ settled' = FALSE /\ interrupted' = FALSE /\ \A w \in Worker : worker'[w] = "left"
    BY <1>8 DEF Kill, PowerFails, ScriptIsGone
  <2>2. FreshFiles'
    BY <2>1, <1>q2
  <2> QED
    BY <1>0, <2>1, <2>2 DEF Exact, WorkIsKept, KeysAreCurrent, SettledIsFound, EverythingRefreshed
<1>9. ASSUME NEW f \in File, Edit(f) PROVE Exact'
  <2>1. main \in {"idle", "killed"} /\ main' = main /\ settled' = FALSE
        /\ UNCHANGED <<worker, interrupted>>
    BY <1>9 DEF Edit, threadVars
  <2>2. FreshFiles'
    BY <2>1, <1>l, <1>q2
  <2> QED
    BY <1>0, <2>1, <2>2 DEF Exact, WorkIsKept, KeysAreCurrent, SettledIsFound, EverythingRefreshed
<1>10. CASE ChangeBuild
  <2>1. settled' = FALSE
        /\ UNCHANGED <<text, main, header_hashes, min_freshness, key, work_queue, worker, work, tmp,
                       final, interrupted>>
    BY <1>10 DEF ChangeBuild, listVars, threadVars
  <2>2. KeysAreCurrent'
    BY <2>1, <1>t DEF Exact, KeysAreCurrent
  <2> QED
    BY <1>0, <2>1, <2>2
    DEF Exact, WorkIsKept, FreshFiles, SettledIsFound, EverythingRefreshed, Found, Fresh, IsBusy, MyKey
<1>11. ASSUME UNCHANGED vars PROVE Exact'
  <2>1. UNCHANGED <<text, build_env, main, header_hashes, min_freshness, key, work_queue, worker, work, tmp,
                    final, interrupted, settled>>
    BY <1>11 DEF vars, userVars, listVars, threadVars
  <2>2. KeysAreCurrent'
    BY <2>1, <1>t DEF Exact, KeysAreCurrent
  <2>3. SettledIsFound'
    BY <2>1, <1>s DEF SettledIsFound, Exact
  <2> QED
    BY <1>0, <2>1, <2>2, <2>3
    DEF Exact, WorkIsKept, FreshFiles, EverythingRefreshed, Found, Fresh, IsBusy, MyKey
<1> QED
  BY <1>1, <1>2, <1>3, <1>4, <1>5, <1>6, <1>7, <1>8, <1>9, <1>10, <1>11 DEF Next, MainStep, Finished

(* Nobody edits while a run goes on: in the report of a run that was not   *)
(* interrupted there is a result for each file, none with complaints from  *)
(* before the build environment the run started with; and if nothing has   *)
(* changed since, the next run has nothing to do.                          *)
THEOREM RerunsExact ==
  ASSUME ~EditWhileRunning
  PROVE  Spec => []RerunsAreExact
<1>1. Init => Exact
  BY ExactInit
<1>2. Exact /\ [Next]_vars => Exact'
  BY ExactInductive
<1>3. Exact => RerunsAreExact
  BY DEF Exact, SettledIsFound, RerunsAreExact, WarmRunIsQuiet
<1> QED BY <1>1, <1>2, <1>3, PTL DEF Spec

-----------------------------------------------------------------------------
(* A result tells what clang-tidy has looked at. The hash does so only     *)
(* where no content cancels out in it, and none could be that of another   *)
(* file (MCClangTidyCacheNames.cfg has two headers that may swap theirs).  *)

\* What a header contains is in no other file, and two files of one name never
\* have the same contents.
OwnTexts ==
  \A f, g \in File :
    f # g /\ (g \in Header \/ NameOf[f] = NameOf[g]) => TextsOf[f] \cap TextsOf[g] = {}

\* No file includes one of its own name, or two of one name.
PlainIncludes ==
  \A f \in Gathered : \A c \in TextsOf[f] :
    /\ \A n \in DOMAIN Includes[c] : NameOf[Includes[c][n]] # NameOf[f]
    /\ \A m, n \in DOMAIN Includes[c] :
         NameOf[Includes[c][m]] = NameOf[Includes[c][n]] => m = n

\* The hash of c is that of these headers, too.
Combined(c) ==
  {h \in Hashed : \E n \in DOMAIN Includes[c] : NameOf[Includes[c][n]] = NameOf[h]}

LEMMA HashesOfAName ==
  ASSUME OwnTexts, NEW t \in Texts, NEW name \in DOMAIN HashesOf(t)
  PROVE  HashesOf(t)[name] = {t[h] : h \in {g \in Hashed : NameOf[g] = name}}
<1> DEFINE alike(c) == {h \in Hashed : NameOf[h] = name /\ t[h] = c}
<1>1. \A h \in Hashed : h \in File /\ h \in Header /\ t[h] \in Content /\ t[h] \in TextsOf[h]
  BY FilesAssumption DEF Hashed, Texts
<1>2. HashesOf(t)[name] = {c \in Content : Odd(Cardinality(alike(c)))}
  BY DEF HashesOf
<1>3. ASSUME NEW c \in Content, NEW h \in alike(c)
      PROVE  Odd(Cardinality(alike(c)))
  <2>1. \A g \in alike(c) : g = h
    BY <1>1 DEF OwnTexts
  <2>2. alike(c) = {h}
    BY <2>1
  <2>3. Cardinality(alike(c)) = 1
    BY <2>2, FS_Singleton
  <2> QED BY <2>3 DEF Odd
<1>4. ASSUME NEW c \in Content, alike(c) = {}
      PROVE  ~Odd(Cardinality(alike(c)))
  BY <1>4, FS_EmptySet DEF Odd
<1>5. \A c \in Content : Odd(Cardinality(alike(c))) <=> \E h \in Hashed : h \in alike(c)
  BY <1>3, <1>4
<1>6. \A c : (\E h \in Hashed : h \in alike(c)) <=> c \in {t[h] : h \in {g \in Hashed : NameOf[g] = name}}
  OBVIOUS
<1> HIDE DEF alike
<1>7. {t[h] : h \in {g \in Hashed : NameOf[g] = name}} \subseteq Content
  BY <1>1
<1> QED BY <1>2, <1>5, <1>6, <1>7

LEMMA IncludesAreHeaders ==
  ASSUME NEW c \in Content
  PROVE  /\ \A n \in DOMAIN Includes[c] : Includes[c][n] \in Header /\ Includes[c][n] \in File
         /\ \A h \in Elements(Includes[c]) : h \in Header /\ h \in File
BY FilesAssumption DEF Elements

\* The hash is that of the file and all headers of the names it includes.
LEMMA HashIsWhatIsRead ==
  ASSUME OwnTexts, PlainIncludes, NEW f \in Gathered, NEW t \in Texts, NEW u \in Texts
  PROVE  KeyIn(f, t, u).hash = {u[f]} \cup {t[h] : h \in Combined(u[f])}
<1> DEFINE inc == Includes[u[f]]
           hashes == HashesOf(t)
           with(x) == {n \in DOMAIN inc : LET name == NameOf[inc[n]]
                                          IN  name \in DOMAIN hashes /\ x \in hashes[name]}
           named(n) == {h \in Hashed : NameOf[h] = NameOf[inc[n]]}
<1>1. f \in File /\ u[f] \in Content /\ u[f] \in TextsOf[f]
  BY FilesAssumption DEF Texts
<1>2. \A h \in Hashed : h \in File /\ h \in Header /\ t[h] \in Content /\ t[h] \in TextsOf[h]
  BY FilesAssumption DEF Hashed, Texts
<1>3. DOMAIN hashes = {NameOf[h] : h \in Hashed}
  BY DEF HashesOf
<1>4. ASSUME NEW n \in DOMAIN inc, NEW x
      PROVE  n \in with(x) <=> \E h \in named(n) : x = t[h]
  <2>1. CASE NameOf[inc[n]] \in DOMAIN hashes
    <3>1. hashes[NameOf[inc[n]]] = {t[h] : h \in named(n)}
      BY <2>1, HashesOfAName
    <3> QED BY <2>1, <3>1
  <2>2. CASE NameOf[inc[n]] \notin DOMAIN hashes
    BY <2>2, <1>3
  <2> QED BY <2>1, <2>2
<1>5. \A n \in DOMAIN inc : \A h \in named(n) : t[h] # u[f]
  <2> SUFFICES ASSUME NEW n \in DOMAIN inc, NEW h \in named(n) PROVE t[h] # u[f]
    OBVIOUS
  <2>1. NameOf[h] # NameOf[f]
    BY <1>1 DEF PlainIncludes
  <2>2. h # f /\ h \in File /\ h \in Header
    BY <1>2, <2>1
  <2> QED BY <1>1, <1>2, <2>2 DEF OwnTexts
<1>6. \A m, n \in DOMAIN inc : \A g \in named(m), h \in named(n) : t[g] = t[h] => m = n
  <2> SUFFICES ASSUME NEW m \in DOMAIN inc, NEW n \in DOMAIN inc, NEW g \in named(m),
                      NEW h \in named(n), t[g] = t[h]
               PROVE  m = n
    OBVIOUS
  <2>1. g = h
    BY <1>2 DEF OwnTexts
  <2>2. NameOf[inc[m]] = NameOf[inc[n]]
    BY <2>1
  <2> QED BY <2>2, <1>1 DEF PlainIncludes
<1>7. ASSUME NEW x \in Content
      PROVE  x \in ContentHash(u[f], hashes)
               <=> x = u[f] \/ \E n \in DOMAIN inc : \E h \in named(n) : x = t[h]
  <2>1. x \in ContentHash(u[f], hashes)
          <=> Odd(Cardinality(with(x)) + (IF x = u[f] THEN 1 ELSE 0))
    BY DEF ContentHash
  <2> HIDE DEF hashes, inc
  <2>2. CASE x = u[f]
    <3>1. with(x) = {}
      BY <1>4, <1>5, <2>2
    <3>2. Cardinality(with(x)) = 0
      BY <3>1, FS_EmptySet
    <3> QED BY <2>1, <2>2, <3>2 DEF Odd
  <2>3. CASE x # u[f] /\ \E n \in DOMAIN inc : \E h \in named(n) : x = t[h]
    <3>1. PICK n \in DOMAIN inc : \E h \in named(n) : x = t[h]
      BY <2>3
    <3>2. with(x) = {n}
      <4>1. n \in with(x)
        BY <1>4, <3>1
      <4>2. ASSUME NEW m \in with(x) PROVE m = n
        <5>1. m \in DOMAIN inc /\ \E g \in named(m) : x = t[g]
          BY <1>4
        <5> QED BY <1>6, <3>1, <5>1
      <4> QED BY <4>1, <4>2
    <3>3. Cardinality(with(x)) = 1
      BY <3>2, FS_Singleton
    <3> QED BY <2>1, <2>3, <3>3 DEF Odd
  <2>4. CASE x # u[f] /\ ~\E n \in DOMAIN inc : \E h \in named(n) : x = t[h]
    <3>1. with(x) = {}
      BY <1>4, <2>4
    <3>2. Cardinality(with(x)) = 0
      BY <3>1, FS_EmptySet
    <3> QED BY <2>1, <2>4, <3>2 DEF Odd
  <2> QED BY <2>2, <2>3, <2>4
<1>8. ContentHash(u[f], hashes) \subseteq Content
  BY DEF ContentHash
<1>9. \A x : (\E n \in DOMAIN inc : \E h \in named(n) : x = t[h]) <=> x \in {t[h] : h \in Combined(u[f])}
  BY DEF Combined
<1>10. {t[h] : h \in Combined(u[f])} \subseteq Content
  BY <1>2 DEF Combined
<1>11. KeyIn(f, t, u).hash = ContentHash(u[f], hashes)
  BY DEF KeyIn, KeyOf
<1> HIDE DEF hashes, inc, named
<1> QED BY <1>1, <1>7, <1>8, <1>9, <1>10, <1>11

\* A key tells the file, its contents, and those of the headers it includes itself.
LEMMA KeyTells ==
  ASSUME OwnTexts, PlainIncludes, NEW f \in Gathered, NEW g \in Gathered,
         NEW t \in Texts, NEW u \in Texts, NEW v \in Texts, NEW w \in Texts,
         KeyIn(f, t, u) = KeyIn(g, v, w)
  PROVE  /\ f = g /\ u[f] = w[f]
         /\ \A h \in Elements(Includes[u[f]]) \cap Hashed : t[h] = v[h]
<1>1. NameOf[f] = NameOf[g]
  BY DEF KeyIn, KeyOf
<1>2. {u[f]} \cup {t[h] : h \in Combined(u[f])} = {w[g]} \cup {v[h] : h \in Combined(w[g])}
  <2>1. KeyIn(f, t, u).hash = {u[f]} \cup {t[h] : h \in Combined(u[f])}
    BY HashIsWhatIsRead
  <2>2. KeyIn(g, v, w).hash = {w[g]} \cup {v[h] : h \in Combined(w[g])}
    BY HashIsWhatIsRead
  <2> QED BY <2>1, <2>2
<1>3. /\ f \in File /\ u[f] \in TextsOf[f] /\ u[f] \in Content
      /\ g \in File /\ w[g] \in TextsOf[g] /\ w[g] \in Content
  BY FilesAssumption DEF Texts
<1>4. \A h \in Hashed : h \in File /\ h \in Header /\ t[h] \in TextsOf[h] /\ v[h] \in TextsOf[h]
  BY FilesAssumption DEF Hashed, Texts
<1>5. \A h \in Combined(w[g]) : h \in Hashed /\ h # f /\ h # g
  BY <1>1, <1>3 DEF Combined, PlainIncludes
<1>6. u[f] = w[g]
  <2>1. \A h \in Combined(w[g]) : u[f] # v[h]
    BY <1>3, <1>4, <1>5 DEF OwnTexts
  <2>2. u[f] \in {w[g]} \cup {v[h] : h \in Combined(w[g])}
    BY <1>2
  <2> QED BY <2>1, <2>2
<1>7. f = g
  BY <1>1, <1>3, <1>6 DEF OwnTexts
<1>8. ASSUME NEW h \in Elements(Includes[u[f]]) \cap Hashed PROVE t[h] = v[h]
  <2>1. h \in Combined(u[f]) /\ h \in Hashed
    BY DEF Elements, Combined
  <2>2. t[h] \in {w[g]} \cup {v[i] : i \in Combined(w[g])}
    BY <1>2, <2>1
  <2>3. h # g
    BY <1>5, <1>6, <2>1
  <2>4. t[h] # w[g]
    BY <1>3, <1>4, <2>1, <2>3 DEF OwnTexts
  <2>5. PICK i \in Combined(w[g]) : t[h] = v[i]
    BY <2>2, <2>4
  <2>6. i = h
    BY <1>4, <1>5, <2>1, <2>5 DEF OwnTexts
  <2> QED BY <2>5, <2>6
<1> QED BY <1>6, <1>7, <1>8

LEMMA OwnTextsKeepKeysApart ==
  ASSUME OwnTexts, PlainIncludes
  PROVE  KeysApart
BY KeyTells DEF KeysApart

\* What is read first is what the file includes itself.
LEMMA DirectIsRead ==
  ASSUME NEW c \in Content, NEW t
  PROVE  \A h \in Elements(Includes[c]) : h \in HeadersRead(c, t)
BY IncludesAreHeaders DEF HeadersRead

\* What clang-tidy has read is what the key was made of.
Describes(k, look) ==
  \E f \in Gathered, t \in Texts : k = KeyIn(f, t, t) /\ look = LookIn(f, t)

Says(k, output) == output.look \in Look => Describes(k, output.look)

Truthful ==
  /\ \A k \in DOMAIN tmp : Says(k, tmp[k].output)
  /\ \A k \in DOMAIN final : Says(k, final[k].output)
  /\ \A w \in Worker : worker[w] = "write" => Says(MyKey(w), in_content[w])

\* Output that is written over output of the same key, or over nothing at all.
LEMMA WrittenSays ==
  ASSUME NEW dir, \A k \in DOMAIN dir : Says(k, dir[k].output),
         NEW w, NEW out, out \in Output,
         \A k \in DOMAIN dir : w \in dir[k].writers => Says(k, out)
  PROVE  \A k \in DOMAIN Written(dir, w, out) : Says(k, Written(dir, w, out)[k].output)
<1>1. [out EXCEPT !.is = "mixed", !.look = Nothing].look = Nothing
  BY DEF Output
<1> QED BY <1>1, NothingAssumption DEF Written, Says

LEMMA NothingSaysNothing ==
  \A k : Says(k, Unfinished("empty")) /\ Says(k, Unfinished("cut"))
BY NothingAssumption DEF Says, Unfinished

LEMMA PutSays ==
  ASSUME NEW dir, \A k \in DOMAIN dir : Says(k, dir[k].output), NEW x, NEW e, Says(x, e.output)
  PROVE  \A k \in DOMAIN Put(dir, x, e) : Says(k, Put(dir, x, e)[k].output)
BY DEF Put

LEMMA CutSays ==
  ASSUME NEW dir, \A k \in DOMAIN dir : Says(k, dir[k].output), NEW W
  PROVE  \A k \in DOMAIN Cut(dir, W) : Says(k, Cut(dir, W)[k].output)
BY NothingSaysNothing DEF Cut

LEMMA TruthfulInit == Init => Truthful
<1> SUFFICES ASSUME Init PROVE Truthful
  OBVIOUS
<1>1. DOMAIN tmp = {} /\ DOMAIN final = {} /\ \A w \in Worker : worker[w] = "left"
  BY NothingIsEmpty DEF Init
<1> QED BY <1>1 DEF Init, Truthful

\* A thread writes under the key of its file what was read of it.
LEMMA TruthfulWorker ==
  ASSUME Alone, KeysAreCurrent, Truthful, NEW w \in Worker, WorkerStep(w)
  PROVE  Truthful'
<1>w. worker \in [Worker -> {"take", "start", "tidy", "repair", "write",
                             "rename", "refused", "left"}]
  BY DEF Alone, Typed, TypeOK
<1>k. work \in [Worker -> Gathered \cup {Nothing}] /\ DOMAIN in_content = Worker
  BY DEF Alone, Typed, TypeOK
<1>1. CASE Take(w)
  <2>1. PICK f \in Gathered : work' = [work EXCEPT ![w] = f]
    BY <1>1 DEF Take, Alone, Typed, TypeOK
  <2>2. /\ worker' = [worker EXCEPT ![w] = "start"]
        /\ UNCHANGED <<text, key, tmp, final, in_content>>
    BY <1>1 DEF Take, listVars, userVars
  <2>3. \A v \in Worker : worker'[v] = "write" => worker[v] = "write" /\ MyKey(v)' = MyKey(v)
    BY <2>1, <2>2, <1>w, <1>k DEF MyKey
  <2> QED BY <2>2, <2>3 DEF Truthful
<1>2. CASE NoMoreWork(w)
  <2>1. /\ worker' = [worker EXCEPT ![w] = "left"]
        /\ UNCHANGED <<text, key, tmp, final, in_content, work>>
    BY <1>2 DEF NoMoreWork, GoTo, listVars, userVars
  <2>2. \A v \in Worker : worker'[v] = "write" => worker[v] = "write" /\ MyKey(v)' = MyKey(v)
    BY <2>1, <1>w DEF MyKey
  <2> QED BY <2>1, <2>2 DEF Truthful
<1>3. CASE RunCommand(w)
  <2>1. /\ worker' = [worker EXCEPT ![w] = "tidy"]
        /\ UNCHANGED <<text, key, final, in_content, work>>
    BY <1>3 DEF RunCommand, GoTo, listVars, userVars
  <2>2. \A v \in Worker : worker'[v] = "write" => worker[v] = "write" /\ MyKey(v)' = MyKey(v)
    BY <2>1, <1>w DEF MyKey
  <2>3. PICK e : tmp' = Put(tmp, MyKey(w), e) /\ e.output = Unfinished("empty")
    BY <1>3 DEF RunCommand, MyKey
  <2>4. \A k \in DOMAIN tmp' : Says(k, tmp'[k].output)
    BY <2>3, PutSays, NothingSaysNothing DEF Truthful
  <2> QED BY <2>1, <2>2, <2>4 DEF Truthful
<1>3a. CASE StoreRefuses(w)
  <2>1. /\ worker' = [worker EXCEPT ![w] = "refused"]
        /\ UNCHANGED <<text, key, tmp, final, in_content, work>>
    BY <1>3a DEF StoreRefuses, GoTo, listVars, userVars
  <2>2. \A v \in Worker : worker'[v] = "write" => worker[v] = "write" /\ MyKey(v)' = MyKey(v)
    BY <2>1, <1>w DEF MyKey
  <2> QED BY <2>1, <2>2 DEF Truthful
<1>4. ASSUME NEW is \in {"complete", "crashed"}, TidyLeaves(w, is)
      PROVE  Truthful'
  <2>1. PICK long \in BOOLEAN :
          LET out == [is |-> is, look |-> LookAt(work[w]), long |-> long, stamp |-> build_env]
          IN  tmp' = Written(tmp, w, out) /\ final' = Written(final, w, out)
    BY <1>4 DEF TidyLeaves
  <2> DEFINE out == [is |-> is, look |-> LookAt(work[w]), long |-> long, stamp |-> build_env]
  <2>2. /\ worker' = [worker EXCEPT ![w] = "repair"] /\ worker[w] = "tidy" /\ main = "work"
        /\ UNCHANGED <<text, key, in_content, work>>
    BY <1>4 DEF TidyLeaves, At, GoTo, listVars, userVars
  <2>3. work[w] \in Gathered /\ work[w] \in File
    BY <2>2, FilesAssumption DEF Alone, Typed, Busy
  <2>4. LookAt(work[w]) \in Look /\ build_env \in Nat
    BY <2>3, LookIsLook, BoundsAssumption DEF Alone, Typed, TypeOK
  <2>5. out \in Output /\ out.look = LookAt(work[w])
    BY <2>4 DEF Output
  <2>6. Says(MyKey(w), out)
    <3>1. MyKey(w) = KeyIn(work[w], text, text)
      BY <2>2, <2>3 DEF KeysAreCurrent, MyKey, KeyFor, HeaderHashes, KeyIn
    <3>2. text \in Texts
      BY DEF Alone, KeysDiffer
    <3> QED BY <2>3, <2>5, <3>1, <3>2 DEF Says, Describes, LookAt
  <2> HIDE DEF out
  <2>7. tmp' = Written(tmp, w, out) /\ final' = Written(final, w, out)
    BY <2>1 DEF out
  <2>8. \A k \in DOMAIN tmp : w \in tmp[k].writers => k = MyKey(w)
    BY DEF Alone, OpenFiles
  <2>9. \A k \in DOMAIN final : w \notin final[k].writers
    BY DEF Alone, NothingInterruptedIsStored
  <2>10. \A k \in DOMAIN tmp' : Says(k, tmp'[k].output)
    BY <2>5, <2>6, <2>7, <2>8, WrittenSays DEF Truthful
  <2>11. \A k \in DOMAIN final' : Says(k, final'[k].output)
    BY <2>5, <2>7, <2>9, WrittenSays DEF Truthful
  <2>12. \A v \in Worker : worker'[v] = "write" => worker[v] = "write" /\ MyKey(v)' = MyKey(v)
    BY <2>2, <1>w DEF MyKey
  <2> QED BY <2>2, <2>10, <2>11, <2>12 DEF Truthful
<1>4a. CASE TidyEnds(w)
  BY <1>4, <1>4a DEF TidyEnds
<1>4b. CASE TidyDies(w)
  BY <1>4, <1>4b DEF TidyDies
<1>5. CASE ReadOutput(w)
  <2>1. /\ worker' = [worker EXCEPT ![w] = "write"] /\ worker[w] = "repair"
        /\ UNCHANGED <<text, key, tmp, final, work>>
    BY <1>5 DEF ReadOutput, At, GoTo, listVars, userVars
  <2>2. MyKey(w) \in DOMAIN tmp
    BY <2>1 DEF Alone, Held
  <2>3. in_content' = [in_content EXCEPT ![w] = tmp[MyKey(w)].output]
    BY <1>5, <2>2 DEF ReadOutput, MyKey
  <2>4. \A v \in Worker : MyKey(v)' = MyKey(v)
    BY <2>1 DEF MyKey
  <2>5. ASSUME NEW v \in Worker, worker'[v] = "write" PROVE Says(MyKey(v)', in_content'[v])
    <3>1. CASE v = w
      BY <3>1, <2>2, <2>3, <2>4, <1>k DEF Truthful
    <3>2. CASE v # w
      BY <3>2, <2>1, <2>3, <2>4, <2>5, <1>w, <1>k DEF Truthful
    <3> QED BY <3>1, <3>2
  <2> QED BY <2>1, <2>5 DEF Truthful, Says, Describes
<1>6. CASE WriteOutput(w)
  <2>1. /\ worker' = [worker EXCEPT ![w] = "rename"] /\ worker[w] = "write"
        /\ in_content' = [in_content EXCEPT ![w] = Nothing]
        /\ UNCHANGED <<text, key, final, work>>
    BY <1>6 DEF WriteOutput, At, GoTo, listVars, userVars
  <2>2. PICK e : tmp' = Put(tmp, MyKey(w), e) /\ e.output = [in_content[w] EXCEPT !.stamp = build_env]
    BY <1>6 DEF WriteOutput, MyKey
  <2>3. Says(MyKey(w), e.output)
    <3>1. in_content[w] \in Output /\ Says(MyKey(w), in_content[w])
      BY <2>1 DEF Alone, Typed, Truthful
    <3>2. e.output.look = in_content[w].look
      BY <2>2, <3>1 DEF Output
    <3> QED BY <3>1, <3>2 DEF Says
  <2>4. \A k \in DOMAIN tmp' : Says(k, tmp'[k].output)
    BY <2>2, <2>3, PutSays DEF Truthful
  <2>5. \A v \in Worker : worker'[v] = "write" =>
           worker[v] = "write" /\ MyKey(v)' = MyKey(v) /\ in_content'[v] = in_content[v]
    BY <2>1, <1>w, <1>k DEF MyKey
  <2> QED BY <2>1, <2>4, <2>5 DEF Truthful
<1>7. CASE Rename(w)
  <2>1. /\ worker' = [worker EXCEPT ![w] = "take"] /\ worker[w] \in {"rename", "refused"}
        /\ work' = [work EXCEPT ![w] = Nothing]
        /\ UNCHANGED <<text, key, in_content>>
    BY <1>7 DEF Rename, AtRename, GoTo, listVars, userVars
  <2>2. /\ final' = Put(final, MyKey(w), tmp[MyKey(w)]) /\ tmp' = Drop(tmp, MyKey(w))
        /\ MyKey(w) \in DOMAIN tmp
    BY <1>7 DEF Rename, MyKey
  <2>3. \A k \in DOMAIN final' : Says(k, final'[k].output)
    BY <2>2, PutSays DEF Truthful
  <2>4. \A k \in DOMAIN tmp' : Says(k, tmp'[k].output)
    BY <2>2 DEF Drop, Truthful
  <2>5. \A v \in Worker : worker'[v] = "write" => worker[v] = "write" /\ MyKey(v)' = MyKey(v)
    BY <2>1, <1>w, <1>k DEF MyKey
  <2> QED BY <2>1, <2>3, <2>4, <2>5 DEF Truthful
<1>8. CASE RenameThrows(w)
  BY <1>8 DEF RenameThrows, Truthful, MyKey, threadVars, listVars, userVars
<1> QED BY <1>1, <1>2, <1>3, <1>3a, <1>4a, <1>4b, <1>5, <1>6, <1>7, <1>8 DEF WorkerStep

LEMMA TruthfulInductive ==
  ASSUME Alone, KeysAreCurrent, Truthful, [Next]_vars
  PROVE  Truthful'
<1>l. main \notin {"work", "terminated"} => \A w \in Worker : worker[w] = "left"
  BY DEF Alone, Typed, TypeOK
<1>1. ASSUME UNCHANGED <<tmp, final>>, \A w \in Worker : worker'[w] # "write"
      PROVE  Truthful'
  BY <1>1 DEF Truthful
<1>2. ASSUME UNCHANGED <<tmp, final, key, worker, work, in_content>>
      PROVE  Truthful'
  BY <1>2 DEF Truthful, MyKey
<1>3. CASE Start
  BY <1>3, <1>l, <1>1 DEF Start, userVars, threadVars
<1>4. CASE HashHeaders
  BY <1>4, <1>l, <1>1 DEF HashHeaders, userVars, threadVars
<1>5. CASE BuildWorkList
  <2>1. UNCHANGED <<tmp, final>>
    BY <1>5 DEF BuildWorkList, userVars
  <2>2. \A w \in Worker : worker'[w] # "write"
    BY <1>5, <1>l DEF BuildWorkList
  <2> QED BY <2>1, <2>2, <1>1
<1>6. ASSUME NEW w \in Worker, WorkerStep(w) PROVE Truthful'
  BY <1>6, TruthfulWorker
<1>7. CASE Join
  BY <1>7, <1>1 DEF Join, AllLeft, userVars, threadVars
<1>8. CASE CreateReport
  BY <1>8, <1>l, <1>1 DEF CreateReport, userVars, threadVars
<1>9. CASE CtrlC
  <2>1. /\ worker' = [w \in Worker |-> IF w \in Tidying THEN "left" ELSE worker[w]]
        /\ tmp' = Cut(tmp, Tidying) /\ final' = Cut(final, Tidying)
        /\ UNCHANGED <<text, key, work, in_content>>
    BY <1>9 DEF CtrlC, AfterSignal, listVars, userVars
  <2>2. /\ \A k \in DOMAIN tmp' : Says(k, tmp'[k].output)
        /\ \A k \in DOMAIN final' : Says(k, final'[k].output)
    BY <2>1, CutSays DEF Truthful
  <2>3. \A v \in Worker : worker'[v] = "write" => worker[v] = "write" /\ MyKey(v)' = MyKey(v)
    BY <2>1 DEF MyKey
  <2> QED BY <2>1, <2>2, <2>3 DEF Truthful
<1>10. ASSUME ScriptIsGone, \A k \in DOMAIN tmp' : tmp'[k].output = Unfinished("cut"),
              \A k \in DOMAIN final' : Says(k, final'[k].output)
       PROVE  Truthful'
  <2>1. \A k \in DOMAIN tmp' : Says(k, tmp'[k].output)
    BY <1>10, NothingSaysNothing
  <2>2. \A w \in Worker : worker'[w] # "write"
    BY <1>10 DEF ScriptIsGone
  <2> QED BY <1>10, <2>1, <2>2 DEF Truthful
<1>10a. CASE Kill
  <2>1. ScriptIsGone /\ \A k \in DOMAIN tmp' : tmp'[k].output = Unfinished("cut")
    BY <1>10a DEF Kill
  <2>2. \A k \in DOMAIN final' : Says(k, final'[k].output)
    BY <1>10a, CutSays DEF Kill, Truthful
  <2> QED BY <2>1, <2>2, <1>10
<1>10b. CASE PowerFails
  <2>1. ScriptIsGone /\ \A k \in DOMAIN tmp' : tmp'[k].output = Unfinished("cut")
    BY <1>10b DEF PowerFails
  <2> DEFINE left == Cut(final, Worker)
  <2>2. PICK fate : final' = [k \in {x \in DOMAIN final : fate[x] # "gone"} |->
                                AfterFailure(left[k], fate[k])]
    BY <1>10b DEF PowerFails
  <2>3. /\ DOMAIN left = DOMAIN final
        /\ \A k \in DOMAIN left : left[k] \in Entry /\ Says(k, left[k].output)
    BY CutIsStore, CutSays DEF Cut, Truthful, Alone, Typed, TypeOK
  <2> HIDE DEF left
  <2>4. ASSUME NEW k \in DOMAIN final' PROVE Says(k, final'[k].output)
    <3>1. left[k] \in Entry /\ Says(k, left[k].output) /\ final'[k] = AfterFailure(left[k], fate[k])
      BY <2>2, <2>3
    <3>2. final'[k].output.look = left[k].output.look
      BY <3>1, FailureTears
    <3> QED BY <3>1, <3>2 DEF Says
  <2> QED BY <2>1, <2>4, <1>10
<1>11. ASSUME NEW f \in File, Edit(f) PROVE Truthful'
  BY <1>11, <1>2 DEF Edit, listVars, threadVars
<1>12. CASE ChangeBuild
  BY <1>12, <1>2 DEF ChangeBuild, listVars, threadVars
<1>13. CASE UNCHANGED vars
  BY <1>13, <1>2 DEF vars, userVars, listVars, threadVars
<1> QED
  BY <1>3, <1>4, <1>5, <1>6, <1>7, <1>8, <1>9, <1>10a, <1>10b, <1>11, <1>12, <1>13
  DEF Next, MainStep, Finished

(* Where no content cancels out in a hash, no other file could have it, and *)
(* nobody edits while a run goes on: what a run finds in the store for a    *)
(* file is of what the file and the headers of interest it includes itself  *)
(* contain now.                                                             *)
THEOREM HitsAreOfDirectIncludes ==
  ASSUME OwnTexts, PlainIncludes, ~EditWhileRunning
  PROVE  Spec => []HitHasDirectIncludes
<1> DEFINE Inv == Alone /\ Exact /\ Truthful
<1>0. KeysApart
  BY OwnTextsKeepKeysApart
<1>1. Init => Inv
  BY AloneInit, ExactInit, TruthfulInit
<1>2. Inv /\ [Next]_vars => Inv'
  BY <1>0, AloneInductive, ExactInductive, TruthfulInductive DEF Exact
<1>3. Inv => HitHasDirectIncludes
  <2> DEFINE k(f) == KeyFor(f, HeaderHashes)
             look(f) == final[k(f)].output.look
  <2> SUFFICES ASSUME Inv, NEW f \in Gathered, k(f) \in DOMAIN final, look(f) # Nothing
               PROVE  /\ look(f).text = text[f]
                      /\ \A h \in Elements(Includes[text[f]]) \cap Hashed :
                           h \in DOMAIN look(f).headers /\ look(f).headers[h] = text[h]
    BY DEF HitHasDirectIncludes
  <2>1. look(f) \in Look
    BY DEF Alone, Typed, TypeOK, Entry, Output
  <2>2. PICK g \in Gathered, t \in Texts : k(f) = KeyIn(g, t, t) /\ look(f) = LookIn(g, t)
    BY <2>1 DEF Truthful, Says, Describes
  <2>3. k(f) = KeyIn(f, text, text) /\ text \in Texts
    BY DEF KeyFor, KeyIn, HeaderHashes, Alone, KeysDiffer
  <2> HIDE DEF k, look, Inv
  <2>4. /\ g = f /\ text[f] = t[f]
        /\ \A h \in Elements(Includes[text[f]]) \cap Hashed : text[h] = t[h]
    <3>1. KeyIn(f, text, text) = KeyIn(g, t, t)
      BY <2>2, <2>3
    <3>2. /\ f = g /\ text[f] = t[f]
          /\ \A h \in Elements(Includes[text[f]]) \cap Hashed : text[h] = t[h]
      <4>1. f \in Gathered /\ g \in Gathered /\ text \in Texts /\ t \in Texts
        BY <2>2, <2>3
      <4> QED BY ONLY OwnTexts, PlainIncludes, <3>1, <4>1, KeyTells, SMT
    <3> QED BY <3>2
  <2>5. t[f] \in Content
    BY FilesAssumption DEF Texts
  <2>6. /\ look(f).text = t[f]
        /\ \A h \in HeadersRead(t[f], t) : h \in DOMAIN look(f).headers /\ look(f).headers[h] = t[h]
    BY <2>2, <2>4 DEF LookIn
  <2>7. \A h \in Elements(Includes[t[f]]) : h \in HeadersRead(t[f], t)
    BY <2>5, DirectIsRead
  <2> QED BY <2>4, <2>6, <2>7
<1> HIDE DEF Inv
<1> QED BY <1>1, <1>2, <1>3, PTL DEF Spec
=============================================================================
