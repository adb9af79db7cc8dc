----------------------- MODULE DependencyGraphProofs -----------------------
(***************************************************************************)
(* Theorems about DependencyGraph, for all targets, packages and worlds,   *)
(* and about CompilationDb, for all projects, attributes and paths.        *)
(***************************************************************************)
EXTENDS CompilationDb, SequenceTheorems, FiniteSetTheorems, Induction, TLAPS

(* Facts about Elements, the set a vector holds.                           *)

LEMMA ElementsOfConcat ==
  ASSUME NEW S, NEW s \in Seq(S), NEW t \in Seq(S)
  PROVE  Elements(s \o t) = Elements(s) \cup Elements(t)
<1>1. Elements(s \o t) \subseteq Elements(s) \cup Elements(t)
  BY ConcatProperties DEF Elements
<1>2. Elements(s) \subseteq Elements(s \o t)
  <2>. SUFFICES ASSUME NEW i \in DOMAIN s
                PROVE  s[i] \in Elements(s \o t)
    BY DEF Elements
  <2>. i \in DOMAIN (s \o t) /\ (s \o t)[i] = s[i]
    BY ConcatProperties
  <2>. QED  BY DEF Elements
<1>3. Elements(t) \subseteq Elements(s \o t)
  <2>. SUFFICES ASSUME NEW i \in DOMAIN t
                PROVE  t[i] \in Elements(s \o t)
    BY DEF Elements
  <2>. i + Len(s) \in DOMAIN (s \o t) /\ (s \o t)[i + Len(s)] = t[i]
    BY ConcatProperties
  <2>. QED  BY DEF Elements
<1>. QED  BY <1>1, <1>2, <1>3

LEMMA ElementsOfAppend ==
  ASSUME NEW S, NEW s \in Seq(S), NEW e \in S
  PROVE  Elements(Append(s, e)) = Elements(s) \cup {e}
BY AppendProperties DEF Elements

LEMMA ElementsInRange ==
  ASSUME NEW S, NEW s \in Seq(S)
  PROVE  Elements(s) \subseteq S
BY DEF Elements

LEMMA EmptyConcat ==
  ASSUME NEW S, NEW s \in Seq(S)
  PROVE  <<>> \o s = s
BY ConcatEmptySeq

-----------------------------------------------------------------------------
(* The type invariant.                                                     *)

\* TypeOK is inductive together with: pos has left 0 while a package is walked,
\* and the loop ends with the round that finds the depth used up.
CountersOK ==
  /\ current_package # None => pos >= 1
  /\ nesting_depth = -1 => pc = "done"

TypeInv == TypeOK /\ CountersOK

\* The rule a walk has come to is one of the package it is in.
LEMMA RuleType ==
  ASSUME TypeInv, InPackage, pos <= Len(RulesHere)
  PROVE  /\ RulesHere \in Seq(Rule)
         /\ pos \in 1..Len(RulesHere)
         /\ RulesHere[pos] \in Rule
         /\ PackageOf[RulesHere[pos].target] = current_package
<1>1. current_package \in Package /\ world \in World
  BY WorldsAssumption DEF TypeInv, TypeOK, InPackage
<1>2. RulesHere \in Seq(Rule)
  BY <1>1 DEF World, RulesHere
<1>3. pos \in 1..Len(RulesHere)
  BY <1>2 DEF TypeInv, TypeOK, CountersOK, InPackage
<1>4. PackageOf[RulesHere[pos].target] = current_package
  BY <1>1, <1>3, WorldsAssumption DEF TypeInv, TypeOK, RulesHere
<1>. QED  BY <1>2, <1>3, <1>4

LEMMA InitTypeInv == Init => TypeInv
<1>. SUFFICES ASSUME Init PROVE TypeInv
  OBVIOUS
<1>1. world \in World
  BY WorldsAssumption DEF Init
<1>2. todo \in SUBSET Target /\ parsed \in SUBSET Package
  BY <1>1 DEF Init, World
<1>3. nesting_depth \in Nat \cup {Unlimited}
  BY <1>1 DEF Init, World
<1>. QED  BY <1>1, <1>2, <1>3, NamesAssumption DEF Init, TypeInv, TypeOK, CountersOK

\* Appending edges to a map of vectors yields a map of vectors.
LEMMA AtType ==
  ASSUME NEW f, f \in [DOMAIN f -> Seq(Target)], NEW k
  PROVE  At(f, k) \in Seq(Target)
BY DEF At

LEMMA DependentsType ==
  ASSUME NEW t \in Target, NEW d, NEW deps \in Seq(Target)
  PROVE  Dependents(t, d, deps) \in Seq(Target)
<1>1. IsFiniteSet({j \in DOMAIN deps : deps[j] = d})
  <2>1. IsFiniteSet(1..Len(deps))
    BY FS_Interval
  <2>2. {j \in DOMAIN deps : deps[j] = d} \subseteq 1..Len(deps)
    OBVIOUS
  <2>. QED  BY <2>1, <2>2, FS_Subset
<1>2. Cardinality({j \in DOMAIN deps : deps[j] = d}) \in Nat
  BY <1>1, FS_CardinalityType
<1>. QED  BY <1>2 DEF Dependents

LEMMA VisitTypeInv == TypeInv /\ VisitRule => TypeInv'
<1>. SUFFICES ASSUME TypeInv, VisitRule PROVE TypeInv'
  OBVIOUS
<1>. DEFINE t == RulesHere[pos].target
            deps == RulesHere[pos].follow
<1>1. t \in Target /\ deps \in Seq(Target) /\ pos \in Nat /\ pos >= 1
  BY RuleType DEF Rule, VisitRule
<1>2. Elements(deps) \subseteq Target
  BY <1>1, ElementsInRange
<1>3. /\ DOMAIN depends_on' \in SUBSET Target
      /\ depends_on' \in [DOMAIN depends_on' -> Seq(Target)]
  <2>1. At(depends_on, t) \o deps \in Seq(Target)
    BY <1>1, AtType, ConcatProperties DEF TypeInv, TypeOK
  <2>. QED  BY <1>1, <2>1 DEF VisitRule, TypeInv, TypeOK
<1>4. /\ DOMAIN has_dependents' \in SUBSET Target
      /\ has_dependents' \in [DOMAIN has_dependents' -> Seq(Target)]
  <2>1. ASSUME NEW d
        PROVE  At(has_dependents, d) \o Dependents(t, d, deps) \in Seq(Target)
    BY <1>1, AtType, DependentsType, ConcatProperties DEF TypeInv, TypeOK
  <2>. QED  BY <1>2, <2>1 DEF VisitRule, TypeInv, TypeOK
<1>5. next_round' \in SUBSET Target
  BY <1>2 DEF VisitRule, ToQueue, TypeInv, TypeOK
<1>6. walked' \in Seq(Target)
  BY <1>1 DEF VisitRule, TypeInv, TypeOK
<1>7. todo' \in SUBSET Target /\ pos' \in Nat /\ pos' >= 1
  BY <1>1 DEF VisitRule, TypeInv, TypeOK
<1>8. UNCHANGED <<world, pc, parsed, error_packages, error_targets, scan_package,
                  current_package, nesting_depth, round_start>>
  BY DEF VisitRule
<1>. HIDE DEF t, deps
<1>. QED
  BY <1>3, <1>4, <1>5, <1>6, <1>7, <1>8 DEF TypeInv, TypeOK, CountersOK

LEMMA NextTypeInv == TypeInv /\ [Next]_vars => TypeInv'
<1>. SUFFICES ASSUME TypeInv, [Next]_vars PROVE TypeInv'
  OBVIOUS
<1>. USE DEF TypeInv, TypeOK, CountersOK
<1>1. CASE BeginRound
  <2>. PackagesToScan \in SUBSET Package
    BY NamesAssumption DEF PackagesToScan
  <2>. QED  BY <1>1 DEF BeginRound, NotParsedYet
<1>2. CASE ReadFails
  BY <1>2 DEF ReadFails
<1>3. ASSUME NEW p \in Package, OpenPackage(p) PROVE TypeInv'
  BY <1>3 DEF OpenPackage
<1>4. CASE IgnoreRule
  BY <1>4 DEF IgnoreRule
<1>5. CASE VisitRule
  BY <1>5, VisitTypeInv
<1>6. CASE ClosePackage
  BY <1>6 DEF ClosePackage
<1>7. CASE EndRound
  <2>1. /\ nesting_depth' \in Nat \cup {-1, Unlimited}
        /\ nesting_depth' = -1 => pc' = "done"
    <3>. nesting_depth # -1
      BY <1>7 DEF EndRound
    <3>1. CASE nesting_depth = Unlimited \/ next_round = {}
      BY <1>7, <3>1 DEF EndRound, NextTodo
    <3>2. CASE nesting_depth \in Nat /\ next_round # {}
      BY <1>7, <3>2, NamesAssumption DEF EndRound, NextTodo, MayDescend
    <3>. QED  BY <3>1, <3>2
  <2>. QED  BY <1>7, <2>1 DEF EndRound, NextTodo
<1>8. CASE UNCHANGED vars
  BY <1>8 DEF vars
<1>. QED
  BY <1>1, <1>2, <1>3, <1>4, <1>5, <1>6, <1>7, <1>8 DEF Next, Step, Finished

\* Every variable of the traversal keeps its type; the depth is counted down to
\* -1 at most, and only by a round that does not descend any further.
THEOREM TypeCorrect == Spec => []TypeOK
<1>. TypeInv => TypeOK
  BY DEF TypeInv
<1>. QED  BY InitTypeInv, NextTypeInv, PTL DEF Spec

-----------------------------------------------------------------------------
(* Each target is visited once, and no dependency gets lost.               *)

\* The three sets a target can be in before and after its visit are disjoint.
Frontier ==
  /\ todo \cap DOMAIN depends_on = {}
  /\ next_round \cap (DOMAIN depends_on \cup todo) = {}

\* The callback was called for exactly the vertices the graph has.
WalkedOK == Elements(walked) = DOMAIN depends_on /\ CallbackOncePerTarget

VisitInv == TypeInv /\ Frontier /\ WalkedOK /\ NoDependencyForgotten

LEMMA InitVisitInv == Init => VisitInv
BY InitTypeInv DEF Init, VisitInv, Frontier, WalkedOK, Elements,
   CallbackOncePerTarget, NoDependencyForgotten

\* What a visit adds to the sets of targets.
LEMMA VisitEffect ==
  ASSUME VisitInv, VisitRule,
         NEW t, t = RulesHere[pos].target,
         NEW deps, deps = RulesHere[pos].follow
  PROVE  /\ t \in todo /\ t \in Target /\ deps \in Seq(Target)
         /\ todo' = todo \ {t}
         /\ DOMAIN depends_on' = DOMAIN depends_on \cup {t}
         /\ depends_on'[t] = deps
         /\ \A u \in DOMAIN depends_on : depends_on'[u] = depends_on[u]
         /\ next_round' =
              next_round \cup (Elements(deps) \ (DOMAIN depends_on' \cup todo'))
         /\ walked' = Append(walked, t)
<1>1. t \in todo /\ t \in Target /\ deps \in Seq(Target)
  BY RuleType DEF Rule, VisitRule, VisitInv
<1>2. t \notin DOMAIN depends_on
  BY <1>1 DEF VisitInv, Frontier
<1>3. At(depends_on, t) \o deps = deps
  BY <1>1, <1>2, EmptyConcat DEF At
<1>4. depends_on' = [u \in DOMAIN depends_on \cup {t} |->
                       IF u = t THEN deps ELSE depends_on[u]]
  BY <1>3 DEF VisitRule
<1>. QED  BY <1>1, <1>2, <1>4 DEF VisitRule, ToQueue

LEMMA VisitRuleVisitInv == VisitInv /\ VisitRule => VisitInv'
<1>. SUFFICES ASSUME VisitInv, VisitRule PROVE VisitInv'
  OBVIOUS
<1>. DEFINE t == RulesHere[pos].target
            deps == RulesHere[pos].follow
<1>1. /\ t \in todo /\ t \in Target /\ deps \in Seq(Target)
      /\ todo' = todo \ {t}
      /\ DOMAIN depends_on' = DOMAIN depends_on \cup {t}
      /\ depends_on'[t] = deps
      /\ \A u \in DOMAIN depends_on : depends_on'[u] = depends_on[u]
      /\ next_round' =
           next_round \cup (Elements(deps) \ (DOMAIN depends_on' \cup todo'))
      /\ walked' = Append(walked, t)
  BY VisitEffect
<1>. HIDE DEF t, deps
<1>2. TypeInv'
  BY VisitTypeInv DEF VisitInv
<1>3. Frontier'
  BY <1>1 DEF VisitInv, Frontier
<1>4. WalkedOK'
  <2>1. walked \in Seq(Target) /\ t \notin Elements(walked)
    BY <1>1 DEF VisitInv, TypeInv, TypeOK, WalkedOK, Frontier
  <2>2. Elements(walked') = Elements(walked) \cup {t}
    BY <1>1, <2>1, ElementsOfAppend
  <2>3. CallbackOncePerTarget'
    <3>. SUFFICES ASSUME NEW i \in DOMAIN walked', NEW j \in DOMAIN walked',
                         walked'[i] = walked'[j]
                  PROVE  i = j
      BY DEF CallbackOncePerTarget
    <3>1. \A k \in DOMAIN walked' : k = Len(walked) + 1 \/ k \in DOMAIN walked
      BY <1>1, <2>1, AppendProperties
    <3>2. /\ walked'[Len(walked) + 1] = t
          /\ \A k \in DOMAIN walked : /\ walked'[k] = walked[k]
                                      /\ walked[k] \in Elements(walked)
      BY <1>1, <2>1, AppendProperties DEF Elements
    <3>. QED
      BY <2>1, <3>1, <3>2 DEF VisitInv, WalkedOK, CallbackOncePerTarget
  <2>. QED  BY <1>1, <2>2, <2>3 DEF VisitInv, WalkedOK
<1>5. NoDependencyForgotten'
  <2>. error_targets' = error_targets
    BY DEF VisitRule
  <2>. QED  BY <1>1 DEF VisitInv, NoDependencyForgotten
<1>. QED  BY <1>2, <1>3, <1>4, <1>5 DEF VisitInv

LEMMA NextVisitInv == VisitInv /\ [Next]_vars => VisitInv'
<1>. SUFFICES ASSUME VisitInv, [Next]_vars PROVE VisitInv'
  OBVIOUS
<1>. TypeInv'
  BY NextTypeInv DEF VisitInv
<1>. USE DEF VisitInv, Frontier, WalkedOK, CallbackOncePerTarget,
             NoDependencyForgotten
<1>1. CASE BeginRound
  BY <1>1 DEF BeginRound
<1>2. CASE ReadFails
  BY <1>2 DEF ReadFails
<1>3. ASSUME NEW p \in Package, OpenPackage(p) PROVE VisitInv'
  BY <1>3 DEF OpenPackage
<1>4. CASE IgnoreRule
  BY <1>4 DEF IgnoreRule
<1>5. CASE VisitRule
  BY <1>5, VisitRuleVisitInv
<1>6. CASE ClosePackage
  BY <1>6 DEF ClosePackage
<1>7. CASE EndRound
  BY <1>7 DEF EndRound, NextTodo
<1>8. CASE UNCHANGED vars
  BY <1>8 DEF vars
<1>. QED
  BY <1>1, <1>2, <1>3, <1>4, <1>5, <1>6, <1>7, <1>8 DEF Next, Step, Finished

\* walk_cb is called at most once per target, in whatever order rounds, packages
\* and rules of the same name lead to it.
THEOREM CallbackOnce == Spec => []CallbackOncePerTarget
<1>. VisitInv => CallbackOncePerTarget
  BY DEF VisitInv, WalkedOK
<1>. QED  BY InitVisitInv, NextVisitInv, PTL DEF Spec

\* Every dependency of a visited target is visited, queued or reported missing.
THEOREM NothingForgotten == Spec => []NoDependencyForgotten
<1>. VisitInv => NoDependencyForgotten
  BY DEF VisitInv
<1>. QED  BY InitVisitInv, NextVisitInv, PTL DEF Spec

-----------------------------------------------------------------------------
(* The edges in both directions.                                           *)

\* The places of x in a vector.
Where(s, x) == {i \in DOMAIN s : s[i] = x}

\* As often as t depends on d, d has t as a dependent.
Mirrored(t, d) ==
  Cardinality(Where(At(depends_on, t), d)) = Cardinality(Where(At(has_dependents, d), t))

LEMMA WhereIsFinite ==
  ASSUME NEW s \in Seq(Target), NEW x
  PROVE  IsFiniteSet(Where(s, x)) /\ Cardinality(Where(s, x)) \in Nat
<1>1. IsFiniteSet(1..Len(s)) /\ Where(s, x) \subseteq 1..Len(s)
  BY FS_Interval DEF Where
<1>. QED  BY <1>1, FS_Subset, FS_CardinalityType

\* What Dependents() appends are occurrences of t, of nothing else.
LEMMA WhereConcat ==
  ASSUME NEW s \in Seq(Target), NEW n \in Nat, NEW t \in Target, NEW u \in Target,
         NEW more, more = [i \in 1..n |-> t]
  PROVE  /\ u # t => Where(s \o more, u) = Where(s, u)
         /\ Where(s, t) = {} => Cardinality(Where(s \o more, t)) = n
<1>1. more \in Seq(Target) /\ Len(more) = n
  OBVIOUS
<1>2. /\ DOMAIN (s \o more) = 1..(Len(s) + n)
      /\ DOMAIN s = 1..Len(s) /\ Len(s) \in Nat
      /\ \A i \in 1..(Len(s) + n) : (s \o more)[i] = IF i <= Len(s) THEN s[i] ELSE t
  BY <1>1, ConcatProperties
<1>3. ASSUME u # t PROVE Where(s \o more, u) = Where(s, u)
  BY <1>2, <1>3 DEF Where
<1>4. ASSUME Where(s, t) = {} PROVE Cardinality(Where(s \o more, t)) = n
  <2>1. Where(s \o more, t) = (Len(s) + 1)..(Len(s) + n)
    <3>1. \A i \in 1..Len(s) : s[i] # t
      BY <1>2, <1>4 DEF Where
    <3>2. \A i \in 1..(Len(s) + n) : (s \o more)[i] = t <=> i > Len(s)
      BY <1>2, <3>1
    <3>. QED  BY <1>2, <3>2 DEF Where
  <2>. DEFINE first == Len(s) + 1
              last == Len(s) + n
  <2>2. first \in Int /\ last \in Int
    BY <1>2
  <2>. HIDE DEF first, last
  <2>3. Cardinality(first..last) = IF first > last THEN 0 ELSE last - first + 1
    BY <2>2, FS_Interval
  <2>4. Cardinality(first..last) = n
    BY <1>2, <2>3 DEF first, last
  <2>. QED  BY <2>1, <2>4 DEF first, last
<1>. QED  BY <1>3, <1>4

\* VisitRule appends to the vector of every dependency, at once.
LEMMA VisitAppends ==
  ASSUME TypeInv, VisitRule, NEW t, t = RulesHere[pos].target,
         NEW deps, deps = RulesHere[pos].follow, NEW d \in Target
  PROVE  /\ Cardinality(Where(deps, d)) \in Nat
         /\ At(has_dependents', d)
              = At(has_dependents, d) \o [i \in 1..Cardinality(Where(deps, d)) |-> t]
<1>1. deps \in Seq(Target) /\ t \in Target
  BY RuleType DEF Rule, VisitRule
<1>2. Cardinality(Where(deps, d)) \in Nat
  BY <1>1, WhereIsFinite
<1>3. Dependents(t, d, deps) = [i \in 1..Cardinality(Where(deps, d)) |-> t]
  BY DEF Dependents, Where
<1>4. has_dependents' = [e \in DOMAIN has_dependents \cup Elements(deps) |->
                           At(has_dependents, e) \o Dependents(t, e, deps)]
  BY DEF VisitRule
<1>5. CASE d \in DOMAIN has_dependents \cup Elements(deps)
  BY <1>2, <1>3, <1>4, <1>5 DEF At
<1>6. CASE d \notin DOMAIN has_dependents \cup Elements(deps)
  <2>1. At(has_dependents, d) = <<>> /\ At(has_dependents', d) = <<>>
    BY <1>4, <1>6 DEF At
  <2>2. Where(deps, d) = {}
    BY <1>6 DEF Where, Elements
  <2>3. [i \in 1..Cardinality(Where(deps, d)) |-> t] = <<>>
    BY <2>2, FS_EmptySet
  <2>. QED  BY <1>2, <2>1, <2>3
<1>. QED  BY <1>5, <1>6

LEMMA VisitMirrors ==
  ASSUME VisitInv, VisitRule, \A u, d \in Target : Mirrored(u, d),
         NEW u \in Target, NEW d \in Target
  PROVE  Mirrored(u, d)'
<1>. DEFINE t == RulesHere[pos].target
            deps == RulesHere[pos].follow
            n == Cardinality(Where(deps, d))
            more == [i \in 1..n |-> t]
            old == At(has_dependents, d)
<1>1. /\ t \in todo /\ t \in Target /\ deps \in Seq(Target)
      /\ DOMAIN depends_on' = DOMAIN depends_on \cup {t} /\ depends_on'[t] = deps
      /\ \A v \in DOMAIN depends_on : depends_on'[v] = depends_on[v]
  BY VisitEffect
<1>2. n \in Nat /\ At(has_dependents', d) = old \o more
  BY VisitAppends DEF VisitInv
<1>3. old \in Seq(Target)
  BY AtType DEF VisitInv, TypeInv, TypeOK
<1>a. more = [i \in 1..n |-> t]
  OBVIOUS
<1>b. t \in Target /\ n \in Nat
  BY <1>1, <1>2
<1>. HIDE DEF t, deps, n, more, old
<1>c. u # t => Where(old \o more, u) = Where(old, u)
  BY <1>3, <1>a, <1>b, WhereConcat
<1>d. Where(old, t) = {} => Cardinality(Where(old \o more, t)) = n
  BY <1>3, <1>a, <1>b, WhereConcat
<1>4. CASE u # t
  <2>1. At(depends_on', u) = At(depends_on, u)
    BY <1>1, <1>4 DEF At
  <2>2. Where(old \o more, u) = Where(old, u)
    BY <1>4, <1>c
  <2>3. Cardinality(Where(At(depends_on, u), d)) = Cardinality(Where(old, u))
    BY DEF Mirrored, old
  <2>4. Cardinality(Where(At(depends_on', u), d)) = Cardinality(Where(At(has_dependents', d), u))
    BY <1>2, <2>1, <2>2, <2>3
  <2>. QED  BY <2>4 DEF Mirrored, At, Where
<1>5. CASE u = t
  <2>1. At(depends_on, t) = <<>> /\ At(depends_on', t) = deps
    BY <1>1 DEF At, VisitInv, Frontier
  <2>2. Where(<<>>, d) = {}
    BY DEF Where
  <2>3. Cardinality(Where(old, t)) = 0
    <3>1. Cardinality(Where(At(depends_on, u), d)) = Cardinality(Where(old, u))
      BY DEF Mirrored, old
    <3>. QED  BY <1>5, <2>1, <2>2, <3>1, FS_EmptySet
  <2>4. Where(old, t) = {}
    BY <1>3, <2>3, WhereIsFinite, FS_EmptySet
  <2>5. Cardinality(Where(old \o more, t)) = n
    BY <1>d, <2>4
  <2>6. Cardinality(Where(At(depends_on', u), d)) = Cardinality(Where(At(has_dependents', d), u))
    BY <1>2, <1>5, <2>1, <2>5 DEF n
  <2>. QED  BY <2>6 DEF Mirrored, At, Where
<1>. QED  BY <1>4, <1>5

LEMMA MirroredEdges == EdgesAreMirrored <=> \A t, d \in Target : Mirrored(t, d)
<1>1. ASSUME NEW t, NEW d
      PROVE  /\ Where(At(depends_on, t), d)
                  = {i \in DOMAIN At(depends_on, t) : depends_on[t][i] = d}
             /\ Where(At(has_dependents, d), t)
                  = {i \in DOMAIN At(has_dependents, d) : has_dependents[d][i] = t}
  BY DEF Where, At
<1>2. ASSUME NEW t, NEW d
      PROVE  Mirrored(t, d) <=>
               Cardinality({i \in DOMAIN At(depends_on, t) : depends_on[t][i] = d})
                 = Cardinality({i \in DOMAIN At(has_dependents, d) : has_dependents[d][i] = t})
  BY <1>1 DEF Mirrored
<1>. QED  BY <1>2 DEF EdgesAreMirrored

\* The two maps hold the same edges, each as often, after every step.
THEOREM MirroredAlways == Spec => []EdgesAreMirrored
<1>. DEFINE Inv == VisitInv /\ \A t, d \in Target : Mirrored(t, d)
<1>1. Init => Inv
  <2>. SUFFICES ASSUME Init, NEW t \in Target, NEW d \in Target PROVE Mirrored(t, d)
    BY InitVisitInv
  <2>. QED  BY DEF Init, Mirrored, Where, At
<1>2. Inv /\ [Next]_vars => Inv'
  <2>. SUFFICES ASSUME Inv, [Next]_vars, NEW t \in Target, NEW d \in Target
                PROVE  Mirrored(t, d)'
    BY NextVisitInv
  <2>1. CASE VisitRule
    BY <2>1, VisitMirrors
  <2>2. CASE UNCHANGED <<depends_on, has_dependents>>
    BY <2>2 DEF Mirrored, Where, At
  <2>. QED
    BY <2>1, <2>2 DEF Next, Step, BeginRound, ReadFails, OpenPackage, IgnoreRule,
                      ClosePackage, EndRound, Finished, vars
<1>3. Inv => EdgesAreMirrored
  BY MirroredEdges
<1>. QED  BY <1>1, <1>2, <1>3, PTL DEF Spec

-----------------------------------------------------------------------------
(* A round visits exactly the layer it began with.                         *)

\* The targets this round has visited so far.
Done == round_start.todo \ todo

\* Between rounds nothing of a round is left over.
BetweenRounds ==
  pc # "walk" =>
    /\ todo = round_start.todo
    /\ next_round = {}
    /\ current_package = None

\* The graph is what it was as the round began and what the round has visited.
GraphGrows ==
  /\ todo \subseteq round_start.todo
  /\ round_start.visited \cap round_start.todo = {}
  /\ DOMAIN depends_on = round_start.visited \cup Done

\* The next round is the layer behind the targets visited in this one.
NextLayer ==
  \A d \in Target :
    d \in next_round <=>
      /\ \E t \in Done : d \in Elements(FollowOf(t))
      /\ d \notin round_start.visited \cup round_start.todo

\* Packages that are parsed could be read.
ParsedOK ==
  /\ world.files \subseteq parsed
  /\ \A p \in parsed : p \in world.files \/ world.disk[p] = "ok"
  /\ current_package # None => current_package \in parsed

\* Whatever can be found of this round is still ahead of the walk: in a package
\* to come, or from pos on in the current one, and nowhere before pos.
Ahead ==
  /\ pc = "walk" =>
       \A t \in todo : Resolvable(t) =>
         /\ PackageOf[t] \in parsed
         /\ \/ PackageOf[t] \in scan_package
            \/ /\ PackageOf[t] = current_package
               /\ \E i \in pos..Len(RulesHere) : RulesHere[i].target = t
  /\ current_package # None =>
       \A t \in todo : \A i \in 1..(pos - 1) :
         i <= Len(RulesHere) => RulesHere[i].target # t

RoundInv ==
  /\ VisitInv
  /\ BetweenRounds
  /\ GraphGrows
  /\ NextLayer
  /\ ParsedOK
  /\ Ahead
  /\ EdgesOfFirstRule
  /\ ErrorsAreGenuine

LEMMA InitRoundInv == Init => RoundInv
<1>. SUFFICES ASSUME Init PROVE RoundInv
  OBVIOUS
<1>1. VisitInv
  BY InitVisitInv
<1>2. todo = round_start.todo /\ round_start.visited = {}
  BY DEF Init
<1>. QED
  BY <1>1, <1>2 DEF Init, RoundInv, BetweenRounds, GraphGrows, NextLayer,
     ParsedOK, Ahead, EdgesOfFirstRule, ErrorsAreGenuine, Done

\* The world never changes, so neither does what can be found in it.
LEMMA WorldConstant ==
  ASSUME [Next]_vars
  PROVE  /\ world' = world
         /\ \A t : Resolvable(t)' <=> Resolvable(t)
         /\ \A t : FollowOf(t)' = FollowOf(t)
<1>. world' = world
  BY DEF Next, Step, Finished, vars, BeginRound, ReadFails, OpenPackage,
     IgnoreRule, VisitRule, ClosePackage, EndRound
<1>. QED  BY DEF Resolvable, FollowOf, Declared

\* The first rule of a name the walk comes to is the one FollowOf() speaks of.
LEMMA FirstRule ==
  ASSUME RoundInv, InPackage, pos <= Len(RulesHere), RulesHere[pos].target \in todo
  PROVE  /\ Resolvable(RulesHere[pos].target)
         /\ FollowOf(RulesHere[pos].target) = RulesHere[pos].follow
<1>. DEFINE t == RulesHere[pos].target
<1>1. /\ pos \in 1..Len(RulesHere)
      /\ PackageOf[t] = current_package
      /\ RulesHere \in Seq(Rule)
  BY RuleType DEF RoundInv, VisitInv
<1>2. Resolvable(t)
  <2>1. t \in Declared(world, current_package)
    BY <1>1 DEF Declared, Elements, RulesHere
  <2>. QED
    BY <1>1, <2>1 DEF Resolvable, RoundInv, ParsedOK, InPackage
<1>3. FollowOf(t) = RulesHere[pos].follow
  <2>1. \A j \in 1..(pos - 1) : RulesHere[j].target # t
    BY <1>1 DEF RoundInv, Ahead, InPackage
  <2>2. \A k \in DOMAIN RulesHere :
          (RulesHere[k].target = t /\ \A j \in 1..(k - 1) : RulesHere[j].target # t)
            <=> k = pos
    BY <1>1, <2>1
  <2>3. (CHOOSE k \in DOMAIN RulesHere :
           RulesHere[k].target = t /\ \A j \in 1..(k - 1) : RulesHere[j].target # t)
          = pos
    BY <1>1, <2>2
  <2>. QED  BY <1>1, <2>3 DEF FollowOf, RulesHere
<1>. QED  BY <1>2, <1>3

LEMMA BeginRoundRoundInv == RoundInv /\ BeginRound => RoundInv'
<1>. SUFFICES ASSUME RoundInv, BeginRound PROVE RoundInv'
  OBVIOUS
<1>0. [Next]_vars
  BY DEF Next, Step
<1>1. VisitInv' /\ TypeInv
  BY <1>0, NextVisitInv DEF RoundInv, VisitInv
<1>. USE <1>0, <1>1, WorldConstant DEF RoundInv
<1>2. BetweenRounds' /\ GraphGrows' /\ NextLayer' /\ EdgesOfFirstRule'
      /\ ErrorsAreGenuine'
  BY DEF BeginRound, BetweenRounds, GraphGrows, NextLayer, EdgesOfFirstRule,
     ErrorsAreGenuine, Done
<1>3. ParsedOK'
  BY DEF BeginRound, ParsedOK, BetweenRounds
<1>4. Ahead'
  <2>1. current_package' = None
    BY DEF BeginRound, BetweenRounds
  <2>2. ASSUME NEW t \in todo, Resolvable(t)
        PROVE  PackageOf[t] \in parsed' /\ PackageOf[t] \in scan_package'
    <3>1. PackageOf[t] \in PackagesToScan
      BY DEF PackagesToScan
    <3>2. PackageOf[t] \in parsed \/ world.disk[PackageOf[t]] = "ok"
      BY <2>2 DEF Resolvable, ParsedOK
    <3>. QED  BY <3>1, <3>2 DEF BeginRound, NotParsedYet
  <2>. QED  BY <2>1, <2>2 DEF BeginRound, Ahead
<1>. QED  BY <1>2, <1>3, <1>4

LEMMA OpenPackageRoundInv ==
  ASSUME RoundInv, NEW p \in Package, OpenPackage(p)
  PROVE  RoundInv'
<1>0. [Next]_vars
  BY DEF Next, Step
<1>1. VisitInv' /\ TypeInv
  BY <1>0, NextVisitInv DEF RoundInv, VisitInv
<1>. USE <1>0, <1>1, WorldConstant DEF RoundInv
<1>2. BetweenRounds' /\ GraphGrows' /\ NextLayer' /\ EdgesOfFirstRule'
      /\ ErrorsAreGenuine' /\ ParsedOK'
  BY DEF OpenPackage, BetweenRounds, GraphGrows, NextLayer, EdgesOfFirstRule,
     ErrorsAreGenuine, ParsedOK, Done
<1>3. Ahead'
  <2>1. p # None
    BY NamesAssumption
  <2>2. ASSUME NEW t \in todo, Resolvable(t)
        PROVE  /\ PackageOf[t] \in parsed
               /\ \/ PackageOf[t] \in scan_package'
                  \/ /\ PackageOf[t] = current_package'
                     /\ \E i \in pos'..Len(RulesHere') : RulesHere'[i].target = t
    <3>1. PackageOf[t] \in parsed /\ PackageOf[t] \in scan_package
      BY <2>2, NamesAssumption DEF OpenPackage, Ahead, TypeInv, TypeOK
    <3>2. CASE PackageOf[t] # p
      BY <3>1, <3>2 DEF OpenPackage
    <3>3. CASE PackageOf[t] = p
      <4>1. current_package' = p /\ pos' = 1 /\ RulesHere' = world.ast[p]
        BY <3>1, <3>3 DEF OpenPackage, RulesHere
      <4>2. \E i \in DOMAIN world.ast[p] : world.ast[p][i].target = t
        BY <2>2, <3>3 DEF Resolvable, Declared, Elements
      <4>3. world.ast[p] \in Seq(Rule)
        BY WorldsAssumption DEF TypeInv, TypeOK, World
      <4>. QED  BY <3>1, <3>3, <4>1, <4>2, <4>3
    <3>. QED  BY <3>2, <3>3, <3>1
  <2>3. current_package' # None => pos' = 1
    BY DEF OpenPackage
  <2>. QED  BY <2>2, <2>3 DEF OpenPackage, Ahead
<1>. QED  BY <1>2, <1>3

LEMMA IgnoreRuleRoundInv == RoundInv /\ IgnoreRule => RoundInv'
<1>. SUFFICES ASSUME RoundInv, IgnoreRule PROVE RoundInv'
  OBVIOUS
<1>0. [Next]_vars
  BY DEF Next, Step
<1>1. VisitInv' /\ TypeInv
  BY <1>0, NextVisitInv DEF RoundInv, VisitInv
<1>. USE <1>0, <1>1, WorldConstant DEF RoundInv
<1>2. BetweenRounds' /\ GraphGrows' /\ NextLayer' /\ EdgesOfFirstRule'
      /\ ErrorsAreGenuine' /\ ParsedOK'
  BY DEF IgnoreRule, BetweenRounds, GraphGrows, NextLayer, EdgesOfFirstRule,
     ErrorsAreGenuine, ParsedOK, Done
<1>3. Ahead'
  <2>. RulesHere' = RulesHere /\ pos \in Nat /\ pos' = pos + 1
    BY DEF IgnoreRule, RulesHere, TypeInv, TypeOK
  <2>. QED  BY DEF IgnoreRule, Ahead
<1>. QED  BY <1>2, <1>3

LEMMA ClosePackageRoundInv == RoundInv /\ ClosePackage => RoundInv'
<1>. SUFFICES ASSUME RoundInv, ClosePackage PROVE RoundInv'
  OBVIOUS
<1>0. [Next]_vars
  BY DEF Next, Step
<1>1. VisitInv' /\ TypeInv
  BY <1>0, NextVisitInv DEF RoundInv, VisitInv
<1>. USE <1>0, <1>1, WorldConstant DEF RoundInv
<1>2. BetweenRounds' /\ GraphGrows' /\ NextLayer' /\ EdgesOfFirstRule'
      /\ ErrorsAreGenuine' /\ ParsedOK'
  BY DEF ClosePackage, BetweenRounds, GraphGrows, NextLayer, EdgesOfFirstRule,
     ErrorsAreGenuine, ParsedOK, Done, InPackage
<1>3. Ahead'
  <2>. RulesHere \in Seq(Rule) /\ pos \in Nat
    BY WorldsAssumption
    DEF RulesHere, TypeInv, TypeOK, World, ClosePackage, InPackage
  <2>. \A i \in pos..Len(RulesHere) : FALSE
    BY DEF ClosePackage
  <2>. QED  BY DEF ClosePackage, Ahead
<1>. QED  BY <1>2, <1>3

LEMMA VisitRuleRoundInv == RoundInv /\ VisitRule => RoundInv'
<1>. SUFFICES ASSUME RoundInv, VisitRule PROVE RoundInv'
  OBVIOUS
<1>. DEFINE t == RulesHere[pos].target
            deps == RulesHere[pos].follow
<1>0. [Next]_vars
  BY DEF Next, Step
<1>1. VisitInv' /\ TypeInv /\ VisitInv
  BY <1>0, NextVisitInv DEF RoundInv, VisitInv
<1>2. /\ t \in todo /\ t \in Target /\ deps \in Seq(Target)
      /\ todo' = todo \ {t}
      /\ DOMAIN depends_on' = DOMAIN depends_on \cup {t}
      /\ depends_on'[t] = deps
      /\ \A u \in DOMAIN depends_on : depends_on'[u] = depends_on[u]
      /\ next_round' =
           next_round \cup (Elements(deps) \ (DOMAIN depends_on' \cup todo'))
  BY <1>1, VisitEffect
<1>3. Resolvable(t) /\ FollowOf(t) = deps
  BY FirstRule DEF VisitRule
<1>4. UNCHANGED <<pc, parsed, error_targets, scan_package, current_package,
                  round_start>>
      /\ pc = "walk" /\ pos' = pos + 1 /\ RulesHere' = RulesHere
  <2>1. /\ UNCHANGED <<pc, parsed, error_targets, scan_package, current_package, round_start>>
        /\ pc = "walk" /\ pos' = pos + 1
    BY Zenon DEF VisitRule, InPackage
  <2>2. world' = world
    BY <1>0, WorldConstant, Zenon
  <2> QED BY <2>1, <2>2, Zenon DEF RulesHere
<1>. HIDE DEF t, deps
<1>. USE <1>0, <1>1, WorldConstant DEF RoundInv
<1>5. BetweenRounds' /\ ParsedOK' /\ ErrorsAreGenuine'
  BY <1>4 DEF BetweenRounds, ParsedOK, ErrorsAreGenuine
<1>6. GraphGrows' /\ Done' = Done \cup {t} /\ t \notin Done
  BY <1>2, <1>4 DEF GraphGrows, Done
<1>7. EdgesOfFirstRule'
  BY <1>2, <1>3 DEF EdgesOfFirstRule
<1>8. NextLayer'
  <2>1. \A d \in Target :
          (\E u \in Done' : d \in Elements(FollowOf(u)'))
            <=> (\E u \in Done : d \in Elements(FollowOf(u))) \/ d \in Elements(deps)
    BY <1>3, <1>6
  <2>2. DOMAIN depends_on' \cup todo' = round_start.visited \cup round_start.todo
    BY <1>2, <1>4, <1>6 DEF GraphGrows, Done
  <2>. QED  BY <1>2, <1>4, <2>1, <2>2 DEF NextLayer, Elements
<1>9. Ahead'
  <2>. pos \in Nat
    BY DEF TypeInv, TypeOK
  <2>1. \A u \in todo' : \A i \in pos..Len(RulesHere) :
          RulesHere[i].target = u => i \in pos'..Len(RulesHere)
    BY <1>2, <1>4 DEF t
  <2>2. \A u \in todo' : RulesHere[pos].target # u
    BY <1>2 DEF t
  <2>. QED  BY <1>2, <1>4, <2>1, <2>2 DEF Ahead
<1>. QED  BY <1>5, <1>6, <1>7, <1>8, <1>9

\* As a round ends, everything of its layer that can be found has been visited.
LEMMA RoundComplete ==
  ASSUME RoundInv, EndRound
  PROVE  /\ \A t \in todo : ~Resolvable(t)
         /\ Done = {t \in round_start.todo : Resolvable(t)}
<1>1. \A t \in todo : ~Resolvable(t)
  <2>. \A t \in todo : PackageOf[t] # None
    BY NamesAssumption DEF RoundInv, VisitInv, TypeInv, TypeOK
  <2>. QED  BY DEF RoundInv, Ahead, EndRound
<1>2. \A t \in Done : Resolvable(t)
  BY DEF RoundInv, GraphGrows, EdgesOfFirstRule
<1>. QED  BY <1>1, <1>2 DEF RoundInv, GraphGrows, Done

LEMMA EndRoundRoundInv == RoundInv /\ EndRound => RoundInv'
<1>. SUFFICES ASSUME RoundInv, EndRound PROVE RoundInv'
  OBVIOUS
<1>0. [Next]_vars
  BY DEF Next, Step
<1>1. VisitInv' /\ VisitInv
  BY <1>0, NextVisitInv DEF RoundInv
<1>. USE <1>0, <1>1, WorldConstant DEF RoundInv
<1>2. /\ todo' = next_round
      /\ next_round' = {}
      /\ pc' # "walk"
      /\ current_package' = None
      /\ round_start'.todo = next_round
      /\ round_start'.visited = DOMAIN depends_on
      /\ error_targets' = error_targets \cup todo
      /\ UNCHANGED <<parsed, depends_on>>
  BY DEF EndRound, NextTodo
<1>3. BetweenRounds' /\ ParsedOK' /\ EdgesOfFirstRule' /\ Ahead'
  BY <1>2 DEF BetweenRounds, ParsedOK, EdgesOfFirstRule, Ahead
<1>4. Done' = {} /\ GraphGrows' /\ NextLayer'
  BY <1>2 DEF Done, GraphGrows, NextLayer, VisitInv, Frontier
<1>5. ErrorsAreGenuine'
  BY <1>2, RoundComplete DEF ErrorsAreGenuine
<1>. QED  BY <1>3, <1>4, <1>5

LEMMA NextRoundInv == RoundInv /\ [Next]_vars => RoundInv'
<1>. SUFFICES ASSUME RoundInv, [Next]_vars PROVE RoundInv'
  OBVIOUS
<1>1. ASSUME pc' = "crashed", ReadFails PROVE RoundInv'
  <2>. VisitInv'
    BY NextVisitInv DEF RoundInv
  <2>. QED
    BY <1>1, WorldConstant DEF ReadFails, RoundInv, BetweenRounds, GraphGrows,
       NextLayer, ParsedOK, Ahead, EdgesOfFirstRule, ErrorsAreGenuine, Done
<1>2. CASE UNCHANGED vars
  BY <1>2, WorldConstant, NextVisitInv
  DEF vars, RoundInv, BetweenRounds, GraphGrows, NextLayer, ParsedOK, Ahead,
      EdgesOfFirstRule, ErrorsAreGenuine, Done, RulesHere
<1>. QED
  BY <1>1, <1>2, BeginRoundRoundInv, OpenPackageRoundInv, IgnoreRuleRoundInv,
     VisitRuleRoundInv, ClosePackageRoundInv, EndRoundRoundInv
  DEF Next, Step, Finished, ReadFails

\* A target is reported as not found only if no readable package declares it.
THEOREM GenuineErrors == Spec => []ErrorsAreGenuine
<1>. RoundInv => ErrorsAreGenuine
  BY DEF RoundInv
<1>. QED  BY InitRoundInv, NextRoundInv, PTL DEF Spec

\* A vertex has the edges of the first rule of its name, each as often as listed.
THEOREM FirstRuleCounts == Spec => []EdgesOfFirstRule
<1>. RoundInv => EdgesOfFirstRule
  BY DEF RoundInv
<1>. QED  BY InitRoundInv, NextRoundInv, PTL DEF Spec

-----------------------------------------------------------------------------
(* The traversal implements the abstract search.                           *)

LEMMA InitRefines == Init => Search!Init
<1>. SUFFICES ASSUME Init PROVE Search!Init
  OBVIOUS
<1>. DEFINE succ == [t \in {u \in Target : Resolvable(u)} |-> Elements(FollowOf(t))]
<1>1. world \in World /\ world \in Worlds
  BY WorldsAssumption DEF Init
<1>2. ASSUME NEW t \in todo PROVE t \in DOMAIN succ
  <2>1. PICK p \in world.files : t \in Declared(world, p)
    BY <1>2 DEF Init
  <2>2. p \in Package /\ world.ast[p] \in Seq(Rule)
    BY <1>1 DEF World
  <2>3. PICK i \in 1..Len(world.ast[p]) : world.ast[p][i].target = t
    BY <2>1, <2>2 DEF Declared, Elements
  <2>4. t \in Target /\ PackageOf[t] = p
    <3>1. world.ast[p][i] \in Rule
      BY <2>2
    <3>2. PackageOf[world.ast[p][i].target] = p
      BY <1>1, <2>2, WorldsAssumption
    <3>. QED  BY <2>3, <3>1, <3>2 DEF Rule
  <2>. QED  BY <2>1, <2>4 DEF Resolvable
<1>3. /\ round_start.todo = todo /\ round_start.visited = {}
      /\ error_targets = {} /\ nesting_depth = world.depth /\ pc = "round"
      /\ world.depth \in Nat \cup {Unlimited}
  BY <1>1 DEF Init, World
<1>. QED  BY <1>2, <1>3 DEF Search!Init

LEMMA EndRoundRefines == RoundInv /\ EndRound => Search!VisitLayer
<1>. SUFFICES ASSUME RoundInv, EndRound PROVE Search!VisitLayer
  OBVIOUS
<1>. DEFINE succ == [t \in {u \in Target : Resolvable(u)} |-> Elements(FollowOf(t))]
<1>1. world' = world /\ succ' = succ
  <2>. [Next]_vars
    BY DEF Next, Step
  <2>. QED  BY WorldConstant DEF Elements
<1>2. /\ round_start.todo \subseteq Target
      /\ todo \subseteq Target /\ next_round \subseteq Target
      /\ todo \subseteq round_start.todo
  BY DEF RoundInv, VisitInv, TypeInv, TypeOK, GraphGrows
<1>3. Search!Found = Done
  BY <1>2, RoundComplete DEF Search!Found
<1>4. todo = round_start.todo \ Search!Found
  BY <1>2, <1>3 DEF Done
<1>5. Search!Beyond = next_round
  <2>1. ASSUME NEW t \in Done
        PROVE  succ[t] = Elements(FollowOf(t)) /\ succ[t] \subseteq Target
    <3>1. Resolvable(t) /\ t \in Target /\ t \in DOMAIN depends_on
      BY <1>2, RoundComplete DEF Done, RoundInv, GraphGrows
    <3>2. FollowOf(t) \in Seq(Target)
      BY <3>1 DEF RoundInv, EdgesOfFirstRule, VisitInv, TypeInv, TypeOK
    <3>. QED  BY <3>1, <3>2, ElementsInRange
  <2>2. Search!Beyond =
          (UNION {succ[t] : t \in Done}) \ (round_start.visited \cup round_start.todo)
    BY <1>3 DEF Search!Beyond
  <2>. HIDE DEF succ
  <2>3. \A d \in Target : d \in next_round <=>
          d \in (UNION {succ[t] : t \in Done})
            \ (round_start.visited \cup round_start.todo)
    BY <2>1 DEF RoundInv, NextLayer
  <2>4. UNION {succ[t] : t \in Done} \subseteq Target
    BY <2>1
  <2>. QED  BY <1>2, <2>2, <2>3, <2>4
<1>6. /\ round_start'.visited = round_start.visited \cup Search!Found
      /\ round_start'.todo = Search!Beyond
      /\ error_targets' = error_targets \cup (round_start.todo \ Search!Found)
  BY <1>3, <1>4, <1>5 DEF EndRound, NextTodo, RoundInv, GraphGrows
<1>7. /\ pc = "walk"
      /\ pc' = IF Search!Beyond # {} /\ MayDescend THEN "round" ELSE "done"
      /\ nesting_depth' =
           IF Search!Beyond = {} \/ nesting_depth = Unlimited
           THEN nesting_depth ELSE nesting_depth - 1
  BY <1>5 DEF EndRound, NextTodo
<1>. QED  BY <1>1, <1>6, <1>7 DEF Search!VisitLayer, MayDescend

LEMMA NextRefines == RoundInv /\ [Next]_vars => [Search!Next]_(Search!vars)
<1>. SUFFICES ASSUME RoundInv, [Next]_vars
              PROVE  [Search!Next]_(Search!vars)
  OBVIOUS
<1>. DEFINE succ == [t \in {u \in Target : Resolvable(u)} |-> Elements(FollowOf(t))]
<1>1. world' = world /\ succ' = succ
  BY WorldConstant DEF Elements
<1>2. CASE EndRound
  BY <1>2, EndRoundRefines DEF Search!Next
<1>3. CASE ReadFails
  BY <1>1, <1>3 DEF ReadFails, Search!Next, Search!Abort
<1>4. ASSUME /\ UNCHANGED <<error_targets, nesting_depth, round_start>>
             /\ pc' = pc \/ (pc = "round" /\ pc' = "walk")
      PROVE  UNCHANGED Search!vars
  BY <1>1, <1>4 DEF Search!vars
<1>. QED
  BY <1>2, <1>3, <1>4 DEF Next, Step, Finished, vars, BeginRound, OpenPackage,
     IgnoreRule, VisitRule, ClosePackage, InPackage

\* Whatever the order of packages and rules, each round visits the layer it began
\* with, reports the rest of it and queues exactly the layer behind it.
THEOREM Refinement == Spec => ImplementsSearch
<1>. QED
  BY InitRefines, InitRoundInv, NextRoundInv, NextRefines, PTL
  DEF Spec, ImplementsSearch, Search!Spec

-----------------------------------------------------------------------------
(* The targets visited in the end are those in reach, and no others.       *)

\* b gives the targets that 0, 1, ... and n edges lead to.
IsBalls(b, n) == b = [k \in 0..n |-> IF k = 0 THEN Selected ELSE OneFurther(b[k - 1])]

LEMMA BallsExist == \A n \in Nat : \E b : IsBalls(b, n)
<1> DEFINE S == {n \in Nat : \E b : IsBalls(b, n)}
<1>1. 0 \in S
  <2> DEFINE b == [k \in 0..0 |-> Selected]
  <2>1. IsBalls(b, 0)
    BY DEF IsBalls
  <2> QED BY <2>1
<1>2. ASSUME NEW n \in Nat, n \in S PROVE n + 1 \in S
  <2>1. PICK b : IsBalls(b, n)
    BY <1>2
  <2> DEFINE c == [k \in 0..(n + 1) |-> IF k = n + 1 THEN OneFurther(b[n]) ELSE b[k]]
  <2>2. ASSUME NEW k \in 0..(n + 1)
        PROVE  c[k] = IF k = 0 THEN Selected ELSE OneFurther(c[k - 1])
    <3>1. CASE k = n + 1
      <4>1. k # 0 /\ k - 1 = n /\ n \in 0..(n + 1) /\ n # n + 1
        BY <3>1
      <4>2. c[n] = b[n]
        BY <4>1
      <4> QED BY <3>1, <4>1, <4>2
    <3>2. CASE k = 0
      BY <3>2, <2>1 DEF IsBalls
    <3>3. CASE k \in 1..n
      <4>1. k - 1 \in 0..(n + 1) /\ k - 1 # n + 1 /\ k \in 0..n /\ k # n + 1 /\ k # 0
        BY <3>3
      <4>2. c[k - 1] = b[k - 1] /\ c[k] = b[k]
        BY <4>1
      <4>3. b[k] = OneFurther(b[k - 1])
        BY <4>1, <2>1 DEF IsBalls
      <4> QED BY <4>1, <4>2, <4>3
    <3> QED BY <3>1, <3>2, <3>3
  <2> HIDE DEF c
  <2>3. c = [k \in 0..(n + 1) |-> c[k]]
    BY DEF c
  <2>4. IsBalls(c, n + 1)
    BY <2>2, <2>3 DEF IsBalls
  <2> QED BY <2>4
<1>3. Nat \subseteq S
  BY <1>1, <1>2, AllNaturals
<1> QED BY <1>3

LEMMA BallsAgree ==
  ASSUME NEW m \in Nat, NEW n \in Nat, m <= n, NEW b, IsBalls(b, m), NEW c, IsBalls(c, n)
  PROVE  \A k \in 0..m : b[k] = c[k]
<1> DEFINE S == {k \in Nat : k \in 0..m => b[k] = c[k]}
<1>1. 0 \in S
  BY DEF IsBalls
<1>2. ASSUME NEW k \in Nat, k \in S PROVE k + 1 \in S
  <2> SUFFICES ASSUME k + 1 \in 0..m PROVE b[k + 1] = c[k + 1]
    OBVIOUS
  <2>1. k \in 0..m /\ k + 1 # 0 /\ (k + 1) - 1 = k /\ k + 1 \in 0..n
    OBVIOUS
  <2>2. b[k] = c[k]
    BY <1>2, <2>1
  <2> QED BY <2>1, <2>2 DEF IsBalls
<1>3. Nat \subseteq S
  BY <1>1, <1>2, AllNaturals
<1> QED BY <1>3

LEMMA BallIs ==
  ASSUME NEW n \in Nat, NEW b, IsBalls(b, n)
  PROVE  Ball(n) = b[n]
<1> DEFINE c == CHOOSE f : IsBalls(f, n)
<1>1. IsBalls(c, n)
  BY BallsExist
<1>2. Ball(n) = c[n]
  BY DEF Ball, IsBalls
<1> HIDE DEF c
<1>3. c[n] = b[n]
  BY <1>1, BallsAgree
<1> QED BY <1>2, <1>3

LEMMA BallZero == Ball(0) = Selected
<1>1. PICK b : IsBalls(b, 0)
  BY BallsExist
<1> QED BY <1>1, BallIs DEF IsBalls

LEMMA BallNext ==
  ASSUME NEW n \in Nat
  PROVE  Ball(n + 1) = OneFurther(Ball(n))
<1>1. PICK b : IsBalls(b, n)
  BY BallsExist
<1>2. PICK c : IsBalls(c, n + 1)
  BY BallsExist
<1>3. Ball(n) = b[n] /\ Ball(n + 1) = c[n + 1]
  BY <1>1, <1>2, BallIs
<1>4. b[n] = c[n]
  BY <1>1, <1>2, BallsAgree
<1>5. c[n + 1] = OneFurther(c[n])
  BY <1>2 DEF IsBalls
<1> QED BY <1>3, <1>4, <1>5

\* What a target that can be visited depends on.
LEMMA FollowType ==
  ASSUME world \in World, NEW t \in Target, Resolvable(t)
  PROVE  FollowOf(t) \in Seq(Target)
<1>. DEFINE rules == world.ast[PackageOf[t]]
            named == {i \in DOMAIN rules : rules[i].target = t}
<1>1. rules \in Seq(Rule)
  BY NamesAssumption DEF World
<1>2. named \subseteq Nat /\ named # {}
  BY <1>1 DEF Resolvable, Declared, Elements
<1>3. PICK i \in named : \A j \in named : i <= j
  BY <1>2, LeastNatural
<1>4. \A j \in 1..(i - 1) : rules[j].target # t
  BY <1>1, <1>3
<1>. DEFINE IsFirst(k) == rules[k].target = t /\ \A j \in 1..(k - 1) : rules[j].target # t
            first == CHOOSE k \in DOMAIN rules : IsFirst(k)
<1>5. \E k \in DOMAIN rules : IsFirst(k)
  BY <1>3, <1>4
<1>6. first \in DOMAIN rules
  <2>. HIDE DEF IsFirst, rules
  <2>. QED  BY <1>5
<1>7. FollowOf(t) = rules[first].follow
  BY DEF FollowOf
<1>. HIDE DEF first, rules
<1>8. rules[first] \in Rule
  BY <1>1, <1>6
<1>. QED  BY <1>7, <1>8 DEF Rule

LEMMA FurtherInTarget ==
  ASSUME world \in World, NEW near \in SUBSET Target, \A t \in near : Resolvable(t)
  PROVE  /\ OneFurther(near) \in SUBSET Target
         /\ near \subseteq OneFurther(near)
         /\ \A t \in OneFurther(near) : Resolvable(t)
<1>1. ASSUME NEW t \in near PROVE Elements(FollowOf(t)) \subseteq Target
  BY FollowType, ElementsInRange
<1>. QED  BY <1>1 DEF OneFurther

LEMMA BallInTarget ==
  ASSUME world \in World
  PROVE  \A n \in Nat : Ball(n) \in SUBSET Target /\ \A t \in Ball(n) : Resolvable(t)
<1>. DEFINE S == {n \in Nat : Ball(n) \in SUBSET Target /\ \A t \in Ball(n) : Resolvable(t)}
<1>1. 0 \in S
  BY BallZero DEF Selected, World
<1>2. ASSUME NEW n \in Nat, n \in S PROVE n + 1 \in S
  BY <1>2, BallNext, FurtherInTarget
<1>3. Nat \subseteq S
  <2>. HIDE DEF S
  <2>. QED  BY <1>1, <1>2, AllNaturals
<1>. QED  BY <1>3

LEMMA BallGrows ==
  ASSUME world \in World, NEW n \in Nat
  PROVE  Ball(n) \subseteq Ball(n + 1)
BY BallInTarget, BallNext, FurtherInTarget

\* Where one more edge leads to nothing new no further edge does.
LEMMA BallStays ==
  ASSUME NEW m \in Nat, Ball(m + 1) = Ball(m), NEW n \in Nat, m <= n
  PROVE  Ball(n) = Ball(m)
<1>. DEFINE S == {k \in Nat : Ball(m + k) = Ball(m)}
<1>1. 0 \in S
  <2>1. m + 0 = m
    OBVIOUS
  <2>. QED  BY <2>1
<1>2. ASSUME NEW k \in Nat, k \in S PROVE k + 1 \in S
  <2>1. m + (k + 1) = (m + k) + 1 /\ m + k \in Nat
    OBVIOUS
  <2>2. Ball((m + k) + 1) = OneFurther(Ball(m + k))
    BY <2>1, BallNext
  <2>3. Ball(m + 1) = OneFurther(Ball(m))
    BY BallNext
  <2>. QED  BY <1>2, <2>1, <2>2, <2>3
<1>3. Nat \subseteq S
  <2>. HIDE DEF S
  <2>. QED  BY <1>1, <1>2, AllNaturals
<1>4. n - m \in Nat /\ m + (n - m) = n
  OBVIOUS
<1>. QED  BY <1>3, <1>4

\* Each edge leads to a target more, or there are no more.
LEMMA BallCounts ==
  ASSUME IsFiniteSet(Target), world \in World, NEW n \in Nat
  PROVE  (\E m \in 0..(n - 1) : Ball(m + 1) = Ball(m)) \/ Cardinality(Ball(n)) >= n
<1>. DEFINE Stops(k) == \E m \in 0..(k - 1) : Ball(m + 1) = Ball(m)
            S == {k \in Nat : Stops(k) \/ Cardinality(Ball(k)) >= k}
<1>0. \A k \in Nat : IsFiniteSet(Ball(k)) /\ Cardinality(Ball(k)) \in Nat
  BY BallInTarget, FS_Subset, FS_CardinalityType
<1>1. 0 \in S
  BY <1>0
<1>2. ASSUME NEW k \in Nat, k \in S PROVE k + 1 \in S
  <2>1. CASE Stops(k)
    BY <2>1
  <2>2. CASE Ball(k + 1) = Ball(k)
    BY <2>2
  <2>3. CASE Ball(k + 1) # Ball(k) /\ Cardinality(Ball(k)) >= k
    <3>1. IsFiniteSet(Ball(k + 1)) /\ Ball(k) \subseteq Ball(k + 1)
      BY <1>0, BallGrows
    <3>2. Cardinality(Ball(k)) <= Cardinality(Ball(k + 1)) /\ Cardinality(Ball(k)) # Cardinality(Ball(k + 1))
      BY <3>1, <2>3, FS_Subset
    <3>3. Cardinality(Ball(k + 1)) \in Nat /\ Cardinality(Ball(k)) \in Nat
      BY <1>0
    <3>4. Cardinality(Ball(k + 1)) >= k + 1
      BY <2>3, <3>2, <3>3
    <3>. QED  BY <3>4
  <2>. QED  BY <1>2, <2>1, <2>2, <2>3
<1>3. Nat \subseteq S
  <2>. HIDE DEF S
  <2>. QED  BY <1>1, <1>2, AllNaturals
<1>. QED  BY <1>3

\* As many edges as there are targets lead to all that any number leads to.
LEMMA BallIsFull ==
  ASSUME IsFiniteSet(Target), world \in World, NEW n \in Nat, Cardinality(Target) <= n
  PROVE  Ball(n) = Ball(Cardinality(Target))
<1>. DEFINE N == Cardinality(Target)
<1>0. N \in Nat
  BY FS_CardinalityType
<1>1. CASE \E m \in 0..(N - 1) : Ball(m + 1) = Ball(m)
  <2>1. PICK m \in 0..(N - 1) : Ball(m + 1) = Ball(m)
    BY <1>1
  <2>2. m \in Nat /\ m <= N /\ m <= n
    BY <1>0, <2>1
  <2>3. Ball(n) = Ball(m) /\ Ball(N) = Ball(m)
    BY <1>0, <2>1, <2>2, BallStays
  <2>. QED  BY <2>3
<1>2. CASE Cardinality(Ball(N)) >= N
  <2>1. Ball(N) \subseteq Target /\ Ball(N + 1) \subseteq Target
    BY <1>0, BallInTarget
  <2>2. Cardinality(Ball(N)) <= N /\ Cardinality(Ball(N)) \in Nat
    BY <2>1, FS_Subset, FS_CardinalityType
  <2>3. Ball(N) = Target
    BY <2>1, <2>2, <1>0, <1>2, FS_Subset
  <2>4. Ball(N + 1) = Ball(N)
    BY <2>1, <2>3, <1>0, BallGrows
  <2>. QED  BY <2>4, <1>0, BallStays
<1>. QED  BY <1>0, <1>1, <1>2, BallCounts

LEMMA BallConstant ==
  ASSUME [Next]_vars
  PROVE  \A n \in Nat : Ball(n)' = Ball(n)
<1>1. Selected' = Selected
  BY WorldConstant DEF Selected
<1>2. \A near : OneFurther(near)' = OneFurther(near)
  BY WorldConstant DEF OneFurther
<1>. QED  BY <1>1, <1>2 DEF Ball

\* i rounds on: the layer of this round completes what i edges lead to, nothing
\* less than i edges away leads any further, and what is left of the depth is left.
Growing(i) ==
  /\ round_start.visited \cup {t \in round_start.todo : Resolvable(t)} = Ball(i)
  /\ \A t \in round_start.visited : \A d \in Elements(FollowOf(t)) : Resolvable(d) => d \in Ball(i)
  /\ \/ nesting_depth = Unlimited /\ world.depth = Unlimited
     \/ nesting_depth \in Nat /\ world.depth \in Nat /\ i + nesting_depth = world.depth

\* The graph is all that i edges lead to, and more edges lead to nothing or are
\* not asked for.
Grown(i) ==
  /\ round_start.visited = Ball(i)
  /\ Ball(i + 1) = Ball(i) \/ i = world.depth
  /\ world.depth = Unlimited \/ i <= world.depth

ReachInv ==
  /\ RoundInv
  /\ IF pc = "done" THEN \E i \in Nat : Grown(i) ELSE \E i \in Nat : Growing(i)

LEMMA InitReachInv == Init => ReachInv
<1>. SUFFICES ASSUME Init PROVE ReachInv
  OBVIOUS
<1>1. RoundInv
  BY InitRoundInv
<1>2. /\ round_start.todo = {t \in world.wanted : \E p \in world.files : t \in Declared(world, p)}
      /\ round_start.visited = {} /\ nesting_depth = world.depth /\ pc = "round"
  BY DEF Init
<1>3. world \in World /\ world \in Worlds
  BY WorldsAssumption DEF Init
<1>4. ASSUME NEW t \in world.wanted, NEW p \in world.files, t \in Declared(world, p)
      PROVE  PackageOf[t] = p
  <2>1. p \in Package /\ world.ast[p] \in Seq(Rule)
    BY <1>3 DEF World
  <2>2. PICK i \in 1..Len(world.ast[p]) : world.ast[p][i].target = t
    BY <1>4, <2>1 DEF Declared, Elements
  <2>. QED  BY <1>3, <2>1, <2>2, WorldsAssumption
<1>5. {t \in round_start.todo : Resolvable(t)} = Selected
  BY <1>2, <1>4 DEF Selected, Resolvable
<1>6. Growing(0)
  <2>1. world.depth \in Nat \cup {Unlimited}
    BY <1>3 DEF World
  <2>. QED  BY <1>2, <1>5, <2>1, BallZero DEF Growing
<1>. QED  BY <1>1, <1>2, <1>6 DEF ReachInv

LEMMA EndRoundReachInv == ReachInv /\ EndRound => ReachInv'
<1>. SUFFICES ASSUME ReachInv, EndRound PROVE ReachInv'
  OBVIOUS
<1>0. [Next]_vars /\ RoundInv /\ RoundInv'
  BY EndRoundRoundInv DEF ReachInv, Next, Step
<1>1. PICK i \in Nat : Growing(i)
  BY DEF ReachInv, EndRound
<1>2. /\ round_start'.todo = next_round /\ round_start'.visited = DOMAIN depends_on
      /\ pc' = IF next_round # {} /\ MayDescend THEN "round" ELSE "done"
      /\ nesting_depth' = IF next_round = {} \/ nesting_depth = Unlimited
                          THEN nesting_depth ELSE nesting_depth - 1
      /\ world' = world
  BY DEF EndRound, NextTodo
<1>3. DOMAIN depends_on = Ball(i)
  BY <1>0, <1>1, RoundComplete DEF RoundInv, GraphGrows, Growing
<1>4. Ball(i + 1) = Ball(i) \cup {d \in next_round : Resolvable(d)}
  <2>1. Ball(i + 1) = OneFurther(Ball(i))
    BY BallNext
  <2>2. next_round \subseteq Target
    BY <1>0 DEF RoundInv, VisitInv, TypeInv, TypeOK
  <2>3. ASSUME NEW t \in Ball(i), NEW d \in Elements(FollowOf(t)), Resolvable(d)
        PROVE  d \in Ball(i) \/ d \in next_round
    <3>1. CASE t \in round_start.visited
      BY <3>1, <1>1, <2>3 DEF Growing
    <3>2. CASE t \in Done
      <4>1. d \in round_start.visited \cup round_start.todo => d \in Ball(i)
        BY <1>1, <2>3 DEF Growing
      <4>2. d \in Target
        <5>1. FollowOf(t) \in Seq(Target)
          BY <1>0, <1>3 DEF RoundInv, EdgesOfFirstRule, VisitInv, TypeInv, TypeOK
        <5>. QED  BY <5>1, ElementsInRange
      <4>. QED  BY <3>2, <4>1, <4>2, <1>0 DEF RoundInv, NextLayer
    <3>. QED  BY <3>1, <3>2, <1>0, <1>3 DEF RoundInv, GraphGrows
  <2>4. ASSUME NEW d \in next_round, Resolvable(d) PROVE d \in OneFurther(Ball(i))
    <3>1. PICK t \in Done : d \in Elements(FollowOf(t))
      BY <1>0, <2>2 DEF RoundInv, NextLayer
    <3>2. t \in Ball(i)
      BY <1>0, <1>3 DEF RoundInv, GraphGrows
    <3>. QED  BY <2>4, <3>1, <3>2 DEF OneFurther
  <2>. QED  BY <2>1, <2>3, <2>4 DEF OneFurther
<1>5. Ball(i)' = Ball(i) /\ Ball(i + 1)' = Ball(i + 1)
  BY <1>0, BallConstant
<1>6. CASE next_round # {} /\ MayDescend
  <2>1. round_start'.visited \cup {t \in round_start'.todo : Resolvable(t)'} = Ball(i + 1)
    BY <1>0, <1>2, <1>3, <1>4, WorldConstant
  <2>2. ASSUME NEW t \in Ball(i), NEW d \in Elements(FollowOf(t)), Resolvable(d)
        PROVE  d \in Ball(i + 1)
    BY <2>2, BallNext DEF OneFurther
  <2>3. \/ nesting_depth' = Unlimited /\ world'.depth = Unlimited
        \/ /\ nesting_depth' \in Nat /\ world'.depth \in Nat
           /\ (i + 1) + nesting_depth' = world'.depth
    BY <1>1, <1>2, <1>6, NamesAssumption DEF Growing, MayDescend
  <2>4. \A t : Elements(FollowOf(t))' = Elements(FollowOf(t)) /\ (Resolvable(t)' <=> Resolvable(t))
    BY <1>0, WorldConstant DEF Elements
  <2>5. Growing(i + 1)'
    BY <1>2, <1>3, <1>5, <2>1, <2>2, <2>3, <2>4 DEF Growing
  <2>. QED  BY <1>0, <1>2, <1>6, <2>5 DEF ReachInv
<1>7. CASE ~(next_round # {} /\ MayDescend)
  <2>1. Ball(i + 1) = Ball(i) \/ i = world.depth
    <3>1. CASE next_round = {}
      BY <3>1, <1>4
    <3>2. CASE ~MayDescend
      BY <3>2, <1>1 DEF Growing, MayDescend
    <3>. QED  BY <1>7, <3>1, <3>2
  <2>2. world.depth = Unlimited \/ i <= world.depth
    BY <1>1 DEF Growing
  <2>3. Grown(i)'
    BY <1>2, <1>3, <1>5, <2>1, <2>2 DEF Grown
  <2>. QED  BY <1>0, <1>2, <1>7, <2>3 DEF ReachInv
<1>. QED  BY <1>6, <1>7

LEMMA NextReachInv == ReachInv /\ [Next]_vars => ReachInv'
<1>. SUFFICES ASSUME ReachInv, [Next]_vars PROVE ReachInv'
  OBVIOUS
<1>1. RoundInv'
  BY NextRoundInv DEF ReachInv
<1>2. CASE EndRound
  BY <1>2, EndRoundReachInv
<1>3. CASE UNCHANGED <<round_start, nesting_depth>> /\ (pc = "done" <=> pc' = "done")
  <2>1. /\ \A t : Elements(FollowOf(t))' = Elements(FollowOf(t)) /\ (Resolvable(t)' <=> Resolvable(t))
        /\ world' = world
    BY WorldConstant DEF Elements
  <2>2. \A i \in Nat : i + 1 \in Nat /\ Ball(i)' = Ball(i) /\ Ball(i + 1)' = Ball(i + 1)
    BY BallConstant
  <2>3. \A i \in Nat : Growing(i) => Growing(i)'
    BY <1>3, <2>1, <2>2 DEF Growing
  <2>4. \A i \in Nat : Grown(i) => Grown(i)'
    BY <1>3, <2>1, <2>2 DEF Grown
  <2>. QED  BY <1>1, <1>3, <2>3, <2>4 DEF ReachInv
<1>. QED
  BY <1>2, <1>3 DEF Next, Step, Finished, vars, BeginRound, ReadFails, OpenPackage,
     IgnoreRule, VisitRule, ClosePackage, InPackage

LEMMA GrownIsBall ==
  ASSUME IsFiniteSet(Target), ReachInv
  PROVE  VisitedIsBall
<1>. SUFFICES ASSUME pc = "done"
              PROVE  DOMAIN depends_on =
                       Ball(IF world.depth \in 0..Cardinality(Target) THEN world.depth ELSE Cardinality(Target))
  BY DEF VisitedIsBall
<1>. DEFINE N == Cardinality(Target)
<1>1. PICK i \in Nat : Grown(i)
  BY DEF ReachInv
<1>2. DOMAIN depends_on = Ball(i)
  BY <1>1 DEF ReachInv, RoundInv, BetweenRounds, GraphGrows, Done, Grown
<1>3. N \in Nat /\ world \in World /\ world.depth \in Nat \cup {Unlimited} /\ Unlimited \notin Int
  BY FS_CardinalityType, WorldsAssumption, NamesAssumption
  DEF ReachInv, RoundInv, VisitInv, TypeInv, TypeOK, World
<1>4. CASE i = world.depth
  <2>1. i <= N \/ (N <= i /\ Ball(i) = Ball(N))
    BY <1>3, BallIsFull
  <2>2. i \in 0..N \/ Ball(i) = Ball(N)
    BY <1>3, <2>1
  <2>. QED  BY <1>2, <1>4, <2>2
<1>5. CASE Ball(i + 1) = Ball(i) /\ world.depth \in 0..N
  <2>1. i <= world.depth /\ world.depth \in Nat
    BY <1>1, <1>3, <1>5 DEF Grown
  <2>2. Ball(world.depth) = Ball(i)
    BY <1>5, <2>1, BallStays
  <2>. QED  BY <1>2, <1>5, <2>2
<1>6. CASE Ball(i + 1) = Ball(i) /\ world.depth \notin 0..N
  <2>1. Ball(i) = Ball(N)
    <3>1. CASE i <= N
      BY <1>3, <1>6, <3>1, BallStays
    <3>2. CASE N <= i
      BY <1>3, <3>2, BallIsFull
    <3>. QED  BY <1>3, <3>1, <3>2
  <2>. QED  BY <1>2, <1>6, <2>1
<1>. QED  BY <1>1, <1>4, <1>5, <1>6 DEF Grown

\* The graph a caller gets has the same edges both ways, those of the first rule of
\* a name, and a vertex for each target in reach of the depth, and no other.
THEOREM GraphIsTrue ==
  ASSUME IsFiniteSet(Target)
  PROVE  Spec => []TheGraphIsTrue
<1>1. ReachInv => EdgesOfFirstRule
  BY DEF ReachInv, RoundInv
<1>. QED
  BY <1>1, InitReachInv, NextReachInv, GrownIsBall, MirroredAlways, PTL DEF Spec, TheGraphIsTrue

-----------------------------------------------------------------------------
(* Sequences that are put together or added one after the other.           *)

IsFlattening(f, seqs, n) ==
  f = [i \in 1..n |-> IF i = 1 THEN seqs[i] ELSE f[i - 1] \o seqs[i]]

LEMMA FlatteningsExist ==
  ASSUME NEW seqs
  PROVE  \A n \in Nat : \E f : IsFlattening(f, seqs, n + 1)
<1> DEFINE S == {n \in Nat : \E f : IsFlattening(f, seqs, n + 1)}
<1>1. 0 \in S
  <2> DEFINE f == [i \in 1..1 |-> seqs[i]]
  <2>1. IsFlattening(f, seqs, 0 + 1)
    BY DEF IsFlattening
  <2> QED BY <2>1
<1>2. ASSUME NEW n \in Nat, n \in S PROVE n + 1 \in S
  <2>1. PICK f : IsFlattening(f, seqs, n + 1)
    BY <1>2
  <2> DEFINE g == [i \in 1..((n + 1) + 1) |-> IF i = (n + 1) + 1 THEN f[n + 1] \o seqs[i] ELSE f[i]]
  <2>2. ASSUME NEW i \in 1..((n + 1) + 1)
        PROVE  g[i] = IF i = 1 THEN seqs[i] ELSE g[i - 1] \o seqs[i]
    <3>1. CASE i = (n + 1) + 1
      <4>1. i # 1 /\ i - 1 = n + 1 /\ n + 1 \in 1..((n + 1) + 1) /\ n + 1 # (n + 1) + 1
        BY <3>1
      <4>2. g[n + 1] = f[n + 1]
        BY <4>1
      <4> QED BY <3>1, <4>1, <4>2
    <3>2. CASE i = 1
      <4>1. i # (n + 1) + 1 /\ i \in 1..(n + 1)
        BY <3>2
      <4>2. f[i] = seqs[i]
        BY <4>1, <3>2, <2>1 DEF IsFlattening
      <4> QED BY <3>2, <4>1, <4>2
    <3>3. CASE i \in 2..(n + 1)
      <4>1. i - 1 \in 1..((n + 1) + 1) /\ i - 1 # (n + 1) + 1 /\ i \in 1..(n + 1) /\ i # (n + 1) + 1 /\ i # 1
        BY <3>3
      <4>2. g[i - 1] = f[i - 1] /\ g[i] = f[i]
        BY <4>1
      <4>3. f[i] = f[i - 1] \o seqs[i]
        BY <4>1, <2>1 DEF IsFlattening
      <4> QED BY <4>1, <4>2, <4>3
    <3> QED BY <3>1, <3>2, <3>3
  <2> HIDE DEF g
  <2>3. g = [i \in 1..((n + 1) + 1) |-> g[i]]
    BY DEF g
  <2>4. IsFlattening(g, seqs, (n + 1) + 1)
    BY <2>2, <2>3 DEF IsFlattening
  <2> QED BY <2>4
<1>3. Nat \subseteq S
  BY <1>1, <1>2, AllNaturals
<1> QED BY <1>3

LEMMA FlattenedBySteps ==
  ASSUME NEW S, NEW seqs \in Seq(Seq(S)), Len(seqs) # 0
  PROVE  \E f : /\ Sequence!FlattenSeq(seqs) = f[Len(seqs)]
                /\ f[1] = seqs[1]
                /\ \A i \in 2..Len(seqs) : f[i] = f[i - 1] \o seqs[i]
<1> DEFINE f == CHOOSE g : IsFlattening(g, seqs, Len(seqs))
<1>1. Len(seqs) \in Nat /\ Len(seqs) - 1 \in Nat /\ Len(seqs) = (Len(seqs) - 1) + 1
  OBVIOUS
<1>2. IsFlattening(f, seqs, Len(seqs))
  BY <1>1, FlatteningsExist
<1>3. Sequence!FlattenSeq(seqs) = f[Len(seqs)]
  BY DEF Sequence!FlattenSeq, IsFlattening
<1> HIDE DEF f
<1>4. 1 \in 1..Len(seqs) /\ \A i \in 2..Len(seqs) : i \in 1..Len(seqs) /\ i # 1
  BY <1>1
<1>5. \A i \in 1..Len(seqs) : f[i] = IF i = 1 THEN seqs[i] ELSE f[i - 1] \o seqs[i]
  BY <1>2 DEF IsFlattening
<1>6. f[1] = seqs[1] /\ \A i \in 2..Len(seqs) : f[i] = f[i - 1] \o seqs[i]
  BY <1>4, <1>5
<1> QED BY <1>3, <1>6

LEMMA Flattened ==
  ASSUME NEW S, NEW seqs \in Seq(Seq(S))
  PROVE  /\ Sequence!FlattenSeq(seqs) \in Seq(S)
         /\ Elements(Sequence!FlattenSeq(seqs)) = UNION {Elements(seqs[i]) : i \in DOMAIN seqs}
<1>1. CASE Len(seqs) = 0
  <2>1. Sequence!FlattenSeq(seqs) = <<>> /\ DOMAIN seqs = {}
    BY <1>1, EmptySeq DEF Sequence!FlattenSeq
  <2> QED BY <2>1 DEF Elements
<1>2. CASE Len(seqs) # 0
  <2>1. PICK f : /\ Sequence!FlattenSeq(seqs) = f[Len(seqs)]
                 /\ f[1] = seqs[1]
                 /\ \A i \in 2..Len(seqs) : f[i] = f[i - 1] \o seqs[i]
    BY <1>2, FlattenedBySteps
  <2> DEFINE T == {n \in Nat : n + 1 \in 1..Len(seqs) =>
                     /\ f[n + 1] \in Seq(S)
                     /\ Elements(f[n + 1]) = UNION {Elements(seqs[i]) : i \in 1..(n + 1)}}
  <2>2. 0 \in T
    <3>1. 1..(0 + 1) = {1} /\ 0 + 1 = 1
      OBVIOUS
    <3>2. UNION {Elements(seqs[i]) : i \in 1..(0 + 1)} = Elements(seqs[1])
      BY <3>1
    <3>3. seqs[1] \in Seq(S)
      BY <1>2
    <3> QED BY <3>1, <3>2, <3>3, <2>1
  <2>3. ASSUME NEW n \in Nat, n \in T PROVE n + 1 \in T
    <3> SUFFICES ASSUME (n + 1) + 1 \in 1..Len(seqs)
                 PROVE  /\ f[(n + 1) + 1] \in Seq(S)
                        /\ Elements(f[(n + 1) + 1]) = UNION {Elements(seqs[i]) : i \in 1..((n + 1) + 1)}
      OBVIOUS
    <3>1. n + 1 \in 1..Len(seqs) /\ (n + 1) + 1 \in 2..Len(seqs) /\ ((n + 1) + 1) - 1 = n + 1
      OBVIOUS
    <3>2. f[n + 1] \in Seq(S) /\ Elements(f[n + 1]) = UNION {Elements(seqs[i]) : i \in 1..(n + 1)}
      BY <2>3, <3>1
    <3>3. f[(n + 1) + 1] = f[n + 1] \o seqs[(n + 1) + 1]
      BY <2>1, <3>1
    <3>4. seqs[(n + 1) + 1] \in Seq(S)
      BY <3>1
    <3>5. Elements(f[(n + 1) + 1]) = Elements(f[n + 1]) \cup Elements(seqs[(n + 1) + 1])
      BY <3>2, <3>3, <3>4, ElementsOfConcat
    <3>6. f[(n + 1) + 1] \in Seq(S)
      BY <3>2, <3>3, <3>4
    <3>7. 1..((n + 1) + 1) = (1..(n + 1)) \cup {(n + 1) + 1}
      OBVIOUS
    <3> QED BY <3>2, <3>5, <3>6, <3>7
  <2>4. Nat \subseteq T
    BY <2>2, <2>3, AllNaturals
  <2>5. Len(seqs) - 1 \in Nat /\ (Len(seqs) - 1) + 1 = Len(seqs) /\ Len(seqs) \in 1..Len(seqs)
        /\ DOMAIN seqs = 1..Len(seqs)
    BY <1>2
  <2> QED BY <2>1, <2>4, <2>5
<1> QED BY <1>1, <1>2

\* The states the additions go through.
IsAdding(a, st, pairs, n) ==
  a = [i \in 0..n |-> IF i = 0 THEN st ELSE Add(a[i - 1], pairs[i])]

LEMMA AddingsExist ==
  ASSUME NEW st, NEW pairs
  PROVE  \A n \in Nat : \E a : IsAdding(a, st, pairs, n)
<1> DEFINE S == {n \in Nat : \E a : IsAdding(a, st, pairs, n)}
<1>1. 0 \in S
  <2> DEFINE a == [i \in 0..0 |-> st]
  <2>1. IsAdding(a, st, pairs, 0)
    BY DEF IsAdding
  <2> QED BY <2>1
<1>2. ASSUME NEW n \in Nat, n \in S PROVE n + 1 \in S
  <2>1. PICK a : IsAdding(a, st, pairs, n)
    BY <1>2
  <2> DEFINE c == [i \in 0..(n + 1) |-> IF i = n + 1 THEN Add(a[n], pairs[i]) ELSE a[i]]
  <2>2. ASSUME NEW i \in 0..(n + 1)
        PROVE  c[i] = IF i = 0 THEN st ELSE Add(c[i - 1], pairs[i])
    <3>1. CASE i = n + 1
      <4>1. i # 0 /\ i - 1 = n /\ n \in 0..(n + 1) /\ n # n + 1
        BY <3>1
      <4>2. c[n] = a[n]
        BY <4>1
      <4>3. c[i] = Add(a[n], pairs[i])
        BY <3>1
      <4> HIDE DEF c
      <4> QED BY <4>1, <4>2, <4>3
    <3>2. CASE i = 0
      <4>1. i \in 0..n /\ i # n + 1
        BY <3>2
      <4>2. a[i] = st
        BY <3>2, <4>1, <2>1 DEF IsAdding
      <4> QED BY <3>2, <4>1, <4>2
    <3>3. CASE i \in 1..n
      <4>1. i - 1 \in 0..(n + 1) /\ i - 1 # n + 1 /\ i \in 0..n /\ i # n + 1 /\ i # 0
        BY <3>3
      <4>2. c[i - 1] = a[i - 1] /\ c[i] = a[i]
        BY <4>1
      <4>3. a[i] = Add(a[i - 1], pairs[i])
        BY <4>1, <2>1 DEF IsAdding
      <4> HIDE DEF c
      <4> QED BY <4>1, <4>2, <4>3
    <3> QED BY <3>1, <3>2, <3>3
  <2> HIDE DEF c
  <2>3. c = [i \in 0..(n + 1) |-> c[i]]
    BY DEF c
  <2>4. IsAdding(c, st, pairs, n + 1)
    BY <2>2, <2>3 DEF IsAdding
  <2> QED BY <2>4
<1>3. Nat \subseteq S
  BY <1>1, <1>2, AllNaturals
<1> QED BY <1>3

LEMMA AddedBySteps ==
  ASSUME NEW st, NEW S, NEW pairs \in Seq(S)
  PROVE  \E a : /\ AddAll(st, pairs) = a[Len(pairs)]
                /\ a[0] = st
                /\ \A i \in 1..Len(pairs) : a[i] = Add(a[i - 1], pairs[i])
<1> DEFINE a == CHOOSE c : IsAdding(c, st, pairs, Len(pairs))
<1>1. Len(pairs) \in Nat
  OBVIOUS
<1>2. IsAdding(a, st, pairs, Len(pairs))
  BY <1>1, AddingsExist
<1>3. AddAll(st, pairs) = a[Len(pairs)]
  BY DEF AddAll, IsAdding
<1> HIDE DEF a
<1>4. 0 \in 0..Len(pairs) /\ \A i \in 1..Len(pairs) : i \in 0..Len(pairs) /\ i # 0
  BY <1>1
<1>5. \A i \in 0..Len(pairs) : a[i] = IF i = 0 THEN st ELSE Add(a[i - 1], pairs[i])
  BY <1>2 DEF IsAdding
<1>6. a[0] = st /\ \A i \in 1..Len(pairs) : a[i] = Add(a[i - 1], pairs[i])
  BY <1>4, <1>5
<1> QED BY <1>3, <1>6

-----------------------------------------------------------------------------
(* What a key stands for is added once, with the key.                      *)

Pair == Path \X Seq(Path)
Found == [seen : SUBSET Path, out : Seq(Path)]

\* With a key, all its directories are there.
Complete(pairs, st) == \A x \in pairs : x[1] \in st.seen => Elements(x[2]) \subseteq Elements(st.out)

\* Nothing is there twice, or without its key.
Sparse(pairs, st) ==
  /\ NoRepetition(st.out)
  /\ \A x \in pairs : x[1] \notin st.seen => Elements(x[2]) \cap Elements(st.out) = {}

\* What two keys stand for has nothing in common.
Apart(pairs) ==
  \A x \in pairs :
    /\ NoRepetition(x[2])
    /\ \A y \in pairs : x[1] # y[1] => Elements(x[2]) \cap Elements(y[2]) = {}

\* All that is to be known of an addition of the pairs "these" to st.
Added(all, st, these, after) ==
  /\ after \in Found
  /\ after.seen = st.seen \cup {x[1] : x \in these}
  /\ Elements(st.out) \subseteq Elements(after.out)
  /\ Elements(after.out) \subseteq Elements(st.out) \cup UNION {Elements(x[2]) : x \in these}
  /\ SameDirectories(all) /\ Complete(all, st) => Complete(all, after)
  /\ Apart(all) /\ Sparse(all, st) => Sparse(all, after)

LEMMA NothingRepeats ==
  ASSUME NEW S, NEW s \in Seq(S), NEW t \in Seq(S), NoRepetition(s), NoRepetition(t),
         Elements(s) \cap Elements(t) = {}
  PROVE  NoRepetition(s \o t)
<1> SUFFICES ASSUME NEW i \in DOMAIN (s \o t), NEW j \in DOMAIN (s \o t), (s \o t)[i] = (s \o t)[j]
             PROVE  i = j
  BY DEF NoRepetition
<1>1. \A k \in DOMAIN (s \o t) :
        \/ k \in DOMAIN s /\ (s \o t)[k] = s[k]
        \/ k - Len(s) \in DOMAIN t /\ (s \o t)[k] = t[k - Len(s)]
  BY ConcatProperties
<1>2. \A k \in DOMAIN s, l \in DOMAIN t : s[k] # t[l]
  BY DEF Elements
<1>3. i \in Int /\ j \in Int
  BY ConcatProperties
<1>4. CASE i \in DOMAIN s /\ j \in DOMAIN s /\ (s \o t)[i] = s[i] /\ (s \o t)[j] = s[j]
  BY <1>4 DEF NoRepetition
<1>5. CASE /\ i - Len(s) \in DOMAIN t /\ (s \o t)[i] = t[i - Len(s)]
           /\ j - Len(s) \in DOMAIN t /\ (s \o t)[j] = t[j - Len(s)]
  <2>1. i - Len(s) = j - Len(s)
    BY <1>5 DEF NoRepetition
  <2> QED BY <2>1, <1>3
<1> QED BY <1>1, <1>2, <1>4, <1>5

LEMMA OneIsAdded ==
  ASSUME NEW all, all \subseteq Pair, NEW st \in Found, NEW x \in all
  PROVE  Added(all, st, {x}, Add(st, x))
<1>0. x[1] \in Path /\ x[2] \in Seq(Path) /\ st.seen \subseteq Path /\ st.out \in Seq(Path)
  BY DEF Pair, Found
<1>1. CASE x[1] \in st.seen
  <2>1. Add(st, x) = st
    BY <1>1 DEF Add
  <2>3. {y[1] : y \in {x}} = {x[1]}
    OBVIOUS
  <2>4. st.seen = st.seen \cup {y[1] : y \in {x}}
    BY <1>1, <2>3
  <2>5. Added(all, st, {x}, st)
    BY <2>4 DEF Added
  <2> QED BY <2>1, <2>5
<1>2. CASE x[1] \notin st.seen
  <2> DEFINE new == Add(st, x)
  <2>1. new = [seen |-> st.seen \cup {x[1]}, out |-> st.out \o x[2]]
    BY <1>2 DEF Add
  <2>2. new \in Found /\ new.seen = st.seen \cup {x[1]} /\ new.out = st.out \o x[2]
    BY <1>0, <2>1 DEF Found
  <2> HIDE DEF new
  <2>3. Elements(new.out) = Elements(st.out) \cup Elements(x[2])
    BY <1>0, <2>2, ElementsOfConcat
  <2>5. ASSUME SameDirectories(all), Complete(all, st) PROVE Complete(all, new)
    <3> SUFFICES ASSUME NEW y \in all, y[1] \in new.seen PROVE Elements(y[2]) \subseteq Elements(new.out)
      BY DEF Complete
    <3>1. CASE y[1] \in st.seen
      BY <3>1, <2>3, <2>5 DEF Complete
    <3>2. CASE y[1] = x[1]
      <4>1. y[2] = x[2]
        BY <3>2, <2>5 DEF SameDirectories
      <4> QED BY <4>1, <2>3
    <3> QED BY <2>2, <3>1, <3>2
  <2>6. ASSUME Apart(all), Sparse(all, st) PROVE Sparse(all, new)
    <3>1. NoRepetition(new.out)
      <4>1. Elements(st.out) \cap Elements(x[2]) = {}
        BY <1>2, <2>6 DEF Sparse
      <4>2. NoRepetition(st.out) /\ NoRepetition(x[2])
        BY <2>6 DEF Sparse, Apart
      <4> QED BY <1>0, <2>2, <4>1, <4>2, NothingRepeats
    <3>2. ASSUME NEW y \in all, y[1] \notin new.seen PROVE Elements(y[2]) \cap Elements(new.out) = {}
      <4>1. y[1] \notin st.seen /\ y[1] # x[1]
        BY <3>2, <2>2
      <4>2. Elements(y[2]) \cap Elements(st.out) = {}
        BY <4>1, <2>6 DEF Sparse
      <4>3. Elements(y[2]) \cap Elements(x[2]) = {}
        BY <4>1, <2>6 DEF Apart
      <4> QED BY <4>2, <4>3, <2>3
    <3> QED BY <3>1, <3>2 DEF Sparse
  <2>7. {y[1] : y \in {x}} = {x[1]} /\ UNION {Elements(y[2]) : y \in {x}} = Elements(x[2])
    OBVIOUS
  <2>8. Added(all, st, {x}, new)
    BY <2>2, <2>3, <2>5, <2>6, <2>7 DEF Added
  <2> QED BY <2>8 DEF new
<1> QED BY <1>1, <1>2

LEMMA MoreIsAdded ==
  ASSUME NEW all, NEW st, NEW some, NEW between, NEW more, NEW after,
         st \in Found, Added(all, st, some, between), Added(all, between, more, after)
  PROVE  Added(all, st, some \cup more, after)
<1>2. {x[1] : x \in some \cup more} = {x[1] : x \in some} \cup {x[1] : x \in more}
  OBVIOUS
<1>3. UNION {Elements(x[2]) : x \in some \cup more}
        = (UNION {Elements(x[2]) : x \in some}) \cup UNION {Elements(x[2]) : x \in more}
  OBVIOUS
<1>4. after.seen = st.seen \cup {x[1] : x \in some \cup more}
  BY <1>2 DEF Added
<1>5. /\ Elements(st.out) \subseteq Elements(after.out)
      /\ Elements(after.out) \subseteq Elements(st.out) \cup UNION {Elements(x[2]) : x \in some \cup more}
  BY <1>3 DEF Added
<1>6. after \in Found
  BY DEF Added
<1>7. /\ SameDirectories(all) /\ Complete(all, st) => Complete(all, after)
      /\ Apart(all) /\ Sparse(all, st) => Sparse(all, after)
  BY DEF Added
<1> QED BY <1>4, <1>5, <1>6, <1>7 DEF Added

LEMMA AllIsAdded ==
  ASSUME NEW all, all \subseteq Pair, NEW st \in Found, NEW pairs \in Seq(all)
  PROVE  Added(all, st, Elements(pairs), AddAll(st, pairs))
<1>1. PICK a : /\ AddAll(st, pairs) = a[Len(pairs)]
               /\ a[0] = st
               /\ \A i \in 1..Len(pairs) : a[i] = Add(a[i - 1], pairs[i])
  BY AddedBySteps
<1> DEFINE Front(n) == {pairs[i] : i \in 1..n}
           T == {n \in Nat : n <= Len(pairs) => Added(all, st, Front(n), a[n])}
<1>2. 0 \in T
  <2>1. 1..0 = {} /\ Front(0) = {}
    OBVIOUS
  <2>3. Added(all, st, {}, st)
    BY DEF Added
  <2> QED BY <1>1, <2>1, <2>3
<1>3. ASSUME NEW n \in Nat, n \in T PROVE n + 1 \in T
  <2> SUFFICES ASSUME n + 1 <= Len(pairs) PROVE Added(all, st, Front(n + 1), a[n + 1])
    OBVIOUS
  <2>1. Added(all, st, Front(n), a[n])
    BY <1>3
  <2>2. n + 1 \in 1..Len(pairs) /\ (n + 1) - 1 = n
    OBVIOUS
  <2>3. a[n + 1] = Add(a[n], pairs[n + 1]) /\ pairs[n + 1] \in all
    BY <1>1, <2>2
  <2>4. a[n] \in Found
    BY <2>1 DEF Added
  <2>5. Added(all, a[n], {pairs[n + 1]}, a[n + 1])
    BY <2>3, <2>4, OneIsAdded
  <2>6. Front(n + 1) = Front(n) \cup {pairs[n + 1]}
    <3>1. 1..(n + 1) = (1..n) \cup {n + 1}
      OBVIOUS
    <3> QED BY <3>1
  <2> HIDE DEF Front
  <2> QED BY <2>1, <2>5, <2>6, MoreIsAdded
<1>4. Nat \subseteq T
  BY <1>2, <1>3, AllNaturals
<1>5. Len(pairs) \in Nat /\ Elements(pairs) = Front(Len(pairs))
  BY DEF Elements
<1> HIDE DEF Front
<1> QED BY <1>1, <1>4, <1>5

-----------------------------------------------------------------------------
(* The pairs of a target.                                                  *)

LEMMA FewElements ==
  /\ Elements(<<>>) = {}
  /\ \A x : Elements(<<x>>) = {x}
  /\ \A x, y : Elements(<<x, y>>) = {x, y}
<1>1. Elements(<<>>) = {}
  BY DEF Elements
<1>2. ASSUME NEW x PROVE Elements(<<x>>) = {x}
  BY DEF Elements
<1>3. ASSUME NEW x, NEW y PROVE Elements(<<x, y>>) = {x, y}
  <2>1. DOMAIN <<x, y>> = {1, 2}
    OBVIOUS
  <2> QED BY <2>1 DEF Elements
<1> QED BY <1>1, <1>2, <1>3

LEMMA ShortSequences == \A S : <<>> \in Seq(S) /\ \A x \in S : <<x>> \in Seq(S)
OBVIOUS

LEMMA OnePart ==
  /\ <<"bazel-out/../../../external">> \in Path /\ <<"bazel-bin/external">> \in Path
  /\ <<"protobuf-extra-include-hack">> \in Path /\ <<"src/google/protobuf">> \in Path
  /\ <<"_virtual_includes">> \in Path /\ <<"include">> \in Path
<1>1. /\ "bazel-out/../../../external" \in Part /\ "bazel-bin/external" \in Part
      /\ "protobuf-extra-include-hack" \in Part /\ "src/google/protobuf" \in Part
      /\ "_virtual_includes" \in Part /\ "include" \in Part
  BY DetailsAssumption
<1> QED BY <1>1, ShortSequences DEF Path

LEMMA PathTypes ==
  /\ External \in Path /\ BazelBin \in Path /\ HackKey \in Path
  /\ \A p \in DOMAIN Directory : Directory[p] \in Path /\ FindPathByProject(p) \in Path
                                 /\ BazelBin \o Directory[p] \in Path /\ ProtoSources(p) \in Path
  /\ \A p \in Package : PathOf[p] \in Path /\ ProjectOf[p] \in Path /\ ProjectOf[p] # HackKey
  /\ \A t \in Target : PackageOf[t] \in Package /\ Details[t] \in Detail
  /\ \A p \in Package, f \in Path : FullyQualifiedFile(p, f) \in Path
<1> USE DetailsAssumption, NamesAssumption
<1>1. External \in Path /\ BazelBin \in Path /\ HackKey \in Path
  BY OnePart DEF External, BazelBin, HackKey
<1>2. ASSUME NEW p \in DOMAIN Directory
      PROVE  Directory[p] \in Path /\ FindPathByProject(p) \in Path
             /\ BazelBin \o Directory[p] \in Path /\ ProtoSources(p) \in Path
  <2>1. Directory[p] \in Path
    OBVIOUS
  <2>2. FindPathByProject(p) \in Path /\ BazelBin \o Directory[p] \in Path
    BY <1>1, <2>1 DEF FindPathByProject, Path
  <2>3. <<"src/google/protobuf">> \in Path
    BY OnePart
  <2> QED BY <2>1, <2>2, <2>3 DEF ProtoSources, Path
<1>3. ASSUME NEW p \in Package
      PROVE  PathOf[p] \in Path /\ ProjectOf[p] \in Path /\ ProjectOf[p] # HackKey
  BY DEF HackKey
<1>4. \A t \in Target : PackageOf[t] \in Package /\ Details[t] \in Detail
  OBVIOUS
<1>5. ASSUME NEW p \in Package, NEW f \in Path PROVE FullyQualifiedFile(p, f) \in Path
  <2>1. (IF HasDirectory(ProjectOf[p]) THEN FindPathByProject(ProjectOf[p]) ELSE <<>>) \in Path
    BY <1>2, ShortSequences DEF HasDirectory, Path
  <2> QED BY <1>3, <2>1 DEF FullyQualifiedFile, Path
<1> QED BY <1>1, <1>2, <1>3, <1>4, <1>5

LEMMA OnceIsPair == \A dir \in Path : <<Once(dir)>> \in Seq(Pair) /\ Once(dir)[2] # <<>>
<1> SUFFICES ASSUME NEW dir \in Path PROVE <<Once(dir)>> \in Seq(Pair) /\ Once(dir)[2] # <<>>
  OBVIOUS
<1>1. <<dir>> \in Seq(Path)
  OBVIOUS
<1>2. Once(dir) \in Pair
  BY <1>1 DEF Once, Pair
<1>3. Once(dir)[2] = <<dir>>
  BY DEF Once
<1> QED BY <1>2, <1>3

(* Pairs with a directory, as all but the one of the protobuf hack are.    *)
WithDirectory(pairs) == pairs \in Seq(Pair) /\ \A x \in Elements(pairs) : x[2] # <<>>

LEMMA NoneOrOnce ==
  ASSUME NEW b, NEW dir, b => dir \in Path
  PROVE  WithDirectory(If(b, <<Once(dir)>>))
BY OnceIsPair, FewElements DEF If, WithDirectory

LEMMA IncludesType == \A t \in Target : WithDirectory(Includes(t))
<1> SUFFICES ASSUME NEW t \in Target PROVE WithDirectory(Includes(t))
  OBVIOUS
<1>1. Details[t].includes \in Seq(Path) /\ PackageOf[t] \in Package
  BY PathTypes DEF Detail
<1>2. ASSUME NEW dir \in Path PROVE WithBuildPath(dir) \in Seq(Path) /\ WithBuildPath(dir) # <<>>
  <2>1. <<dir>> \in Seq(Path)
    OBVIOUS
  <2>2. dir # <<>> => BazelBin \o Tail(dir) \in Path
    BY PathTypes DEF Path
  <2>3. dir # <<>> => <<dir, BazelBin \o Tail(dir)>> \in Seq(Path)
    BY <2>2
  <2> QED BY <2>1, <2>3 DEF WithBuildPath
<1> DEFINE Full(i) == FullyQualifiedFile(PackageOf[t], Details[t].includes[i])
<1>3. Includes(t) = [i \in DOMAIN Details[t].includes |-> <<Full(i), WithBuildPath(Full(i))>>]
  BY DEF Includes
<1>4. \A i \in DOMAIN Details[t].includes : Full(i) \in Path
  BY <1>1, PathTypes
<1> HIDE DEF Full
<1>5. \A i \in DOMAIN Details[t].includes :
        <<Full(i), WithBuildPath(Full(i))>> \in Pair /\ WithBuildPath(Full(i)) # <<>>
  BY <1>2, <1>4 DEF Pair
<1>6. Includes(t) \in Seq(Pair)
  BY <1>1, <1>3, <1>5
<1> QED BY <1>3, <1>5, <1>6 DEF WithDirectory, Elements

LEMMA OtherTypes ==
  ASSUME NEW t \in Target
  PROVE  /\ WithDirectory(IncludePrefix(t)) /\ WithDirectory(StripIncludePrefix(t))
         /\ WithDirectory(GRPCHack(t)) /\ WithDirectory(OwnProtoInclude(t))
<1> DEFINE p == ProjectOf[PackageOf[t]]
<1>1. PackageOf[t] \in Package /\ PathOf[PackageOf[t]] \in Path
      /\ Details[t].name \in Path /\ Details[t].strip_include_prefix \in Path
  BY PathTypes DEF Detail
<1>2. HasDirectory(p) => Directory[p] \in Path /\ FindPathByProject(p) \in Path
                         /\ BazelBin \o Directory[p] \in Path /\ ProtoSources(p) \in Path
  BY PathTypes DEF HasDirectory
<1>3. <<"_virtual_includes">> \in Path /\ <<"include">> \in Path
  BY OnePart
<1>4. WithDirectory(IncludePrefix(t))
  <2>1. HasDirectory(p) =>
          BazelBin \o Directory[p] \o PathOf[PackageOf[t]] \o <<"_virtual_includes">> \o Details[t].name \in Path
    BY <1>1, <1>2, <1>3 DEF Path
  <2> QED BY <2>1, NoneOrOnce DEF IncludePrefix, ForProject
<1>5. WithDirectory(StripIncludePrefix(t))
  <2>1. HasDirectory(p) => FindPathByProject(p) \o Details[t].strip_include_prefix \in Path
    BY <1>1, <1>2 DEF Path
  <2> QED BY <2>1, NoneOrOnce DEF StripIncludePrefix, ForProject
<1>6. WithDirectory(GRPCHack(t))
  <2>1. HasDirectory(p) => FindPathByProject(p) \o <<"include">> \in Path
    BY <1>2, <1>3 DEF Path
  <2> QED BY <2>1, NoneOrOnce DEF GRPCHack, ForProject
<1>7. WithDirectory(OwnProtoInclude(t))
  <2>1. HasDirectory(p) => ProtoSources(p) \o <<"_virtual_includes">> \o Details[t].name \in Path
    BY <1>1, <1>2, <1>3 DEF Path
  <2> QED BY <2>1, NoneOrOnce DEF OwnProtoInclude, ForProject
<1> QED BY <1>4, <1>5, <1>6, <1>7

LEMMA ExtraType == \A t \in Target : ExtraIncludes(t) \in Seq(Pair)
<1> SUFFICES ASSUME NEW t \in Target PROVE ExtraIncludes(t) \in Seq(Pair)
  OBVIOUS
<1> DEFINE p == ProjectOf[PackageOf[t]]
<1>1. CASE HasDirectory(p)
  <2>1. ProtoSources(p) \in Path /\ ProtoIncludes \in Seq(Path)
    BY <1>1, PathTypes, DetailsAssumption DEF HasDirectory
  <2>2. \A i \in DOMAIN ProtoIncludes : ProtoSources(p) \o ProtoIncludes[i] \in Path
    BY <2>1 DEF Path
  <2>3. \A dir \in Path : Once(dir) \in Pair
    BY ShortSequences DEF Once, Pair
  <2>4. ProtobufIncludes(p) \in Seq(Pair)
    BY <2>1, <2>2, <2>3 DEF ProtobufIncludes
  <2>5. <<HackKey, <<>>>> \in Pair
    BY PathTypes, ShortSequences DEF Pair
  <2>6. <<<<HackKey, <<>>>>>> \o ProtobufIncludes(p) \in Seq(Pair)
    BY <2>4, <2>5
  <2> QED BY <2>6 DEF ExtraIncludes, ForProject, If
<1>2. CASE ~HasDirectory(p)
  BY <1>2 DEF ExtraIncludes, ForProject, If
<1> QED BY <1>1, <1>2

\* The pairs of a target without what it depends on.
LEMMA OwnPairsAre ==
  ASSUME NEW t \in Target, NEW seen
  PROVE  /\ OwnPairs(t, seen) \in Seq(Pair)
         /\ Elements(OwnPairs(t, seen))
              = Elements(Includes(t)) \cup Elements(IncludePrefix(t)) \cup Elements(StripIncludePrefix(t))
                \cup (IF HackKey \in seen THEN {} ELSE Elements(ExtraIncludes(t)))
                \cup Elements(OwnProtoInclude(t)) \cup Elements(GRPCHack(t))
<1> DEFINE extra == If(HackKey \notin seen, ExtraIncludes(t))
<1>1. /\ Includes(t) \in Seq(Pair) /\ IncludePrefix(t) \in Seq(Pair) /\ StripIncludePrefix(t) \in Seq(Pair)
      /\ OwnProtoInclude(t) \in Seq(Pair) /\ GRPCHack(t) \in Seq(Pair)
  BY IncludesType, OtherTypes DEF WithDirectory
<1>2. extra \in Seq(Pair) /\ Elements(extra) = IF HackKey \in seen THEN {} ELSE Elements(ExtraIncludes(t))
  BY ExtraType, ShortSequences, FewElements DEF If
<1>3. OwnPairs(t, seen)
        = Includes(t) \o IncludePrefix(t) \o StripIncludePrefix(t) \o (extra \o OwnProtoInclude(t)) \o GRPCHack(t)
  BY DEF OwnPairs, ProtobufHack
<1> HIDE DEF extra
<1> DEFINE a == Includes(t) \o IncludePrefix(t)
           b == a \o StripIncludePrefix(t)
           c == extra \o OwnProtoInclude(t)
           d == b \o c
<1>4. a \in Seq(Pair) /\ Elements(a) = Elements(Includes(t)) \cup Elements(IncludePrefix(t))
  BY <1>1, ElementsOfConcat
<1> HIDE DEF a
<1>5. b \in Seq(Pair) /\ Elements(b) = Elements(a) \cup Elements(StripIncludePrefix(t))
  BY <1>1, <1>4, ElementsOfConcat
<1>6. c \in Seq(Pair) /\ Elements(c) = Elements(extra) \cup Elements(OwnProtoInclude(t))
  BY <1>1, <1>2, ElementsOfConcat
<1> HIDE DEF b, c
<1>7. d \in Seq(Pair) /\ Elements(d) = Elements(b) \cup Elements(c)
  BY <1>5, <1>6, ElementsOfConcat
<1> HIDE DEF d
<1>8. d \o GRPCHack(t) \in Seq(Pair) /\ Elements(d \o GRPCHack(t)) = Elements(d) \cup Elements(GRPCHack(t))
  BY <1>1, <1>7, ElementsOfConcat
<1>9. OwnPairs(t, seen) = d \o GRPCHack(t)
  BY <1>3 DEF a, b, c, d
<1>10. Elements(OwnPairs(t, seen))
         = Elements(Includes(t)) \cup Elements(IncludePrefix(t)) \cup Elements(StripIncludePrefix(t))
           \cup Elements(extra) \cup Elements(OwnProtoInclude(t)) \cup Elements(GRPCHack(t))
  BY <1>4, <1>5, <1>6, <1>7, <1>8, <1>9
<1> QED BY <1>2, <1>8, <1>9, <1>10

Roots == {ProjectRoots(ProjectOf[p]) : p \in {q \in Package : ProjectOf[q] # <<>>}}

LEMMA RootsType == Roots \subseteq Pair /\ \A x \in Roots : x[1] # HackKey
<1> SUFFICES ASSUME NEW p \in Package, ProjectOf[p] # <<>>
             PROVE  ProjectRoots(ProjectOf[p]) \in Pair /\ ProjectRoots(ProjectOf[p])[1] # HackKey
  BY DEF Roots
<1>1. ProjectOf[p] \in Path /\ ProjectOf[p] # HackKey
  BY PathTypes
<1>2. HasDirectory(ProjectOf[p]) => FindPathByProject(ProjectOf[p]) \in Path
                                    /\ BazelBin \o Directory[ProjectOf[p]] \in Path
  BY PathTypes DEF HasDirectory
<1>3. \A x, y \in Path : <<x, y>> \in Seq(Path)
  OBVIOUS
<1>4. If(HasDirectory(ProjectOf[p]), <<FindPathByProject(ProjectOf[p]), BazelBin \o Directory[ProjectOf[p]]>>)
        \in Seq(Path)
  BY <1>2, <1>3, ShortSequences DEF If
<1>5. ProjectRoots(ProjectOf[p])
        = <<ProjectOf[p], If(HasDirectory(ProjectOf[p]),
                             <<FindPathByProject(ProjectOf[p]), BazelBin \o Directory[ProjectOf[p]]>>)>>
  BY DEF ProjectRoots
<1> QED BY <1>1, <1>4, <1>5 DEF Pair

LEMMA DependencyRootsAre ==
  ASSUME NEW deps \in Seq(Target)
  PROVE  DependencyRoots(deps) \in Seq(Pair) /\ Elements(DependencyRoots(deps)) \subseteq Roots
<1> DEFINE roots == [i \in DOMAIN deps |-> RootsOf(deps[i])]
<1>1. ASSUME NEW d \in Target PROVE RootsOf(d) \in Seq(Roots)
  <2>1. PackageOf[d] \in Package
    BY PathTypes
  <2>2. ProjectOf[PackageOf[d]] # <<>> => ProjectRoots(ProjectOf[PackageOf[d]]) \in Roots
    BY <2>1 DEF Roots
  <2> QED BY <2>2, ShortSequences DEF RootsOf, If
<1>2. roots \in Seq(Seq(Roots))
  <2>1. DOMAIN deps = 1..Len(deps) /\ Len(deps) \in Nat /\ \A i \in DOMAIN deps : RootsOf(deps[i]) \in Seq(Roots)
    BY <1>1
  <2> QED BY <2>1
<1>3. Sequence!FlattenSeq(roots) \in Seq(Roots)
  BY <1>2, Flattened
<1>4. DependencyRoots(deps) \in Seq(Roots)
  BY <1>3 DEF DependencyRoots
<1>5. Seq(Roots) \subseteq Seq(Pair)
  BY RootsType
<1> QED BY <1>4, <1>5, ElementsInRange

\* All pairs of a target are possible ones, with or without those of the hack.
LEMMA PairsAre ==
  ASSUME NEW t \in Target, NEW deps \in Seq(Target), NEW seen
  PROVE  /\ Pairs(t, deps, seen) \in Seq(PossiblePairs)
         /\ Elements(Pairs(t, deps, seen)) \subseteq Elements(Pairs(t, deps, {}))
         /\ Elements(Pairs(t, deps, {})) \subseteq Elements(Pairs(t, deps, seen))
              \cup (IF HackKey \in seen THEN Elements(ExtraIncludes(t)) ELSE {})
         /\ HackKey \notin seen => Elements(ExtraIncludes(t)) \subseteq Elements(Pairs(t, deps, seen))
         /\ \A x \in Elements(Pairs(t, deps, seen)) :
              x[1] = HackKey => x[2] # <<>> \/ (x \in Elements(ExtraIncludes(t)) /\ HackKey \notin seen)
<1> DEFINE roots == DependencyRoots(DepsOf(t, deps))
<1>1. DepsOf(t, deps) \in Seq(Target)
  BY ShortSequences DEF DepsOf
<1>2. roots \in Seq(Pair) /\ Elements(roots) \subseteq Roots
  BY <1>1, DependencyRootsAre
<1> HIDE DEF roots
<1>3. ASSUME NEW s
      PROVE  Pairs(t, deps, s) \in Seq(Pair) /\ Elements(Pairs(t, deps, s)) = Elements(OwnPairs(t, s)) \cup Elements(roots)
  <2>1. Pairs(t, deps, s) = OwnPairs(t, s) \o roots
    BY DEF Pairs, roots
  <2> QED BY <1>2, <2>1, OwnPairsAre, ElementsOfConcat
<1>4. HackKey \notin {}
  OBVIOUS
<1> DEFINE rest == Elements(Includes(t)) \cup Elements(IncludePrefix(t)) \cup Elements(StripIncludePrefix(t))
                   \cup Elements(OwnProtoInclude(t)) \cup Elements(GRPCHack(t))
<1>5. \A x \in rest : x[2] # <<>>
  BY IncludesType, OtherTypes DEF WithDirectory
<1>6. Elements(OwnPairs(t, seen)) = rest \cup (IF HackKey \in seen THEN {} ELSE Elements(ExtraIncludes(t)))
  BY OwnPairsAre
<1>7. Elements(OwnPairs(t, {})) = rest \cup Elements(ExtraIncludes(t))
  BY <1>4, OwnPairsAre
<1> HIDE DEF rest
<1>8. Elements(OwnPairs(t, {})) \cup Roots \subseteq PossiblePairs
  BY DEF PossiblePairs, Roots
<1>9. Pairs(t, deps, seen) \in Seq(PossiblePairs)
  <2>1. Elements(Pairs(t, deps, seen)) \subseteq PossiblePairs
    BY <1>2, <1>3, <1>6, <1>7, <1>8
  <2>2. Pairs(t, deps, seen) \in Seq(Pair)
    BY <1>3
  <2> QED BY <2>1, <2>2 DEF Elements
<1>10. \A x \in Elements(roots) : x[1] # HackKey
  BY <1>2, RootsType
<1> QED BY <1>3, <1>5, <1>6, <1>7, <1>9, <1>10

LEMMA PossiblePairsType == PossiblePairs \subseteq Pair
<1>1. ASSUME NEW t \in Target PROVE Elements(OwnPairs(t, {})) \subseteq Pair
  BY OwnPairsAre, ElementsInRange
<1> QED BY <1>1, RootsType DEF PossiblePairs, Roots

-----------------------------------------------------------------------------
(* The directories of the database.                                        *)

Collected == [seen |-> already_seen, out |-> result]

\* The hack was used up by the one project it is for.
HackIsDone ==
  HackKey \in already_seen =>
    \A t \in Target : \A x \in Elements(ExtraIncludes(t)) : Elements(x[2]) \subseteq Elements(result)

\* At every step of the walk: what the visited targets need, and no more.
DirectoriesInv ==
  /\ Collected \in Found
  /\ Elements(result) = Elements(Start) \cup UNION {NeededBy(t) : t \in DOMAIN depends_on}
  /\ Complete(PossiblePairs, Collected)
  /\ Sparse(PossiblePairs, Collected)
  /\ HackIsDone

LEMMA DbWalks == DbSpec => Spec
<1>1. DbInit => Init
  BY DEF DbInit
<1>2. [DbNext]_<<vars, flag_vars, entry_vars>> => [Next]_vars
  BY DEF DbNext, CollectIncDirs, WalkOn, WalkFails, DbFinished, WriteEntries, Next, Step
<1> QED BY <1>1, <1>2, PTL DEF DbSpec, Spec

LEMMA StartType == Start \in Seq(Path) /\ NoRepetition(Start)
<1>1. <<".">> \in Path /\ <<"bazel-bin">> \in Path /\ <<"bazel-out/../../..">> \in Path
  BY DetailsAssumption, ShortSequences DEF Path
<1>2. <<".">> # <<"bazel-bin">> /\ <<".">> # <<"bazel-out/../../..">> /\ <<"bazel-bin">> # <<"bazel-out/../../..">>
  OBVIOUS
<1>3. \A x, y, z \in Path : <<x, y, z>> \in Seq(Path) /\ (x # y /\ x # z /\ y # z => NoRepetition(<<x, y, z>>))
  BY DEF NoRepetition
<1> QED BY <1>1, <1>2, <1>3 DEF Start

LEMMA InitDirectories == KeysTellDirectories /\ DbInit => DirectoriesInv
<1> SUFFICES ASSUME KeysTellDirectories, DbInit PROVE DirectoriesInv
  OBVIOUS
<1>1. already_seen = {} /\ result = Start /\ DOMAIN depends_on = {}
  BY DEF DbInit, Init
<1>2. Collected.seen = {} /\ Collected.out = Start /\ Collected \in Found
  BY <1>1, StartType DEF Collected, Found
<1>3. Complete(PossiblePairs, Collected)
  BY <1>2 DEF Complete
<1>4. Sparse(PossiblePairs, Collected)
  BY <1>2, StartType DEF Sparse, KeysTellDirectories, OwnDirectories
<1> QED BY <1>1, <1>2, <1>3, <1>4 DEF DirectoriesInv, HackIsDone

\* One project at most is protobuf's.
LEMMA SameExtra ==
  ASSUME OneProtobuf, NEW t \in Target, NEW u \in Target,
         Elements(ExtraIncludes(t)) # {}, Elements(ExtraIncludes(u)) # {}
  PROVE  ExtraIncludes(t) = ExtraIncludes(u) /\ <<HackKey, <<>>>> \in Elements(ExtraIncludes(u))
<1>1. PackageOf[t] \in Package /\ PackageOf[u] \in Package
  BY PathTypes
<1>2. ASSUME NEW v \in Target, Elements(ExtraIncludes(v)) # {}
      PROVE  /\ ProjectOf[PackageOf[v]] \in Protobuf \cap DOMAIN Directory
             /\ ExtraIncludes(v) = <<<<HackKey, <<>>>>>> \o ProtobufIncludes(ProjectOf[PackageOf[v]])
  BY <1>2, FewElements DEF ExtraIncludes, ForProject, If, HasDirectory
<1>3. ProjectOf[PackageOf[t]] = ProjectOf[PackageOf[u]]
  BY <1>1, <1>2 DEF OneProtobuf
<1>4. <<HackKey, <<>>>> \in Elements(ExtraIncludes(u))
  <2> DEFINE s == <<<<HackKey, <<>>>>>>
  <2>1. ExtraIncludes(u) \in Seq(Pair)
    BY ExtraType
  <2>2. HasDirectory(ProjectOf[PackageOf[u]])
    BY <1>2 DEF HasDirectory
  <2>3. \A dir \in Path : Once(dir) \in Pair
    BY ShortSequences DEF Once, Pair
  <2>4. \A i \in DOMAIN ProtoIncludes : ProtoSources(ProjectOf[PackageOf[u]]) \o ProtoIncludes[i] \in Path
    BY <2>2, PathTypes, DetailsAssumption DEF HasDirectory, Path
  <2>5. ProtobufIncludes(ProjectOf[PackageOf[u]]) \in Seq(Pair)
    BY <2>3, <2>4, DetailsAssumption DEF ProtobufIncludes
  <2>6. s \in Seq(Pair) /\ Elements(s) = {<<HackKey, <<>>>>}
    BY PathTypes, ShortSequences, FewElements DEF Pair
  <2> HIDE DEF s
  <2>7. Elements(s \o ProtobufIncludes(ProjectOf[PackageOf[u]]))
          = Elements(s) \cup Elements(ProtobufIncludes(ProjectOf[PackageOf[u]]))
    BY <2>5, <2>6, ElementsOfConcat
  <2>8. ExtraIncludes(u) = s \o ProtobufIncludes(ProjectOf[PackageOf[u]])
    BY <1>2 DEF s
  <2> QED BY <2>6, <2>7, <2>8
<1> QED BY <1>2, <1>3, <1>4

LEMMA CollectDirectories ==
  ASSUME KeysTellDirectories, RoundInv, DirectoriesInv, CollectIncDirs
  PROVE  DirectoriesInv'
<1> DEFINE t == RulesHere[pos].target
           deps == RulesHere[pos].follow
           pairs == Pairs(t, deps, already_seen)
           all == PossiblePairs
<1>0. VisitRule /\ [Next]_vars
  BY DEF CollectIncDirs, Next, Step
<1>1. t \in Target /\ deps \in Seq(Target) /\ DOMAIN depends_on' = DOMAIN depends_on \cup {t}
  BY <1>0, VisitEffect DEF RoundInv
<1>2. FollowOf(t) = deps
  BY <1>0, FirstRule DEF VisitRule
<1>3. \A u : NeededBy(u)' = NeededBy(u)
  BY <1>0, WorldConstant DEF NeededBy
<1>4. NeededBy(t) = DirectoriesOf(Pairs(t, deps, {}))
  BY <1>2 DEF NeededBy
<1>5. Collected' = AddAll(Collected, pairs)
  <2> DEFINE st == AddAll(Collected, pairs)
  <2>1. already_seen' = st.seen /\ result' = st.out
    BY DEF CollectIncDirs, Collected
  <2> HIDE DEF st
  <2>2. st \in Found
    <3>1. pairs \in Seq(all) /\ all \subseteq Pair /\ Collected \in Found
      BY <1>1, PairsAre, PossiblePairsType DEF DirectoriesInv
    <3>2. Added(all, Collected, Elements(pairs), AddAll(Collected, pairs))
      BY <3>1, AllIsAdded
    <3> QED BY <3>2 DEF Added, st
  <2>3. Collected' = st
    BY <2>1, <2>2 DEF Collected, Found
  <2> QED BY <2>3 DEF st
<1> HIDE DEF t, deps
<1>6. /\ pairs \in Seq(all)
      /\ Elements(pairs) \subseteq Elements(Pairs(t, deps, {}))
      /\ Elements(Pairs(t, deps, {})) \subseteq Elements(pairs)
           \cup (IF HackKey \in already_seen THEN Elements(ExtraIncludes(t)) ELSE {})
      /\ HackKey \notin already_seen => Elements(ExtraIncludes(t)) \subseteq Elements(pairs)
      /\ \A x \in Elements(pairs) :
           x[1] = HackKey => x[2] # <<>> \/ (x \in Elements(ExtraIncludes(t)) /\ HackKey \notin already_seen)
  BY <1>1, PairsAre
<1> HIDE DEF pairs
<1>7. Added(all, Collected, Elements(pairs), Collected')
  BY <1>5, <1>6, PossiblePairsType, AllIsAdded DEF DirectoriesInv
<1>8. SameDirectories(all) /\ Apart(all) /\ OneProtobuf
  BY DEF KeysTellDirectories, OwnDirectories, Apart
<1>9. Collected' \in Found /\ Complete(all, Collected') /\ Sparse(all, Collected')
  BY <1>7, <1>8 DEF Added, DirectoriesInv
<1>10. /\ already_seen' = already_seen \cup {x[1] : x \in Elements(pairs)}
       /\ Elements(result) \subseteq Elements(result')
       /\ Elements(result') \subseteq Elements(result) \cup UNION {Elements(x[2]) : x \in Elements(pairs)}
  <2>1. Collected.seen = already_seen /\ Collected.out = result
        /\ Collected'.seen = already_seen' /\ Collected'.out = result'
    BY DEF Collected
  <2> QED BY <1>7, <2>1 DEF Added
<1>11. \A x \in Elements(pairs) : Elements(x[2]) \subseteq Elements(result')
  <2>1. Collected'.seen = already_seen' /\ Collected'.out = result'
    BY DEF Collected
  <2>2. Elements(pairs) \subseteq all
    BY <1>6, ElementsInRange
  <2> QED BY <1>9, <1>10, <2>1, <2>2 DEF Complete
<1>12. ASSUME HackKey \in already_seen', NEW u \in Target, NEW y \in Elements(ExtraIncludes(u))
       PROVE  Elements(y[2]) \subseteq Elements(result')
  <2>1. CASE HackKey \in already_seen
    BY <1>10, <1>12, <2>1 DEF DirectoriesInv, HackIsDone
  <2>2. CASE HackKey \notin already_seen
    <3>1. PICK x \in Elements(pairs) : x[1] = HackKey
      BY <1>10, <1>12, <2>2
    <3>2. x[2] # <<>> \/ x \in Elements(ExtraIncludes(t))
      BY <1>6, <3>1
    <3>3. <<HackKey, <<>>>> \in all
      <4>1. <<HackKey, <<>>>> \in Elements(ExtraIncludes(u))
        BY <1>8, <1>12, SameExtra
      <4>2. HackKey \notin {}
        OBVIOUS
      <4>3. <<HackKey, <<>>>> \in Elements(OwnPairs(u, {}))
        BY <4>1, <4>2, OwnPairsAre
      <4> QED BY <4>3 DEF PossiblePairs
    <3>4. x[2] = <<>>
      <4>1. x \in all
        BY <1>6, ElementsInRange
      <4>2. <<HackKey, <<>>>>[1] = HackKey /\ <<HackKey, <<>>>>[2] = <<>>
        OBVIOUS
      <4> QED BY <1>8, <3>1, <3>3, <4>1, <4>2 DEF SameDirectories
    <3>5. ExtraIncludes(u) = ExtraIncludes(t)
      BY <1>1, <1>8, <1>12, <3>2, <3>4, SameExtra
    <3>6. y \in Elements(pairs)
      BY <1>6, <1>12, <2>2, <3>5
    <3> QED BY <1>11, <3>6
  <2> QED BY <2>1, <2>2
<1>13. HackIsDone'
  BY <1>12 DEF HackIsDone
<1>14. Elements(result') = Elements(result) \cup NeededBy(t)
  <2>1. ASSUME NEW y \in Elements(Pairs(t, deps, {})) PROVE Elements(y[2]) \subseteq Elements(result')
    <3>1. CASE y \in Elements(pairs)
      BY <1>11, <3>1
    <3>2. CASE y \in Elements(ExtraIncludes(t)) /\ HackKey \in already_seen
      BY <1>1, <1>10, <1>12, <3>2
    <3> QED BY <1>6, <2>1, <3>1, <3>2
  <2>2. NeededBy(t) = UNION {Elements(y[2]) : y \in Elements(Pairs(t, deps, {}))}
    BY <1>4 DEF DirectoriesOf, Elements
  <2> QED BY <1>6, <1>10, <2>1, <2>2
<1>15. (UNION {NeededBy(u) : u \in DOMAIN depends_on})'
         = (UNION {NeededBy(u) : u \in DOMAIN depends_on}) \cup NeededBy(t)
  BY <1>1, <1>3
<1>16. Elements(result') = Elements(Start) \cup (UNION {NeededBy(u) : u \in DOMAIN depends_on})'
  BY <1>14, <1>15 DEF DirectoriesInv
<1> QED BY <1>9, <1>13, <1>16 DEF DirectoriesInv

LEMMA NextDirectories ==
  ASSUME KeysTellDirectories, RoundInv, DirectoriesInv, [DbNext]_<<vars, flag_vars, entry_vars>>
  PROVE  DirectoriesInv'
<1>1. CASE CollectIncDirs
  BY <1>1, CollectDirectories
<1>2. CASE UNCHANGED <<already_seen, result, depends_on>> /\ [Next]_vars
  <2>1. \A u : NeededBy(u)' = NeededBy(u)
    BY <1>2, WorldConstant DEF NeededBy
  <2>2. (UNION {NeededBy(u) : u \in DOMAIN depends_on})' = UNION {NeededBy(u) : u \in DOMAIN depends_on}
    BY <1>2, <2>1
  <2>3. Collected' = Collected /\ HackIsDone'
    BY <1>2 DEF Collected, HackIsDone, DirectoriesInv
  <2> QED BY <1>2, <2>2, <2>3 DEF DirectoriesInv
<1>3. CASE WalkOn
  BY <1>2, <1>3 DEF WalkOn, flag_vars, BeginRound, IgnoreRule, ClosePackage, EndRound, OpenPackage, Next, Step
<1>4. CASE WalkFails
  BY <1>2, <1>4 DEF WalkFails, flag_vars, ReadFails, Next, Step
<1>5. CASE DbFinished \/ (\E p \in Package : WriteEntries(p)) \/ UNCHANGED <<vars, flag_vars, entry_vars>>
  <2>1. UNCHANGED <<vars, flag_vars>>
    BY <1>5 DEF DbFinished, Finished, WriteEntries
  <2> QED BY <1>2, <2>1 DEF vars, flag_vars
<1> QED BY <1>1, <1>3, <1>4, <1>5 DEF DbNext

-----------------------------------------------------------------------------
(* The entries of the database.                                            *)

LEMMA FilesType == TypeOK => \A p \in Package : FilesOf(p) \in Seq(Path)
<1> SUFFICES ASSUME TypeOK, NEW p \in Package PROVE FilesOf(p) \in Seq(Path)
  OBVIOUS
<1> DEFINE Full(t, i) == FullyQualifiedFile(p, Details[t].files[i])
           Files(r) == If(IsCompiled(r.target), [i \in DOMAIN Details[r.target].files |-> Full(r.target, i)])
           files == [i \in DOMAIN world.ast[p] |-> Files(world.ast[p][i])]
<1>1. world.ast[p] \in Seq(Rule)
  BY WorldsAssumption DEF TypeOK, World
<1>2. ASSUME NEW r \in Rule PROVE Files(r) \in Seq(Path)
  <2>1. r.target \in Target /\ Details[r.target].files \in Seq(Path)
    BY PathTypes DEF Rule, Detail
  <2>2. \A i \in DOMAIN Details[r.target].files : Full(r.target, i) \in Path
    BY <2>1, PathTypes
  <2> HIDE DEF Full
  <2>3. [i \in DOMAIN Details[r.target].files |-> Full(r.target, i)] \in Seq(Path)
    BY <2>1, <2>2
  <2> QED BY <2>3, ShortSequences DEF If
<1> HIDE DEF Files
<1>3. files \in Seq(Seq(Path))
  <2>1. DOMAIN world.ast[p] = 1..Len(world.ast[p]) /\ Len(world.ast[p]) \in Nat
        /\ \A i \in DOMAIN world.ast[p] : Files(world.ast[p][i]) \in Seq(Path)
    BY <1>1, <1>2
  <2> QED BY <2>1
<1>4. Sequence!FlattenSeq(files) \in Seq(Path)
  BY <1>3, Flattened
<1>5. FilesOf(p) = Sequence!FlattenSeq(files)
  BY DEF FilesOf, Files
<1> QED BY <1>4, <1>5

Written == [seen |-> already_written, out |-> entries]
FilePairs == {Once(f) : f \in Path}

\* The files of the packages that were written, once, and the set of them.
EntriesInv ==
  /\ Written \in Found
  /\ Elements(entries) = UNION {Elements(FilesOf(p)) : p \in written}
  /\ Complete(FilePairs, Written)
  /\ Sparse(FilePairs, Written)

LEMMA FilePairsTell == FilePairs \subseteq Pair /\ SameDirectories(FilePairs) /\ Apart(FilePairs)
<1>1. FilePairs \subseteq Pair
  BY ShortSequences DEF FilePairs, Once, Pair
<1>2. SameDirectories(FilePairs)
  BY DEF FilePairs, SameDirectories, Once
<1>3. \A f \in Path : Once(f)[1] = f /\ Elements(Once(f)[2]) = {f} /\ NoRepetition(Once(f)[2])
  BY FewElements DEF Once, NoRepetition
<1>4. Apart(FilePairs)
  BY <1>3 DEF Apart, FilePairs
<1> QED BY <1>1, <1>2, <1>4

LEMMA WriteMore ==
  ASSUME TypeOK, EntriesInv, NEW p \in Package, WriteEntries(p)
  PROVE  EntriesInv'
<1> DEFINE pairs == OncePerFile(FilesOf(p))
           st == AddAll(Written, pairs)
<1>1. FilesOf(p) \in Seq(Path)
  BY FilesType
<1>2. pairs \in Seq(FilePairs) /\ Elements(pairs) = {Once(f) : f \in Elements(FilesOf(p))}
  <2>1. pairs = [i \in DOMAIN FilesOf(p) |-> Once(FilesOf(p)[i])]
    BY DEF OncePerFile
  <2>2. \A i \in DOMAIN FilesOf(p) : Once(FilesOf(p)[i]) \in FilePairs
    BY <1>1 DEF FilePairs
  <2>3. DOMAIN FilesOf(p) = 1..Len(FilesOf(p)) /\ Len(FilesOf(p)) \in Nat
    BY <1>1
  <2>4. pairs \in Seq(FilePairs)
    BY <2>1, <2>2, <2>3
  <2>5. Elements(pairs) = {Once(f) : f \in Elements(FilesOf(p))}
    BY <2>1 DEF Elements
  <2> QED BY <2>4, <2>5
<1>3. Added(FilePairs, Written, Elements(pairs), st)
  BY <1>2, FilePairsTell, AllIsAdded DEF EntriesInv
<1>4. already_written' = st.seen /\ entries' = st.out
  BY DEF WriteEntries, Written
<1> HIDE DEF st, pairs
<1>5. Written' = st
  BY <1>3, <1>4 DEF Written, Added, Found
<1>6. Written' \in Found /\ Complete(FilePairs, Written') /\ Sparse(FilePairs, Written')
  BY <1>3, <1>5, FilePairsTell DEF Added, EntriesInv
<1>7. Elements(entries') = Elements(entries) \cup Elements(FilesOf(p))
  <2>1. \A f \in Path : Once(f)[1] = f /\ Elements(Once(f)[2]) = {f}
    BY FewElements DEF Once
  <2>2. Elements(FilesOf(p)) \subseteq Path
    BY <1>1, ElementsInRange
  <2>3. \A x \in Elements(pairs) : Elements(x[2]) \subseteq Elements(FilesOf(p))
    <3> TAKE x \in Elements(pairs)
    <3>1. PICK f \in Elements(FilesOf(p)) : x = Once(f)
      BY <1>2
    <3>2. Elements(x[2]) = {f}
      BY <2>1, <2>2, <3>1
    <3> QED BY <3>2
  <2>4. Elements(entries) \subseteq Elements(entries')
        /\ Elements(entries') \subseteq Elements(entries) \cup Elements(FilesOf(p))
    BY <1>3, <1>4, <2>3 DEF Added, Written
  <2>5. \A f \in Elements(FilesOf(p)) : f \in Elements(entries')
    <3> TAKE f \in Elements(FilesOf(p))
    <3>1. Once(f) \in FilePairs /\ Once(f) \in Elements(pairs) /\ Once(f)[1] = f /\ Elements(Once(f)[2]) = {f}
      BY <1>2, <2>1, <2>2 DEF FilePairs
    <3>2. f \in st.seen
      BY <1>3, <3>1 DEF Added
    <3> QED BY <1>4, <1>5, <1>6, <3>1, <3>2 DEF Complete
  <2> QED BY <2>4, <2>5
<1>8. written' = written \cup {p} /\ world' = world
  BY DEF WriteEntries, vars
<1>9. \A q : FilesOf(q)' = FilesOf(q)
  BY <1>8 DEF FilesOf, IsCompiled
<1>10. (UNION {Elements(FilesOf(q)) : q \in written})' = (UNION {Elements(FilesOf(q)) : q \in written}) \cup Elements(FilesOf(p))
  BY <1>8, <1>9
<1>11. Elements(entries') = (UNION {Elements(FilesOf(q)) : q \in written})'
  BY <1>7, <1>10 DEF EntriesInv
<1> QED BY <1>6, <1>11 DEF EntriesInv

LEMMA NextEntries ==
  ASSUME TypeOK, EntriesInv, [DbNext]_<<vars, flag_vars, entry_vars>>
  PROVE  EntriesInv'
<1>1. CASE \E p \in Package : WriteEntries(p)
  BY <1>1, WriteMore
<1>2. CASE UNCHANGED entry_vars /\ [Next]_vars
  <2>1. world' = world
    BY <1>2, WorldConstant
  <2>2. \A q : FilesOf(q)' = FilesOf(q)
    BY <2>1 DEF FilesOf, IsCompiled
  <2>3. (UNION {Elements(FilesOf(q)) : q \in written})' = UNION {Elements(FilesOf(q)) : q \in written}
    BY <1>2, <2>2 DEF entry_vars
  <2>4. Written' = Written /\ entries' = entries
    BY <1>2 DEF Written, entry_vars
  <2> QED BY <2>3, <2>4 DEF EntriesInv
<1> QED BY <1>1, <1>2 DEF DbNext, CollectIncDirs, WalkOn, WalkFails, DbFinished, Next, Step, flag_vars, entry_vars

\* A file has one entry, and when all packages are written each has one that
\* a compiled target of the pattern lists (WriteCompilationDB).
THEOREM FilesAreCompiledOnce == DbSpec => []EveryFileIsCompiledOnce
<1>1. DbInit => EntriesInv
  <2> SUFFICES ASSUME DbInit PROVE EntriesInv
    OBVIOUS
  <2>1. written = {} /\ entries = <<>> /\ already_written = {}
    BY DEF DbInit
  <2>2. Written.seen = {} /\ Written.out = <<>> /\ Written \in Found
    BY <2>1, ShortSequences DEF Written, Found
  <2> QED BY <2>1, <2>2, FewElements DEF EntriesInv, Complete, Sparse, NoRepetition
<1>2. TypeOK /\ EntriesInv /\ [DbNext]_<<vars, flag_vars, entry_vars>> => EntriesInv'
  BY NextEntries
<1>3. EntriesInv => EveryFileIsCompiledOnce
  BY DEF EntriesInv, EveryFileIsCompiledOnce, Sparse, Written
<1>4. DbSpec => []TypeOK
  BY DbWalks, TypeCorrect, PTL
<1> QED BY <1>1, <1>2, <1>3, <1>4, PTL DEF DbSpec

\* If a key stands for one list of directories, and no other key for any of
\* them, the database has what its targets need, once, in whatever order they
\* were met (CollectIncDirs with one already_seen for all).
THEOREM DatabaseIsExact ==
  ASSUME KeysTellDirectories
  PROVE  DbSpec => []TheDatabaseIsExact
<1>1. DbInit => DirectoriesInv
  BY InitDirectories
<1>2. RoundInv /\ DirectoriesInv /\ [DbNext]_<<vars, flag_vars, entry_vars>> => DirectoriesInv'
  BY NextDirectories
<1>3. DirectoriesInv => IncludesDoNotDependOnTheOrder /\ EveryIncludeOnce
  BY DEF DirectoriesInv, IncludesDoNotDependOnTheOrder, EveryIncludeOnce, Sparse, Collected
<1>4. DbSpec => []RoundInv
  BY DbWalks, InitRoundInv, NextRoundInv, PTL DEF Spec
<1>5. IncludesDoNotDependOnTheOrder /\ EveryIncludeOnce /\ EveryFileIsCompiledOnce => TheDatabaseIsExact
  BY DEF TheDatabaseIsExact
<1> QED BY <1>1, <1>2, <1>3, <1>4, <1>5, FilesAreCompiledOnce, PTL DEF DbSpec
=============================================================================
