----------------------------- MODULE NameProofs -----------------------------
(***************************************************************************)
(* How targets and headers are named, for names of any length: labels are  *)
(* read as what they were written for, what is printed is read again as    *)
(* the same, and of the paths in an index, FindBySuffix() finds the one    *)
(* that is closest to the path of an #include.                             *)
(***************************************************************************)
EXTENDS MCLabels, SuffixIndex, SequenceTheorems, FiniteSetTheorems, Induction, TLAPS

-----------------------------------------------------------------------------
(* Places in a text.                                                       *)
LEMMA FirstIs ==
  ASSUME NEW s \in Text, NEW c, Has(s, c)
  PROVE  First(s, c) \in 1..Len(s) /\ s[First(s, c)] = c /\ \A j \in 1..(First(s, c) - 1) : s[j] # c
<1> DEFINE T == {i \in 1..Len(s) : s[i] = c}
<1>1. T # {} /\ T \subseteq Nat
  BY DEF Has, Text
<1>2. PICK i \in T : \A j \in T : i <= j
  BY <1>1, LeastNatural
<1>3. i \in DOMAIN s /\ s[i] = c /\ \A j \in 1..(i - 1) : s[j] # c
  <2>1. i \in 1..Len(s) /\ Len(s) \in Nat /\ s[i] = c
    BY <1>2 DEF Text
  <2>2. ASSUME NEW j \in 1..(i - 1), s[j] = c PROVE FALSE
    <3>1. j \in T /\ j < i
      BY <2>1, <2>2
    <3> QED BY <1>2, <2>1, <3>1
  <2> QED BY <2>1, <2>2 DEF Text
<1> QED BY <1>3 DEF First, Text

LEMMA LastIs ==
  ASSUME NEW s \in Text, NEW c, Has(s, c)
  PROVE  Last(s, c) \in 1..Len(s) /\ s[Last(s, c)] = c /\ \A j \in (Last(s, c) + 1)..Len(s) : s[j] # c
<1> DEFINE T == {i \in 1..Len(s) : s[i] = c}
<1>0. Len(s) \in Nat
  BY DEF Text
<1>1. T # {} /\ T \subseteq Int /\ \A n \in T : n <= Len(s)
  BY <1>0 DEF Has, Text
<1> HIDE DEF T
<1>2. \E i \in T : \A j \in T : j <= i
  <2>1. Len(s) \in Int
    BY <1>0
  <2> QED BY <1>1, <2>1, GreatestOf
<1>3. PICK i \in T : \A j \in T : j <= i
  BY <1>2
<1>4. i \in DOMAIN s /\ s[i] = c /\ \A j \in (i + 1)..Len(s) : s[j] # c
  <2>1. i \in 1..Len(s) /\ s[i] = c
    BY <1>3 DEF T
  <2>2. ASSUME NEW j \in (i + 1)..Len(s), s[j] = c PROVE FALSE
    <3>1. j \in T /\ i < j
      BY <2>1, <2>2, <1>0 DEF T
    <3> QED BY <1>3, <2>1, <3>1
  <2> QED BY <2>1, <2>2 DEF Text
<1> QED BY <1>4 DEF Last, Text

LEMMA FirstWhere ==
  ASSUME NEW s \in Text, NEW c, NEW i \in 1..Len(s), s[i] = c, \A j \in 1..(i - 1) : s[j] # c
  PROVE  Has(s, c) /\ First(s, c) = i
<1>1. Has(s, c)
  BY DEF Has, Text
<1>2. First(s, c) \in 1..Len(s) /\ s[First(s, c)] = c /\ \A j \in 1..(First(s, c) - 1) : s[j] # c
  BY <1>1, FirstIs
<1>3. ~(First(s, c) < i) /\ ~(i < First(s, c))
  BY <1>2
<1> QED BY <1>1, <1>2, <1>3

LEMMA LastWhere ==
  ASSUME NEW s \in Text, NEW c, NEW i \in 1..Len(s), s[i] = c, \A j \in (i + 1)..Len(s) : s[j] # c
  PROVE  Has(s, c) /\ Last(s, c) = i
<1>0. Len(s) \in Nat
  BY DEF Text
<1>1. Has(s, c)
  BY DEF Has, Text
<1>2. Last(s, c) \in 1..Len(s) /\ s[Last(s, c)] = c /\ \A j \in (Last(s, c) + 1)..Len(s) : s[j] # c
  BY <1>1, LastIs
<1>3. ~(Last(s, c) < i) /\ ~(i < Last(s, c))
  BY <1>2, <1>0
<1> QED BY <1>1, <1>2, <1>3

\* Parts of a text.
LEMMA PartIs ==
  ASSUME NEW s \in Text, NEW m \in 1..(Len(s) + 1), NEW n \in 0..Len(s), m <= n + 1
  PROVE  /\ SubSeq(s, m, n) \in Text
         /\ Len(SubSeq(s, m, n)) = n - m + 1
         /\ \A i \in 1..(n - m + 1) : SubSeq(s, m, n)[i] = s[m + i - 1]
<1>0. Len(s) \in Nat
  BY DEF Text
<1>1. \A i \in m..n : s[i] \in Characters
  BY <1>0, ElementOfSeq DEF Text
<1>2. m \in Int /\ n \in Int
  BY <1>0
<1> QED BY <1>0, <1>1, <1>2, SubSeqProperties DEF Text

LEMMA JoinedIs ==
  ASSUME NEW s \in Text, NEW t \in Text
  PROVE  /\ s \o t \in Text
         /\ Len(s \o t) = Len(s) + Len(t)
         /\ \A i \in 1..Len(s) : (s \o t)[i] = s[i]
         /\ \A i \in 1..Len(t) : (s \o t)[Len(s) + i] = t[i]
BY DEF Text

LEMMA SameText ==
  ASSUME NEW s \in Text, NEW t \in Text, Len(s) = Len(t), \A i \in 1..Len(s) : s[i] = t[i]
  PROVE  s = t
BY SeqEqual DEF Text

LEMMA HasWhere ==
  ASSUME NEW s \in Text, NEW c
  PROVE  Has(s, c) <=> \E i \in 1..Len(s) : s[i] = c
BY DEF Has, Text

LEMMA BeforeIs ==
  ASSUME NEW s \in Text, NEW c
  PROVE  /\ Before(s, c) \in Text /\ Len(Before(s, c)) <= Len(s) /\ ~Has(Before(s, c), c)
         /\ \A i \in 1..Len(Before(s, c)) : Before(s, c)[i] = s[i]
         /\ Has(s, c) => Len(Before(s, c)) = First(s, c) - 1
<1>0. Len(s) \in Nat
  BY DEF Text
<1>1. CASE ~Has(s, c)
  BY <1>0, <1>1 DEF Before
<1>2. CASE Has(s, c)
  <2>1. First(s, c) \in 1..Len(s) /\ s[First(s, c)] = c /\ \A j \in 1..(First(s, c) - 1) : s[j] # c
    BY <1>2, FirstIs
  <2>2. /\ Before(s, c) \in Text /\ Len(Before(s, c)) = First(s, c) - 1
        /\ \A i \in 1..(First(s, c) - 1) : Before(s, c)[i] = s[i]
    BY <1>0, <1>2, <2>1, PartIs DEF Before
  <2>3. ~Has(Before(s, c), c)
    BY <2>1, <2>2, HasWhere
  <2> QED BY <1>0, <2>1, <2>2, <2>3
<1> QED BY <1>1, <1>2

LEMMA AfterLastIs ==
  ASSUME NEW s \in Text, NEW c, Has(s, c)
  PROVE  /\ AfterLast(s, c) \in Text /\ ~Has(AfterLast(s, c), c)
         /\ Len(AfterLast(s, c)) = Len(s) - Last(s, c)
         /\ \A i \in 1..Len(AfterLast(s, c)) : AfterLast(s, c)[i] = s[Last(s, c) + i]
<1>0. Len(s) \in Nat
  BY DEF Text
<1>1. Last(s, c) \in 1..Len(s) /\ s[Last(s, c)] = c /\ \A j \in (Last(s, c) + 1)..Len(s) : s[j] # c
  BY LastIs
<1>2. /\ AfterLast(s, c) \in Text /\ Len(AfterLast(s, c)) = Len(s) - Last(s, c)
      /\ \A i \in 1..(Len(s) - Last(s, c)) : AfterLast(s, c)[i] = s[Last(s, c) + i]
  BY <1>0, <1>1, PartIs DEF AfterLast
<1>3. ~Has(AfterLast(s, c), c)
  <2>1. ASSUME NEW i \in 1..(Len(s) - Last(s, c)) PROVE AfterLast(s, c)[i] # c
    <3>1. Last(s, c) + i \in (Last(s, c) + 1)..Len(s)
      BY <1>0, <1>1
    <3> QED BY <1>1, <1>2, <3>1
  <2> QED BY <1>2, <2>1, HasWhere
<1> QED BY <1>2, <1>3

\* What has not the character has not got it in a part.
LEMMA NotInPart ==
  ASSUME NEW s \in Text, NEW t \in Text, NEW c, NEW k \in Nat, ~Has(s, c),
         \A i \in 1..Len(t) : k + i \in 1..Len(s) /\ t[i] = s[k + i]
  PROVE  ~Has(t, c)
BY HasWhere

-----------------------------------------------------------------------------
(* Packages.                                                               *)
IsPath(p) ==
  /\ p \in Text /\ ~Has(p, ":")
  /\ p # <<>> => p[1] # "/" /\ p[Len(p)] # "/"
  /\ \A i \in 2..Len(p) : ~(p[i - 1] = "/" /\ p[i] = "/")

LEMMA StripIs ==
  ASSUME NEW s \in Text
  PROVE  /\ Strip(s) \in Text
         /\ Strip(s) # <<>> => Strip(s)[1] # "/" /\ Strip(s)[Len(Strip(s))] # "/"
         /\ \A c : ~Has(s, c) => ~Has(Strip(s), c)
<1> DEFINE inner == {i \in DOMAIN s : s[i] # "/"}
           f == CHOOSE i \in inner : \A j \in inner : i <= j
           l == CHOOSE i \in inner : \A j \in inner : j <= i
<1>0. Len(s) \in Nat /\ DOMAIN s = 1..Len(s)
  BY DEF Text
<1>1. CASE inner = {}
  <2>1. Strip(s) = <<>>
    BY <1>1 DEF Strip
  <2>2. <<>> \in Text /\ \A c : ~Has(<<>>, c)
    BY DEF Text, Has
  <2> QED BY <2>1, <2>2
<1>2. CASE inner # {}
  <2>1. inner \subseteq Nat /\ inner \subseteq Int /\ \A i \in inner : i <= Len(s)
    BY <1>0
  <2>2. (\E i \in inner : \A j \in inner : i <= j) /\ \E i \in inner : \A j \in inner : j <= i
    <3> HIDE DEF inner
    <3>1. Len(s) \in Int
      BY <1>0
    <3> QED BY <1>2, <2>1, <3>1, LeastNatural, GreatestOf
  <2>3. f \in inner /\ l \in inner /\ f <= l
    BY <2>2
  <2>4. Strip(s) = SubSeq(s, f, l)
    BY <1>2 DEF Strip
  <2> HIDE DEF f, l
  <2>5. f \in 1..Len(s) /\ l \in 1..Len(s) /\ s[f] # "/" /\ s[l] # "/"
    BY <1>0, <2>3
  <2>6. /\ Strip(s) \in Text /\ Len(Strip(s)) = l - f + 1
        /\ \A i \in 1..(l - f + 1) : Strip(s)[i] = s[f + i - 1]
    <3>1. f \in 1..(Len(s) + 1) /\ l \in 0..Len(s) /\ f <= l + 1
      BY <1>0, <2>3, <2>5
    <3> QED BY <2>4, <3>1, PartIs
  <2>7. Strip(s)[1] = s[f] /\ Strip(s)[Len(Strip(s))] = s[l]
    <3>1. 1 \in 1..(l - f + 1) /\ l - f + 1 \in 1..(l - f + 1)
      BY <1>0, <2>3, <2>5
    <3>2. f + 1 - 1 = f /\ f + (l - f + 1) - 1 = l
      BY <1>0, <2>5
    <3> QED BY <2>6, <3>1, <3>2
  <2>8. ASSUME NEW c, ~Has(s, c) PROVE ~Has(Strip(s), c)
    <3>1. f - 1 \in Nat /\ \A i \in 1..Len(Strip(s)) : (f - 1) + i \in 1..Len(s) /\ Strip(s)[i] = s[(f - 1) + i]
      BY <1>0, <2>5, <2>6
    <3> QED BY <2>6, <2>8, <3>1, NotInPart
  <2> QED BY <2>5, <2>6, <2>7, <2>8
<1> QED BY <1>1, <1>2

LEMMA StripOfStripped ==
  ASSUME NEW s \in Text, NEW p, IsPath(p), NEW k \in Nat, Len(s) = k + Len(p),
         \A i \in 1..k : s[i] = "/", \A i \in 1..Len(p) : s[k + i] = p[i]
  PROVE  Strip(s) = p
<1> DEFINE inner == {i \in DOMAIN s : s[i] # "/"}
           f == CHOOSE i \in inner : \A j \in inner : i <= j
           l == CHOOSE i \in inner : \A j \in inner : j <= i
<1>0. Len(s) \in Nat /\ DOMAIN s = 1..Len(s) /\ p \in Text /\ Len(p) \in Nat
  BY DEF Text, IsPath
<1>1. CASE p = <<>>
  <2>1. inner = {}
    BY <1>0, <1>1
  <2> QED BY <1>1, <2>1 DEF Strip
<1>2. CASE p # <<>>
  <2>1. Len(p) >= 1 /\ p[1] # "/" /\ p[Len(p)] # "/"
    BY <1>2 DEF IsPath, Text
  <2>2. k + 1 \in inner /\ k + Len(p) \in inner
    BY <1>0, <2>1
  <2>3. \A i \in inner : k + 1 <= i /\ i <= k + Len(p)
    BY <1>0
  <2>4. f = k + 1
    <3> HIDE DEF inner
    <3>1. inner \subseteq Nat
      BY <1>0 DEF inner
    <3>2. \E i \in inner : \A j \in inner : i <= j
      BY <2>2, <2>3
    <3>3. f \in inner /\ f <= k + 1
      BY <2>2, <3>2
    <3>4. k + 1 <= f /\ f \in Nat
      BY <2>3, <3>1, <3>3
    <3> HIDE DEF f
    <3> QED BY <3>3, <3>4
  <2>5. l = k + Len(p)
    <3> HIDE DEF inner
    <3>1. inner \subseteq Nat
      BY <1>0 DEF inner
    <3>2. \E i \in inner : \A j \in inner : j <= i
      BY <2>2, <2>3
    <3>3. l \in inner /\ k + Len(p) <= l
      BY <2>2, <3>2
    <3>4. l <= k + Len(p) /\ l \in Nat
      BY <2>3, <3>1, <3>3
    <3> HIDE DEF l
    <3> QED BY <1>0, <3>3, <3>4
  <2>6. Strip(s) = SubSeq(s, k + 1, k + Len(p))
    BY <2>2, <2>4, <2>5 DEF Strip
  <2>7. /\ Strip(s) \in Text /\ Len(Strip(s)) = Len(p)
        /\ \A i \in 1..Len(p) : Strip(s)[i] = s[k + i]
    <3>1. k + 1 \in 1..(Len(s) + 1) /\ k + Len(p) \in 0..Len(s) /\ k + 1 <= k + Len(p) + 1
      BY <1>0
    <3>2. k + Len(p) - (k + 1) + 1 = Len(p) /\ \A i \in 1..Len(p) : k + 1 + i - 1 = k + i
      BY <1>0
    <3> QED BY <2>6, <3>1, <3>2, PartIs
  <2> QED BY <1>0, <2>7, SameText
<1> QED BY <1>1, <1>2

\* The project as it stands in a label.
IsRepository(r) == /\ r \in Text /\ ~Has(r, "/") /\ ~Has(r, ":")
                   /\ r # <<>> => r[1] = "@"

\* "@repo//path"
Long(r, path) == r \o <<"/", "/">> \o path

LEMMA LongIs ==
  ASSUME NEW r \in Text, NEW path \in Text
  PROVE  /\ Long(r, path) \in Text /\ Len(Long(r, path)) = Len(r) + 2 + Len(path)
         /\ \A i \in 1..Len(r) : Long(r, path)[i] = r[i]
         /\ Long(r, path)[Len(r) + 1] = "/" /\ Long(r, path)[Len(r) + 2] = "/"
         /\ \A i \in 1..Len(path) : Long(r, path)[Len(r) + 2 + i] = path[i]
<1> DEFINE two == <<"/", "/">>
<1>0. Len(r) \in Nat /\ Len(path) \in Nat
  BY DEF Text
<1>1. two \in Text /\ Len(two) = 2 /\ two[1] = "/" /\ two[2] = "/"
  <2>1. two \in Seq(Characters) /\ Len(two) = 2 /\ two[1] = "/" /\ two[2] = "/"
    BY CharactersAssumption
  <2> QED BY <2>1 DEF Text
<1> HIDE DEF two
<1>2. /\ r \o two \in Text /\ Len(r \o two) = Len(r) + 2
      /\ \A i \in 1..Len(r) : (r \o two)[i] = r[i]
      /\ (r \o two)[Len(r) + 1] = "/" /\ (r \o two)[Len(r) + 2] = "/"
  <2>1. 1 \in 1..Len(two) /\ 2 \in 1..Len(two)
    BY <1>1
  <2>2. /\ r \o two \in Text /\ Len(r \o two) = Len(r) + Len(two)
        /\ \A i \in 1..Len(r) : (r \o two)[i] = r[i]
        /\ \A i \in 1..Len(two) : (r \o two)[Len(r) + i] = two[i]
    BY <1>1, JoinedIs
  <2> QED BY <1>1, <2>1, <2>2
<1> DEFINE all == (r \o two) \o path
<1>3. /\ all \in Text /\ Len(all) = Len(r) + 2 + Len(path)
      /\ \A i \in 1..(Len(r) + 2) : all[i] = (r \o two)[i]
      /\ \A i \in 1..Len(path) : all[Len(r) + 2 + i] = path[i]
  <2> DEFINE front == r \o two
  <2>1. front \in Text /\ Len(front) = Len(r) + 2
    BY <1>2
  <2> HIDE DEF front
  <2>2. /\ front \o path \in Text /\ Len(front \o path) = Len(front) + Len(path)
        /\ \A i \in 1..Len(front) : (front \o path)[i] = front[i]
        /\ \A i \in 1..Len(path) : (front \o path)[Len(front) + i] = path[i]
    BY <2>1, JoinedIs
  <2> QED BY <2>1, <2>2 DEF front
<1>4. Long(r, path) = all
  BY DEF Long, two
<1> HIDE DEF all
<1>5. \A i \in 1..Len(r) : Long(r, path)[i] = r[i]
  BY <1>0, <1>2, <1>3, <1>4
<1>6. Long(r, path)[Len(r) + 1] = "/" /\ Long(r, path)[Len(r) + 2] = "/"
  BY <1>0, <1>2, <1>3, <1>4, SMTT(30)
<1> QED BY <1>3, <1>4, <1>5, <1>6

\* What is in a part is in the whole.
LEMMA LongHas ==
  ASSUME NEW r \in Text, NEW path \in Text, NEW c, c # "/", ~Has(r, c), ~Has(path, c)
  PROVE  ~Has(Long(r, path), c)
<1>a. /\ Long(r, path) \in Text /\ Len(Long(r, path)) = Len(r) + 2 + Len(path)
      /\ \A i \in 1..Len(r) : Long(r, path)[i] = r[i]
      /\ Long(r, path)[Len(r) + 1] = "/" /\ Long(r, path)[Len(r) + 2] = "/"
      /\ \A i \in 1..Len(path) : Long(r, path)[Len(r) + 2 + i] = path[i]
  BY LongIs
<1>b. (\A i \in 1..Len(r) : r[i] # c) /\ (\A i \in 1..Len(path) : path[i] # c)
  BY HasWhere
<1> SUFFICES ASSUME NEW i \in 1..Len(Long(r, path)) PROVE Long(r, path)[i] # c
  BY <1>a, HasWhere
<1>0. Len(r) \in Nat /\ Len(path) \in Nat
  BY DEF Text
<1>1. CASE i \in 1..Len(r)
  BY <1>1, <1>a, <1>b
<1>2. CASE i \in {Len(r) + 1, Len(r) + 2}
  BY <1>2, <1>a
<1>3. CASE i > Len(r) + 2
  <2>1. i - (Len(r) + 2) \in 1..Len(path) /\ i = Len(r) + 2 + (i - (Len(r) + 2))
    BY <1>0, <1>3, <1>a
  <2>2. Long(r, path)[i] = path[i - (Len(r) + 2)]
    BY <2>1, <1>a
  <2> QED BY <2>1, <2>2, <1>b
<1> QED BY <1>0, <1>1, <1>2, <1>3, <1>a

\* What PackageParseFrom() finds in front of the path.
LEMMA BeforeOfLong ==
  ASSUME NEW r \in Text, NEW path \in Text, ~Has(r, "/")
  PROVE  Before(Long(r, path), "/") = r
<1>0. Len(r) \in Nat /\ Len(path) \in Nat
  BY DEF Text
<1>a. /\ Long(r, path) \in Text /\ Len(Long(r, path)) = Len(r) + 2 + Len(path)
      /\ \A i \in 1..Len(r) : Long(r, path)[i] = r[i]
      /\ Long(r, path)[Len(r) + 1] = "/" /\ Long(r, path)[Len(r) + 2] = "/"
      /\ \A i \in 1..Len(path) : Long(r, path)[Len(r) + 2 + i] = path[i]
  BY LongIs
<1>b. \A i \in 1..Len(r) : r[i] # "/"
  BY HasWhere
<1>1. Len(r) + 1 \in 1..Len(Long(r, path)) /\ Long(r, path)[Len(r) + 1] = "/" /\ Long(r, path) \in Text
  BY <1>0, <1>a
<1>2. \A j \in 1..(Len(r) + 1 - 1) : Long(r, path)[j] # "/"
  BY <1>0, <1>a, <1>b
<1>3. Has(Long(r, path), "/") /\ First(Long(r, path), "/") = Len(r) + 1
  BY <1>1, <1>2, FirstWhere
<1>4. /\ Before(Long(r, path), "/") \in Text /\ Len(Before(Long(r, path), "/")) = Len(r)
      /\ \A i \in 1..Len(r) : Before(Long(r, path), "/")[i] = Long(r, path)[i]
  BY <1>0, <1>1, <1>3, BeforeIs
<1> QED BY <1>4, <1>a, SameText

LEMMA LongReadsBack ==
  ASSUME NEW r, IsRepository(r), NEW path, IsPath(path)
  PROVE  PackageParseFrom(Long(r, path)) = BazelPackage(IF r = <<"@">> THEN <<>> ELSE Before(r, "~"), path)
<1> DEFINE s == Long(r, path)
           rest == SubSeq(s, Len(r) + 1, Len(s))
<1>0. r \in Text /\ path \in Text /\ Len(r) \in Nat /\ Len(path) \in Nat
  BY DEF IsRepository, IsPath, Text
<1>1. s \in Text /\ Len(s) = Len(r) + 2 + Len(path) /\ ~Has(s, ":")
  BY <1>0, LongIs, LongHas DEF IsRepository, IsPath
<1>2. BeforeLast(s, ":") = s /\ ~IsShort(s)
  <2>1. Len(s) > 1 /\ s # <<>>
    BY <1>0, <1>1
  <2> QED BY <1>1, <2>1 DEF BeforeLast, IsShort
<1>3. (IF s[1] = "@" THEN Before(s, "/") ELSE <<>>) = r
  <2>1. CASE r = <<>>
    <3>0. Len(r) = 0 /\ s[Len(r) + 1] = "/"
      BY <1>0, <2>1, LongIs
    <3>1. s[1] = "/"
      BY <3>0
    <3> QED BY <2>1, <3>1
  <2>2. CASE r # <<>>
    <3>1. 1 \in 1..Len(r) /\ r[1] = "@"
      BY <1>0, <2>2 DEF IsRepository, Text
    <3>2. s[1] = "@"
      BY <1>0, <3>1, LongIs
    <3> QED BY <1>0, <3>2, BeforeOfLong DEF IsRepository
  <2> QED BY <2>1, <2>2
<1>4. Strip(rest) = path
  <2>1. /\ rest \in Text /\ Len(rest) = 2 + Len(path)
        /\ \A i \in 1..(2 + Len(path)) : rest[i] = s[Len(r) + i]
    <3>1. Len(r) + 1 \in 1..(Len(s) + 1) /\ Len(s) \in 0..Len(s) /\ Len(r) + 1 <= Len(s) + 1
      BY <1>0, <1>1
    <3>2. Len(s) - (Len(r) + 1) + 1 = 2 + Len(path) /\ \A i \in 1..(2 + Len(path)) : Len(r) + 1 + i - 1 = Len(r) + i
      BY <1>0, <1>1
    <3> HIDE DEF s
    <3> QED BY <1>1, <3>1, <3>2, PartIs
  <2>2. \A i \in 1..2 : rest[i] = "/"
    <3>1. s[Len(r) + 1] = "/" /\ s[Len(r) + 2] = "/"
      BY <1>0, LongIs
    <3> HIDE DEF s, rest
    <3>2. rest[1] = "/" /\ rest[2] = "/"
      BY <1>0, <2>1, <3>1
    <3> QED BY <3>2
  <2>3. \A i \in 1..Len(path) : rest[2 + i] = path[i]
    <3> TAKE i \in 1..Len(path)
    <3>1. s[Len(r) + 2 + i] = path[i]
      BY <1>0, LongIs
    <3>2. 2 + i \in 1..(2 + Len(path)) /\ Len(r) + (2 + i) = Len(r) + 2 + i
      BY <1>0
    <3> HIDE DEF s, rest
    <3> QED BY <2>1, <3>1, <3>2
  <2> HIDE DEF s, rest
  <2> QED BY <2>1, <2>2, <2>3, StripOfStripped
<1>5. ~\E i \in 2..Len(path) : path[i - 1] = "/" /\ path[i] = "/"
  BY DEF IsPath
<1> HIDE DEF s
<1>6. PackageParseFrom(s) = BazelPackage(IF r = <<"@">> THEN <<>> ELSE Before(r, "~"), path)
  BY <1>2, <1>3, <1>4, <1>5 DEF PackageParseFrom
<1> QED BY <1>6 DEF s

\* Whatever is read as a package has the one form.
LEMMA PackageIs ==
  ASSUME NEW str \in Text, ~Has(str, ":"), NamesRepository(str), PackageParseFrom(str) # Rejected
  PROVE  IsPackage(PackageParseFrom(str))
<1> DEFINE project == IF str[1] = "@" THEN Before(str, "/") ELSE <<>>
           rest == SubSeq(str, Len(project) + 1, Len(str))
           path == Strip(rest)
           named == IF project = <<"@">> THEN <<>> ELSE Before(project, "~")
<1>0. Len(str) \in Nat
  BY DEF Text
<1>1. BeforeLast(str, ":") = str
  BY DEF BeforeLast
<1>2. /\ ~IsShort(str) /\ ~\E i \in 2..Len(path) : path[i - 1] = "/" /\ path[i] = "/"
      /\ PackageParseFrom(str) = BazelPackage(named, path)
  <2> HIDE DEF path, named
  <2>1. PackageParseFrom(str) = IF IsShort(str) \/ \E i \in 2..Len(path) : path[i - 1] = "/" /\ path[i] = "/"
                                THEN Rejected ELSE BazelPackage(named, path)
    BY <1>1 DEF PackageParseFrom, path, named
  <2> QED BY <2>1
<1>3. /\ project \in Text /\ Len(project) <= Len(str)
      /\ \A i \in 1..Len(project) : project[i] = str[i]
      /\ ~Has(project, "/") /\ ~Has(project, ":")
      /\ project # <<>> => project[1] = "@"
  <2>1. CASE str[1] = "@"
    <3>1. /\ Before(str, "/") \in Text /\ Len(Before(str, "/")) <= Len(str) /\ ~Has(Before(str, "/"), "/")
          /\ \A i \in 1..Len(Before(str, "/")) : Before(str, "/")[i] = str[i]
      BY BeforeIs
    <3>2. project = Before(str, "/")
      BY <2>1
    <3> HIDE DEF project
    <3>3. Len(project) \in Nat
      BY <3>1, <3>2 DEF Text
    <3>4. \A i \in 1..Len(project) : 0 + i \in 1..Len(str) /\ project[i] = str[0 + i]
      BY <1>0, <3>1, <3>2, <3>3
    <3>5. ~Has(project, ":")
      BY <3>1, <3>2, <3>4, NotInPart
    <3>6. project # <<>> => project[1] = "@"
      BY <2>1, <3>1, <3>2 DEF Text
    <3> QED BY <3>1, <3>2, <3>5, <3>6
  <2>2. CASE str[1] # "@"
    <3>1. project = <<>>
      BY <2>2
    <3>2. <<>> \in Text /\ Len(<<>>) = 0 /\ \A c : ~Has(<<>>, c)
      BY DEF Text, Has
    <3> HIDE DEF project
    <3> QED BY <1>0, <3>1, <3>2
  <2> QED BY <2>1, <2>2
<1> HIDE DEF project
<1>4. rest \in Text /\ ~Has(rest, ":")
  <2>0. Len(project) \in Nat
    BY <1>3 DEF Text
  <2>1. /\ rest \in Text /\ Len(rest) = Len(str) - Len(project)
        /\ \A i \in 1..(Len(str) - Len(project)) : rest[i] = str[Len(project) + i]
    <3>1. /\ Len(project) + 1 \in 1..(Len(str) + 1) /\ Len(str) \in 0..Len(str)
          /\ Len(project) + 1 <= Len(str) + 1
      BY <1>0, <1>3, <2>0
    <3>2. /\ Len(str) - (Len(project) + 1) + 1 = Len(str) - Len(project)
          /\ \A i \in 1..(Len(str) - Len(project)) : Len(project) + 1 + i - 1 = Len(project) + i
      BY <1>0, <2>0
    <3> QED BY <3>1, <3>2, PartIs
  <2> HIDE DEF rest
  <2>2. \A i \in 1..Len(rest) : Len(project) + i \in 1..Len(str) /\ rest[i] = str[Len(project) + i]
    BY <1>0, <1>3, <2>0, <2>1
  <2> QED BY <2>0, <2>1, <2>2, NotInPart
<1> HIDE DEF rest
<1>5. /\ path \in Text /\ ~Has(path, ":")
      /\ path # <<>> => path[1] # "/" /\ path[Len(path)] # "/"
  BY <1>4, StripIs
<1>6. named \in Text /\ (named # <<>> => /\ named[1] = "@" /\ named # <<"@">>
                                         /\ \A c \in {"/", ":", "~"} : ~Has(named, c))
  <2>1. CASE project = <<"@">>
    BY <2>1 DEF Text
  <2>2. CASE project # <<"@">>
    <3>1. /\ Before(project, "~") \in Text /\ Len(Before(project, "~")) <= Len(project) /\ ~Has(Before(project, "~"), "~")
          /\ \A i \in 1..Len(Before(project, "~")) : Before(project, "~")[i] = project[i]
      BY <1>3, BeforeIs
    <3>2. named = Before(project, "~")
      BY <2>2
    <3> HIDE DEF named
    <3>3. Len(named) \in Nat /\ Len(project) \in Nat
      BY <1>3, <3>1, <3>2 DEF Text
    <3>4. \A i \in 1..Len(named) : 0 + i \in 1..Len(project) /\ named[i] = project[0 + i]
      BY <3>1, <3>2, <3>3
    <3>5. ~Has(named, "/") /\ ~Has(named, ":")
      BY <1>3, <3>1, <3>2, <3>4, NotInPart, SMTT(30)
    <3>6. ASSUME named # <<>> PROVE named[1] = "@" /\ named # <<"@">>
      <4>1. 1 \in 1..Len(named)
        BY <3>1, <3>2, <3>3, <3>6 DEF Text
      <4>2. 1 \in 1..Len(project) /\ named[1] = project[1]
        BY <3>4, <4>1
      <4>3. named[1] = "@"
        BY <1>3, <4>2
      <4>4. ASSUME named = <<"@">> PROVE FALSE
        <5>1. Len(named) = 1
          BY <4>4
        <5>2. Len(project) > 1
          <6>1. Len(project) >= 1 /\ project[1] = "@"
            BY <3>3, <4>2, <4>3
          <6>2. Len(project) # 1
            <7> SUFFICES ASSUME Len(project) = 1 PROVE FALSE
              OBVIOUS
            <7>1. project = <<"@">>
              BY <1>3, <6>1 DEF Text
            <7> QED BY <2>2, <7>1
          <6> DEFINE n == Len(project)
          <6>3. n \in Nat /\ n >= 1 /\ n # 1
            BY <3>3, <6>1, <6>2
          <6> HIDE DEF n
          <6>4. n > 1
            BY <6>3
          <6> QED BY <6>4 DEF n
        <5>3. project[2] # "~"
          <6>1. str[1] = project[1] /\ str[2] = project[2] /\ Len(str) > 1
            BY <1>0, <1>3, <3>3, <5>2
          <6> QED BY <6>1, <4>2, <4>3 DEF NamesRepository
        <5>4. CASE Has(project, "~")
          <6>1. Len(named) = First(project, "~") - 1
            BY <1>3, <3>2, <5>4, BeforeIs
          <6>2. First(project, "~") \in 1..Len(project) /\ project[First(project, "~")] = "~"
            BY <1>3, <5>4, FirstIs
          <6>3. First(project, "~") = 2
            BY <5>1, <6>1, <6>2
          <6> QED BY <5>3, <6>2, <6>3
        <5>5. CASE ~Has(project, "~")
          <6>1. named = project
            BY <3>2, <5>5 DEF Before
          <6>2. Len(project) = 1
            BY <5>1, <6>1
          <6> QED BY <3>3, <5>2, <6>2
        <5> QED BY <5>4, <5>5
      <4> QED BY <4>3, <4>4
    <3> QED BY <3>1, <3>2, <3>5, <3>6
  <2> QED BY <2>1, <2>2
<1> HIDE DEF path, named
<1>7. BazelPackage(named, path) \in [project : Text, path : Text]
  BY <1>5, <1>6 DEF BazelPackage
<1>8. HasOneForm(BazelPackage(named, path))
  BY <1>2, <1>5, <1>6 DEF HasOneForm, BazelPackage
<1> QED BY <1>2, <1>7, <1>8 DEF IsPackage

-----------------------------------------------------------------------------
(* Labels.                                                                 *)

\* What is read of any text, in any package.
LEMMA ParsedIs ==
  ASSUME NEW str \in Text, NamesRepository(str), NEW ctx, IsPackage(ctx), ParseFrom(str, ctx) # Rejected
  PROVE  IsTargetOf(ParseFrom(str, ctx), ctx)
<1> DEFINE taken == IF ~Has(str, ":") THEN Shorthand(str)
                   ELSE [package |-> Before(str, ":"), target |-> AfterLast(str, ":")]
           parsed == PackageParseFrom(taken.package)
           own == IF parsed.project = <<>> THEN [parsed EXCEPT !.project = ctx.project] ELSE parsed
<1>0. Len(str) \in Nat
  BY DEF Text
<1>1. /\ taken.package \in Text /\ ~Has(taken.package, ":") /\ NamesRepository(taken.package)
      /\ taken.target \in Text /\ ~Has(taken.target, ":")
  <2>1. CASE ~Has(str, ":")
    <3>1. CASE Has(str, "/")
      <4>1. taken = [package |-> str, target |-> AfterLast(str, "/")]
        BY <2>1, <3>1 DEF Shorthand
      <4>2. AfterLast(str, "/") \in Text /\ ~Has(AfterLast(str, "/"), ":")
        <5>1. /\ AfterLast(str, "/") \in Text /\ Len(AfterLast(str, "/")) = Len(str) - Last(str, "/")
              /\ \A i \in 1..Len(AfterLast(str, "/")) : AfterLast(str, "/")[i] = str[Last(str, "/") + i]
              /\ Last(str, "/") \in 1..Len(str)
          BY <3>1, AfterLastIs, LastIs
        <5>2. /\ Last(str, "/") \in Nat
              /\ \A i \in 1..Len(AfterLast(str, "/")) :
                   Last(str, "/") + i \in 1..Len(str) /\ AfterLast(str, "/")[i] = str[Last(str, "/") + i]
          BY <1>0, <5>1
        <5> QED BY <2>1, <5>1, <5>2, NotInPart
      <4> QED BY <2>1, <4>1, <4>2
    <3>2. CASE ~Has(str, "/") /\ str # <<>> /\ str[1] = "@"
      <4>1. taken = [package |-> str, target |-> Tail(str)]
        BY <2>1, <3>2 DEF Shorthand
      <4>2. Tail(str) \in Text /\ Len(Tail(str)) = Len(str) - 1 /\ \A i \in 1..Len(Tail(str)) : Tail(str)[i] = str[i + 1]
        <5>1. str \in Seq(Characters) /\ str # <<>>
          BY <3>2 DEF Text
        <5> QED BY <5>1, HeadTailProperties DEF Text
      <4>3. \A i \in 1..Len(Tail(str)) : 1 + i \in 1..Len(str) /\ Tail(str)[i] = str[1 + i]
        BY <1>0, <4>2
      <4>4. ~Has(Tail(str), ":")
        BY <2>1, <4>2, <4>3, NotInPart
      <4> HIDE DEF taken
      <4>5. taken.package = str /\ taken.target = Tail(str)
        BY <4>1
      <4> QED BY <2>1, <4>2, <4>4, <4>5
    <3>3. CASE ~Has(str, "/") /\ ~(str # <<>> /\ str[1] = "@")
      <4>1. taken = [package |-> <<>>, target |-> str]
        BY <2>1, <3>3 DEF Shorthand
      <4>2. <<>> \in Text /\ ~Has(<<>>, ":") /\ NamesRepository(<<>>)
        BY DEF Text, Has, NamesRepository
      <4> QED BY <2>1, <4>1, <4>2
    <3> QED BY <3>1, <3>2, <3>3
  <2>2. CASE Has(str, ":")
    <3>1. taken = [package |-> Before(str, ":"), target |-> AfterLast(str, ":")]
      BY <2>2
    <3>2. /\ Before(str, ":") \in Text /\ Len(Before(str, ":")) <= Len(str) /\ ~Has(Before(str, ":"), ":")
          /\ \A i \in 1..Len(Before(str, ":")) : Before(str, ":")[i] = str[i]
      BY BeforeIs
    <3>3. AfterLast(str, ":") \in Text /\ ~Has(AfterLast(str, ":"), ":")
      BY <2>2, AfterLastIs
    <3>4. NamesRepository(Before(str, ":"))
      <4>1. Len(Before(str, ":")) \in Nat
        BY <3>2 DEF Text
      <4> QED BY <1>0, <3>2, <4>1 DEF NamesRepository
    <3> QED BY <3>1, <3>2, <3>3, <3>4
  <2> QED BY <2>1, <2>2
<1> HIDE DEF taken
<1>2. CASE taken.package = <<>>
  <2>1. ParseFrom(str, ctx) = Target(ctx, taken.target)
    BY <1>2 DEF ParseFrom, taken
  <2> QED BY <1>1, <2>1 DEF IsTargetOf, IsPackage, Target
<1>3. CASE taken.package # <<>>
  <2>1. parsed # Rejected /\ ParseFrom(str, ctx) = Target(own, taken.target)
    BY <1>3 DEF ParseFrom, taken
  <2>2. IsPackage(parsed)
    BY <1>1, <2>1, PackageIs
  <2> HIDE DEF parsed
  <2>3. own \in [project : Text, path : Text] /\ HasOneForm(own) /\ (own.project = <<>> => ctx.project = <<>>)
    BY <2>2 DEF IsPackage, HasOneForm
  <2> HIDE DEF own
  <2> QED BY <1>1, <2>1, <2>3 DEF IsTargetOf, Target
<1> QED BY <1>2, <1>3

\* "package:name"
WithName(u, n) == u \o <<":">> \o n

LEMMA WithNameIs ==
  ASSUME NEW u \in Text, NEW n \in Text, ~Has(u, ":"), ~Has(n, ":")
  PROVE  /\ WithName(u, n) \in Text /\ Has(WithName(u, n), ":")
         /\ First(WithName(u, n), ":") = Last(WithName(u, n), ":")
         /\ Before(WithName(u, n), ":") = u /\ AfterLast(WithName(u, n), ":") = n
<1> DEFINE s == WithName(u, n)
           front == u \o <<":">>
<1>0. Len(u) \in Nat /\ Len(n) \in Nat
  BY DEF Text
<1>1. <<":">> \in Text
  BY CharactersAssumption DEF Text
<1>2. /\ front \in Text /\ Len(front) = Len(u) + 1 /\ front[Len(u) + 1] = ":"
      /\ \A i \in 1..Len(u) : front[i] = u[i]
  <2>1. /\ u \o <<":">> \in Text /\ Len(u \o <<":">>) = Len(u) + Len(<<":">>)
        /\ \A i \in 1..Len(u) : (u \o <<":">>)[i] = u[i]
        /\ \A i \in 1..Len(<<":">>) : (u \o <<":">>)[Len(u) + i] = <<":">>[i]
    BY <1>1, JoinedIs
  <2>2. Len(<<":">>) = 1 /\ <<":">>[1] = ":" /\ 1 \in 1..1
    OBVIOUS
  <2> QED BY <2>1, <2>2
<1>3. /\ s \in Text /\ Len(s) = Len(u) + 1 + Len(n) /\ s[Len(u) + 1] = ":"
      /\ \A i \in 1..Len(u) : s[i] = u[i]
      /\ \A i \in 1..Len(n) : s[Len(u) + 1 + i] = n[i]
  <2>1. s = front \o n
    BY DEF WithName
  <2> HIDE DEF front, s
  <2>2. /\ front \o n \in Text /\ Len(front \o n) = Len(front) + Len(n)
        /\ \A i \in 1..Len(front) : (front \o n)[i] = front[i]
        /\ \A i \in 1..Len(n) : (front \o n)[Len(front) + i] = n[i]
    BY <1>2, JoinedIs
  <2>3. s \in Text /\ Len(s) = Len(u) + 1 + Len(n) /\ s[Len(u) + 1] = ":"
    <3>1. Len(u) + 1 \in 1..Len(front)
      BY <1>0, <1>2
    <3> QED BY <1>2, <2>1, <2>2, <3>1
  <2>4. \A i \in 1..Len(u) : s[i] = u[i]
    <3> TAKE i \in 1..Len(u)
    <3>1. i \in 1..Len(front)
      BY <1>0, <1>2
    <3> QED BY <1>2, <2>1, <2>2, <3>1
  <2>5. \A i \in 1..Len(n) : s[Len(u) + 1 + i] = n[i]
    BY <1>2, <2>1, <2>2
  <2> QED BY <2>3, <2>4, <2>5
<1>4. (\A i \in 1..Len(u) : u[i] # ":") /\ (\A i \in 1..Len(n) : n[i] # ":")
  BY HasWhere
<1> HIDE DEF s
<1>5. Has(s, ":") /\ First(s, ":") = Len(u) + 1
  <2>1. Len(u) + 1 \in 1..Len(s) /\ \A j \in 1..(Len(u) + 1 - 1) : s[j] # ":"
    BY <1>0, <1>3, <1>4
  <2> QED BY <1>3, <2>1, FirstWhere
<1>6. Last(s, ":") = Len(u) + 1
  <2>1. ASSUME NEW j \in (Len(u) + 1 + 1)..Len(s) PROVE s[j] # ":"
    <3>1. j - (Len(u) + 1) \in 1..Len(n) /\ Len(u) + 1 + (j - (Len(u) + 1)) = j
      BY <1>0, <1>3
    <3>2. s[j] = n[j - (Len(u) + 1)]
      BY <1>3, <3>1
    <3> QED BY <1>4, <3>1, <3>2
  <2>2. Len(u) + 1 \in 1..Len(s)
    BY <1>0, <1>3
  <2> QED BY <1>3, <2>1, <2>2, LastWhere
<1>7. Before(s, ":") = u
  <2>1. /\ Before(s, ":") \in Text /\ Len(Before(s, ":")) = Len(u)
        /\ \A i \in 1..Len(Before(s, ":")) : Before(s, ":")[i] = s[i]
    BY <1>0, <1>3, <1>5, BeforeIs, SMTT(30)
  <2> QED BY <1>3, <2>1, SameText
<1>8. AfterLast(s, ":") = n
  <2>1. /\ AfterLast(s, ":") \in Text /\ Len(AfterLast(s, ":")) = Len(n)
        /\ \A i \in 1..Len(AfterLast(s, ":")) : AfterLast(s, ":")[i] = s[Len(u) + 1 + i]
    <3>1. /\ AfterLast(s, ":") \in Text /\ Len(AfterLast(s, ":")) = Len(s) - Last(s, ":")
          /\ \A i \in 1..Len(AfterLast(s, ":")) : AfterLast(s, ":")[i] = s[Last(s, ":") + i]
      BY <1>3, <1>5, AfterLastIs
    <3>2. Len(s) - (Len(u) + 1) = Len(n)
      BY <1>0, <1>3
    <3> QED BY <1>6, <3>1, <3>2
  <2> QED BY <1>3, <2>1, SameText
<1> QED BY <1>3, <1>5, <1>6, <1>7, <1>8 DEF s

LEMMA WithNameReads ==
  ASSUME NEW u \in Text, NEW n \in Text, ~Has(u, ":"), ~Has(n, ":"), NEW ctx
  PROVE  ParseFrom(WithName(u, n), ctx) =
           LET parsed == PackageParseFrom(u) IN
           IF u = <<>> THEN Target(ctx, n)
           ELSE IF parsed = Rejected THEN Rejected
           ELSE Target(IF parsed.project = <<>> THEN [parsed EXCEPT !.project = ctx.project] ELSE parsed, n)
<1> DEFINE s == WithName(u, n)
<1>1. Has(s, ":") /\ First(s, ":") = Last(s, ":") /\ Before(s, ":") = u /\ AfterLast(s, ":") = n
  BY WithNameIs
<1> HIDE DEF s
<1>2. ParseFrom(s, ctx) =
           LET parsed == PackageParseFrom(u) IN
           IF u = <<>> THEN Target(ctx, n)
           ELSE IF parsed = Rejected THEN Rejected
           ELSE Target(IF parsed.project = <<>> THEN [parsed EXCEPT !.project = ctx.project] ELSE parsed, n)
  BY <1>1 DEF ParseFrom
<1> QED BY <1>2 DEF s

\* The taken of a label behind its last slash.
LEMMA LastOfLong ==
  ASSUME NEW r \in Text, NEW path \in Text
  PROVE  /\ Has(Long(r, path), "/")
         /\ AfterLast(Long(r, path), "/") = (IF Has(path, "/") THEN AfterLast(path, "/") ELSE path)
<1> DEFINE s == Long(r, path)
<1>0. Len(r) \in Nat /\ Len(path) \in Nat
  BY DEF Text
<1>1. /\ s \in Text /\ Len(s) = Len(r) + 2 + Len(path)
      /\ s[Len(r) + 2] = "/"
      /\ \A i \in 1..Len(path) : s[Len(r) + 2 + i] = path[i]
  BY LongIs
<1> HIDE DEF s
<1>2. \A j \in (Len(r) + 2 + 1)..Len(s) : j - (Len(r) + 2) \in 1..Len(path) /\ s[j] = path[j - (Len(r) + 2)]
  <2> TAKE j \in (Len(r) + 2 + 1)..Len(s)
  <2>1. j - (Len(r) + 2) \in 1..Len(path) /\ Len(r) + 2 + (j - (Len(r) + 2)) = j
    BY <1>0, <1>1
  <2> QED BY <1>1, <2>1
<1>3. CASE Has(path, "/")
  <2>1. /\ Last(path, "/") \in 1..Len(path) /\ path[Last(path, "/")] = "/"
        /\ \A j \in (Last(path, "/") + 1)..Len(path) : path[j] # "/"
    BY <1>3, LastIs
  <2> DEFINE l == Last(path, "/")
  <2> HIDE DEF l
  <2>2. l \in 1..Len(path) /\ path[l] = "/" /\ \A j \in (l + 1)..Len(path) : path[j] # "/"
    BY <2>1 DEF l
  <2>3. Len(r) + 2 + l \in 1..Len(s) /\ s[Len(r) + 2 + l] = "/"
    BY <1>0, <1>1, <2>2
  <2>4. ASSUME NEW j \in (Len(r) + 2 + l + 1)..Len(s) PROVE s[j] # "/"
    <3>1. j \in (Len(r) + 2 + 1)..Len(s) /\ j - (Len(r) + 2) \in (l + 1)..Len(path)
      BY <1>0, <1>1, <2>2
    <3> QED BY <1>2, <2>2, <3>1
  <2>5. Has(s, "/") /\ Last(s, "/") = Len(r) + 2 + l
    BY <1>1, <2>3, <2>4, LastWhere
  <2>6. /\ AfterLast(s, "/") \in Text /\ Len(AfterLast(s, "/")) = Len(s) - Last(s, "/")
        /\ \A i \in 1..Len(AfterLast(s, "/")) : AfterLast(s, "/")[i] = s[Last(s, "/") + i]
    BY <1>1, <2>5, AfterLastIs
  <2>7. /\ AfterLast(path, "/") \in Text /\ Len(AfterLast(path, "/")) = Len(path) - l
        /\ \A i \in 1..Len(AfterLast(path, "/")) : AfterLast(path, "/")[i] = path[l + i]
    BY <1>3, AfterLastIs DEF l
  <2>8. Len(s) - (Len(r) + 2 + l) = Len(path) - l
    BY <1>0, <1>1, <2>2
  <2>9. Len(AfterLast(s, "/")) = Len(AfterLast(path, "/"))
    BY <2>5, <2>6, <2>7, <2>8
  <2>10. ASSUME NEW i \in 1..Len(AfterLast(s, "/")) PROVE AfterLast(s, "/")[i] = AfterLast(path, "/")[i]
    <3>1. AfterLast(s, "/")[i] = s[Len(r) + 2 + l + i]
      BY <2>5, <2>6
    <3>2. AfterLast(path, "/")[i] = path[l + i]
      BY <2>7, <2>9
    <3>3. l + i \in 1..Len(path) /\ Len(r) + 2 + (l + i) = Len(r) + 2 + l + i
      BY <1>0, <2>2, <2>7, <2>9
    <3> QED BY <1>1, <3>1, <3>2, <3>3
  <2>11. AfterLast(s, "/") = AfterLast(path, "/")
    BY <2>6, <2>7, <2>9, <2>10, SameText
  <2> QED BY <1>3, <2>5, <2>11 DEF s
<1>4. CASE ~Has(path, "/")
  <2>1. \A i \in 1..Len(path) : path[i] # "/"
    BY <1>4, HasWhere
  <2>2. Len(r) + 2 \in 1..Len(s) /\ \A j \in (Len(r) + 2 + 1)..Len(s) : s[j] # "/"
    BY <1>0, <1>1, <1>2, <2>1
  <2>3. Has(s, "/") /\ Last(s, "/") = Len(r) + 2
    BY <1>1, <2>2, LastWhere
  <2>4. /\ AfterLast(s, "/") \in Text /\ Len(AfterLast(s, "/")) = Len(s) - Last(s, "/")
        /\ \A i \in 1..Len(AfterLast(s, "/")) : AfterLast(s, "/")[i] = s[Last(s, "/") + i]
    BY <1>1, <2>3, AfterLastIs
  <2>5. Len(s) - (Len(r) + 2) = Len(path)
    BY <1>0, <1>1
  <2>6. AfterLast(s, "/") = path
    <3>1. Len(AfterLast(s, "/")) = Len(path)
      BY <2>3, <2>4, <2>5
    <3>2. \A i \in 1..Len(AfterLast(s, "/")) : AfterLast(s, "/")[i] = path[i]
      BY <1>1, <2>3, <2>4, <3>1
    <3> QED BY <2>4, <3>1, <3>2, SameText
  <2> QED BY <1>4, <2>3, <2>6 DEF s
<1> QED BY <1>3, <1>4

\* What the repository of a spelling stands for.
LEMMA RepositoryIs ==
  ASSUME NEW ctx, IsPackage(ctx), NEW p, IsPackage(p), p.project = <<>> => ctx.project = <<>>,
         NEW r \in Repository(p, ctx)
  PROVE  /\ IsRepository(r)
         /\ LET q == IF r = <<"@">> THEN <<>> ELSE Before(r, "~") IN
            (IF q = <<>> THEN ctx.project ELSE q) = p.project
<1>0. p.project \in Text /\ ctx.project \in Text
  BY DEF IsPackage
<1>1. <<>> \in Text /\ (\A c : ~Has(<<>>, c)) /\ <<>> # <<"@">>
  BY DEF Text, Has
<1>2. Before(<<>>, "~") = <<>>
  BY <1>1 DEF Before
<1>3. CASE r = <<>> /\ ctx.project = p.project
  BY <1>1, <1>2, <1>3 DEF IsRepository
<1>4. CASE p.project = <<>> /\ r = <<"@">>
  <2>1. <<"@">> \in Text /\ ~Has(<<"@">>, "/") /\ ~Has(<<"@">>, ":") /\ <<"@">>[1] = "@"
    BY CharactersAssumption DEF Text, Has
  <2> QED BY <1>4, <2>1 DEF IsRepository
<1>5. CASE p.project # <<>> /\ r = p.project
  <2>1. /\ p.project[1] = "@" /\ p.project # <<"@">>
        /\ ~Has(p.project, "/") /\ ~Has(p.project, ":") /\ ~Has(p.project, "~")
    BY <1>5 DEF IsPackage, HasOneForm
  <2>2. Before(r, "~") = p.project
    BY <1>5, <2>1 DEF Before
  <2> QED BY <1>0, <1>5, <2>1, <2>2 DEF IsRepository
<1>6. ASSUME p.project # <<>>, NEW v \in Versions, r = p.project \o v
      PROVE  IsRepository(r) /\ r # <<"@">> /\ Before(r, "~") = p.project
  <2> DEFINE u == p.project
  <2>1. u \in Text /\ u # <<>> /\ u[1] = "@" /\ ~Has(u, "/") /\ ~Has(u, ":") /\ ~Has(u, "~")
    BY <1>0, <1>6 DEF IsPackage, HasOneForm
  <2>2. v \in Text /\ v # <<>> /\ v[1] = "~" /\ ~Has(v, "/") /\ ~Has(v, ":")
    BY VersionsAssumption
  <2> HIDE DEF u
  <2>3. Len(u) \in Nat /\ Len(v) \in Nat /\ 1 \in 1..Len(u) /\ 1 \in 1..Len(v)
    BY <2>1, <2>2 DEF Text
  <2>4. /\ u \o v \in Text /\ Len(u \o v) = Len(u) + Len(v)
        /\ \A i \in 1..Len(u) : (u \o v)[i] = u[i]
        /\ \A i \in 1..Len(v) : (u \o v)[Len(u) + i] = v[i]
    BY <2>1, <2>2, JoinedIs
  <2>5. r = u \o v
    BY <1>6 DEF u
  <2>6. /\ r \in Text /\ Len(r) = Len(u) + Len(v) /\ \A i \in 1..Len(u) : r[i] = u[i]
        /\ \A i \in 1..Len(v) : r[Len(u) + i] = v[i]
    BY <2>4, <2>5
  <2>7. ASSUME NEW c \in {"/", ":"} PROVE ~Has(r, c)
    <3>1. (\A i \in 1..Len(u) : u[i] # c) /\ (\A i \in 1..Len(v) : v[i] # c)
      BY <2>1, <2>2, HasWhere
    <3>2. ASSUME NEW i \in 1..Len(r) PROVE r[i] # c
      <4>1. CASE i <= Len(u)
        BY <2>3, <2>6, <3>1, <4>1
      <4>2. CASE ~(i <= Len(u))
        <5>1. i - Len(u) \in 1..Len(v) /\ Len(u) + (i - Len(u)) = i
          BY <2>3, <2>6, <4>2
        <5> QED BY <2>6, <3>1, <5>1
      <4> QED BY <4>1, <4>2
    <3> QED BY <2>6, <3>2, HasWhere
  <2>8. r[1] = "@" /\ r # <<"@">>
    <3>1. r[1] = u[1] /\ Len(r) > 1
      BY <2>3, <2>6
    <3>2. r # <<"@">>
      <4> SUFFICES ASSUME r = <<"@">> PROVE FALSE
        OBVIOUS
      <4>1. Len(r) = 1
        OBVIOUS
      <4> QED BY <3>1, <4>1
    <3> QED BY <2>1, <3>1, <3>2
  <2>9. Before(r, "~") = u
    <3>1. Len(u) + 1 \in 1..Len(r) /\ r[Len(u) + 1] = "~"
      BY <2>2, <2>3, <2>6
    <3>2. \A j \in 1..(Len(u) + 1 - 1) : r[j] # "~"
      <4>1. \A j \in 1..Len(u) : u[j] # "~"
        BY <2>1, HasWhere
      <4> QED BY <2>3, <2>6, <4>1
    <3>3. Has(r, "~") /\ First(r, "~") = Len(u) + 1
      <4> DEFINE k == Len(u) + 1
      <4>1. r \in Text /\ k \in 1..Len(r) /\ r[k] = "~" /\ \A j \in 1..(k - 1) : r[j] # "~"
        BY <2>6, <3>1, <3>2
      <4> HIDE DEF k
      <4>2. Has(r, "~") /\ First(r, "~") = k
        BY <4>1, FirstWhere
      <4> QED BY <4>2 DEF k
    <3>4. Before(r, "~") \in Text /\ Len(Before(r, "~")) = First(r, "~") - 1
      BY <2>6, <3>3, BeforeIs
    <3>5. Len(Before(r, "~")) = Len(u)
      BY <2>3, <3>3, <3>4
    <3>6. \A i \in 1..Len(Before(r, "~")) : Before(r, "~")[i] = r[i]
      BY <2>6, BeforeIs
    <3> QED BY <2>1, <2>6, <3>4, <3>5, <3>6, SameText
  <2> QED BY <2>6, <2>7, <2>8, <2>9 DEF IsRepository, u
<1>7. \/ r = <<>> /\ ctx.project = p.project
      \/ p.project = <<>> /\ r = <<"@">>
      \/ p.project # <<>> /\ r = p.project
      \/ p.project # <<>> /\ \E v \in Versions : r = p.project \o v
  BY DEF Repository
<1> QED BY <1>3, <1>4, <1>5, <1>6, <1>7

\* A label with a path is read as the package it names.
LEMMA LongNames ==
  ASSUME NEW ctx, IsPackage(ctx), NEW p, IsPackage(p), p.project = <<>> => ctx.project = <<>>,
         NEW r \in Repository(p, ctx)
  PROVE  LET parsed == PackageParseFrom(Long(r, p.path)) IN
         /\ parsed # Rejected
         /\ (IF parsed.project = <<>> THEN [parsed EXCEPT !.project = ctx.project] ELSE parsed) = p
<1> DEFINE q == IF r = <<"@">> THEN <<>> ELSE Before(r, "~")
           parsed == PackageParseFrom(Long(r, p.path))
<1>1. IsRepository(r) /\ (IF q = <<>> THEN ctx.project ELSE q) = p.project
  BY RepositoryIs
<1>2. IsPath(p.path)
  BY DEF IsPath, IsPackage, HasOneForm
<1>3. parsed = BazelPackage(q, p.path)
  BY <1>1, <1>2, LongReadsBack
<1>4. q \in Text
  <2>1. Before(r, "~") \in Text
    BY <1>1, BeforeIs DEF IsRepository
  <2> QED BY <2>1 DEF Text
<1> HIDE DEF q, parsed
<1>5. parsed # Rejected
  BY <1>2, <1>3, <1>4, RejectedAssumption DEF BazelPackage, IsPath
<1>6. p = [project |-> p.project, path |-> p.path]
  BY DEF IsPackage
<1>7. (IF parsed.project = <<>> THEN [parsed EXCEPT !.project = ctx.project] ELSE parsed) = p
  <2>1. parsed = [project |-> q, path |-> p.path]
    BY <1>3 DEF BazelPackage
  <2>2. CASE q = <<>>
    BY <1>1, <1>6, <2>1, <2>2
  <2>3. CASE q # <<>>
    BY <1>1, <1>6, <2>1, <2>3
  <2> QED BY <2>2, <2>3
<1> QED BY <1>5, <1>7 DEF parsed

(* Every spelling of a target is read as the target.                       *)
THEOREM SpellingsAreRead ==
  ASSUME NEW ctx, IsPackage(ctx), NEW t, IsTargetOf(t, ctx), t.target_name # <<>>, NEW s \in Spellings(t, ctx)
  PROVE  ParseFrom(s, ctx) = t
<1> DEFINE p == t.package
           n == t.target_name
<1>1. IsPackage(p) /\ n \in Text /\ ~Has(n, ":") /\ (p.project = <<>> => ctx.project = <<>>)
  BY DEF IsTargetOf, IsPackage
<1>2. p.path \in Text /\ p.project \in Text /\ ~Has(p.path, ":")
  BY <1>1 DEF IsPackage, HasOneForm
<1>3. t = Target(p, n)
  BY DEF IsTargetOf, Target
<1>4. \A r \in Repository(p, ctx) :
        /\ Long(r, p.path) \in Text /\ Long(r, p.path) # <<>> /\ ~Has(Long(r, p.path), ":")
        /\ Has(Long(r, p.path), "/") /\ AfterLast(Long(r, p.path), "/") = LastSegment(p.path)
        /\ LET parsed == PackageParseFrom(Long(r, p.path)) IN
           /\ parsed # Rejected
           /\ (IF parsed.project = <<>> THEN [parsed EXCEPT !.project = ctx.project] ELSE parsed) = p
  <2> TAKE r \in Repository(p, ctx)
  <2>1. r \in Text /\ ~Has(r, ":")
    BY <1>1, RepositoryIs DEF IsRepository
  <2>2. Long(r, p.path) \in Text /\ Len(Long(r, p.path)) = Len(r) + 2 + Len(p.path) /\ ~Has(Long(r, p.path), ":")
    BY <1>2, <2>1, LongIs, LongHas
  <2>4. Has(Long(r, p.path), "/") /\ AfterLast(Long(r, p.path), "/") = LastSegment(p.path)
    BY <1>2, <2>1, LastOfLong DEF LastSegment
  <2>5. Long(r, p.path) # <<>>
    BY <2>4 DEF Has
  <2> HIDE DEF p
  <2> QED BY <1>1, <2>2, <2>4, <2>5, LongNames
<1> HIDE DEF p, n
<1>5. ASSUME NEW r \in Repository(p, ctx), s = Long(r, p.path) \o <<":">> \o n PROVE ParseFrom(s, ctx) = t
  <2> DEFINE u == Long(r, p.path)
  <2>1. /\ u \in Text /\ u # <<>> /\ ~Has(u, ":")
        /\ LET parsed == PackageParseFrom(u) IN
           /\ parsed # Rejected
           /\ (IF parsed.project = <<>> THEN [parsed EXCEPT !.project = ctx.project] ELSE parsed) = p
    BY <1>4
  <2> HIDE DEF u
  <2>2. s = WithName(u, n)
    BY <1>5 DEF WithName, u
  <2> QED BY <1>1, <1>3, <2>1, <2>2, WithNameReads
<1>6. ASSUME NEW r \in Repository(p, ctx), s = Long(r, p.path), n = LastSegment(p.path) PROVE ParseFrom(s, ctx) = t
  <2>1. /\ s \in Text /\ s # <<>> /\ ~Has(s, ":") /\ Has(s, "/") /\ AfterLast(s, "/") = n
        /\ LET parsed == PackageParseFrom(s) IN
           /\ parsed # Rejected
           /\ (IF parsed.project = <<>> THEN [parsed EXCEPT !.project = ctx.project] ELSE parsed) = p
    BY <1>4, <1>6
  <2>2. Shorthand(s) = [package |-> s, target |-> n]
    BY <2>1 DEF Shorthand
  <2> QED BY <1>3, <2>1, <2>2 DEF ParseFrom
<1>7. ASSUME p.path = <<>>, p.project = <<"@">> \o n, s = p.project PROVE ParseFrom(s, ctx) = t
  <2>1. <<"@">> \in Text /\ Len(<<"@">>) = 1 /\ <<"@">>[1] = "@"
    BY CharactersAssumption DEF Text
  <2>2. s \in Text /\ Len(s) = 1 + Len(n) /\ s[1] = "@" /\ \A i \in 1..Len(n) : s[1 + i] = n[i]
    <3> DEFINE at == <<"@">>
    <3>1. at \in Text /\ Len(at) = 1 /\ at[1] = "@" /\ 1 \in 1..Len(at)
      BY <2>1
    <3>2. s = at \o n
      BY <1>7
    <3> HIDE DEF at
    <3>3. /\ at \o n \in Text /\ Len(at \o n) = Len(at) + Len(n)
          /\ \A i \in 1..Len(at) : (at \o n)[i] = at[i]
          /\ \A i \in 1..Len(n) : (at \o n)[Len(at) + i] = n[i]
      BY <1>1, <3>1, JoinedIs
    <3> QED BY <3>1, <3>2, <3>3
  <2>3. s # <<>> /\ s # <<"@">> /\ ~Has(s, "/") /\ ~Has(s, ":") /\ ~Has(s, "~")
    BY <1>1, <1>7, <2>2 DEF IsPackage, HasOneForm
  <2>4. Len(n) \in Nat /\ Len(n) # 0
    <3>1. n # <<>>
      BY DEF n
    <3> QED BY <1>1, <3>1 DEF Text
  <2>5. Tail(s) = n
    <3>1. Tail(s) \in Text /\ Len(Tail(s)) = Len(s) - 1 /\ \A i \in 1..Len(Tail(s)) : Tail(s)[i] = s[i + 1]
      <4>1. s \in Seq(Characters) /\ s # <<>>
        BY <2>2, <2>3 DEF Text
      <4> QED BY <4>1, HeadTailProperties DEF Text
    <3>2. Len(Tail(s)) = Len(n)
      BY <2>2, <2>4, <3>1
    <3>3. \A i \in 1..Len(n) : s[i + 1] = n[i]
      BY <2>2, <2>4
    <3> QED BY <1>1, <3>1, <3>2, <3>3, SameText
  <2>6. Shorthand(s) = [package |-> s, target |-> n]
    BY <2>2, <2>3, <2>5 DEF Shorthand
  <2>7. PackageParseFrom(s) = BazelPackage(s, <<>>)
    <3>1. BeforeLast(s, ":") = s /\ Before(s, "/") = s /\ Before(s, "~") = s
      BY <2>3 DEF BeforeLast, Before
    <3>2. ~IsShort(s)
      BY <2>2, <2>3, <2>4 DEF IsShort
    <3>3. SubSeq(s, Len(s) + 1, Len(s)) = <<>>
      <4>1. Len(s) + 1 \in Int /\ Len(s) \in Int /\ Len(s) < Len(s) + 1
        BY <2>2, <2>4
      <4> QED BY <4>1, SubSeqEmpty
    <3>4. Strip(<<>>) = <<>>
      BY DEF Strip
    <3>5. Strip(SubSeq(s, Len(s) + 1, Len(s))) = <<>>
      BY <3>3, <3>4
    <3>6. ~\E i \in 2..Len(<<>>) : <<>>[i - 1] = "/" /\ <<>>[i] = "/"
      OBVIOUS
    <3> QED BY <2>2, <2>3, <3>1, <3>2, <3>5, <3>6 DEF PackageParseFrom
  <2>8. BazelPackage(s, <<>>) # Rejected /\ BazelPackage(s, <<>>).project = s /\ BazelPackage(s, <<>>) = p
    <3>1. p = [project |-> p.project, path |-> p.path]
      BY <1>1 DEF IsPackage
    <3> QED BY <1>1, <1>7, <3>1, RejectedAssumption DEF BazelPackage, IsPackage
  <2> QED BY <1>3, <2>3, <2>6, <2>7, <2>8 DEF ParseFrom
<1>8. ASSUME p = ctx, s = <<":">> \o n PROVE ParseFrom(s, ctx) = t
  <2>1. <<>> \in Text /\ ~Has(<<>>, ":")
    BY DEF Text, Has
  <2>2. s = WithName(<<>>, n)
    BY <1>8, ConcatEmptySeq, CharactersAssumption DEF WithName
  <2>3. ParseFrom(s, ctx) = Target(ctx, n)
    BY <1>1, <2>1, <2>2, WithNameReads
  <2> QED BY <1>3, <1>8, <2>3
<1>9. ASSUME p = ctx, ~Has(n, "/"), ~Has(n, "@"), s = n PROVE ParseFrom(s, ctx) = t
  <2>1. ~(s # <<>> /\ s[1] = "@")
    <3>1. s # <<>> => 1 \in DOMAIN s
      BY <1>1, <1>9 DEF Text
    <3> QED BY <1>9, <3>1 DEF Has
  <2>2. Shorthand(s) = [package |-> <<>>, target |-> s]
    BY <1>9, <2>1 DEF Shorthand
  <2> QED BY <1>1, <1>3, <1>9, <2>2 DEF ParseFrom
<1>10. \/ \E r \in Repository(p, ctx) : s = Long(r, p.path) \o <<":">> \o n
       \/ n = LastSegment(p.path) /\ \E r \in Repository(p, ctx) : s = Long(r, p.path)
       \/ p.path = <<>> /\ p.project = <<"@">> \o n /\ s = p.project
       \/ p = ctx /\ s = <<":">> \o n
       \/ p = ctx /\ ~Has(n, "/") /\ ~Has(n, "@") /\ s = n
  BY DEF Spellings, Long, p, n
<1> QED BY <1>5, <1>6, <1>7, <1>8, <1>9, <1>10

\* What ToString() prints is such a spelling, and can be read.
LEMMA PrintedIs ==
  ASSUME NEW ctx, NEW t, IsTargetOf(t, ctx)
  PROVE  /\ ToString(t) \in Text /\ NamesRepository(ToString(t))
         /\ t.target_name # <<>> => ToString(t) \in Spellings(t, ctx)
<1> DEFINE p == t.package
           n == t.target_name
           long == Long(p.project, p.path)
<1>1. /\ p.path \in Text /\ p.project \in Text /\ n \in Text /\ ~Has(n, ":") /\ ~Has(p.path, ":")
      /\ p.project # <<>> => /\ p.project[1] = "@" /\ p.project # <<"@">>
                             /\ ~Has(p.project, "/") /\ ~Has(p.project, ":") /\ ~Has(p.project, "~")
  BY DEF IsTargetOf, HasOneForm
<1>2. p.project \in Repository(p, ctx)
  BY DEF Repository
<1>3. PackageToString(p) = long
  BY DEF PackageToString, Long
<1>4. /\ long \in Text /\ Len(long) = Len(p.project) + 2 + Len(p.path) /\ ~Has(long, ":")
      /\ \A i \in 1..Len(p.project) : long[i] = p.project[i]
      /\ long[Len(p.project) + 1] = "/"
  <2>1. ~Has(p.project, ":")
    BY <1>1 DEF Has
  <2> HIDE DEF p
  <2> QED BY <1>1, <2>1, LongIs, LongHas
<1>5. ToString(t) = IF PackageLastElement(p) = n THEN IF p.path = <<>> THEN p.project ELSE long
                    ELSE WithName(long, n)
  BY <1>3 DEF ToString, WithName
\* What begins like the project can be read.
<1>6. ASSUME NEW s \in Text, s[1] = "@" => p.project # <<>>, Len(s) >= Len(p.project),
             \A i \in 1..Len(p.project) : s[i] = p.project[i]
      PROVE  NamesRepository(s)
  <2> SUFFICES ASSUME s[1] = "@" PROVE s[2] # "~"
    BY DEF NamesRepository
  <2>1. p.project # <<>> /\ p.project[1] = "@" /\ p.project # <<"@">> /\ \A i \in 1..Len(p.project) : p.project[i] # "~"
    BY <1>1, <1>6, HasWhere
  <2> DEFINE u == p.project
  <2>2. u \in Text /\ u # <<>> /\ u[1] = "@" /\ u # <<"@">> /\ \A i \in 1..Len(u) : u[i] # "~" /\ s[i] = u[i]
    BY <1>1, <1>6, <2>1
  <2> HIDE DEF u
  <2>3. 2 \in 1..Len(u)
    <3>1. Len(u) \in Nat /\ Len(u) # 0
      BY <2>2 DEF Text
    <3>2. Len(u) # 1
      <4> SUFFICES ASSUME Len(u) = 1 PROVE FALSE
        OBVIOUS
      <4>1. u = <<"@">>
        BY <2>2 DEF Text
      <4> QED BY <2>2, <4>1
    <3> DEFINE k == Len(u)
    <3>3. k \in Nat /\ k # 0 /\ k # 1
      BY <3>1, <3>2
    <3> HIDE DEF k
    <3>4. 2 \in 1..k
      BY <3>3
    <3> QED BY <3>4 DEF k
  <2> QED BY <2>2, <2>3
<1>7. NamesRepository(p.project)
  <2>1. p.project[1] = "@" => p.project # <<>> \/ p.project = <<>>
    OBVIOUS
  <2>2. CASE p.project = <<>>
    BY <2>2 DEF NamesRepository
  <2>3. CASE p.project # <<>>
    <3>1. Len(p.project) \in Nat
      BY <1>1 DEF Text
    <3> QED BY <1>1, <1>6, <2>3, <3>1
  <2> QED BY <2>2, <2>3
<1>8. long[1] = "@" => p.project # <<>>
  <2> SUFFICES ASSUME p.project = <<>> PROVE long[1] # "@"
    OBVIOUS
  <2>1. Len(p.project) = 0
    OBVIOUS
  <2>2. long[1] = "/"
    <3> HIDE DEF long, p
    <3> QED BY <1>4, <2>1
  <2> QED BY <2>2
<1>9. NamesRepository(long)
  <2>1. Len(long) >= Len(p.project)
    <3>1. Len(p.project) \in Nat /\ Len(p.path) \in Nat
      BY <1>1 DEF Text
    <3> DEFINE k == Len(p.project)
               m == Len(p.path)
    <3>2. k \in Nat /\ m \in Nat /\ Len(long) = k + 2 + m
      BY <1>4, <3>1
    <3> HIDE DEF k, m, long
    <3>3. Len(long) >= k
      BY <3>2
    <3> QED BY <3>3 DEF k
  <2> HIDE DEF long, p
  <2> QED BY <1>4, <1>6, <1>8, <2>1
<1>10. WithName(long, n) \in Text /\ NamesRepository(WithName(long, n))
  <2> DEFINE s == WithName(long, n)
  <2>1. s \in Text /\ Before(s, ":") = long /\ Has(s, ":")
    <3> HIDE DEF long, n
    <3> QED BY <1>1, <1>4, WithNameIs
  <2>2. Len(long) <= Len(s) /\ \A i \in 1..Len(long) : long[i] = s[i]
    <3> HIDE DEF s, long
    <3> QED BY <2>1, BeforeIs
  <2>3. Len(long) > 1 /\ Len(long) \in Nat /\ Len(s) \in Nat
    <3>1. Len(p.project) \in Nat /\ Len(p.path) \in Nat
      BY <1>1 DEF Text
    <3>2. Len(s) \in Nat
      BY <2>1 DEF Text
    <3> DEFINE k == Len(p.project)
               m == Len(p.path)
    <3>3. k \in Nat /\ m \in Nat /\ Len(long) = k + 2 + m
      BY <1>4, <3>1
    <3> HIDE DEF k, m, long, s
    <3>4. Len(long) > 1 /\ Len(long) \in Nat
      BY <3>3
    <3> QED BY <3>2, <3>4
  <2>4. long[1] = s[1] /\ long[2] = s[2]
    <3> HIDE DEF long, s
    <3> QED BY <2>2, <2>3
  <2> HIDE DEF long, s
  <2>5. NamesRepository(s)
    BY <1>9, <2>3, <2>4 DEF NamesRepository
  <2> QED BY <2>1, <2>5 DEF s
<1>11. ASSUME n # <<>> PROVE ToString(t) \in Spellings(t, ctx)
  <2>1. CASE PackageLastElement(p) # n
    <3>1. ToString(t) = long \o <<":">> \o n
      BY <1>5, <2>1 DEF WithName
    <3> QED BY <1>2, <3>1 DEF Spellings, Long
  <2>2. CASE PackageLastElement(p) = n /\ p.path # <<>>
    <3>1. ToString(t) = long
      BY <1>5, <2>2
    <3>2. n = LastSegment(p.path)
      BY <2>2 DEF PackageLastElement, LastSegment
    <3> QED BY <1>2, <2>2, <3>1, <3>2 DEF Spellings, Long
  <2>3. CASE PackageLastElement(p) = n /\ p.path = <<>>
    <3>1. ToString(t) = p.project
      BY <1>5, <2>3
    <3>2. ~Has(p.path, "/")
      BY <2>3 DEF Has
    <3>3. p.project # <<>> /\ n = Tail(p.project)
      BY <1>11, <2>3, <3>2 DEF PackageLastElement
    <3>4. p.project = <<"@">> \o n
      <4> DEFINE u == p.project
      <4>1. u \in Text /\ u # <<>> /\ u[1] = "@" /\ n = Tail(u)
        BY <1>1, <3>3
      <4> HIDE DEF u, n
      <4>2. u \in Seq(Characters) /\ Len(u) \in Nat /\ Len(u) # 0
        BY <4>1 DEF Text
      <4>3. n \in Text /\ Len(n) = Len(u) - 1 /\ \A i \in 1..Len(n) : n[i] = u[i + 1]
        BY <4>1, <4>2, HeadTailProperties DEF Text
      <4> DEFINE at == <<"@">>
      <4>4. at \in Text /\ Len(at) = 1 /\ at[1] = "@" /\ 1 \in 1..Len(at)
        BY CharactersAssumption DEF Text
      <4> HIDE DEF at
      <4>5. /\ at \o n \in Text /\ Len(at \o n) = Len(at) + Len(n)
            /\ \A i \in 1..Len(at) : (at \o n)[i] = at[i]
            /\ \A i \in 1..Len(n) : (at \o n)[Len(at) + i] = n[i]
        BY <4>3, <4>4, JoinedIs
      <4>6. Len(at \o n) = Len(u)
        BY <4>2, <4>3, <4>4, <4>5
      <4>7. ASSUME NEW i \in 1..Len(u) PROVE (at \o n)[i] = u[i]
        <5>1. CASE i = 1
          BY <4>1, <4>4, <4>5, <5>1
        <5>2. CASE i # 1
          <6>1. i - 1 \in 1..Len(n) /\ 1 + (i - 1) = i /\ (i - 1) + 1 = i
            BY <4>2, <4>3, <5>2
          <6> QED BY <4>3, <4>4, <4>5, <6>1
        <5> QED BY <5>1, <5>2
      <4>8. at \o n = u
        BY <4>1, <4>5, <4>6, <4>7, SameText
      <4> QED BY <4>8 DEF at, u
    <3> QED BY <2>3, <3>1, <3>4 DEF Spellings
  <2> QED BY <2>1, <2>2, <2>3
<1>12. ToString(t) \in {p.project, long, WithName(long, n)}
  BY <1>5
<1> HIDE DEF long, p
<1>13. ToString(t) \in Text /\ NamesRepository(ToString(t))
  BY <1>1, <1>4, <1>7, <1>9, <1>10, <1>12
<1> QED BY <1>11, <1>13

(* What is printed says which target it is: two targets that can be named *)
(* in a package are never printed alike.                                   *)
THEOREM PrintedTargetsDiffer ==
  ASSUME NEW ctx, IsPackage(ctx),
         NEW t, IsTargetOf(t, ctx), t.target_name # <<>>,
         NEW u, IsTargetOf(u, ctx), u.target_name # <<>>,
         ToString(t) = ToString(u)
  PROVE  t = u
<1>1. ToString(t) \in Spellings(t, ctx) /\ ToString(u) \in Spellings(u, ctx)
  BY PrintedIs
<1>2. ParseFrom(ToString(t), ctx) = t
  BY <1>1, SpellingsAreRead
<1>3. ParseFrom(ToString(u), ctx) = u
  BY <1>1, SpellingsAreRead
<1> QED BY <1>2, <1>3

-----------------------------------------------------------------------------
(* Reading and printing.                                                   *)

\* What the name of a rule is read as.
LEMMA QualifiedIs ==
  ASSUME NEW name \in Text, NEW ctx, IsPackage(ctx), \A i \in 2..Len(name) : name[i] # ":"
  PROVE  /\ \/ QualifiedTarget(ctx, name) = Rejected
            \/ /\ IsTargetOf(QualifiedTarget(ctx, name), ctx)
               /\ QualifiedTarget(ctx, name).package = ctx
         /\ \A n \in Text : (n # <<>> /\ ~Has(n, ":") /\ name \in {n, <<":">> \o n})
                             => QualifiedTarget(ctx, name) = Target(ctx, n)
<1> DEFINE bare == IF name # <<>> /\ name[1] = ":" THEN Tail(name) ELSE name
<1>0. Len(name) \in Nat /\ name \in Seq(Characters)
  BY DEF Text
<1>1. QualifiedTarget(ctx, name) = IF bare = <<>> THEN Rejected ELSE Target(ctx, bare)
  BY DEF QualifiedTarget
<1>2. bare \in Text /\ ~Has(bare, ":")
  <2>1. CASE name # <<>> /\ name[1] = ":"
    <3>1. /\ Tail(name) \in Text /\ Len(Tail(name)) = Len(name) - 1
          /\ \A i \in 1..Len(Tail(name)) : Tail(name)[i] = name[i + 1]
      BY <1>0, <2>1, HeadTailProperties DEF Text
    <3>2. \A i \in 1..Len(Tail(name)) : i + 1 \in 2..Len(name)
      BY <1>0, <3>1
    <3>3. \A i \in 1..Len(Tail(name)) : Tail(name)[i] # ":"
      BY <3>1, <3>2
    <3>4. ~Has(Tail(name), ":")
      BY <3>1, <3>3, HasWhere
    <3> QED BY <2>1, <3>1, <3>4
  <2>2. CASE ~(name # <<>> /\ name[1] = ":")
    <3>1. bare = name
      BY <2>2
    <3>2. \A i \in 1..Len(name) : i = 1 \/ i \in 2..Len(name)
      BY <1>0
    <3>4. ~Has(name, ":")
      <4> SUFFICES ASSUME NEW i \in 1..Len(name) PROVE name[i] # ":"
        BY HasWhere
      <4>1. name # <<>>
        <5> SUFFICES ASSUME name = <<>> PROVE FALSE
          OBVIOUS
        <5>1. Len(name) = 0
          OBVIOUS
        <5> QED BY <5>1
      <4> QED BY <2>2, <3>2, <4>1
    <3> QED BY <3>1, <3>4
  <2> QED BY <2>1, <2>2
<1>3. ASSUME NEW n \in Text, n # <<>>, ~Has(n, ":"), name \in {n, <<":">> \o n}
      PROVE  bare = n
  <2>1. CASE name = <<":">> \o n
    <3> DEFINE colon == <<":">>
    <3>1. colon \in Text /\ Len(colon) = 1 /\ colon[1] = ":" /\ 1 \in 1..Len(colon)
      BY CharactersAssumption DEF Text
    <3> HIDE DEF colon
    <3>2. /\ colon \o n \in Text /\ Len(colon \o n) = Len(colon) + Len(n)
          /\ \A i \in 1..Len(colon) : (colon \o n)[i] = colon[i]
          /\ \A i \in 1..Len(n) : (colon \o n)[Len(colon) + i] = n[i]
      BY <3>1, JoinedIs
    <3>3. name = colon \o n
      BY <2>1 DEF colon
    <3>4. Len(n) \in Nat /\ Len(name) = 1 + Len(n) /\ name[1] = ":" /\ \A i \in 1..Len(n) : name[1 + i] = n[i]
      BY <3>1, <3>2, <3>3 DEF Text
    <3>5. name # <<>>
      <4> SUFFICES ASSUME name = <<>> PROVE FALSE
        OBVIOUS
      <4>1. Len(name) = 0
        OBVIOUS
      <4> QED BY <3>4, <4>1
    <3>6. /\ Tail(name) \in Text /\ Len(Tail(name)) = Len(name) - 1
          /\ \A i \in 1..Len(Tail(name)) : Tail(name)[i] = name[i + 1]
      BY <1>0, <3>5, HeadTailProperties DEF Text
    <3>7. Len(Tail(name)) = Len(n)
      BY <3>4, <3>6
    <3>8. ASSUME NEW i \in 1..Len(Tail(name)) PROVE Tail(name)[i] = n[i]
      <4>1. Tail(name)[i] = name[i + 1] /\ name[1 + i] = n[i] /\ i + 1 = 1 + i
        BY <3>4, <3>6, <3>7
      <4> QED BY <4>1
    <3>9. Tail(name) = n
      BY <3>6, <3>7, <3>8, SameText
    <3> QED BY <3>4, <3>5, <3>9
  <2>2. CASE name = n
    <3>1. name[1] # ":"
      <4>1. 1 \in 1..Len(name)
        BY <1>0, <1>3, <2>2
      <4> QED BY <1>3, <2>2, <4>1, HasWhere
    <3> QED BY <2>2, <3>1
  <2> QED BY <1>3, <2>1, <2>2
<1> HIDE DEF bare
<1>4. bare # <<>> => IsTargetOf(Target(ctx, bare), ctx) /\ Target(ctx, bare).package = ctx
  BY <1>2 DEF IsTargetOf, Target, IsPackage
<1> QED BY <1>1, <1>3, <1>4

(* What is read next means the target that it was written for.             *)
MeansTarget ==
  target = Nothing /\ meant # Unknown =>
    /\ IsTargetOf(meant, context)
    /\ kind = "label" => meant.target_name = <<>> \/ text \in Spellings(meant, context)
    /\ kind = "name" => context = meant.package /\ text \in {meant.target_name, <<":">> \o meant.target_name}

LabelInv ==
  /\ text \in Text /\ IsPackage(context)
  /\ kind \in {"label", "name"}
  /\ kind = "label" => NamesRepository(text)
  /\ kind = "name" => \A i \in 2..Len(text) : text[i] # ":"
  /\ IsTarget => IsTargetOf(target, context)
  /\ MeansTarget
  /\ LabelsKeepTheirTarget

LEMMA InitLabelInv == Init => LabelInv
<1> SUFFICES ASSUME Init PROVE LabelInv
  OBVIOUS
<1>1. PICK l \in Written : /\ text = l.text /\ kind = l.kind /\ context = l.context /\ meant = l.meant
                           /\ target = Nothing
  BY DEF Init
<1>2. /\ l.text \in Text /\ IsPackage(l.context)
      /\ \/ /\ l.kind = "label" /\ NamesRepository(l.text)
            /\ l.meant # Unknown => IsTargetOf(l.meant, l.context) /\ l.text \in Spellings(l.meant, l.context)
         \/ /\ l.kind = "name" /\ \A i \in 2..Len(l.text) : l.text[i] # ":"
            /\ l.meant # Unknown => /\ IsTargetOf(l.meant, l.context) /\ l.context = l.meant.package
                                   /\ l.text \in {l.meant.target_name, <<":">> \o l.meant.target_name}
  BY LabelsAssumption DEF WrittenAssumption
<1>3. kind \in {"label", "name"} /\ (kind = "label" => NamesRepository(text))
      /\ (kind = "name" => \A i \in 2..Len(text) : text[i] # ":")
  BY <1>1, <1>2
<1>4. MeansTarget
  BY <1>1, <1>2 DEF MeansTarget
<1> QED BY <1>1, <1>2, <1>3, <1>4 DEF LabelInv, IsTarget, LabelsKeepTheirTarget

LEMMA ParseKeepsLabelInv ==
  ASSUME LabelInv, Parse
  PROVE  LabelInv'
<1>1. /\ target = Nothing /\ kind = "label" /\ target' = ParseFrom(text, context)
      /\ UNCHANGED <<text, kind, context, meant>>
  BY DEF Parse
<1>2. text \in Text /\ IsPackage(context) /\ NamesRepository(text)
  BY <1>1 DEF LabelInv
<1>3. target' # Rejected => IsTargetOf(target', context)
  BY <1>1, <1>2, ParsedIs
<1>4. meant # Unknown => target' = meant \/ meant.target_name = <<>>
  <2> SUFFICES ASSUME meant # Unknown, meant.target_name # <<>> PROVE target' = meant
    OBVIOUS
  <2>1. IsTargetOf(meant, context) /\ text \in Spellings(meant, context)
    BY <1>1 DEF LabelInv, MeansTarget
  <2> QED BY <1>1, <1>2, <2>1, SpellingsAreRead
<1>5. LabelsKeepTheirTarget'
  BY <1>1, <1>4 DEF LabelsKeepTheirTarget
<1>6. MeansTarget'
  BY <1>1 DEF LabelInv, MeansTarget
<1>7. IsTarget' => IsTargetOf(target', context')
  BY <1>1, <1>3 DEF IsTarget
<1> QED BY <1>1, <1>2, <1>5, <1>6, <1>7 DEF LabelInv

LEMMA QualifyKeepsLabelInv ==
  ASSUME LabelInv, Qualify
  PROVE  LabelInv'
<1>1. /\ target = Nothing /\ kind = "name" /\ target' = QualifiedTarget(context, text)
      /\ UNCHANGED <<text, kind, context, meant>>
  BY DEF Qualify
<1>2. text \in Text /\ IsPackage(context) /\ \A i \in 2..Len(text) : text[i] # ":"
  BY <1>1 DEF LabelInv
<1>3. target' # Rejected => IsTargetOf(target', context)
  BY <1>1, <1>2, QualifiedIs
<1>4. meant # Unknown => target' = meant \/ meant.target_name = <<>>
  <2> SUFFICES ASSUME meant # Unknown, meant.target_name # <<>> PROVE target' = meant
    OBVIOUS
  <2>1. /\ IsTargetOf(meant, context) /\ context = meant.package
        /\ text \in {meant.target_name, <<":">> \o meant.target_name}
    BY <1>1 DEF LabelInv, MeansTarget
  <2>2. meant.target_name \in Text /\ ~Has(meant.target_name, ":") /\ meant = Target(context, meant.target_name)
    BY <2>1 DEF IsTargetOf, Target
  <2> QED BY <1>1, <1>2, <2>1, <2>2, QualifiedIs
<1>5. LabelsKeepTheirTarget'
  BY <1>1, <1>4 DEF LabelsKeepTheirTarget
<1>6. MeansTarget'
  BY <1>1 DEF LabelInv, MeansTarget
<1>7. IsTarget' => IsTargetOf(target', context')
  BY <1>1, <1>3 DEF IsTarget
<1> QED BY <1>1, <1>2, <1>5, <1>6, <1>7 DEF LabelInv

\* What a printed target is read as next.
LEMMA AgainKeepsLabelInv ==
  ASSUME LabelInv, NEW ctx, IsPackage(ctx), IsTargetOf(target, ctx), NEW printed \in Text, NamesRepository(printed),
         target.target_name # <<>> => printed \in Spellings(target, ctx),
         Again(printed, ctx)
  PROVE  LabelInv'
<1>1. text' = printed /\ kind' = "label" /\ context' = ctx /\ meant' = target /\ target' = Nothing
  BY DEF Again
<1>2. MeansTarget'
  BY <1>1 DEF MeansTarget
<1>3. LabelsKeepTheirTarget'
  BY <1>1 DEF LabelsKeepTheirTarget
<1> QED BY <1>1, <1>2, <1>3 DEF LabelInv, IsTarget

\* ":name" is what is printed in the own package.
LEMMA RelativeIs ==
  ASSUME NEW t, IsTargetOf(t, t.package)
  PROVE  /\ ToStringRelativeTo(t, t.package) \in Text /\ NamesRepository(ToStringRelativeTo(t, t.package))
         /\ ToStringRelativeTo(t, t.package) \in Spellings(t, t.package)
<1>1. ToStringRelativeTo(t, t.package) = <<":">> \o t.target_name
  BY DEF ToStringRelativeTo
<1> DEFINE colon == <<":">>
           n == t.target_name
<1>2. colon \in Text /\ Len(colon) = 1 /\ colon[1] = ":" /\ 1 \in 1..Len(colon) /\ n \in Text
  BY CharactersAssumption DEF Text, IsTargetOf
<1>3. ToStringRelativeTo(t, t.package) = colon \o n
  BY <1>1
<1> HIDE DEF colon, n
<1>4. /\ colon \o n \in Text
      /\ \A i \in 1..Len(colon) : (colon \o n)[i] = colon[i]
  BY <1>2, JoinedIs
<1>5. NamesRepository(colon \o n)
  <2>1. (colon \o n)[1] = ":"
    BY <1>2, <1>4
  <2> QED BY <2>1 DEF NamesRepository
<1>6. <<":">> \o t.target_name \in Spellings(t, t.package)
  BY DEF Spellings
<1> QED BY <1>1, <1>3, <1>4, <1>5, <1>6

LEMMA NextLabelInv == LabelInv /\ [Next]_vars => LabelInv'
<1> SUFFICES ASSUME LabelInv, [Next]_vars PROVE LabelInv'
  OBVIOUS
<1>1. CASE Parse
  BY <1>1, ParseKeepsLabelInv
<1>2. CASE Qualify
  BY <1>2, QualifyKeepsLabelInv
<1>3. CASE PrintTarget
  <2>1. PICK ctx \in Contexts : /\ IsTarget /\ (target.package.project = <<>> => ctx.project = <<>>)
                                /\ Again(ToString(target), ctx)
    BY <1>3 DEF PrintTarget
  <2>2. IsPackage(ctx) /\ IsTargetOf(target, ctx)
    BY <2>1, LabelsAssumption DEF LabelInv, IsTargetOf
  <2> QED BY <2>1, <2>2, PrintedIs, AgainKeepsLabelInv
<1>4. CASE PrintRelative
  <2>1. PICK ctx : IsTarget /\ ctx = target.package /\ ctx \in Contexts /\ Again(ToStringRelativeTo(target, ctx), ctx)
    BY <1>4 DEF PrintRelative
  <2>2. IsPackage(ctx) /\ IsTargetOf(target, ctx)
    BY <2>1, LabelsAssumption DEF LabelInv, IsTargetOf
  <2> QED BY <2>1, <2>2, RelativeIs, AgainKeepsLabelInv
<1>5. CASE UNCHANGED vars
  BY <1>5 DEF vars, LabelInv, IsTarget, MeansTarget, LabelsKeepTheirTarget
<1> QED BY <1>1, <1>2, <1>3, <1>4, <1>5 DEF Next

LEMMA LabelInvIsEnough == LabelInv => LabelsKeepTheirTarget /\ PackagesHaveOneForm
BY DEF LabelInv, PackagesHaveOneForm, IsTargetOf

(* However long the texts are and however often a target is printed and    *)
(* read again: the target stays the one that was meant, and its package    *)
(* has the one form.                                                       *)
THEOREM LabelsMeanTheirTarget == Spec => [](LabelsKeepTheirTarget /\ PackagesHaveOneForm)
BY LabelInvIsEnough, InitLabelInv, NextLabelInv, PTL DEF Spec

-----------------------------------------------------------------------------
(* Making the labels of a list canonical.                                  *)
Canonical(t) == ToStringRelativeTo(t, current_package)
MayBeRead(t) == IsTargetOf(t, current_package) /\ t.target_name # <<>>
Rename(before, after) == BuildozerCommand("kRename", self, before, after)
Renames == {Rename(before, after) : before \in Text, after \in Text}

LEMMA RenameIs ==
  ASSUME NEW before, NEW after
  PROVE  Rename(before, after).command[2] = before /\ Rename(before, after).command[3] = after
<1>1. \E words : Rename(before, after).command = <<words, before, after>>
  BY Zenon DEF Rename, BuildozerCommand
<1> QED BY <1>1

LEMMA CanonicalIsRead ==
  ASSUME IsPackage(current_package), NEW t, MayBeRead(t)
  PROVE  Canonical(t) \in Text /\ ParseFrom(Canonical(t), current_package) = t
<1>1. CASE t.package = current_package
  <2>1. Canonical(t) \in Text /\ Canonical(t) \in Spellings(t, current_package)
    BY <1>1, RelativeIs DEF Canonical, MayBeRead
  <2> QED BY <2>1, SpellingsAreRead DEF MayBeRead
<1>2. CASE t.package # current_package
  <2>1. Canonical(t) = ToString(t)
    BY <1>2 DEF Canonical, ToStringRelativeTo
  <2>2. Canonical(t) \in Text /\ Canonical(t) \in Spellings(t, current_package)
    BY <2>1, PrintedIs DEF MayBeRead
  <2> QED BY <2>2, SpellingsAreRead DEF MayBeRead
<1> QED BY <1>1, <1>2

\* A command makes the label of a target canonical.
IsFaithful(e) ==
  LET t == ParseFrom(e.command[2], current_package) IN MayBeRead(t) /\ e.command[3] = Canonical(t)

\* What was looked at is canonical, or the command that makes it so is written.
IsCared(i) ==
  first_read[i] # Rejected =>
    \/ deps[i] = Canonical(first_read[i])
    \/ \E k \in 1..Len(edits) : edits[k] = Rename(deps[i], Canonical(first_read[i]))

IsCanonical(i) == first_read[i] # Rejected => deps[i] = Canonical(first_read[i])

CanonInv ==
  /\ IsPackage(current_package)
  /\ deps \in Seq(Text) /\ DOMAIN first_read = DOMAIN deps
  /\ \A i \in DOMAIN deps : first_read[i] = Rejected \/ MayBeRead(first_read[i])
  /\ MeaningIsKept
  /\ edits \in Seq(Renames) /\ \A k \in 1..Len(edits) : IsFaithful(edits[k])
  /\ pos \in 1..(Len(deps) + 1) /\ runs \in Nat
  /\ \A i \in 1..(pos - 1) : IsCared(i)
  /\ runs > 0 => edits = <<>> /\ \A i \in DOMAIN deps : IsCanonical(i)

LEMMA InitCanonInv == CanonInit => CanonInv
<1> SUFFICES ASSUME CanonInit PROVE CanonInv
  OBVIOUS
<1>1. PICK l \in Lists : current_package = l.package /\ deps = l.deps
  BY DEF CanonInit
<1>2. /\ IsPackage(current_package) /\ deps \in Seq(Text)
      /\ \A i \in DOMAIN deps :
           LET t == ParseFrom(deps[i], current_package) IN
           NamesRepository(deps[i]) /\ (t = Rejected \/ t.target_name # <<>>)
  BY <1>1, ListsAssumption
<1>3. first_read = [i \in DOMAIN deps |-> ParseFrom(deps[i], current_package)]
  BY DEF CanonInit
<1>4. ASSUME NEW i \in DOMAIN deps PROVE first_read[i] = Rejected \/ MayBeRead(first_read[i])
  <2>1. deps[i] \in Text /\ first_read[i] = ParseFrom(deps[i], current_package)
    BY <1>2, <1>3
  <2> QED BY <1>2, <2>1, ParsedIs DEF MayBeRead
<1>5. MeaningIsKept
  BY <1>3 DEF MeaningIsKept
<1>6. edits = <<>> /\ pos = 1 /\ runs = 0
  BY DEF CanonInit
<1>7. /\ edits \in Seq(Renames) /\ \A k \in 1..Len(edits) : IsFaithful(edits[k])
      /\ pos \in 1..(Len(deps) + 1) /\ runs \in Nat /\ ~(runs > 0)
      /\ \A i \in 1..(pos - 1) : IsCared(i)
  BY <1>2, <1>6
<1> QED BY <1>2, <1>3, <1>4, <1>5, <1>7 DEF CanonInv

LEMMA CheckDependencyKeepsCanonInv ==
  ASSUME CanonInv, CheckDependency
  PROVE  CanonInv'
<1> DEFINE t == ParseFrom(deps[pos], current_package)
           canonical == ToStringRelativeTo(t, current_package)
<1>1. /\ pos <= Len(deps) /\ pos' = pos + 1
      /\ IF t = Rejected \/ deps[pos] = canonical THEN UNCHANGED edits
         ELSE edits' = Append(edits, Rename(deps[pos], canonical))
      /\ UNCHANGED <<current_package, deps, runs, first_read>>
  BY DEF CheckDependency, Rename
<1>2. pos \in DOMAIN deps /\ deps[pos] \in Text /\ pos \in Nat /\ Len(deps) \in Nat /\ DOMAIN deps = 1..Len(deps)
  BY <1>1 DEF CanonInv
<1>3. t = first_read[pos] /\ (t = Rejected \/ MayBeRead(t)) /\ canonical = Canonical(t)
  BY <1>2 DEF CanonInv, MeaningIsKept, Canonical
<1> HIDE DEF t, canonical
<1>4. CASE t = Rejected \/ deps[pos] = canonical
  <2>1. UNCHANGED edits
    BY <1>1, <1>4
  <2>2. \A i \in 1..pos : IsCared(i)
    <3>1. IsCared(pos)
      BY <1>3, <1>4 DEF IsCared
    <3>2. \A i \in 1..pos : i = pos \/ i \in 1..(pos - 1)
      BY <1>2
    <3> QED BY <3>1, <3>2 DEF CanonInv
  <2>3. (\A i \in 1..(pos - 1) : IsCared(i))'
    <3>1. \A i \in 1..(pos' - 1) : i \in 1..pos
      BY <1>1, <1>2
    <3> QED BY <1>1, <2>1, <2>2, <3>1 DEF IsCared, Rename, Canonical, self
  <2>4. (pos \in 1..(Len(deps) + 1))'
    BY <1>1, <1>2
  <2>5. edits' \in Seq(Renames') /\ \A k \in 1..Len(edits') : IsFaithful(edits[k])'
    BY <1>1, <2>1 DEF CanonInv, IsFaithful, MayBeRead, Canonical, Renames, Rename, self
  <2>6. (\A i \in DOMAIN deps : first_read[i] = Rejected \/ MayBeRead(first_read[i]))'
    BY <1>1 DEF CanonInv, MayBeRead
  <2>7. (runs > 0 => edits = <<>> /\ \A i \in DOMAIN deps : IsCanonical(i))'
    BY <1>1, <2>1 DEF CanonInv, IsCanonical, Canonical
  <2>8. MeaningIsKept'
    BY <1>1 DEF CanonInv, MeaningIsKept
  <2> QED BY <1>1, <2>3, <2>4, <2>5, <2>6, <2>7, <2>8 DEF CanonInv
<1>5. CASE t # Rejected /\ deps[pos] # canonical
  <2> DEFINE e == Rename(deps[pos], canonical)
  <2>1. edits' = Append(edits, e)
    BY <1>1, <1>5
  <2>2. ~(runs > 0)
    BY <1>2, <1>3, <1>5 DEF CanonInv, IsCanonical
  <2>3. MayBeRead(t) /\ canonical \in Text
    BY <1>3, <1>5, CanonicalIsRead DEF CanonInv
  <2>4. e \in Renames
    BY <1>2, <2>3 DEF Renames
  <2>5. IsFaithful(e)
    <3>1. e.command[2] = deps[pos] /\ e.command[3] = canonical
      BY RenameIs
    <3> HIDE DEF e
    <3> QED BY <1>3, <2>3, <3>1 DEF IsFaithful, t
  <2>6. edits \in Seq(Renames) /\ Len(edits) \in Nat
    BY DEF CanonInv
  <2>7. e = Rename(deps[pos], Canonical(first_read[pos]))
    BY <1>3
  <2> HIDE DEF e
  <2>8. /\ edits' \in Seq(Renames) /\ Len(edits') = Len(edits) + 1 /\ edits'[Len(edits) + 1] = e
        /\ \A k \in 1..Len(edits) : edits'[k] = edits[k]
    BY <2>1, <2>4, <2>6, AppendProperties
  <2>9. \A k \in 1..Len(edits') : IsFaithful(edits'[k])
    <3> SUFFICES ASSUME NEW k \in 1..Len(edits') PROVE IsFaithful(edits'[k])
      OBVIOUS
    <3>1. k \in 1..Len(edits) \/ k = Len(edits) + 1
      BY <2>6, <2>8
    <3> QED BY <2>5, <2>8, <3>1 DEF CanonInv
  <2>10. edits' \in Seq(Renames') /\ \A k \in 1..Len(edits') : IsFaithful(edits[k])'
    BY <1>1, <2>8, <2>9 DEF IsFaithful, MayBeRead, Canonical, Renames, Rename, self
  <2>11. ASSUME NEW i \in 1..(pos' - 1) PROVE IsCared(i)'
    <3>1. CASE i = pos
      <4>1. Len(edits) + 1 \in 1..Len(edits')
        BY <2>6, <2>8
      <4>2. edits'[Len(edits) + 1] = Rename(deps[pos], Canonical(first_read[pos]))
        BY <2>7, <2>8
      <4> QED BY <1>1, <3>1, <4>1, <4>2 DEF IsCared, Rename, Canonical, self
    <3>2. CASE i # pos
      <4>1. IsCared(i)
        <5>1. i \in 1..(pos - 1)
          BY <1>1, <1>2, <3>2
        <5> QED BY <5>1 DEF CanonInv
      <4>2. \A k \in 1..Len(edits) : k \in 1..Len(edits')
        BY <2>6, <2>8
      <4> QED BY <1>1, <2>8, <4>1, <4>2 DEF IsCared, Rename, Canonical, self
    <3> QED BY <3>1, <3>2
  <2>12. (pos \in 1..(Len(deps) + 1))'
    BY <1>1, <1>2
  <2>13. (\A i \in DOMAIN deps : first_read[i] = Rejected \/ MayBeRead(first_read[i]))'
    BY <1>1 DEF CanonInv, MayBeRead
  <2>14. MeaningIsKept'
    BY <1>1 DEF CanonInv, MeaningIsKept
  <2> QED BY <1>1, <2>2, <2>10, <2>11, <2>12, <2>13, <2>14 DEF CanonInv
<1> QED BY <1>4, <1>5

LEMMA ExecuteKeepsCanonInv ==
  ASSUME CanonInv, Execute
  PROVE  CanonInv'
<1> DEFINE e == Head(edits)
           before == e.command[2]
           after == e.command[3]
           t == ParseFrom(before, current_package)
<1>1. /\ pos > Len(deps) /\ edits # <<>>
      /\ deps' = [i \in DOMAIN deps |-> IF deps[i] = before THEN after ELSE deps[i]]
      /\ edits' = Tail(edits) /\ pos' = Len(deps) + 1
      /\ UNCHANGED <<current_package, runs, first_read>>
  BY DEF Execute, Finished, Replaced
<1>2. /\ Len(deps) \in Nat /\ DOMAIN deps = 1..Len(deps) /\ pos = Len(deps) + 1
      /\ Len(edits) \in Nat /\ Len(edits) >= 1 /\ e = edits[1]
      /\ ~(runs > 0)
  BY <1>1 DEF CanonInv
<1>3. /\ Tail(edits) \in Seq(Renames) /\ Len(Tail(edits)) = Len(edits) - 1
      /\ \A k \in 1..Len(Tail(edits)) : Tail(edits)[k] = edits[k + 1]
  BY <1>1, HeadTailProperties DEF CanonInv
<1>4. MayBeRead(t) /\ after = Canonical(t)
  <2>1. IsFaithful(edits[1])
    BY <1>2 DEF CanonInv
  <2> QED BY <1>2, <2>1 DEF IsFaithful
<1>5. after \in Text /\ ParseFrom(after, current_package) = t
  BY <1>4, CanonicalIsRead DEF CanonInv
<1> HIDE DEF e, before, after
<1>6. /\ deps' \in Seq(Text) /\ Len(deps') = Len(deps) /\ DOMAIN deps' = DOMAIN deps
      /\ \A i \in DOMAIN deps : deps'[i] = IF deps[i] = before THEN after ELSE deps[i]
  <2>1. deps \in Seq(Text)
    BY DEF CanonInv
  <2>2. \A i \in 1..Len(deps) : (IF deps[i] = before THEN after ELSE deps[i]) \in Text
    BY <1>5, <2>1
  <2> QED BY <1>1, <1>2, <2>1, <2>2
<1>7. ASSUME NEW i \in DOMAIN deps PROVE ParseFrom(deps'[i], current_package) = first_read[i]
  <2>1. ParseFrom(deps[i], current_package) = first_read[i]
    BY DEF CanonInv, MeaningIsKept
  <2> QED BY <1>5, <1>6, <2>1
<1>8. MeaningIsKept'
  BY <1>1, <1>6, <1>7 DEF MeaningIsKept
\* The head made its label canonical, the others are still to be executed.
<1>9. ASSUME NEW i \in DOMAIN deps, first_read[i] # Rejected
      PROVE  \/ deps'[i] = Canonical(first_read[i])
             \/ \E k \in 1..Len(edits') : edits'[k] = Rename(deps'[i], Canonical(first_read[i]))
  <2>1. ParseFrom(deps[i], current_package) = first_read[i]
    BY DEF CanonInv, MeaningIsKept
  <2>2. CASE deps[i] = before
    BY <1>4, <1>6, <2>1, <2>2
  <2>3. CASE deps[i] # before /\ deps[i] = Canonical(first_read[i])
    BY <1>6, <2>3
  <2>4. CASE deps[i] # before /\ deps[i] # Canonical(first_read[i])
    <3>1. i \in 1..(pos - 1)
      BY <1>2
    <3>2. PICK k \in 1..Len(edits) : edits[k] = Rename(deps[i], Canonical(first_read[i]))
      BY <1>9, <2>4, <3>1 DEF CanonInv, IsCared
    <3>3. k # 1
      <4> SUFFICES ASSUME k = 1 PROVE FALSE
        OBVIOUS
      <4>1. e = Rename(deps[i], Canonical(first_read[i]))
        BY <1>2, <3>2
      <4>2. before = deps[i]
        BY <4>1, RenameIs DEF before
      <4> QED BY <2>4, <4>2
    <3>4. k - 1 \in 1..Len(Tail(edits)) /\ Tail(edits)[k - 1] = edits[k]
      <4>1. k - 1 \in 1..Len(Tail(edits)) /\ (k - 1) + 1 = k
        BY <1>2, <1>3, <3>3
      <4> QED BY <1>3, <4>1
    <3>5. deps'[i] = deps[i]
      BY <1>6, <2>4
    <3> QED BY <1>1, <3>2, <3>4, <3>5
  <2> QED BY <2>2, <2>3, <2>4
<1>10. ASSUME NEW i \in 1..(pos' - 1) PROVE IsCared(i)'
  <2>1. i \in DOMAIN deps
    BY <1>1, <1>2
  <2> QED BY <1>1, <1>9, <2>1 DEF IsCared, Rename, Canonical, self
<1>11. \A k \in 1..Len(edits') : IsFaithful(edits[k])'
  <2> SUFFICES ASSUME NEW k \in 1..Len(edits') PROVE IsFaithful(edits[k])'
    OBVIOUS
  <2>1. k + 1 \in 1..Len(edits) /\ edits'[k] = edits[k + 1]
    BY <1>1, <1>2, <1>3
  <2>2. IsFaithful(edits[k + 1])
    BY <2>1 DEF CanonInv
  <2> QED BY <1>1, <2>1, <2>2 DEF IsFaithful, MayBeRead, Canonical
<1>12. edits' \in Seq(Renames')
  BY <1>1, <1>3 DEF Renames, Rename, self
<1>13. (\A i \in DOMAIN deps : first_read[i] = Rejected \/ MayBeRead(first_read[i]))'
  BY <1>1, <1>6 DEF CanonInv, MayBeRead
<1>14. (pos \in 1..(Len(deps) + 1))'
  BY <1>1, <1>2, <1>6
<1>15. IsPackage(current_package)' /\ (DOMAIN first_read = DOMAIN deps)' /\ (runs \in Nat)' /\ ~(runs > 0)'
  BY <1>1, <1>2, <1>6 DEF CanonInv
<1> QED BY <1>6, <1>8, <1>10, <1>11, <1>12, <1>13, <1>14, <1>15 DEF CanonInv

LEMMA RunAgainKeepsCanonInv ==
  ASSUME CanonInv, RunAgain
  PROVE  CanonInv'
<1>1. /\ pos > Len(deps) /\ edits = <<>> /\ pos' = 1 /\ runs' = runs + 1
      /\ UNCHANGED <<current_package, deps, edits, first_read>>
  BY DEF RunAgain, Finished
<1>2. Len(deps) \in Nat /\ DOMAIN deps = 1..Len(deps) /\ pos = Len(deps) + 1
  BY <1>1 DEF CanonInv
<1>3. ASSUME NEW i \in DOMAIN deps PROVE IsCanonical(i)
  <2>1. i \in 1..(pos - 1)
    BY <1>2
  <2>2. IsCared(i) /\ Len(edits) = 0
    BY <1>1, <2>1 DEF CanonInv
  <2> QED BY <2>2 DEF IsCared, IsCanonical
<1>4. (\A i \in DOMAIN deps : IsCanonical(i))'
  BY <1>1, <1>3 DEF IsCanonical, Canonical
<1>5. edits' \in Seq(Renames') /\ \A k \in 1..Len(edits') : IsFaithful(edits[k])'
  BY <1>1
<1>6. (\A i \in DOMAIN deps : first_read[i] = Rejected \/ MayBeRead(first_read[i]))'
  BY <1>1 DEF CanonInv, MayBeRead
<1>7. MeaningIsKept'
  BY <1>1 DEF CanonInv, MeaningIsKept
<1>8. (pos \in 1..(Len(deps) + 1))' /\ (runs \in Nat)' /\ (\A i \in 1..(pos - 1) : IsCared(i))'
  BY <1>1, <1>2 DEF CanonInv
<1> QED BY <1>1, <1>4, <1>5, <1>6, <1>7, <1>8 DEF CanonInv

LEMMA NextCanonInv == CanonInv /\ [CanonNext]_canonVars => CanonInv'
<1> SUFFICES ASSUME CanonInv, [CanonNext]_canonVars PROVE CanonInv'
  OBVIOUS
<1>1. CASE CheckDependency
  BY <1>1, CheckDependencyKeepsCanonInv
<1>2. CASE Execute
  BY <1>2, ExecuteKeepsCanonInv
<1>3. CASE RunAgain
  BY <1>3, RunAgainKeepsCanonInv
<1>4. CASE UNCHANGED canonVars
  BY <1>4 DEF canonVars, CanonInv, MeaningIsKept, MayBeRead, IsFaithful, IsCared, IsCanonical, Canonical,
              Renames, Rename, self
<1> QED BY <1>1, <1>2, <1>3, <1>4 DEF CanonNext

LEMMA CanonInvIsEnough == CanonInv => MeaningIsKept /\ CanonicalizingSettles
<1> SUFFICES ASSUME CanonInv PROVE CanonicalizingSettles
  BY DEF CanonInv
<1> QED BY DEF CanonInv, CanonicalizingSettles, IsCanonical

(* However long the list is: every label is read as the target it was read *)
(* as in the beginning, at every moment between the edits, and one run is  *)
(* enough.                                                                 *)
THEOREM CanonicalizingIsRight == CanonSpec => [](MeaningIsKept /\ CanonicalizingSettles)
BY CanonInvIsEnough, InitCanonInv, NextCanonInv, PTL DEF CanonSpec

-----------------------------------------------------------------------------
(* The tools side by side: a behaviour is about one label, one bundle of   *)
(* patterns or one list of dependencies.                                   *)
EachInv ==
  /\ IF part = "label" THEN LabelInv ELSE target = Nothing
  /\ IF part = "list" THEN CanonInv ELSE deps = <<>> /\ runs = 0

LEMMA InitEachInv == EachInit => EachInv
<1> SUFFICES ASSUME EachInit PROVE EachInv
  OBVIOUS
<1>1. CASE part = "label" /\ Init /\ NoPatterns /\ NoList
  BY <1>1, InitLabelInv DEF EachInv, NoList
<1>2. CASE part = "pattern" /\ PatternInit /\ NoLabel /\ NoList
  BY <1>2 DEF EachInv, NoLabel, NoList
<1>3. CASE part = "list" /\ CanonInit /\ NoLabel /\ NoPatterns
  BY <1>3, InitCanonInv DEF EachInv, NoLabel
<1> QED BY <1>1, <1>2, <1>3 DEF EachInit

LEMMA NextEachInv == EachInv /\ [EachNext]_<<part, vars, patternVars, canonVars>> => EachInv'
<1> SUFFICES ASSUME EachInv, [EachNext]_<<part, vars, patternVars, canonVars>> PROVE EachInv'
  OBVIOUS
<1>1. CASE ReadAndPrint
  <2>1. LabelInv' /\ part' = part /\ part = "label" /\ UNCHANGED canonVars
    BY <1>1, NextLabelInv DEF EachInv, ReadAndPrint
  <2> QED BY <2>1 DEF EachInv, canonVars
<1>2. CASE Bundle
  <2>1. part' = part /\ part = "pattern" /\ UNCHANGED <<vars, canonVars>>
    BY <1>2 DEF Bundle
  <2> QED BY <2>1 DEF EachInv, vars, canonVars
<1>3. CASE Shorten
  <2>1. CanonInv' /\ part' = part /\ part = "list" /\ UNCHANGED vars
    BY <1>3, NextCanonInv DEF EachInv, Shorten
  <2> QED BY <2>1 DEF EachInv, vars
<1>4. CASE UNCHANGED <<part, vars, patternVars, canonVars>>
  <2>1. part = "label" => LabelInv'
    BY <1>4, NextLabelInv DEF EachInv
  <2>2. part = "list" => CanonInv'
    BY <1>4, NextCanonInv DEF EachInv
  <2> QED BY <1>4, <2>1, <2>2 DEF EachInv, vars, canonVars
<1> QED BY <1>1, <1>2, <1>3, <1>4 DEF EachNext

(* However long labels and lists are: what is read means the target that   *)
(* was written, printed or not, its package has the one form, and making a *)
(* list canonical changes no meaning and settles in one run.               *)
THEOREM MeaningsAreKept == EachSpec => []LabelsKeepTheirMeaning
<1>1. EachInv => LabelsKeepTheirMeaning
  <2> SUFFICES ASSUME EachInv PROVE LabelsKeepTheirMeaning
    OBVIOUS
  <2>1. LabelsKeepTheirTarget /\ PackagesHaveOneForm
    BY LabelInvIsEnough DEF EachInv, LabelsKeepTheirTarget, PackagesHaveOneForm, IsTarget
  <2>2. MeaningIsKept /\ CanonicalizingSettles
    BY CanonInvIsEnough DEF EachInv, MeaningIsKept, CanonicalizingSettles
  <2> QED BY <2>1, <2>2 DEF LabelsKeepTheirMeaning
<1> QED BY <1>1, InitEachInv, NextEachInv, PTL DEF EachSpec

-----------------------------------------------------------------------------
(* Patterns: how a name with stars is made an expression.                  *)
IsStar(glob, i) == glob[i] = "*"
Suppresses(glob, i) == IsStar(glob, i) /\ i > 1 /\ IsStar(glob, i - 1)
PartOf(glob, i) ==
  IF IsStar(glob, i) THEN ".*" ELSE IF glob[i] = "." /\ i > Last(glob, "*") THEN "any" ELSE glob[i]

LEMMA AssembledIs ==
  ASSUME NEW glob
  PROVE  LET a == Assembled(glob) IN
         /\ a[0] = <<>>
         /\ \A n \in Nat : /\ a[n] \in Seq({PartOf(glob, i) : i \in Nat})
                           /\ a[n + 1] = IF Suppresses(glob, n + 1) THEN a[n] ELSE Append(a[n], PartOf(glob, n + 1))
<1> DEFINE T == Seq({PartOf(glob, i) : i \in Nat})
           Then(n, x) == IF Suppresses(glob, n) THEN x ELSE Append(x, PartOf(glob, n))
           Rec(f) == f = [n \in Nat |-> IF n = 0 THEN <<>> ELSE Then(n, f[n - 1])]
           a == Assembled(glob)
<1>1. a = CHOOSE f : Rec(f)
  BY DEF Assembled, Suppresses, PartOf, IsStar
<1>2. <<>> \in T
  OBVIOUS
<1>3. \A n \in Nat, x \in T : Then(n, x) \in T
  <2> TAKE n \in Nat, x \in T
  <2>1. PartOf(glob, n) \in {PartOf(glob, i) : i \in Nat}
    OBVIOUS
  <2> QED BY <2>1
<1> HIDE DEF T, Then
<1>4. \E f : f \in [Nat -> T] /\ Rec(f)
  <2> DEFINE step == [x \in Nat \X T |-> Then(x[1] + 1, x[2])]
  <2>1. step \in [Nat \X T -> T]
    BY <1>3
  <2>2. PICK g \in [Nat -> T] : g[0] = <<>> /\ \A k \in Nat : g[k + 1] = step[<<k, g[k]>>]
    <3> HIDE DEF step
    <3>1. Recursion(T, <<>>, step)
      BY <1>2, <2>1, PrimitiveRecursion, Zenon
    <3> QED BY <3>1 DEF Recursion
  <2>3. \A k \in Nat : g[k + 1] = Then(k + 1, g[k])
    BY <2>2
  <2>4. ASSUME NEW p \in Nat PROVE g[p] = IF p = 0 THEN <<>> ELSE Then(p, g[p - 1])
    <3>1. CASE p = 0
      BY <2>2, <3>1
    <3>2. CASE p # 0
      <4>1. p - 1 \in Nat /\ (p - 1) + 1 = p
        BY <3>2
      <4> QED BY <2>3, <3>2, <4>1
    <3> QED BY <3>1, <3>2
  <2>5. Rec(g)
    BY <2>4
  <2> QED BY <2>5
<1>5. Rec(a)
  BY <1>1, <1>4
<1> HIDE DEF a
<1>6. a[0] = <<>> /\ \A n \in Nat : a[n + 1] = Then(n + 1, a[n])
  <2>1. \A n \in Nat : n + 1 \in Nat /\ n + 1 # 0 /\ (n + 1) - 1 = n
    OBVIOUS
  <2> QED BY <1>5, <2>1
<1> DEFINE S == {n \in Nat : a[n] \in T}
<1>7. 0 \in S
  BY <1>2, <1>6
<1>8. ASSUME NEW n \in S PROVE n + 1 \in S
  <2> HIDE DEF T
  <2>1. n \in Nat /\ n + 1 \in Nat /\ a[n] \in T
    OBVIOUS
  <2>2. a[n + 1] = Then(n + 1, a[n]) /\ Then(n + 1, a[n]) \in T
    BY <1>3, <1>6, <2>1
  <2> QED BY <2>1, <2>2
<1> HIDE DEF S
<1>9. Nat \subseteq S
  BY <1>7, <1>8, AllNaturals
<1>10. \A n \in Nat : a[n] \in T
  BY <1>9 DEF S
<1> QED BY <1>6, <1>10 DEF a, Then, T

(* What the expression may have read after its first n parts.              *)
LEMMA ReachedIs ==
  ASSUME NEW regex, NEW s \in Text
  PROVE  LET r == Reached(regex, s) IN
         /\ r[0] = {1}
         /\ \A n \in Nat :
              /\ r[n] \subseteq Nat
              /\ \A k : k \in r[n + 1] <=>
                   IF regex[n + 1] = ".*" THEN k \in 1..(Len(s) + 1) /\ \E j \in r[n] : j <= k
                   ELSE \E j \in r[n] : k = j + 1 /\ j <= Len(s) /\ regex[n + 1] \in {"any", s[j]}
<1> DEFINE T == SUBSET Nat
           Then(n, x) ==
             IF regex[n] = ".*" THEN {k \in 1..(Len(s) + 1) : \E j \in x : j <= k}
             ELSE {j + 1 : j \in {j \in x : j <= Len(s) /\ regex[n] \in {"any", s[j]}}}
           Rec(f) == f = [n \in Nat |-> IF n = 0 THEN {1} ELSE Then(n, f[n - 1])]
           r == Reached(regex, s)
<1>0. Len(s) \in Nat
  BY DEF Text
<1>1. r = CHOOSE f : Rec(f)
  BY DEF Reached
<1>2. {1} \in T
  OBVIOUS
<1>3. \A n \in Nat, x \in T : Then(n, x) \in T
  BY <1>0
<1> DEFINE Is(n, x, k) ==
             IF regex[n] = ".*" THEN k \in 1..(Len(s) + 1) /\ \E j \in x : j <= k
             ELSE \E j \in x : k = j + 1 /\ j <= Len(s) /\ regex[n] \in {"any", s[j]}
<1>a. \A n, x : \A k : k \in Then(n, x) <=> Is(n, x, k)
  OBVIOUS
<1> HIDE DEF Then, Is
<1>4. \E f : f \in [Nat -> T] /\ Rec(f)
  <2> HIDE DEF T
  <2> DEFINE step == [x \in Nat \X T |-> Then(x[1] + 1, x[2])]
  <2>1. step \in [Nat \X T -> T]
    BY <1>3
  <2>2. PICK g \in [Nat -> T] : g[0] = {1} /\ \A k \in Nat : g[k + 1] = step[<<k, g[k]>>]
    <3> HIDE DEF step
    <3>1. Recursion(T, {1}, step)
      BY <1>2, <2>1, PrimitiveRecursion, Zenon
    <3> QED BY <3>1 DEF Recursion
  <2>3. \A k \in Nat : g[k + 1] = Then(k + 1, g[k])
    BY <2>2
  <2>4. ASSUME NEW p \in Nat PROVE g[p] = IF p = 0 THEN {1} ELSE Then(p, g[p - 1])
    <3>1. CASE p = 0
      BY <2>2, <3>1
    <3>2. CASE p # 0
      <4>1. p - 1 \in Nat /\ (p - 1) + 1 = p
        BY <3>2
      <4> QED BY <2>3, <3>2, <4>1
    <3> QED BY <3>1, <3>2
  <2>5. Rec(g)
    BY <2>4
  <2> QED BY <2>5
<1>5. Rec(r)
  BY <1>1, <1>4
<1> HIDE DEF r
<1>6. r[0] = {1} /\ \A n \in Nat : r[n + 1] = Then(n + 1, r[n])
  <2>1. \A n \in Nat : n + 1 \in Nat /\ n + 1 # 0 /\ (n + 1) - 1 = n
    OBVIOUS
  <2> QED BY <1>5, <2>1
<1> DEFINE S == {n \in Nat : r[n] \in T}
<1>7. 0 \in S
  BY <1>2, <1>6
<1>8. \A n \in S : n + 1 \in S
  <2> HIDE DEF T
  <2> QED BY <1>3, <1>6
<1> HIDE DEF S
<1>9. Nat \subseteq S
  BY <1>7, <1>8, AllNaturals
<1>10. \A n \in Nat : r[n] \subseteq Nat
  BY <1>9 DEF S
<1>11. \A n \in Nat : \A k : k \in r[n + 1] <=> Is(n + 1, r[n], k)
  BY <1>6, <1>a
<1> QED BY <1>6, <1>10, <1>11 DEF r, Is

(* The first n parts of a name with stars can be filled in by the          *)
(* characters in front of place k.                                         *)
Takes(glob, s, i, j, k) == IF glob[i] = "*" THEN j <= k ELSE k = j + 1 /\ s[j] = glob[i]
Begins(glob, s, n, begin) ==
  begin[1] = 1 /\ \A i \in 1..n : Takes(glob, s, i, begin[i], begin[i + 1])
Fills(glob, s, n, k) ==
  \E begin \in [1..(n + 1) -> 1..(Len(s) + 1)] : begin[n + 1] = k /\ Begins(glob, s, n, begin)

LEMMA FillsNothing ==
  ASSUME NEW glob, NEW s \in Text, NEW k
  PROVE  Fills(glob, s, 0, k) <=> k = 1
<1> DEFINE L == 1..(Len(s) + 1)
<1>0. Len(s) \in Nat /\ 1 \in L
  BY DEF Text
<1>a. Fills(glob, s, 0, k) <=> \E begin \in [1..(0 + 1) -> L] : begin[0 + 1] = k /\ Begins(glob, s, 0, begin)
  BY DEF Fills
<1> HIDE DEF L
<1>1. ASSUME k = 1 PROVE Fills(glob, s, 0, k)
  <2> DEFINE begin == [i \in 1..(0 + 1) |-> 1]
  <2>1. begin \in [1..(0 + 1) -> L] /\ begin[0 + 1] = 1 /\ begin[1] = 1
    BY <1>0
  <2>2. Begins(glob, s, 0, begin)
    BY <2>1 DEF Begins
  <2> QED BY <1>a, <1>1, <2>1, <2>2
<1>2. ASSUME Fills(glob, s, 0, k) PROVE k = 1
  <2>1. PICK begin \in [1..(0 + 1) -> L] : begin[0 + 1] = k /\ Begins(glob, s, 0, begin)
    BY <1>a, <1>2
  <2> QED BY <2>1 DEF Begins
<1> QED BY <1>1, <1>2

LEMMA FillsNext ==
  ASSUME NEW glob, NEW s \in Text, NEW n \in Nat, NEW k
  PROVE  Fills(glob, s, n + 1, k) <=>
           k \in 1..(Len(s) + 1) /\ \E j \in 1..(Len(s) + 1) : Fills(glob, s, n, j) /\ Takes(glob, s, n + 1, j, k)
<1> DEFINE L == 1..(Len(s) + 1)
<1>0. Len(s) \in Nat /\ 1 \in L
  BY DEF Text
<1>a. \A m : Fills(glob, s, m, k) <=> \E begin \in [1..(m + 1) -> L] : begin[m + 1] = k /\ Begins(glob, s, m, begin)
  BY DEF Fills
<1>b. \A j : Fills(glob, s, n, j) <=> \E begin \in [1..(n + 1) -> L] : begin[n + 1] = j /\ Begins(glob, s, n, begin)
  BY DEF Fills
<1> HIDE DEF L
<1>2. ASSUME Fills(glob, s, n + 1, k)
      PROVE  k \in L /\ \E j \in L : Fills(glob, s, n, j) /\ Takes(glob, s, n + 1, j, k)
  <2>1. PICK begin \in [1..((n + 1) + 1) -> L] : begin[(n + 1) + 1] = k /\ Begins(glob, s, n + 1, begin)
    BY <1>a, <1>2
  <2> DEFINE short == [i \in 1..(n + 1) |-> begin[i]]
  <2>2. /\ short \in [1..(n + 1) -> L] /\ \A i \in 1..(n + 1) : short[i] = begin[i]
        /\ (\A i \in 1..n : i \in 1..(n + 1) /\ i + 1 \in 1..(n + 1))
        /\ n + 1 \in 1..(n + 1) /\ 1 \in 1..(n + 1) /\ k \in L
    BY <2>1
  <2> HIDE DEF short
  <2>3. /\ begin[1] = 1 /\ Takes(glob, s, n + 1, begin[n + 1], k)
        /\ \A i \in 1..n : Takes(glob, s, i, begin[i], begin[i + 1])
    BY <2>1, <2>2 DEF Begins
  <2>4. Begins(glob, s, n, short) /\ short[n + 1] = begin[n + 1]
    BY <2>2, <2>3 DEF Begins
  <2>5. Fills(glob, s, n, begin[n + 1]) /\ begin[n + 1] \in L
    BY <1>b, <2>2, <2>4
  <2> QED BY <2>2, <2>3, <2>5
<1>3. ASSUME k \in L, NEW j \in L, Fills(glob, s, n, j), Takes(glob, s, n + 1, j, k)
      PROVE  Fills(glob, s, n + 1, k)
  <2>1. PICK short \in [1..(n + 1) -> L] : short[n + 1] = j /\ Begins(glob, s, n, short)
    BY <1>b, <1>3
  <2> DEFINE begin == [i \in 1..((n + 1) + 1) |-> IF i = (n + 1) + 1 THEN k ELSE short[i]]
  <2>2. /\ begin \in [1..((n + 1) + 1) -> L] /\ begin[(n + 1) + 1] = k
        /\ \A i \in 1..(n + 1) : begin[i] = short[i]
    BY <1>3
  <2> HIDE DEF begin
  <2>3. Begins(glob, s, n + 1, begin)
    <3>1. begin[1] = 1
      BY <2>1, <2>2 DEF Begins
    <3>2. ASSUME NEW i \in 1..(n + 1) PROVE Takes(glob, s, i, begin[i], begin[i + 1])
      <4>1. CASE i = n + 1
        BY <1>3, <2>1, <2>2, <4>1
      <4>2. CASE i # n + 1
        <5>1. i \in 1..n /\ i \in 1..(n + 1) /\ i + 1 \in 1..(n + 1)
          BY <4>2
        <5> QED BY <2>1, <2>2, <5>1 DEF Begins
      <4> QED BY <4>1, <4>2
    <3> QED BY <3>1, <3>2 DEF Begins
  <2> QED BY <1>a, <2>2, <2>3
<1>4. Fills(glob, s, n + 1, k) <=> k \in L /\ \E j \in L : Fills(glob, s, n, j) /\ Takes(glob, s, n + 1, j, k)
  BY <1>2, <1>3
<1> QED BY <1>4 DEF L

LEMMA FillsAll ==
  ASSUME NEW glob \in Text, NEW s \in Text
  PROVE  FillsIn(s, glob) <=> Fills(glob, s, Len(glob), Len(s) + 1)
BY DEF FillsIn, Fills, Begins, Takes

LEMMA GlobbingIs ==
  ASSUME NEW glob \in Text, NEW s \in Text, Has(glob, "*"), DotsAreQuoted(glob)
  PROVE  FullMatch(GlobbingToRE2(glob), s) <=> FillsIn(s, glob)
<1> DEFINE a == Assembled(glob)
           N == Len(glob)
           L == Len(s) + 1
           P(i) == PartOf(glob, i)
           S == {n \in Nat : \A m \in Nat : /\ Len(a[m]) <= Len(a[m + n])
                                            /\ \A i \in 1..Len(a[m]) : a[m + n][i] = a[m][i]}
<1>0. N \in Nat /\ Len(s) \in Nat /\ DOMAIN glob = 1..N
  BY DEF Text
<1>1. /\ a[0] = <<>>
      /\ \A n \in Nat : /\ a[n] \in Seq({P(i) : i \in Nat})
                        /\ a[n + 1] = IF Suppresses(glob, n + 1) THEN a[n] ELSE Append(a[n], P(n + 1))
  BY AssembledIs
<1> HIDE DEF a, P
<1>2. \A n \in Nat : Len(a[n]) \in Nat
  BY <1>1
<1>3. ASSUME NEW n \in Nat
      PROVE  /\ Suppresses(glob, n + 1) => a[n + 1] = a[n]
             /\ ~Suppresses(glob, n + 1) => Len(a[n + 1]) = Len(a[n]) + 1 /\ a[n + 1][Len(a[n]) + 1] = P(n + 1)
             /\ Len(a[n]) <= Len(a[n + 1]) /\ \A i \in 1..Len(a[n]) : a[n + 1][i] = a[n][i]
  <2>0. a[n + 1] = IF Suppresses(glob, n + 1) THEN a[n] ELSE Append(a[n], P(n + 1))
    BY <1>1
  <2>1. CASE Suppresses(glob, n + 1)
    <3>1. a[n + 1] = a[n] /\ Len(a[n]) \in Nat
      BY <1>2, <2>0, <2>1
    <3> QED BY <2>1, <3>1
  <2>2. CASE ~Suppresses(glob, n + 1)
    <3> DEFINE Ps == {P(i) : i \in Nat}
    <3>1. a[n] \in Seq(Ps) /\ P(n + 1) \in Ps /\ a[n + 1] = Append(a[n], P(n + 1))
      <4>1. a[n] \in Seq(Ps)
        BY <1>1
      <4>2. n + 1 \in Nat
        OBVIOUS
      <4>3. P(n + 1) \in Ps
        BY <4>2, Zenon
      <4> HIDE DEF Ps
      <4> QED BY <2>0, <2>2, <4>1, <4>3
    <3> HIDE DEF Ps
    <3> QED BY <2>2, <3>1
  <2> QED BY <2>1, <2>2
<1>4. 0 \in S
  BY <1>2
<1>5. ASSUME NEW n \in S PROVE n + 1 \in S
  <2>1. n \in Nat /\ n + 1 \in Nat
    OBVIOUS
  <2>2. \A m \in Nat : Len(a[m]) <= Len(a[m + n]) /\ \A i \in 1..Len(a[m]) : a[m + n][i] = a[m][i]
    OBVIOUS
  <2>3. ASSUME NEW m \in Nat
        PROVE  Len(a[m]) <= Len(a[m + (n + 1)]) /\ \A i \in 1..Len(a[m]) : a[m + (n + 1)][i] = a[m][i]
    <3> HIDE DEF S
    <3>1. PICK o \in Nat : o = m + n
      BY <2>1
    <3>2. PICK q \in Nat : q = o + 1 /\ q = m + (n + 1)
      BY <2>1, <3>1
    <3>3. Len(a[m]) <= Len(a[o]) /\ \A i \in 1..Len(a[m]) : a[o][i] = a[m][i]
      BY <2>2, <3>1
    <3>4. Len(a[o]) <= Len(a[q]) /\ \A i \in 1..Len(a[o]) : a[q][i] = a[o][i]
      BY <1>3, <3>2
    <3>5. Len(a[m]) \in Nat /\ Len(a[o]) \in Nat /\ Len(a[q]) \in Nat
      BY <1>2
    <3>6. Len(a[m]) <= Len(a[q]) /\ \A i \in 1..Len(a[m]) : a[q][i] = a[m][i]
      BY <3>3, <3>4, <3>5
    <3> QED BY <3>2, <3>6
  <2> QED BY <2>1, <2>3
<1>6. \A m \in 0..N : /\ Len(a[m]) <= Len(a[N]) /\ \A i \in 1..Len(a[m]) : a[N][i] = a[m][i]
  <2>1. Nat \subseteq S
    <3> HIDE DEF S
    <3> QED BY <1>4, <1>5, AllNaturals
  <2> TAKE m \in 0..N
  <2>2. m \in Nat /\ N - m \in Nat /\ m + (N - m) = N
    BY <1>0
  <2>3. N - m \in S
    BY <2>1, <2>2
  <2> QED BY <2>2, <2>3
<1> HIDE DEF S
<1> DEFINE regex == a[N]
           r == Reached(regex, s)
<1>7. /\ r[0] = {1}
      /\ \A n \in Nat :
           /\ r[n] \subseteq Nat
           /\ \A k : k \in r[n + 1] <=>
                IF regex[n + 1] = ".*" THEN k \in 1..L /\ \E j \in r[n] : j <= k
                ELSE \E j \in r[n] : k = j + 1 /\ j <= Len(s) /\ regex[n + 1] \in {"any", s[j]}
  BY ReachedIs
<1> HIDE DEF r
<1>8. \A n \in 0..(N - 1) : ~Suppresses(glob, n + 1) => regex[Len(a[n]) + 1] = P(n + 1) /\ Len(a[n + 1]) = Len(a[n]) + 1
  <2> TAKE n \in 0..(N - 1)
  <2>1. n \in Nat /\ n + 1 \in 0..N /\ Len(a[n]) \in Nat
    BY <1>0, <1>2
  <2> HAVE ~Suppresses(glob, n + 1)
  <2>2. Len(a[n + 1]) = Len(a[n]) + 1 /\ a[n + 1][Len(a[n]) + 1] = P(n + 1)
    BY <1>3, <2>1
  <2>3. \A i \in 1..Len(a[n + 1]) : a[N][i] = a[n + 1][i]
    BY <1>6, <2>1
  <2>4. Len(a[n]) + 1 \in 1..Len(a[n + 1])
    BY <2>1, <2>2
  <2> QED BY <2>2, <2>3, <2>4
<1> HIDE DEF regex
<1>9. \A n \in 0..(N - 1) :
        /\ glob[n + 1] = "*" => P(n + 1) = ".*"
        /\ glob[n + 1] # "*" => P(n + 1) = glob[n + 1] /\ glob[n + 1] \notin {".*", "any"}
  <2> TAKE n \in 0..(N - 1)
  <2>1. n + 1 \in DOMAIN glob /\ glob[n + 1] \in Characters
    BY <1>0 DEF Text
  <2>2. glob[n + 1] \notin {".*", "any"}
    BY <2>1, PatternsAssumption
  <2>3. glob[n + 1] = "." => n + 1 < Last(glob, "*") /\ Last(glob, "*") \in 1..N
    BY <2>1, LastIs DEF DotsAreQuoted
  <2>4. glob[n + 1] = "." => ~(n + 1 > Last(glob, "*"))
    BY <1>0, <2>3
  <2> QED BY <2>2, <2>4 DEF P, PartOf, IsStar
<1> DEFINE Q == {n \in Nat : n <= N => \A k : k \in r[Len(a[n])] <=> Fills(glob, s, n, k)}
<1>10. 0 \in Q
  <2>1. Len(a[0]) = 0
    BY <1>1
  <2>2. \A k : Fills(glob, s, 0, k) <=> k = 1
    BY FillsNothing
  <2> QED BY <1>7, <2>1, <2>2
<1>11. ASSUME NEW n \in Q PROVE n + 1 \in Q
  <2> SUFFICES ASSUME n + 1 <= N, NEW k PROVE k \in r[Len(a[n + 1])] <=> Fills(glob, s, n + 1, k)
    OBVIOUS
  <2>1. n \in Nat /\ n \in 0..(N - 1) /\ Len(a[n]) \in Nat
    BY <1>0, <1>2
  <2>2. \A j : j \in r[Len(a[n])] <=> Fills(glob, s, n, j)
    BY <2>1
  <2>3. Fills(glob, s, n + 1, k) <=>
          k \in 1..L /\ \E j \in 1..L : Fills(glob, s, n, j) /\ Takes(glob, s, n + 1, j, k)
    BY <2>1, FillsNext
  <2>4. \A j : Fills(glob, s, n, j) => j \in 1..L
    <3> TAKE j
    <3>1. ASSUME Fills(glob, s, n, j) PROVE j \in 1..L
      <4>1. PICK begin \in [1..(n + 1) -> 1..L] : begin[n + 1] = j
        BY <3>1 DEF Fills
      <4>2. n + 1 \in 1..(n + 1)
        BY <2>1
      <4> QED BY <4>1, <4>2
    <3> QED BY <3>1
  <2>5. CASE Suppresses(glob, n + 1)
    <3>1. n - 1 \in Nat /\ (n - 1) + 1 = n /\ glob[n] = "*" /\ glob[n + 1] = "*"
      BY <2>1, <2>5 DEF Suppresses, IsStar
    <3>2. \A j : Fills(glob, s, n, j) <=> j \in 1..L /\ \E i \in 1..L : Fills(glob, s, n - 1, i) /\ i <= j
      <4> TAKE j
      <4>1. Fills(glob, s, (n - 1) + 1, j) <=>
              j \in 1..L /\ \E i \in 1..L : Fills(glob, s, n - 1, i) /\ Takes(glob, s, (n - 1) + 1, i, j)
        BY <3>1, FillsNext
      <4> QED BY <3>1, <4>1 DEF Takes
    <3>3. Fills(glob, s, n + 1, k) <=> k \in 1..L /\ \E j \in 1..L : Fills(glob, s, n, j) /\ j <= k
      BY <2>3, <3>1 DEF Takes
    <3>4. ASSUME k \in 1..L, NEW j \in 1..L, Fills(glob, s, n, j), j <= k PROVE Fills(glob, s, n, k)
      <4>1. PICK i \in 1..L : Fills(glob, s, n - 1, i) /\ i <= j
        BY <3>2, <3>4
      <4>2. i <= k
        BY <1>0, <3>4, <4>1
      <4> QED BY <3>2, <3>4, <4>1, <4>2
    <3>5. ASSUME Fills(glob, s, n, k) PROVE k \in 1..L /\ k <= k
      BY <1>0, <2>4, <3>5
    <3>6. Fills(glob, s, n + 1, k) <=> Fills(glob, s, n, k)
      BY <3>3, <3>4, <3>5
    <3>7. a[n + 1] = a[n]
      BY <1>3, <2>1, <2>5
    <3> QED BY <2>2, <3>6, <3>7
  <2>6. CASE ~Suppresses(glob, n + 1)
    <3>1. regex[Len(a[n]) + 1] = P(n + 1) /\ Len(a[n + 1]) = Len(a[n]) + 1
      BY <1>8, <2>1, <2>6
    <3>2. k \in r[Len(a[n + 1])] <=>
            IF P(n + 1) = ".*" THEN k \in 1..L /\ \E j \in r[Len(a[n])] : j <= k
            ELSE \E j \in r[Len(a[n])] : k = j + 1 /\ j <= Len(s) /\ P(n + 1) \in {"any", s[j]}
      <4>1. PICK m \in Nat : m = Len(a[n])
        BY <2>1
      <4>2. k \in r[m + 1] <=>
              IF regex[m + 1] = ".*" THEN k \in 1..L /\ \E j \in r[m] : j <= k
              ELSE \E j \in r[m] : k = j + 1 /\ j <= Len(s) /\ regex[m + 1] \in {"any", s[j]}
        BY <1>7
      <4> QED BY <3>1, <4>1, <4>2
    <3>3. CASE glob[n + 1] = "*"
      <4>1. k \in r[Len(a[n + 1])] <=> k \in 1..L /\ \E j \in 1..L : Fills(glob, s, n, j) /\ j <= k
        BY <1>9, <2>1, <2>2, <2>4, <3>2, <3>3
      <4> QED BY <2>3, <3>3, <4>1 DEF Takes
    <3>4. CASE glob[n + 1] # "*"
      <4>1. k \in r[Len(a[n + 1])] <=> \E j \in 1..L : Fills(glob, s, n, j) /\ k = j + 1 /\ j <= Len(s) /\ s[j] = glob[n + 1]
        BY <1>9, <2>1, <2>2, <2>4, <3>2, <3>4
      <4>2. Fills(glob, s, n + 1, k) <=>
              k \in 1..L /\ \E j \in 1..L : Fills(glob, s, n, j) /\ k = j + 1 /\ s[j] = glob[n + 1]
        BY <2>3, <3>4 DEF Takes
      <4>3. \A j \in 1..L : k = j + 1 => (k \in 1..L <=> j <= Len(s))
        BY <1>0
      <4> QED BY <4>1, <4>2, <4>3
    <3> QED BY <3>3, <3>4
  <2> QED BY <2>5, <2>6
<1> HIDE DEF Q
<1>12. N \in Q
  BY <1>0, <1>10, <1>11, AllNaturals
<1>13. Len(s) + 1 \in r[Len(regex)] <=> Fills(glob, s, N, Len(s) + 1)
  BY <1>0, <1>12 DEF Q, regex
<1> QED BY <1>13, FillsAll DEF FullMatch, GlobbingToRE2, r, regex, a

LEMMA ExpressionIs ==
  ASSUME NEW glob \in Text
  PROVE  GlobbingToRE2(glob) \in Expressions
<1> DEFINE a == Assembled(glob)
           Parts == Characters \cup {".*", "any"}
           S == {n \in Nat : n <= Len(glob) => a[n] \in Seq(Parts)}
<1>0. Len(glob) \in Nat /\ DOMAIN glob = 1..Len(glob)
  BY DEF Text
<1>1. /\ a[0] = <<>>
      /\ \A n \in Nat : a[n + 1] = IF Suppresses(glob, n + 1) THEN a[n] ELSE Append(a[n], PartOf(glob, n + 1))
  BY AssembledIs
<1>2. \A i \in 1..Len(glob) : PartOf(glob, i) \in Parts
  BY <1>0 DEF PartOf, Text
<1> HIDE DEF a, Parts
<1>3. 0 \in S
  <2>1. a[0] \in Seq(Parts)
    BY <1>1
  <2> QED BY <2>1
<1>4. ASSUME NEW n \in S PROVE n + 1 \in S
  <2>1. n \in Nat /\ n + 1 \in Nat
    OBVIOUS
  <2>2. ASSUME n + 1 <= Len(glob) PROVE a[n + 1] \in Seq(Parts)
    <3>1. n + 1 \in 1..Len(glob) /\ a[n] \in Seq(Parts)
      BY <1>0, <2>1, <2>2
    <3>2. PartOf(glob, n + 1) \in Parts
      BY <1>2, <3>1
    <3>3. a[n + 1] = IF Suppresses(glob, n + 1) THEN a[n] ELSE Append(a[n], PartOf(glob, n + 1))
      BY <1>1, <2>1
    <3> HIDE DEF S
    <3> QED BY <3>1, <3>2, <3>3
  <2> QED BY <2>1, <2>2
<1> HIDE DEF S
<1>5. Len(glob) \in S
  BY <1>0, <1>3, <1>4, AllNaturals
<1>6. a[Len(glob)] \in Seq(Parts)
  BY <1>0, <1>5 DEF S
<1> QED BY <1>6 DEF GlobbingToRE2, Expressions, a, Parts

(* A name without stars is filled in by itself only.                       *)
LEMMA NoStars ==
  ASSUME NEW name \in Text, NEW glob \in Text, ~Has(glob, "*")
  PROVE  FillsIn(name, glob) <=> name = glob
<1> DEFINE N == Len(glob)
           L == Len(name)
<1>0. N \in Nat /\ L \in Nat /\ \A i \in 1..N : glob[i] # "*"
  BY HasWhere DEF Text
<1>1. FillsIn(name, glob) <=> \E begin \in [1..(N + 1) -> 1..(L + 1)] : begin[N + 1] = L + 1 /\ Begins(glob, name, N, begin)
  BY FillsAll DEF Fills
<1>2. ASSUME name = glob PROVE FillsIn(name, glob)
  <2> DEFINE begin == [i \in 1..(N + 1) |-> i]
  <2>1. begin \in [1..(N + 1) -> 1..(L + 1)] /\ begin[N + 1] = L + 1 /\ begin[1] = 1
    BY <1>0, <1>2
  <2>2. \A i \in 1..N : begin[i] = i /\ begin[i + 1] = i + 1
    BY <1>0
  <2> HIDE DEF begin
  <2>3. \A i \in 1..N : Takes(glob, name, i, begin[i], begin[i + 1])
    BY <1>0, <1>2, <2>2 DEF Takes
  <2> QED BY <1>1, <2>1, <2>3 DEF Begins
<1>3. ASSUME FillsIn(name, glob) PROVE name = glob
  <2>1. PICK begin \in [1..(N + 1) -> 1..(L + 1)] : begin[N + 1] = L + 1 /\ Begins(glob, name, N, begin)
    BY <1>1, <1>3
  <2>2. begin[1] = 1 /\ \A i \in 1..N : begin[i + 1] = begin[i] + 1 /\ name[begin[i]] = glob[i]
    BY <1>0, <2>1 DEF Begins, Takes
  <2> DEFINE S == {n \in Nat : n <= N => begin[n + 1] = n + 1}
  <2>3. 0 \in S
    BY <2>2
  <2>4. ASSUME NEW n \in S PROVE n + 1 \in S
    <3>1. n \in Nat /\ n + 1 \in Nat
      OBVIOUS
    <3>2. ASSUME n + 1 <= N PROVE begin[(n + 1) + 1] = (n + 1) + 1
      <4>1. n + 1 \in 1..N /\ begin[n + 1] = n + 1
        BY <1>0, <3>1, <3>2
      <4> QED BY <2>2, <4>1
    <3> QED BY <3>1, <3>2
  <2>5. Nat \subseteq S
    <3> HIDE DEF S
    <3> QED BY <2>3, <2>4, AllNaturals
  <2>6. \A n \in 0..N : begin[n + 1] = n + 1
    BY <1>0, <2>5
  <2>7. N = L
    BY <1>0, <2>1, <2>6
  <2>8. \A i \in 1..N : begin[i] = i
    <3> TAKE i \in 1..N
    <3>1. i - 1 \in 0..N /\ (i - 1) + 1 = i
      BY <1>0
    <3>2. begin[(i - 1) + 1] = (i - 1) + 1
      BY <2>6, <3>1
    <3> QED BY <3>1, <3>2
  <2> QED BY <2>2, <2>7, <2>8, SameText
<1> QED BY <1>2, <1>3

-----------------------------------------------------------------------------
(* The ends of texts and paths.                                            *)
LEMMA PrefixIs ==
  ASSUME NEW s \in Seq(Characters), NEW t \in Seq(Characters)
  PROVE  Seqs!IsPrefix(s, t) <=> Len(s) <= Len(t) /\ \A i \in 1..Len(s) : s[i] = t[i]
<1>0. Len(s) \in Nat /\ Len(t) \in Nat /\ s \in Text /\ t \in Text
  BY DEF Text
<1>1. ASSUME Len(s) <= Len(t)
      PROVE  SubSeq(s, 1, Len(s)) = SubSeq(t, 1, Len(s)) <=> \A i \in 1..Len(s) : s[i] = t[i]
  <2>1. 1 \in 1..(Len(s) + 1) /\ 1 \in 1..(Len(t) + 1) /\ Len(s) \in 0..Len(s) /\ Len(s) \in 0..Len(t) /\ 1 <= Len(s) + 1
    BY <1>0, <1>1
  <2>2. SubSeq(s, 1, Len(s)) \in Text /\ Len(SubSeq(s, 1, Len(s))) = Len(s) - 1 + 1 /\ \A i \in 1..(Len(s) - 1 + 1) : SubSeq(s, 1, Len(s))[i] = s[1 + i - 1]
    BY <1>0, <2>1, PartIs
  <2>3. SubSeq(t, 1, Len(s)) \in Text /\ Len(SubSeq(t, 1, Len(s))) = Len(s) - 1 + 1 /\ \A i \in 1..(Len(s) - 1 + 1) : SubSeq(t, 1, Len(s))[i] = t[1 + i - 1]
    BY <1>0, <2>1, PartIs
  <2> DEFINE u == SubSeq(s, 1, Len(s))
             v == SubSeq(t, 1, Len(s))
  <2>4. /\ u \in Text /\ v \in Text /\ Len(u) = Len(s) /\ Len(v) = Len(s)
        /\ \A i \in 1..Len(s) : u[i] = s[i] /\ v[i] = t[i]
    BY <1>0, <2>2, <2>3
  <2> HIDE DEF u, v
  <2>5. u = v <=> \A i \in 1..Len(s) : s[i] = t[i]
    BY <2>4, SameText
  <2> QED BY <2>5 DEF u, v
<1> QED BY <1>1 DEF Seqs!IsPrefix

LEMMA EndsWithIs ==
  ASSUME NEW s \in Text, NEW end \in Text
  PROVE  EndsWith(s, end) <=> Len(end) <= Len(s) /\ \A i \in 1..Len(end) : s[Len(s) - Len(end) + i] = end[i]
<1>0. Len(s) \in Nat /\ Len(end) \in Nat
  BY DEF Text
<1> DEFINE u == Seqs!Reverse(end)
           v == Seqs!Reverse(s)
<1>1. /\ u \in Seq(Characters) /\ Len(u) = Len(end) /\ \A i \in 1..Len(end) : u[i] = end[(Len(end) - i) + 1]
      /\ v \in Seq(Characters) /\ Len(v) = Len(s) /\ \A i \in 1..Len(s) : v[i] = s[(Len(s) - i) + 1]
  <2>1. ASSUME NEW x \in Text
        PROVE  /\ Seqs!Reverse(x) \in Seq(Characters) /\ Len(Seqs!Reverse(x)) = Len(x)
               /\ \A i \in 1..Len(x) : Seqs!Reverse(x)[i] = x[(Len(x) - i) + 1]
    <3>1. Len(x) \in Nat /\ \A i \in 1..Len(x) : (Len(x) - i) + 1 \in 1..Len(x)
      BY DEF Text
    <3>2. \A i \in 1..Len(x) : x[(Len(x) - i) + 1] \in Characters
      BY <3>1 DEF Text
    <3>3. Seqs!Reverse(x) = [i \in 1..Len(x) |-> x[(Len(x) - i) + 1]]
      BY DEF Seqs!Reverse
    <3> QED BY <3>1, <3>2, <3>3
  <2> QED BY <2>1
<1> HIDE DEF u, v
<1>2. Seqs!IsPrefix(u, v) <=> Len(u) <= Len(v) /\ \A i \in 1..Len(u) : u[i] = v[i]
  BY <1>1, PrefixIs
<1>3. ASSUME Len(end) <= Len(s)
      PROVE  (\A i \in 1..Len(u) : u[i] = v[i]) <=> \A i \in 1..Len(end) : s[Len(s) - Len(end) + i] = end[i]
  <2>1. ASSUME NEW i \in 1..Len(end), \A j \in 1..Len(u) : u[j] = v[j] PROVE s[Len(s) - Len(end) + i] = end[i]
    <3>1. PICK j \in 1..Len(end) : j = (Len(end) - i) + 1
      BY <1>0
    <3>2. j \in 1..Len(s) /\ (Len(end) - j) + 1 = i /\ (Len(s) - j) + 1 = Len(s) - Len(end) + i
      BY <1>0, <1>3, <3>1
    <3>3. u[j] = v[j] /\ u[j] = end[(Len(end) - j) + 1] /\ v[j] = s[(Len(s) - j) + 1]
      BY <1>1, <2>1, <3>1, <3>2
    <3> QED BY <3>2, <3>3
  <2>2. ASSUME NEW j \in 1..Len(u), \A i \in 1..Len(end) : s[Len(s) - Len(end) + i] = end[i] PROVE u[j] = v[j]
    <3>1. PICK i \in 1..Len(end) : i = (Len(end) - j) + 1
      BY <1>0, <1>1
    <3>2. j \in 1..Len(s) /\ j \in 1..Len(end) /\ (Len(s) - j) + 1 = Len(s) - Len(end) + i
      <4>1. Len(u) = Len(end)
        BY <1>1
      <4>2. j \in 1..Len(end)
        BY <4>1
      <4> QED BY <1>0, <1>3, <3>1, <4>2
    <3>3. u[j] = end[i] /\ v[j] = s[Len(s) - Len(end) + i]
      BY <1>1, <3>1, <3>2
    <3> QED BY <2>2, <3>3
  <2> QED BY <2>1, <2>2
<1> QED BY <1>1, <1>2, <1>3 DEF EndsWith, Seqs!IsSuffix, u, v

LEMMA JoinedEnds ==
  ASSUME NEW s \in Text, NEW end \in Text
  PROVE  EndsWith(s \o end, end)
<1>1. /\ s \o end \in Text /\ Len(s \o end) = Len(s) + Len(end)
      /\ \A i \in 1..Len(end) : (s \o end)[Len(s) + i] = end[i]
  BY JoinedIs
<1>2. Len(s) \in Nat /\ Len(end) \in Nat
  BY DEF Text
<1> DEFINE t == s \o end
<1> HIDE DEF t
<1>3. t \in Text /\ Len(t) = Len(s) + Len(end) /\ \A i \in 1..Len(end) : t[Len(s) + i] = end[i]
  BY <1>1 DEF t
<1>4. Len(end) <= Len(t) /\ \A i \in 1..Len(end) : Len(t) - Len(end) + i = Len(s) + i
  BY <1>2, <1>3
<1>5. EndsWith(t, end)
  BY <1>3, <1>4, EndsWithIs
<1> QED BY <1>5 DEF t

\* What ends with a text that has a last character, ends with that.
LEMMA EndOfEnd ==
  ASSUME NEW s \in Text, NEW end \in Text, EndsWith(s, end), end # <<>>
  PROVE  s # <<>> /\ s[Len(s)] = end[Len(end)]
<1>1. Len(s) \in Nat /\ Len(end) \in Nat /\ Len(end) # 0
  BY DEF Text
<1>2. Len(end) <= Len(s) /\ s[Len(s) - Len(end) + Len(end)] = end[Len(end)]
  BY <1>1, EndsWithIs
<1>3. Len(s) - Len(end) + Len(end) = Len(s) /\ Len(s) # 0
  BY <1>1, <1>2
<1> QED BY <1>2, <1>3

LEMMA BelowIs ==
  ASSUME NEW package \in [project : Text, path : Text], NEW top \in [project : Text, path : Text]
  PROVE  IsBelow(package, top) <=>
           /\ package.project = top.project
           /\ \/ top.path \in {<<>>, package.path}
              \/ Seqs!IsPrefix(top.path \o <<"/">>, package.path)
<1> DEFINE x == package.path
           y == top.path
           z == y \o <<"/">>
<1>0. x \in Text /\ y \in Text /\ Len(x) \in Nat /\ Len(y) \in Nat /\ DOMAIN x = 1..Len(x)
  BY DEF Text
<1>1. <<"/">> \in Text /\ Len(<<"/">>) = 1 /\ <<"/">>[1] = "/"
  BY CharactersAssumption DEF Text
<1>a. IsBelow(package, top) <=>
        package.project = top.project /\ (y = <<>> \/ \E n \in PartEnds(x) : SubSeq(x, 1, n) = y)
  BY DEF IsBelow
<1> HIDE DEF x, y
<1>2. z \in Text /\ Len(z) = Len(y) + 1 /\ z[Len(y) + 1] = "/" /\ \A i \in 1..Len(y) : z[i] = y[i]
  BY <1>0, <1>1, JoinedIs
<1> HIDE DEF z
<1>3. Seqs!IsPrefix(z, x) <=> Len(z) <= Len(x) /\ \A i \in 1..Len(z) : z[i] = x[i]
  BY <1>0, <1>2, PrefixIs DEF Text
<1>4. ASSUME NEW n \in 0..Len(x)
      PROVE  SubSeq(x, 1, n) = y <=> Len(y) = n /\ \A i \in 1..n : x[i] = y[i]
  <2>1. /\ SubSeq(x, 1, n) \in Text /\ Len(SubSeq(x, 1, n)) = n - 1 + 1
        /\ \A i \in 1..(n - 1 + 1) : SubSeq(x, 1, n)[i] = x[1 + i - 1]
    BY <1>0, PartIs
  <2> DEFINE u == SubSeq(x, 1, n)
  <2>2. u \in Text /\ Len(u) = n /\ \A i \in 1..n : u[i] = x[i]
    BY <2>1
  <2> HIDE DEF u
  <2>3. u = y <=> Len(y) = n /\ \A i \in 1..n : x[i] = y[i]
    BY <1>0, <2>2, SameText
  <2> QED BY <2>3 DEF u
<1>5. \A n : n \in PartEnds(x) <=> n = Len(x) \/ \E i \in 1..Len(x) : x[i] = "/" /\ n = i - 1
  BY <1>0 DEF PartEnds
<1>6. (\E n \in PartEnds(x) : SubSeq(x, 1, n) = y) <=> y = x \/ Seqs!IsPrefix(z, x)
  <2>1. ASSUME NEW n \in PartEnds(x), SubSeq(x, 1, n) = y PROVE y = x \/ Seqs!IsPrefix(z, x)
    <3>1. CASE n = Len(x)
      <4>1. n \in 0..Len(x)
        BY <1>0, <3>1
      <4>2. Len(y) = n /\ \A i \in 1..n : x[i] = y[i]
        BY <1>4, <2>1, <4>1
      <4> QED BY <1>0, <3>1, <4>2, SameText
    <3>2. ASSUME NEW i \in 1..Len(x), x[i] = "/", n = i - 1 PROVE Seqs!IsPrefix(z, x)
      <4>1. Len(y) = n /\ \A j \in 1..n : x[j] = y[j]
        BY <1>0, <1>4, <2>1, <3>2
      <4>2. Len(z) = i /\ Len(z) <= Len(x)
        BY <1>0, <1>2, <3>2, <4>1
      <4>3. ASSUME NEW j \in 1..Len(z) PROVE z[j] = x[j]
        <5>1. j = Len(y) + 1 \/ j \in 1..Len(y)
          BY <1>0, <1>2
        <5>2. Len(y) + 1 = i
          BY <1>0, <3>2, <4>1
        <5> QED BY <1>2, <3>2, <4>1, <5>1, <5>2
      <4> QED BY <1>3, <4>2, <4>3
    <3> QED BY <1>5, <2>1, <3>1, <3>2
  <2>2. ASSUME y = x PROVE \E n \in PartEnds(x) : SubSeq(x, 1, n) = y
    <3>1. Len(x) \in PartEnds(x) /\ Len(x) \in 0..Len(x)
      BY <1>0, <1>5
    <3> QED BY <1>4, <2>2, <3>1
  <2>3. ASSUME Seqs!IsPrefix(z, x) PROVE \E n \in PartEnds(x) : SubSeq(x, 1, n) = y
    <3>1. PICK i \in 1..Len(x) : i = Len(y) + 1
      BY <1>0, <1>2, <1>3, <2>3
    <3>2. x[i] = "/" /\ \A j \in 1..Len(y) : x[j] = y[j]
      BY <1>0, <1>2, <1>3, <2>3, <3>1
    <3>3. Len(y) = i - 1 /\ i - 1 \in 0..Len(x)
      BY <1>0, <3>1
    <3>4. i - 1 \in PartEnds(x)
      BY <1>5, <3>2
    <3> QED BY <1>4, <3>2, <3>3, <3>4
  <2> QED BY <2>1, <2>2, <2>3
<1> QED BY <1>a, <1>6 DEF x, y, z

-----------------------------------------------------------------------------
(* Labels with dots.                                                       *)
SlashDots == <<"/">> \o Ellipsis

LEMMA DotsAre ==
  /\ Ellipsis \in Text /\ Len(Ellipsis) = 3 /\ Ellipsis # <<>> /\ (\A i \in 1..3 : Ellipsis[i] = ".")
  /\ SlashDots \in Text /\ Len(SlashDots) = 4 /\ SlashDots[1] = "/" /\ SlashDots # <<>> /\ SlashDots[4] = "."
<1>1. Ellipsis \in Text /\ Len(Ellipsis) = 3 /\ Ellipsis # <<>> /\ (\A i \in 1..3 : Ellipsis[i] = ".")
  <2>1. ASSUME NEW c \in Characters
        PROVE  <<c, c, c>> \in Text /\ Len(<<c, c, c>>) = 3 /\ <<c, c, c>> # <<>> /\ \A i \in 1..3 : <<c, c, c>>[i] = c
    BY DEF Text
  <2>2. "." \in Characters
    BY PatternsAssumption, Zenon
  <2> QED BY <2>1, <2>2, Zenon DEF Ellipsis
<1>2. <<"/">> \in Text /\ Len(<<"/">>) = 1 /\ <<"/">>[1] = "/"
  BY CharactersAssumption DEF Text
<1> DEFINE a == <<"/">>
           b == Ellipsis
<1>3. a \in Text /\ Len(a) = 1 /\ a[1] = "/" /\ b \in Text /\ Len(b) = 3 /\ \A i \in 1..3 : b[i] = "."
  BY <1>1, <1>2
<1> HIDE DEF a, b
<1>4. /\ a \o b \in Text /\ Len(a \o b) = Len(a) + Len(b)
      /\ (\A i \in 1..Len(a) : (a \o b)[i] = a[i]) /\ \A i \in 1..Len(b) : (a \o b)[Len(a) + i] = b[i]
  BY <1>3, JoinedIs
<1> DEFINE c == a \o b
<1>5. c \in Text /\ Len(c) = 4 /\ c[1] = "/" /\ c[1 + 3] = "."
  BY <1>3, <1>4
<1> HIDE DEF c
<1>6. c # <<>> /\ c[4] = "."
  BY <1>5
<1> QED BY <1>1, <1>5, <1>6 DEF SlashDots, a, b, c

LEMMA DotsCut ==
  ASSUME NEW p \in [project : Text, path : Text]
  PROVE  EndsInDots(WithDots(p).path) /\ [WithDots(p) EXCEPT !.path = Cut(@)] = p
<1> DEFINE path == p.path
           q == WithDots(p).path
<1>0. path \in Text /\ Len(path) \in Nat /\ p = [project |-> p.project, path |-> path]
  BY DEF Text
<1>1. WithDots(p) = [p EXCEPT !.path = q] /\ q = IF path = <<>> THEN Ellipsis ELSE path \o <<"/">> \o Ellipsis
  BY DEF WithDots
<1>2. EndsInDots(q) /\ Cut(q) = path
  <2>1. CASE path = <<>>
    <3>1. q = Ellipsis
      BY <1>1, <2>1
    <3> DEFINE b == Ellipsis
    <3>2. b \in Text /\ Len(b) = 3
      BY DotsAre
    <3> HIDE DEF b
    <3>3. SubSeq(b, 1, Len(b) - 3) = <<>>
      <4>1. Len(b) - 3 = 0 /\ 1 \in Int /\ 0 \in Int /\ 0 < 1
        BY <3>2
      <4>2. SubSeq(b, 1, 0) = <<>>
        BY <4>1, SubSeqEmpty
      <4> QED BY <4>1, <4>2
    <3>4. ~(Len(b) > 3)
      BY <3>2
    <3>5. Cut(b) = <<>>
      BY <3>3, <3>4 DEF Cut
    <3> QED BY <2>1, <3>1, <3>5 DEF EndsInDots, b
  <2>2. CASE path # <<>>
    <3> DEFINE e == SlashDots
    <3>1. e \in Text /\ Len(e) = 4
      BY DotsAre
    <3>2. q = path \o e
      <4>1. <<"/">> \in Text
        BY CharactersAssumption DEF Text
      <4>2. Ellipsis \in Text
        BY DotsAre
      <4>3. \A r, s, t \in Text : (r \o s) \o t = r \o (s \o t)
        <5> TAKE r \in Text, s \in Text, t \in Text
        <5>1. r \in Seq(Characters) /\ s \in Seq(Characters) /\ t \in Seq(Characters)
          BY DEF Text
        <5> QED BY ONLY <5>1, ConcatAssociative
      <4>4. (path \o <<"/">>) \o Ellipsis = path \o (<<"/">> \o Ellipsis)
        BY <1>0, <4>1, <4>2, <4>3
      <4> QED BY <1>1, <2>2, <4>4 DEF SlashDots
    <3>3. EndsWith(q, e)
      BY <1>0, <3>1, <3>2, JoinedEnds
    <3>4. EndsInDots(q)
      BY <3>3 DEF EndsInDots, SlashDots, e
    <3> HIDE DEF path, e, q
    <3>5. q \in Text /\ Len(q) = Len(path) + 4 /\ \A i \in 1..Len(path) : q[i] = path[i]
      <4>1. path \o e \in Text /\ Len(path \o e) = Len(path) + Len(e) /\ \A i \in 1..Len(path) : (path \o e)[i] = path[i]
        BY <1>0, <3>1, JoinedIs
      <4> QED BY <3>1, <3>2, <4>1
    <3>6. Len(q) > 3 /\ Len(q) - 4 = Len(path) /\ Len(path) \in 0..Len(q) /\ 1 \in 1..(Len(q) + 1) /\ 1 <= Len(path) + 1
      BY <1>0, <3>5
    <3>7. Cut(q) = SubSeq(q, 1, Len(path))
      BY <3>6 DEF Cut
    <3>8. /\ SubSeq(q, 1, Len(path)) \in Text /\ Len(SubSeq(q, 1, Len(path))) = Len(path) - 1 + 1
          /\ \A i \in 1..(Len(path) - 1 + 1) : SubSeq(q, 1, Len(path))[i] = q[1 + i - 1]
      BY <3>5, <3>6, PartIs
    <3>9. Cut(q) \in Text /\ Len(Cut(q)) = Len(path) /\ \A i \in 1..Len(path) : Cut(q)[i] = path[i]
      BY <1>0, <3>5, <3>7, <3>8
    <3> HIDE DEF Cut
    <3>10. Cut(q) = path
      BY <1>0, <3>9, SameText
    <3> QED BY <3>4, <3>10
  <2> QED BY <2>1, <2>2
<1> HIDE DEF q
<1>3. [WithDots(p) EXCEPT !.path = Cut(@)] = p
  BY <1>0, <1>1, <1>2
<1> QED BY <1>2, <1>3 DEF q

-----------------------------------------------------------------------------
(* What is read from a label is the pattern that is meant.                 *)
Matches(p, w) ==
  /\ p \in Patterns /\ (p.kind = "always" => p = AlwaysMatch)
  /\ \A t \in Asked : MatchTarget(p, t) <=> IsMeant(w, t)

LEMMA PatternIs ==
  ASSUME NEW kind_ \in {"always", "exact", "regex", "package", "recursive"},
         NEW p \in [project : Text, path : Text], NEW n \in Text, NEW r \in Expressions
  PROVE  /\ Pattern(kind_, p, n, r) \in Patterns
         /\ Pattern(kind_, p, n, r).kind = kind_
         /\ Pattern(kind_, p, n, r).pattern = [package |-> p, target_name |-> n]
         /\ Pattern(kind_, p, n, r).regex = r
BY DEF Pattern, Patterns, Target

LEMMA NoText == <<>> \in Text /\ <<>> \in Expressions
BY DEF Text, Expressions

LEMMA PackageMatches ==
  ASSUME NEW w, w.kind = "package", w.package \in [project : Text, path : Text]
  PROVE  Matches(Pattern("package", w.package, <<>>, <<>>), w)
<1> DEFINE p == Pattern("package", w.package, <<>>, <<>>)
<1>1. "package" \in {"always", "exact", "regex", "package", "recursive"}
  BY Zenon
<1>2. p \in Patterns /\ p.kind = "package" /\ p.pattern = [package |-> w.package, target_name |-> <<>>]
  BY <1>1, NoText, PatternIs
<1> HIDE DEF p
<1>3. \A t \in Asked : MatchTarget(p, t) <=> t.package = w.package
  BY <1>2 DEF MatchTarget, MatchPackage
<1> QED BY <1>2, <1>3 DEF Matches, IsMeant, p

LEMMA RecursiveMatches ==
  ASSUME NEW w, w.kind = "below", w.package \in [project : Text, path : Text]
  PROVE  Matches(Pattern("recursive", w.package, <<>>, <<>>), w)
<1> DEFINE p == Pattern("recursive", w.package, <<>>, <<>>)
           top == w.package
<1>1. "recursive" \in {"always", "exact", "regex", "package", "recursive"}
  BY Zenon
<1>2. p \in Patterns /\ p.kind = "recursive" /\ p.pattern = [package |-> top, target_name |-> <<>>]
  BY <1>1, NoText, PatternIs
<1> HIDE DEF p, top
<1>3. ASSUME NEW t \in Asked PROVE MatchTarget(p, t) <=> IsBelow(t.package, top)
  <2>1. t.package \in [project : Text, path : Text]
    BY PatternsAssumption
  <2>2. p.pattern.package = top
    BY <1>2
  <2>3. MatchTarget(p, t) <=> /\ t.package.project = top.project
                              /\ \/ top.path \in {<<>>, t.package.path}
                                 \/ Seqs!IsPrefix(top.path \o <<"/">>, t.package.path)
    BY <1>2, <2>2 DEF MatchTarget, MatchPackage
  <2>4. top \in [project : Text, path : Text]
    BY DEF top
  <2> QED BY <2>1, <2>3, <2>4, BelowIs
<1>4. \A t \in Asked : IsMeant(w, t) <=> IsBelow(t.package, top)
  BY DEF IsMeant, top
<1> QED BY <1>2, <1>3, <1>4 DEF Matches, p

LEMMA NamesMatch ==
  ASSUME NEW w, w.kind = "targets", w.package \in [project : Text, path : Text],
         w.name \in Text, IsPlainName(w.name)
  PROVE  /\ Has(w.name, "*") => Matches(Pattern("regex", w.package, <<>>, GlobbingToRE2(w.name)), w)
         /\ ~Has(w.name, "*") => Matches(Pattern("exact", w.package, w.name, <<>>), w)
<1> DEFINE name == w.name
           top == w.package
<1>0. /\ "regex" \in {"always", "exact", "regex", "package", "recursive"}
      /\ "exact" \in {"always", "exact", "regex", "package", "recursive"}
  BY Zenon
<1>1. ASSUME NEW t \in Asked
      PROVE  t = [package |-> t.package, target_name |-> t.target_name] /\ t.target_name \in Text
  BY PatternsAssumption
<1>2. \A t \in Asked : IsMeant(w, t) <=> t.package = top /\ FillsIn(t.target_name, name)
  BY DEF IsMeant
<1>3. name \in Text /\ top \in [project : Text, path : Text] /\ (Has(name, "*") => DotsAreQuoted(name))
  BY DEF IsPlainName, DotsAreQuoted
<1> HIDE DEF name, top
<1>4. ASSUME Has(name, "*") PROVE Matches(Pattern("regex", top, <<>>, GlobbingToRE2(name)), w)
  <2> DEFINE r == GlobbingToRE2(name)
             p == Pattern("regex", top, <<>>, r)
  <2>1. r \in Expressions
    BY <1>3, ExpressionIs
  <2>2. \A t \in Asked : FullMatch(r, t.target_name) <=> FillsIn(t.target_name, name)
    BY <1>1, <1>3, <1>4, GlobbingIs
  <2> HIDE DEF r
  <2>3. p \in Patterns /\ p.kind = "regex" /\ p.pattern = [package |-> top, target_name |-> <<>>] /\ p.regex = r
    BY <1>0, <1>3, <2>1, NoText, PatternIs
  <2> HIDE DEF p
  <2>4. \A t \in Asked : MatchTarget(p, t) <=> t.package = top /\ FullMatch(r, t.target_name)
    BY <2>3 DEF MatchTarget
  <2>5. Matches(p, w)
    BY <1>2, <2>2, <2>3, <2>4 DEF Matches
  <2> QED BY <2>5 DEF p, r
<1>5. ASSUME ~Has(name, "*") PROVE Matches(Pattern("exact", top, name, <<>>), w)
  <2> DEFINE p == Pattern("exact", top, name, <<>>)
  <2>1. \A t \in Asked : FillsIn(t.target_name, name) <=> t.target_name = name
    BY <1>1, <1>3, <1>5, NoStars
  <2>2. p \in Patterns /\ p.kind = "exact" /\ p.pattern = [package |-> top, target_name |-> name]
    BY <1>0, <1>3, NoText, PatternIs
  <2> HIDE DEF p
  <2>3. \A t \in Asked : MatchTarget(p, t) <=> t.package = top /\ t.target_name = name
    BY <1>1, <2>2 DEF MatchTarget
  <2>4. Matches(p, w)
    BY <1>2, <2>1, <2>2, <2>3 DEF Matches
  <2> QED BY <2>4 DEF p
<1> QED BY <1>4, <1>5 DEF name, top

-----------------------------------------------------------------------------
IsReadAs(read, p, n) ==
  LET IsGroup == n \in PackageNames \cup {<<"__subpackages__">>} IN
  /\ n \in PackageNames => read = Pattern("package", p, <<>>, <<>>)
  /\ n \notin PackageNames /\ n = <<"__subpackages__">> => read = Pattern("recursive", p, <<>>, <<>>)
  /\ ~IsGroup /\ EndsInDots(p.path) => read = Pattern("recursive", [p EXCEPT !.path = Cut(@)], <<>>, <<>>)
  /\ ~IsGroup /\ ~EndsInDots(p.path) =>
       /\ n = Ellipsis /\ p.path = <<>> => read = Pattern("recursive", p, <<>>, <<>>)
       /\ n # Ellipsis /\ Has(n, "*") => read = Pattern("regex", p, <<>>, GlobbingToRE2(n))
       /\ n # Ellipsis /\ ~Has(n, "*") => read = Pattern("exact", p, n, <<>>)

LEMMA PatternOf ==
  ASSUME NEW s, NEW ctx, NEW p, NEW n, ParseFrom(s, ctx) = Target(p, n), Target(p, n) # Rejected
  PROVE  IsReadAs(PatternParseFrom(s, ctx), p, n)
<1> DEFINE read == PatternParseFrom(s, ctx)
           t == Target(p, n)
<1>1. t.package = p /\ t.target_name = n
  BY DEF Target
<1>2. \A x : x \in PackageNames <=> x \in {<<"__pkg__">>, <<"all">>, <<"*">>}
  BY Zenon DEF PackageNames
<1>3. \A path : EndsInDots(path) <=> path = Ellipsis \/ EndsWith(path, <<"/">> \o Ellipsis)
  BY DEF EndsInDots
<1> DEFINE InGroup(x) == x \in {<<"__pkg__">>, <<"all">>, <<"*">>}
<1>4. read = IF t = Rejected THEN Rejected
             ELSE IF InGroup(n) THEN Pattern("package", p, <<>>, <<>>)
             ELSE IF n = <<"__subpackages__">> THEN Pattern("recursive", p, <<>>, <<>>)
             ELSE IF p.path = Ellipsis \/ EndsWith(p.path, <<"/">> \o Ellipsis)
             THEN Pattern("recursive", [p EXCEPT !.path = Cut(@)], <<>>, <<>>)
             ELSE IF n = Ellipsis
             THEN IF p.path # <<>> THEN Rejected ELSE Pattern("recursive", p, <<>>, <<>>)
             ELSE IF Has(n, "*") THEN Pattern("regex", p, <<>>, GlobbingToRE2(n))
             ELSE Pattern("exact", p, n, <<>>)
  <2>1. ParseFrom(s, ctx) = t
    OBVIOUS
  <2> HIDE DEF t
  <2> QED BY <1>1, <2>1, Zenon DEF PatternParseFrom, InGroup, read
<1>5. t # Rejected
  OBVIOUS
<1>6. n \notin PackageNames \cup {<<"__subpackages__">>} <=> ~InGroup(n) /\ n # <<"__subpackages__">>
  BY <1>2
<1>7. n \in PackageNames <=> InGroup(n)
  BY <1>2
<1> HIDE DEF t, InGroup, read
<1>8. n \in PackageNames => read = Pattern("package", p, <<>>, <<>>)
  BY <1>4, <1>5, <1>7, Zenon
<1>9. n \notin PackageNames /\ n = <<"__subpackages__">> => read = Pattern("recursive", p, <<>>, <<>>)
  BY <1>4, <1>5, <1>7, Zenon
<1> DEFINE IsGroup == n \in PackageNames \cup {<<"__subpackages__">>}
<1>10. ~IsGroup /\ EndsInDots(p.path) => read = Pattern("recursive", [p EXCEPT !.path = Cut(@)], <<>>, <<>>)
  BY <1>3, <1>4, <1>5, <1>6, Zenon
<1>11. ~IsGroup /\ ~EndsInDots(p.path) =>
              /\ n = Ellipsis /\ p.path = <<>> => read = Pattern("recursive", p, <<>>, <<>>)
              /\ n # Ellipsis /\ Has(n, "*") => read = Pattern("regex", p, <<>>, GlobbingToRE2(n))
              /\ n # Ellipsis /\ ~Has(n, "*") => read = Pattern("exact", p, n, <<>>)
  BY <1>3, <1>4, <1>5, <1>6, Zenon
<1> QED BY <1>8, <1>9, <1>10, <1>11, Zenon DEF read, IsReadAs

\* The names of groups.
LEMMA GroupNames ==
  /\ \A n \in PackageNames : n # <<>>
  /\ <<"__subpackages__">> \notin PackageNames /\ <<"__subpackages__">> # <<>>
  /\ Ellipsis \notin PackageNames \cup {<<"__subpackages__">>} /\ Ellipsis # <<>>
<1>1. \A n \in PackageNames : Len(n) = 1
  BY DEF PackageNames
<1>2. <<"__subpackages__">> \notin PackageNames /\ <<"__subpackages__">> # <<>>
  BY DEF PackageNames
<1>3. Len(<<"__subpackages__">>) = 1
  OBVIOUS
<1>4. Len(Ellipsis) = 3 /\ Ellipsis # <<>>
  BY DotsAre
<1>5. Ellipsis # <<"__subpackages__">> /\ Ellipsis \notin PackageNames
  <2> DEFINE dots == Ellipsis
  <2>1. Len(dots) = 3
    BY <1>4
  <2> HIDE DEF dots
  <2>2. dots # <<"__subpackages__">> /\ dots \notin PackageNames
    BY <1>1, <1>3, <2>1
  <2> QED BY <2>2 DEF dots
<1>6. \A n \in PackageNames : n # <<>>
  BY <1>1
<1> QED BY <1>2, <1>4, <1>5, <1>6

(* Each spelling of the labels of what is meant is read as a pattern that  *)
(* matches it.                                                             *)
LEMMA LabelsMatch ==
  ASSUME NEW ctx, IsPackage(ctx), NEW w, IsPackage(w.package), ~EndsInDots(w.package.path),
         w.kind = "targets" => w.name \in Text /\ IsPlainName(w.name),
         NEW l \in LabelsOf(w), IsTargetOf(l, ctx), NEW s \in Spellings(l, ctx)
  PROVE  Matches(PatternParseFrom(s, ctx), w)
<1> DEFINE read == PatternParseFrom(s, ctx)
<1>0. w.package \in [project : Text, path : Text]
  BY DEF IsPackage
<1>1. ASSUME NEW p, NEW n, l = Target(p, n), n # <<>>
      PROVE  ParseFrom(s, ctx) = Target(p, n) /\ Target(p, n) # Rejected
  <2>1. l.target_name = n
    BY <1>1 DEF Target
  <2>2. ParseFrom(s, ctx) = l
    BY <1>1, <2>1, SpellingsAreRead
  <2>3. l # Rejected
    BY RejectedAssumption DEF IsTargetOf
  <2> QED BY <1>1, <2>2, <2>3
<1>2. CASE w.kind = "targets"
  <2> DEFINE n == w.name
  <2>1. l = Target(w.package, n)
    BY <1>2 DEF LabelsOf
  <2>2. n \in Text /\ IsPlainName(n)
    BY <1>2
  <2>3. n \notin PackageNames \cup {<<"__subpackages__">>} /\ n # Ellipsis /\ n # <<>>
    BY <2>2 DEF IsPlainName
  <2> HIDE DEF n
  <2>4. ParseFrom(s, ctx) = Target(w.package, n) /\ Target(w.package, n) # Rejected
    BY <1>1, <2>1, <2>3
  <2>5. /\ Has(n, "*") => read = Pattern("regex", w.package, <<>>, GlobbingToRE2(n))
        /\ ~Has(n, "*") => read = Pattern("exact", w.package, n, <<>>)
    <3>1. IsReadAs(read, w.package, n)
      BY <2>4, PatternOf
    <3> HIDE DEF read
    <3> QED BY <2>3, <3>1, Zenon DEF IsReadAs
  <2>6. /\ Has(n, "*") => Matches(Pattern("regex", w.package, <<>>, GlobbingToRE2(n)), w)
        /\ ~Has(n, "*") => Matches(Pattern("exact", w.package, n, <<>>), w)
    BY <1>0, <1>2, NamesMatch, <2>2, Zenon DEF n
  <2> QED BY <2>5, <2>6, Zenon
<1>3. CASE w.kind = "package"
  <2>1. PICK n \in PackageNames : l = Target(w.package, n)
    BY <1>3 DEF LabelsOf
  <2>2. ParseFrom(s, ctx) = Target(w.package, n) /\ Target(w.package, n) # Rejected
    BY <1>1, <2>1, GroupNames
  <2>3. read = Pattern("package", w.package, <<>>, <<>>)
    <3>1. IsReadAs(read, w.package, n)
      BY <2>2, PatternOf
    <3> HIDE DEF read
    <3> QED BY <2>1, <3>1, Zenon DEF IsReadAs
  <2>4. Matches(Pattern("package", w.package, <<>>, <<>>), w)
    BY <1>0, <1>3, PackageMatches
  <2> QED BY <2>3, <2>4
<1>4. CASE w.kind = "below"
  <2>1. \/ l = Target(w.package, <<"__subpackages__">>)
        \/ l = Target(WithDots(w.package), Ellipsis)
        \/ w.package.path = <<>> /\ l = Target(w.package, Ellipsis)
    BY <1>4 DEF LabelsOf
  <2>2. Matches(Pattern("recursive", w.package, <<>>, <<>>), w)
    BY <1>0, <1>4, RecursiveMatches
  <2>3. CASE l = Target(w.package, <<"__subpackages__">>)
    <3> DEFINE n == <<"__subpackages__">>
    <3>1. n # <<>> /\ n \notin PackageNames
      BY GroupNames
    <3>2. ParseFrom(s, ctx) = Target(w.package, n) /\ Target(w.package, n) # Rejected
      BY <1>1, <2>3, <3>1
    <3>3. read = Pattern("recursive", w.package, <<>>, <<>>)
      <4>1. IsReadAs(read, w.package, n)
        BY <3>2, PatternOf
      <4> HIDE DEF read
      <4> QED BY <3>1, <4>1, Zenon DEF IsReadAs
    <3> QED BY <2>2, <3>3
  <2>4. CASE l = Target(WithDots(w.package), Ellipsis)
    <3> DEFINE p == WithDots(w.package)
    <3>1. ParseFrom(s, ctx) = Target(p, Ellipsis) /\ Target(p, Ellipsis) # Rejected
      BY <1>1, <2>4, GroupNames
    <3>2. EndsInDots(p.path) /\ [p EXCEPT !.path = Cut(@)] = w.package
      BY <1>0, DotsCut
    <3> HIDE DEF p
    <3>3. read = Pattern("recursive", [p EXCEPT !.path = Cut(@)], <<>>, <<>>)
      <4>1. IsReadAs(read, p, Ellipsis)
        BY <3>1, PatternOf
      <4> HIDE DEF read
      <4> QED BY <3>2, <4>1, GroupNames, Zenon DEF IsReadAs
    <3> QED BY <2>2, <3>2, <3>3
  <2>5. CASE w.package.path = <<>> /\ l = Target(w.package, Ellipsis)
    <3>1. ParseFrom(s, ctx) = Target(w.package, Ellipsis) /\ Target(w.package, Ellipsis) # Rejected
      BY <1>1, <2>5, GroupNames
    <3>2. read = Pattern("recursive", w.package, <<>>, <<>>)
      <4>1. IsReadAs(read, w.package, Ellipsis)
        BY <3>1, PatternOf
      <4> HIDE DEF read
      <4> QED BY <2>5, <4>1, GroupNames, Zenon DEF IsReadAs
    <3> QED BY <2>2, <3>2
  <2> QED BY <2>1, <2>3, <2>4, <2>5
<1>5. w.kind \in {"targets", "package", "below"}
  BY DEF LabelsOf
<1> QED BY <1>2, <1>3, <1>4, <1>5

(* Every spelling of a target ends with its name.                          *)
LEMMA SpellingEnds ==
  ASSUME NEW ctx, IsPackage(ctx), NEW t, IsTargetOf(t, ctx), t.target_name # <<>>, NEW s \in Spellings(t, ctx)
  PROVE  s \in Text /\ EndsWith(s, t.target_name)
<1> DEFINE p == t.package
           n == t.target_name
<1>1. IsPackage(p) /\ n \in Text /\ (p.project = <<>> => ctx.project = <<>>)
  BY DEF IsTargetOf, IsPackage
<1>2. p.path \in Text /\ p.project \in Text
  BY <1>1 DEF IsPackage
<1>3. \/ \E r \in Repository(p, ctx) : s = Long(r, p.path) \o <<":">> \o n
      \/ n = LastSegment(p.path) /\ \E r \in Repository(p, ctx) : s = Long(r, p.path)
      \/ p.path = <<>> /\ p.project = <<"@">> \o n /\ s = p.project
      \/ p = ctx /\ s = <<":">> \o n
      \/ p = ctx /\ ~Has(n, "/") /\ ~Has(n, "@") /\ s = n
  BY DEF Spellings, Long
<1>4. \A r \in Repository(p, ctx) : r \in Text /\ Long(r, p.path) \in Text
  <2> TAKE r \in Repository(p, ctx)
  <2>1. r \in Text
    BY <1>1, RepositoryIs DEF IsRepository
  <2> QED BY <1>2, <2>1, LongIs
<1> HIDE DEF p, n
<1>5. <<":">> \in Text /\ <<"@">> \in Text
  BY CharactersAssumption DEF Text
<1>6. \A u \in Text : u \o n \in Text /\ EndsWith(u \o n, n)
  <2> TAKE u \in Text
  <2>1. u \o n \in Text
    BY <1>1 DEF Text
  <2> QED BY <1>1, <2>1, JoinedEnds
<1>7. ASSUME NEW r \in Repository(p, ctx), s = Long(r, p.path) \o <<":">> \o n PROVE s \in Text /\ EndsWith(s, n)
  <2>1. Long(r, p.path) \o <<":">> \in Text
    <3>1. Long(r, p.path) \in Text
      BY <1>4
    <3> QED BY <1>5, <3>1 DEF Text
  <2> QED BY <1>6, <1>7, <2>1
<1>8. ASSUME NEW r \in Repository(p, ctx), n = LastSegment(p.path), s = Long(r, p.path) PROVE s \in Text /\ EndsWith(s, n)
  <2>1. s \in Text /\ Has(s, "/") /\ AfterLast(s, "/") = n
    BY <1>2, <1>4, <1>8, LastOfLong DEF LastSegment
  <2>2. Len(n) = Len(s) - Last(s, "/") /\ \A i \in 1..Len(n) : n[i] = s[Last(s, "/") + i]
    BY <2>1, AfterLastIs
  <2>3. Last(s, "/") \in 1..Len(s) /\ Len(s) \in Nat
    BY <2>1, LastIs DEF Text
  <2>4. Len(n) <= Len(s) /\ \A i \in 1..Len(n) : s[Len(s) - Len(n) + i] = n[i]
    BY <2>2, <2>3
  <2> QED BY <1>1, <2>1, <2>4, EndsWithIs
<1>9. ASSUME s = n PROVE s \in Text /\ EndsWith(s, n)
  <2>1. Len(s) \in Nat
    BY <1>1, <1>9 DEF Text
  <2>2. Len(n) <= Len(s) /\ \A i \in 1..Len(n) : s[Len(s) - Len(n) + i] = n[i]
    BY <1>9, <2>1
  <2>3. EndsWith(s, n)
    BY <1>1, <1>9, <2>2, EndsWithIs
  <2> QED BY <1>1, <1>9, <2>3
<1>10. ASSUME s = <<":">> \o n \/ s = <<"@">> \o n PROVE s \in Text /\ EndsWith(s, n)
  BY <1>5, <1>6, <1>10
<1> QED BY <1>3, <1>7, <1>8, <1>9, <1>10 DEF n

-----------------------------------------------------------------------------
LEMMA AlwaysMatches ==
  ASSUME NEW w, w.kind = "anything"
  PROVE  Matches(AlwaysMatch, w)
<1> DEFINE p == AlwaysMatch
           nowhere == BazelPackage(<<>>, <<>>)
<1>1. "always" \in {"always", "exact", "regex", "package", "recursive"}
  BY Zenon
<1>2. nowhere \in [project : Text, path : Text]
  BY NoText DEF BazelPackage
<1>3. p = Pattern("always", nowhere, <<>>, <<>>)
  BY DEF AlwaysMatch, Pattern
<1> HIDE DEF p, nowhere
<1>4. p \in Patterns /\ p.kind = "always"
  <2>1. \A k \in {"always", "exact", "regex", "package", "recursive"} :
          Pattern(k, nowhere, <<>>, <<>>) \in Patterns /\ Pattern(k, nowhere, <<>>, <<>>).kind = k
    <3> TAKE k \in {"always", "exact", "regex", "package", "recursive"}
    <3> DEFINE q == Pattern(k, nowhere, <<>>, <<>>)
    <3>1. q = [kind |-> k, pattern |-> [package |-> nowhere, target_name |-> <<>>], regex |-> <<>>]
      BY DEF Pattern, Target
    <3>2. q \in Patterns /\ q.kind = k
      <4> HIDE DEF q
      <4> QED BY <1>2, <3>1, NoText DEF Patterns
    <3> QED BY <3>2
  <2>2. Pattern("always", nowhere, <<>>, <<>>) \in Patterns /\ Pattern("always", nowhere, <<>>, <<>>).kind = "always"
    BY <1>1, <2>1, Zenon
  <2> QED BY <1>3, <2>2
<1>5. \A t \in Asked : MatchTarget(p, t) /\ IsMeant(w, t)
  BY <1>4 DEF MatchTarget, MatchPackage, IsMeant
<1>6. p = AlwaysMatch
  BY DEF p
<1> QED BY <1>4, <1>5, <1>6 DEF Matches

LEMMA TypedMatch ==
  ASSUME NEW w \in WrittenPatterns, w.source = "command line"
  PROVE  Matches(PatternParseFrom(w.text, BazelPackage(<<>>, <<>>)), w)
<1>1. IsTyped(w) /\ IsPackage(w.context)
  <2>1. "command line" # "visibility"
    BY Zenon
  <2> QED BY <2>1, PatternsAssumption, Zenon
<1>2. w.context = BazelPackage(<<>>, <<>>) /\ (w.kind = "targets" => w.name \in Text /\ IsPlainName(w.name))
  BY <1>1 DEF IsTyped
<1>3. /\ IsPackage(w.package) /\ ~EndsInDots(w.package.path)
      /\ \E l \in LabelsOf(w) : IsTargetOf(l, w.context) /\ w.text \in Spellings(l, w.context)
  BY <1>1 DEF IsTyped, IsSpelled
<1>4. Matches(PatternParseFrom(w.text, w.context), w)
  BY <1>1, <1>2, <1>3, LabelsMatch
<1> QED BY <1>2, <1>4

\* The texts "public" and "private" are written as.
LEMMA VisibilityIs ==
  /\ \A what \in Words : /\ Visibility(what) \in Text /\ Visibility(what) # <<>>
                         /\ Len(Visibility(what)) = 5 /\ Visibility(what)[5] = what
  /\ Visibility("private") # Visibility("public")
  /\ {"public", "private", "__pkg__", "__subpackages__"} \subseteq Words
<1>1. ASSUME NEW what \in Words
      PROVE  /\ Visibility(what) \in Text /\ Visibility(what) # <<>>
             /\ Len(Visibility(what)) = 5 /\ Visibility(what)[5] = what
  <2>1. {"/", ":", "visibility", what} \subseteq Characters
    BY CharactersAssumption DEF Words
  <2> QED BY <2>1 DEF Visibility, Text
<1>2. {"public", "private", "__pkg__", "__subpackages__"} \subseteq Words
  BY DEF Words
<1>3. Visibility("private")[5] # Visibility("public")[5]
  BY <1>1, <1>2
<1> QED BY <1>1, <1>2, <1>3

LEMMA AttributesMatch ==
  ASSUME NEW w \in WrittenPatterns, w.source = "visibility"
  PROVE  Matches(ParseVisibility(w.text, w.context), w)
<1> DEFINE s == w.text
           ctx == w.context
           read == ParseVisibility(s, ctx)
           IsGroup == EndsWith(s, Ellipsis) \/ (s # <<>> /\ s[Len(s)] \in {"__pkg__", "__subpackages__"})
<1>1. IsAttribute(w) /\ s \in Text /\ IsPackage(ctx)
  <2>1. "command line" # "visibility"
    BY Zenon
  <2> QED BY <2>1, PatternsAssumption, Zenon
<1>2. read = IF s = Visibility("public") THEN AlwaysMatch
             ELSE IF s = Visibility("private") THEN Pattern("package", ctx, <<>>, <<>>)
             ELSE IF IsGroup THEN PatternParseFrom(s, ctx) ELSE AlwaysMatch
  BY DEF ParseVisibility
<1>a. /\ Ellipsis \in Text /\ Ellipsis # <<>> /\ Ellipsis[Len(Ellipsis)] = "."
      /\ "." \notin {"public", "private", "__pkg__", "__subpackages__"}
  <2>1. Len(Ellipsis) = 3 /\ 3 \in 1..3
    BY DotsAre
  <2>2. "." \notin {"public", "private", "__pkg__", "__subpackages__"}
    BY Zenon
  <2> QED BY <2>1, <2>2, DotsAre, Zenon
<1>b. \/ s = Visibility("public") /\ w.kind = "anything"
      \/ s = Visibility("private") /\ w.kind = "package" /\ w.package = ctx
      \/ w.kind # "targets" /\ IsSpelled(w, {l \in LabelsOf(w) : LooksLikePattern(l.target_name)})
      \/ /\ w.kind = "anything" /\ s \notin {<<>>, Visibility("private")}
         /\ s[Len(s)] \notin {".", "__pkg__", "__subpackages__"}
  BY <1>1, Zenon DEF IsAttribute
<1>c. EndsWith(s, Ellipsis) => s # <<>> /\ s[Len(s)] = "."
  BY <1>1, <1>a, EndOfEnd, Zenon
<1> SUFFICES Matches(read, w)
  BY DEF read, s, ctx
<1> HIDE DEF s, ctx, read
<1>3. CASE s = Visibility("public") /\ w.kind = "anything"
  BY <1>2, <1>3, AlwaysMatches
<1>4. CASE s = Visibility("private") /\ w.kind = "package" /\ w.package = ctx
  <2>1. read = Pattern("package", w.package, <<>>, <<>>)
    BY <1>2, <1>4, VisibilityIs
  <2>2. w.package \in [project : Text, path : Text]
    BY <1>1, <1>4 DEF IsPackage
  <2> QED BY <1>4, <2>1, <2>2, PackageMatches
<1>5. CASE w.kind # "targets" /\ IsSpelled(w, {l \in LabelsOf(w) : LooksLikePattern(l.target_name)})
  <2>1. /\ IsPackage(w.package) /\ ~EndsInDots(w.package.path)
        /\ \E l \in LabelsOf(w) : LooksLikePattern(l.target_name) /\ IsTargetOf(l, ctx) /\ s \in Spellings(l, ctx)
    BY <1>5 DEF IsSpelled, s, ctx
  <2>2. PICK l \in LabelsOf(w) : LooksLikePattern(l.target_name) /\ IsTargetOf(l, ctx) /\ s \in Spellings(l, ctx)
    BY <2>1
  <2>3. l.target_name \in {<<"__pkg__">>, <<"__subpackages__">>} \/ l.target_name = Ellipsis
    BY <2>2 DEF LooksLikePattern
  <2> DEFINE n == l.target_name
  <2>a. n \in {<<"__pkg__">>, <<"__subpackages__">>} => n # <<>> /\ n[Len(n)] \in {"__pkg__", "__subpackages__"}
    <3>1. ASSUME NEW x PROVE <<x>> # <<>> /\ <<x>>[Len(<<x>>)] = x
      OBVIOUS
    <3> HIDE DEF n
    <3> QED BY <3>1, Zenon
  <2>b. n \in Text
    BY <2>2 DEF IsTargetOf
  <2>4. n # <<>> /\ n \in Text
    BY <1>a, <2>3, <2>a, <2>b, Zenon
  <2>5. EndsWith(s, n)
    BY <1>1, <2>2, <2>4, SpellingEnds
  <2>6. s # <<>> /\ s[Len(s)] = n[Len(n)]
    BY <1>1, <2>4, <2>5, EndOfEnd
  <2>c. n \in {<<"__pkg__">>, <<"__subpackages__">>} \/ n = Ellipsis
    BY <2>3
  <2>d. l.target_name = n
    OBVIOUS
  <2> HIDE DEF n
  <2>7. IsGroup
    BY <2>5, <2>6, <2>a, <2>c, Zenon
  <2>8. n[Len(n)] \in {"__pkg__", "__subpackages__"} \/ n[Len(n)] = "."
    BY <1>a, <2>a, <2>c, Zenon
  <2>9. s[Len(s)] \notin {"public", "private"}
    <3>1. \A x \in {"__pkg__", "__subpackages__"} : x \notin {"public", "private"}
      BY Zenon
    <3> QED BY <1>a, <2>6, <2>8, <3>1, Zenon
  <2>10. s # Visibility("public") /\ s # Visibility("private")
    <3>1. Visibility("public")[Len(Visibility("public"))] = "public" /\ Visibility("private")[Len(Visibility("private"))] = "private"
      BY VisibilityIs
    <3> QED BY <2>9, <3>1
  <2>11. read = PatternParseFrom(s, ctx)
    BY <1>2, <2>7, <2>10
  <2>12. Matches(PatternParseFrom(s, ctx), w)
    BY <1>1, <1>5, <2>1, <2>2, LabelsMatch
  <2> QED BY <2>11, <2>12
<1>6. CASE /\ w.kind = "anything" /\ s \notin {<<>>, Visibility("private")}
           /\ s[Len(s)] \notin {".", "__pkg__", "__subpackages__"}
  <2>1. ~IsGroup
    BY <1>6, <1>c, Zenon
  <2>2. read = AlwaysMatch
    <3>1. s # Visibility("private")
      BY <1>6, Zenon
    <3> HIDE DEF IsGroup
    <3> QED BY <1>2, <2>1, <3>1, Zenon
  <2> QED BY <1>6, <2>2, AlwaysMatches
<1> QED BY <1>b, <1>3, <1>4, <1>5, <1>6, Zenon

-----------------------------------------------------------------------------
(* A bundle of patterns.                                                   *)
SoundPatterns == {p \in Patterns : p.kind = "always" => p = AlwaysMatch}
BundleInv ==
  /\ patterns \in Seq(SoundPatterns) /\ meanings \subseteq SUBSET Asked
  /\ part # "pattern" => ~finished
  /\ ~finished => /\ patterns = <<>> <=> meanings = {}
                  /\ \A t \in Asked : BundleMatchTarget(patterns, t) <=> \E m \in meanings : t \in m
  /\ MatchesAreMeant

LEMMA InitBundleInv == EachInit => BundleInv
<1> SUFFICES ASSUME EachInit PROVE BundleInv
  OBVIOUS
<1>1. patterns = <<>> /\ finished = FALSE /\ meanings = {}
  BY DEF EachInit, NoPatterns, PatternInit
<1>2. \A t : ~BundleMatchTarget(patterns, t)
  BY <1>1 DEF BundleMatchTarget
<1>3. patterns \in Seq(SoundPatterns) /\ meanings \subseteq SUBSET Asked
  BY <1>1
<1> QED BY <1>1, <1>2, <1>3 DEF BundleInv, MatchesAreMeant

LEMMA AddKeepsBundleInv ==
  ASSUME BundleInv, NEW p, NEW w \in WrittenPatterns, Matches(p, w), AddPattern(p, w)
  PROVE  /\ patterns' \in Seq(SoundPatterns) /\ meanings' \subseteq SUBSET Asked
         /\ ~finished'
         /\ patterns' = <<>> <=> meanings' = {}
         /\ \A t \in Asked : BundleMatchTarget(patterns', t) <=> \E m \in meanings' : t \in m
<1> DEFINE M == {t \in Asked : IsMeant(w, t)}
<1>1. MeaningOf[w] = M
  BY DEF MeaningOf
<1>2. p \in Patterns /\ p \in SoundPatterns /\ \A t \in Asked : MatchTarget(p, t) <=> IsMeant(w, t)
  BY DEF Matches, SoundPatterns
<1>3. p # Rejected
  BY <1>2, PatternsAssumption, Zenon
<1>4. /\ patterns' = Append(patterns, p) /\ meanings' = meanings \cup {M}
      /\ ~finished /\ finished' = finished
  BY <1>1, <1>3 DEF AddPattern
<1>5. /\ patterns \in Seq(SoundPatterns) /\ meanings \subseteq SUBSET Asked
      /\ \A t \in Asked : BundleMatchTarget(patterns, t) <=> \E m \in meanings : t \in m
  BY <1>4 DEF BundleInv
<1>7. \A t \in Asked : t \in M <=> MatchTarget(p, t)
  BY <1>2
<1>8. M \subseteq Asked
  OBVIOUS
<1> HIDE DEF M
<1>9. patterns' \in Seq(SoundPatterns) /\ meanings' \subseteq SUBSET Asked /\ patterns' # <<>> /\ meanings' # {}
  BY <1>2, <1>4, <1>5, <1>8
<1>10. \A i : i \in DOMAIN patterns' <=> i \in DOMAIN patterns \/ i = Len(patterns) + 1
  BY <1>2, <1>4, <1>5
<1>11. (\A i \in DOMAIN patterns : patterns'[i] = patterns[i]) /\ patterns'[Len(patterns) + 1] = p
  BY <1>2, <1>4, <1>5
<1>12. \A t : BundleMatchTarget(patterns', t) <=> BundleMatchTarget(patterns, t) \/ MatchTarget(p, t)
  BY <1>10, <1>11, Zenon DEF BundleMatchTarget
<1>13. \A t \in Asked : BundleMatchTarget(patterns', t) <=> \E m \in meanings' : t \in m
  BY <1>4, <1>5, <1>7, <1>12
<1> QED BY <1>4, <1>9, <1>13

LEMMA BundleKeepsBundleInv ==
  ASSUME BundleInv, Bundle
  PROVE  BundleInv'
<1>1. part = "pattern" /\ part' = part /\ PatternNext
  BY DEF Bundle
<1>2. ASSUME NEW p, NEW w \in WrittenPatterns, Matches(p, w), AddPattern(p, w) PROVE BundleInv'
  <2>1. /\ patterns' \in Seq(SoundPatterns) /\ meanings' \subseteq SUBSET Asked
        /\ ~finished'
        /\ patterns' = <<>> <=> meanings' = {}
        /\ \A t \in Asked : BundleMatchTarget(patterns', t) <=> \E m \in meanings' : t \in m
    BY <1>2, AddKeepsBundleInv
  <2> QED BY <1>1, <2>1 DEF BundleInv, MatchesAreMeant
<1>3. CASE AddCommandLine
  <2>1. PICK w \in {w \in WrittenPatterns : w.source = "command line"} :
          AddPattern(PatternParseFrom(w.text, BazelPackage(<<>>, <<>>)), w)
    BY <1>3 DEF AddCommandLine
  <2> QED BY <1>2, <2>1, TypedMatch
<1>4. CASE AddVisibility
  <2>1. PICK w \in {w \in WrittenPatterns : w.source = "visibility"} :
          AddPattern(ParseVisibility(w.text, w.context), w)
    BY <1>4 DEF AddVisibility
  <2> QED BY <1>2, <2>1, AttributesMatch
<1>5. CASE Finish
  <2>1. /\ ~finished /\ finished' = TRUE /\ meanings' = meanings
        /\ patterns' = IF patterns = <<>> THEN <<AlwaysMatch>> ELSE patterns
    BY <1>5 DEF Finish
  <2>2. /\ patterns \in Seq(SoundPatterns) /\ meanings \subseteq SUBSET Asked
        /\ patterns = <<>> <=> meanings = {}
        /\ \A t \in Asked : BundleMatchTarget(patterns, t) <=> \E m \in meanings : t \in m
    BY <2>1 DEF BundleInv
  <2>3. CASE patterns = <<>>
    <3>1. patterns' = <<AlwaysMatch>> /\ meanings' = {}
      BY <2>1, <2>2, <2>3
    <3>2. AlwaysMatch \in SoundPatterns
      <4>1. Matches(AlwaysMatch, [kind |-> "anything"])
        BY AlwaysMatches
      <4> QED BY <4>1 DEF Matches, SoundPatterns
    <3>3. \A t : MatchTarget(AlwaysMatch, t)
      BY DEF AlwaysMatch, MatchTarget, MatchPackage
    <3> HIDE DEF AlwaysMatch
    <3>4. patterns' \in Seq(SoundPatterns) /\ \A t : BundleMatchTarget(patterns', t)
      <4>1. 1 \in DOMAIN <<AlwaysMatch>> /\ <<AlwaysMatch>>[1] = AlwaysMatch
        OBVIOUS
      <4>2. <<AlwaysMatch>> \in Seq(SoundPatterns)
        BY <3>2
      <4> QED BY <3>1, <3>3, <4>1, <4>2 DEF BundleMatchTarget
    <3>5. {t \in Asked : BundleMatchTarget(patterns', t)} = Meant'
      BY <3>1, <3>4 DEF Meant
    <3> QED BY <1>1, <2>1, <2>2, <3>1, <3>4, <3>5 DEF BundleInv, MatchesAreMeant
  <2>4. CASE patterns # <<>>
    <3>1. patterns' = patterns /\ meanings' # {}
      BY <2>1, <2>2, <2>4
    <3>2. {t \in Asked : BundleMatchTarget(patterns, t)} = UNION meanings
      BY <2>2
    <3>3. {t \in Asked : BundleMatchTarget(patterns', t)} = Meant'
      BY <2>1, <3>1, <3>2 DEF Meant
    <3> QED BY <1>1, <2>1, <2>2, <3>1, <3>3 DEF BundleInv, MatchesAreMeant
  <2> QED BY <2>3, <2>4
<1> QED BY <1>1, <1>3, <1>4, <1>5 DEF PatternNext

LEMMA NextBundleInv == BundleInv /\ [EachNext]_<<part, vars, patternVars, canonVars>> => BundleInv'
<1> SUFFICES ASSUME BundleInv, [EachNext]_<<part, vars, patternVars, canonVars>> PROVE BundleInv'
  OBVIOUS
<1>1. CASE Bundle
  BY <1>1, BundleKeepsBundleInv
<1>2. CASE UNCHANGED <<part, patternVars>>
  <2>1. UNCHANGED <<part, patterns, finished, meanings>>
    BY <1>2 DEF patternVars
  <2> QED BY <2>1 DEF BundleInv, MatchesAreMeant, Meant
<1> QED BY <1>1, <1>2 DEF EachNext, ReadAndPrint, Shorten

\* What a pattern matches, the search for BUILD files comes to.
LEMMA MatchedIsReached ==
  ASSUME BundleInv
  PROVE  MatchesAreReached
<1> SUFFICES ASSUME NEW t, BundleMatchTarget(patterns, t)
             PROVE  /\ BundleMatchPackage(patterns, t.package)
                    /\ \E i \in DOMAIN patterns :
                         LET start == patterns[i].pattern.package.path IN
                         \/ start = t.package.path
                         \/ /\ is_recursive(patterns[i])
                            /\ start = <<>> \/ Seqs!IsPrefix(start \o <<"/">>, t.package.path)
  BY DEF MatchesAreReached
<1>1. PICK i \in DOMAIN patterns : MatchTarget(patterns[i], t)
  BY DEF BundleMatchTarget
<1> DEFINE p == patterns[i]
<1>2. p \in Patterns /\ (p.kind = "always" => p = AlwaysMatch)
  <2>1. p \in SoundPatterns
    BY DEF BundleInv
  <2> QED BY <2>1 DEF SoundPatterns
<1>3. p.kind \in {"always", "exact", "regex", "package", "recursive"}
  BY <1>2 DEF Patterns
<1>4. MatchTarget(p, t)
  BY <1>1
<1> HIDE DEF p
<1>5. MatchPackage(p, t.package)
  BY <1>3, <1>4 DEF MatchTarget, MatchPackage
<1>6. \/ p.pattern.package.path = t.package.path
      \/ /\ is_recursive(p)
         /\ p.pattern.package.path = <<>> \/ Seqs!IsPrefix(p.pattern.package.path \o <<"/">>, t.package.path)
  <2>1. CASE p.kind \in {"exact", "regex", "package"}
    BY <1>5, <2>1 DEF MatchPackage
  <2>2. CASE p.kind = "recursive"
    BY <1>5, <2>2 DEF MatchPackage, is_recursive
  <2>3. CASE p = AlwaysMatch
    BY <2>3 DEF AlwaysMatch, is_recursive, Target, BazelPackage
  <2> QED BY <1>2, <1>3, <2>1, <2>2, <2>3
<1> QED BY <1>5, <1>6 DEF BundleMatchPackage, p

(* Whatever is written on the command line or in a visibility attribute,   *)
(* in any of its spellings, and however many patterns there are: a bundle  *)
(* (BazelPatternBundle) matches the targets that are meant, and the search *)
(* for BUILD files (FillFromPattern) comes to each of them.                *)
THEOREM PatternsFaithful == EachSpec => []PatternsMatchWhatIsMeant
<1>1. BundleInv => PatternsMatchWhatIsMeant
  <2> SUFFICES ASSUME BundleInv PROVE PatternsMatchWhatIsMeant
    OBVIOUS
  <2>1. MatchesAreMeant
    BY DEF BundleInv
  <2> QED BY <2>1, MatchedIsReached DEF PatternsMatchWhatIsMeant
<1> QED BY <1>1, InitBundleInv, NextBundleInv, PTL DEF EachSpec

-----------------------------------------------------------------------------
(* The index of suffixes.                                                  *)
Char == DOMAIN Rank

(* The characters are in an order; a path is made of them.                 *)
CharactersAreOrdered ==
  /\ Rank \in [Char -> Int]
  /\ \A c, d \in Char : Rank[c] = Rank[d] => c = d
  /\ "/" \in Char
  /\ Paths \subseteq Seq(Char)

-----------------------------------------------------------------------------
(* The order of the keys.                                                  *)

\* i is where s and t become different, and s is the smaller one.
LessAt(s, t, i) == TextLessAt(Rank, s, t, i)

LEMMA LessIsAt == \A s, t : Less(s, t) <=> \E i : LessAt(s, t, i)
BY DEF Less, LessAt, TextLessAt

LEMMA LessIsTextLess == \A s, t : Less(s, t) <=> TextLess(Rank, s, t)
BY DEF Less, TextLess, TextLessAt

LEMMA RankIsOne == CharactersAreOrdered => Rank \in Ranks(Char)
BY DEF CharactersAreOrdered, Ranks

LEMMA Transitive ==
  ASSUME CharactersAreOrdered, NEW a \in Seq(Char), NEW b \in Seq(Char), NEW c \in Seq(Char),
         Less(a, b), Less(b, c)
  PROVE  Less(a, c)
BY RankIsOne, LessIsTextLess, TextTransitive

LEMMA Irreflexive ==
  ASSUME CharactersAreOrdered, NEW a \in Seq(Char)
  PROVE  ~Less(a, a)
BY RankIsOne, LessIsTextLess, TextIrreflexive

LEMMA Total ==
  ASSUME CharactersAreOrdered, NEW a \in Seq(Char), NEW b \in Seq(Char), a # b
  PROVE  Less(a, b) \/ Less(b, a)
BY RankIsOne, LessIsTextLess, TextTotal

-----------------------------------------------------------------------------
(* What is between two keys in the order has at least as much in common    *)
(* with either as they have.                                               *)

LEMMA BelowIsCloser ==
  ASSUME CharactersAreOrdered, NEW e \in Seq(Char), NEW b \in Seq(Char), NEW k \in Seq(Char),
         Less(e, b), Less(b, k)
  PROVE  CommonPrefix(k, e) \subseteq CommonPrefix(k, b)
<1> SUFFICES ASSUME NEW i \in CommonPrefix(k, e) PROVE i \in CommonPrefix(k, b)
  OBVIOUS
<1>1. i \in 1..Len(k) /\ i \in 1..Len(e) /\ \A j \in 1..i : k[j] = e[j]
  BY DEF CommonPrefix
<1>2. PICK m : LessAt(e, b, m)
  BY LessIsAt
<1>3. PICK n : LessAt(b, k, n)
  BY LessIsAt
<1>4. m \in 1..Len(b) /\ n \in 1..Len(k) /\ Len(e) \in Nat /\ Len(b) \in Nat /\ Len(k) \in Nat
  BY <1>2, <1>3 DEF LessAt, TextLessAt
<1>5. \A j \in 1..Len(e) : Rank[e[j]] \in Int
  BY DEF CharactersAreOrdered, Char
<1>6. \A j \in 1..Len(b) : Rank[b[j]] \in Int
  BY DEF CharactersAreOrdered, Char
<1>7. \A j \in 1..Len(k) : Rank[k[j]] \in Int
  BY DEF CharactersAreOrdered, Char
<1>8. n > i
  <2> SUFFICES ASSUME n <= i PROVE FALSE
    BY <1>1, <1>4
  <2>1. n \in 1..i /\ n \in 1..Len(e) /\ k[n] = e[n]
    BY <1>1, <1>4
  <2>2. CASE m < n
    <3>1. m \in 1..i /\ m \in 1..Len(e) /\ e[m] = k[m] /\ b[m] = k[m]
      BY <1>1, <1>3, <1>4, <2>2 DEF LessAt, TextLessAt
    <3>2. Rank[e[m]] < Rank[b[m]]
      BY <1>2, <1>4, <3>1 DEF LessAt, TextLessAt
    <3> QED BY <1>5, <3>1, <3>2
  <2>3. CASE m = n
    <3>1. Rank[e[n]] < Rank[b[n]]
      BY <1>2, <1>4, <2>1, <2>3 DEF LessAt, TextLessAt
    <3>2. Rank[b[n]] < Rank[k[n]]
      BY <1>3, <1>4, <2>3 DEF LessAt, TextLessAt
    <3>3. n \in 1..Len(b)
      BY <1>4, <2>3
    <3> QED BY <1>5, <1>6, <2>1, <3>1, <3>2, <3>3
  <2>4. CASE m > n
    <3>1. e[n] = b[n] /\ n \in 1..Len(b)
      BY <1>2, <1>4, <2>4 DEF LessAt, TextLessAt
    <3>2. Rank[b[n]] < Rank[k[n]]
      BY <1>3, <1>4, <3>1 DEF LessAt, TextLessAt
    <3> QED BY <1>5, <2>1, <3>1, <3>2
  <2> QED BY <1>4, <2>2, <2>3, <2>4
<1>9. \A j \in 1..i : j <= Len(b) /\ k[j] = b[j]
  BY <1>1, <1>3, <1>4, <1>8 DEF LessAt, TextLessAt
<1>10. i \in 1..Len(b)
  BY <1>1, <1>4, <1>9
<1> QED BY <1>1, <1>9, <1>10 DEF CommonPrefix

LEMMA AboveIsCloser ==
  ASSUME CharactersAreOrdered, NEW e \in Seq(Char), NEW b \in Seq(Char), NEW k \in Seq(Char),
         Less(k, b), Less(b, e)
  PROVE  CommonPrefix(k, e) \subseteq CommonPrefix(k, b)
<1> SUFFICES ASSUME NEW i \in CommonPrefix(k, e) PROVE i \in CommonPrefix(k, b)
  OBVIOUS
<1>1. i \in 1..Len(k) /\ i \in 1..Len(e) /\ \A j \in 1..i : k[j] = e[j]
  BY DEF CommonPrefix
<1>2. PICK m : LessAt(k, b, m)
  BY LessIsAt
<1>3. PICK n : LessAt(b, e, n)
  BY LessIsAt
<1>4. m \in 1..Len(b) /\ n \in 1..Len(e) /\ Len(e) \in Nat /\ Len(b) \in Nat /\ Len(k) \in Nat
  BY <1>2, <1>3 DEF LessAt, TextLessAt
<1>5. \A j \in 1..Len(e) : Rank[e[j]] \in Int
  BY DEF CharactersAreOrdered, Char
<1>6. \A j \in 1..Len(b) : Rank[b[j]] \in Int
  BY DEF CharactersAreOrdered, Char
<1>7. \A j \in 1..Len(k) : Rank[k[j]] \in Int
  BY DEF CharactersAreOrdered, Char
<1>8. m > i
  <2> SUFFICES ASSUME m <= i PROVE FALSE
    BY <1>1, <1>4
  <2>1. m \in 1..i /\ m \in 1..Len(k) /\ m \in 1..Len(e) /\ k[m] = e[m]
    BY <1>1, <1>4
  <2>2. Rank[k[m]] < Rank[b[m]]
    BY <1>2, <1>4, <2>1 DEF LessAt, TextLessAt
  <2>3. CASE n < m
    <3>1. n \in 1..i /\ k[n] = b[n] /\ k[n] = e[n] /\ n \in 1..Len(b) /\ n \in 1..Len(k)
      BY <1>1, <1>2, <1>4, <2>1, <2>3 DEF LessAt, TextLessAt
    <3>2. Rank[b[n]] < Rank[e[n]]
      BY <1>3, <1>4, <3>1 DEF LessAt, TextLessAt
    <3> QED BY <1>7, <3>1, <3>2
  <2>4. CASE n = m
    <3>1. Rank[b[m]] < Rank[e[m]]
      BY <1>3, <1>4, <2>4 DEF LessAt, TextLessAt
    <3> QED BY <1>4, <1>5, <1>6, <2>1, <2>2, <3>1
  <2>5. CASE n > m
    <3>1. b[m] = e[m]
      BY <1>3, <1>4, <2>5 DEF LessAt, TextLessAt
    <3> QED BY <1>5, <2>1, <2>2, <3>1
  <2> QED BY <1>4, <2>3, <2>4, <2>5
<1>9. \A j \in 1..i : k[j] = b[j]
  BY <1>1, <1>2, <1>4, <1>8 DEF LessAt, TextLessAt
<1>10. i \in 1..Len(b)
  BY <1>1, <1>4, <1>8
<1> QED BY <1>1, <1>9, <1>10 DEF CommonPrefix

LEMMA CountsSlashes ==
  ASSUME NEW a \in Seq(Char), NEW b \in Seq(Char)
  PROVE  IsFiniteSet({i \in CommonPrefix(a, b) : a[i] = "/"}) /\ CommonSlashes(a, b) \in Nat
<1>1. IsFiniteSet(1..Len(a))
  BY FS_Interval
<1>2. {i \in CommonPrefix(a, b) : a[i] = "/"} \in SUBSET (1..Len(a))
  BY DEF CommonPrefix
<1>3. IsFiniteSet({i \in CommonPrefix(a, b) : a[i] = "/"})
  BY <1>1, <1>2, FS_Subset
<1> QED BY <1>3, FS_CardinalityType DEF CommonSlashes

LEMMA CloserHasMore ==
  ASSUME NEW k \in Seq(Char), NEW e \in Seq(Char), NEW b \in Seq(Char),
         CommonPrefix(k, e) \subseteq CommonPrefix(k, b)
  PROVE  CommonSlashes(k, e) <= CommonSlashes(k, b)
<1>1. {i \in CommonPrefix(k, e) : k[i] = "/"} \in SUBSET {i \in CommonPrefix(k, b) : k[i] = "/"}
  OBVIOUS
<1> QED BY <1>1, CountsSlashes, FS_Subset DEF CommonSlashes

-----------------------------------------------------------------------------
(* A finite set of keys has a first and a last one.                        *)

IsFirst(e, T) == e \in T /\ \A f \in T : f = e \/ Less(e, f)
IsFinal(e, T) == e \in T /\ \A f \in T : f = e \/ Less(f, e)

LEMMA FirstAndFinal ==
  ASSUME CharactersAreOrdered, NEW T, T \subseteq Seq(Char), IsFiniteSet(T), T # {}
  PROVE  (\E e : IsFirst(e, T)) /\ (\E e : IsFinal(e, T))
<1> DEFINE R == {ss \in T \X T : Less(ss[1], ss[2])}
           Q == {ss \in T \X T : Less(ss[2], ss[1])}
<1>1. \A a, b \in T : (<<a, b>> \in R <=> Less(a, b)) /\ (<<a, b>> \in Q <=> Less(b, a))
  OBVIOUS
<1> HIDE DEF R, Q
<1>2. \A a, b \in T : a = b \/ Less(a, b) \/ Less(b, a)
  <2> SUFFICES ASSUME NEW a \in T, NEW b \in T, a # b PROVE Less(a, b) \/ Less(b, a)
    OBVIOUS
  <2>1. a \in Seq(Char) /\ b \in Seq(Char)
    OBVIOUS
  <2> QED BY <2>1, Total
<1>3. \A a, b, c \in T : Less(a, b) /\ Less(b, c) => Less(a, c)
  <2> SUFFICES ASSUME NEW a \in T, NEW b \in T, NEW c \in T, Less(a, b), Less(b, c) PROVE Less(a, c)
    OBVIOUS
  <2>1. a \in Seq(Char) /\ b \in Seq(Char) /\ c \in Seq(Char)
    OBVIOUS
  <2> QED BY <2>1, Transitive
<1>4. \E e \in T : \A f \in T : f = e \/ <<e, f>> \in R
  <2>1. \A a, b \in T : a = b \/ <<a, b>> \in R \/ <<b, a>> \in R
    BY <1>1, <1>2
  <2>2. \A a, b, c \in T : <<a, b>> \in R /\ <<b, c>> \in R => <<a, c>> \in R
    BY <1>1, <1>3
  <2>3. IsFiniteSet(T) /\ T # {}
    OBVIOUS
  <2> QED BY ONLY <2>1, <2>2, <2>3, FirstOf, ZenonT(30)
<1>5. \E e \in T : \A f \in T : f = e \/ <<e, f>> \in Q
  <2>1. \A a, b \in T : a = b \/ <<a, b>> \in Q \/ <<b, a>> \in Q
    BY <1>1, <1>2
  <2>2. \A a, b, c \in T : <<a, b>> \in Q /\ <<b, c>> \in Q => <<a, c>> \in Q
    BY <1>1, <1>3
  <2>3. IsFiniteSet(T) /\ T # {}
    OBVIOUS
  <2> QED BY ONLY <2>1, <2>2, <2>3, FirstOf, ZenonT(30)
<1> QED BY <1>1, <1>4, <1>5 DEF IsFirst, IsFinal

-----------------------------------------------------------------------------
(* Keys are paths backwards: what they have in common in front are the     *)
(* parts that the paths have in common at the end.                         *)

LEMMA KeyIs ==
  ASSUME NEW S, NEW p \in Seq(S), "/" \in S
  PROVE  /\ KeyTransform(p) \in Seq(S) /\ Len(KeyTransform(p)) = Len(p) + 1 /\ KeyTransform(p) # <<>>
         /\ \A i \in 1..Len(p) : KeyTransform(p)[i] = p[(Len(p) - i) + 1]
         /\ KeyTransform(p)[Len(p) + 1] = "/"
<1>0. Len(p) \in Nat
  OBVIOUS
<1> DEFINE r == Sequence!Reverse(p)
<1>1. r = [i \in 1..Len(p) |-> p[(Len(p) - i) + 1]]
  BY DEF Sequence!Reverse
<1>2. \A i \in 1..Len(p) : (Len(p) - i) + 1 \in 1..Len(p)
  BY <1>0
<1>3. r \in Seq(S) /\ Len(r) = Len(p)
  BY <1>0, <1>1, <1>2
<1>4. KeyTransform(p) = r \o <<"/">>
  BY DEF KeyTransform
<1>5. \A i \in 1..Len(p) : r[i] = p[(Len(p) - i) + 1]
  BY <1>1
<1> HIDE DEF r
<1>6. <<"/">> \in Seq(S) /\ Len(<<"/">>) = 1 /\ <<"/">>[1] = "/"
  OBVIOUS
<1>7. KeyTransform(p) \in Seq(S) /\ Len(KeyTransform(p)) = Len(p) + 1
  BY <1>3, <1>4, <1>6, ConcatProperties
<1>8. \A i \in 1..Len(p) : KeyTransform(p)[i] = r[i]
  BY <1>0, <1>3, <1>4, <1>6, ConcatProperties
<1>9. KeyTransform(p)[Len(p) + 1] = "/"
  BY <1>0, <1>3, <1>4, <1>6, ConcatProperties
<1>10. KeyTransform(p) # <<>>
  BY <1>0, <1>7
<1> QED BY <1>5, <1>7, <1>8, <1>9, <1>10

LEMMA PathOfKey ==
  ASSUME NEW S, NEW p \in Seq(S), "/" \in S
  PROVE  Path(KeyTransform(p)) = p
<1> DEFINE k == KeyTransform(p)
           q == SubSeq(k, 1, Len(k) - 1)
<1>0. Len(p) \in Nat
  OBVIOUS
<1>1. k \in Seq(S) /\ Len(k) = Len(p) + 1 /\ \A i \in 1..Len(p) : k[i] = p[(Len(p) - i) + 1]
  BY KeyIs
<1> HIDE DEF k
<1>2. Len(k) - 1 = Len(p) /\ \A i \in 1..Len(p) : i \in 1..Len(k)
  BY <1>0, <1>1
<1>3. q = [i \in 1..Len(p) |-> k[i]]
  BY <1>0, <1>1, <1>2
<1>4. Len(q) = Len(p) /\ \A i \in 1..Len(p) : q[i] = k[i]
  BY <1>0, <1>3
<1> HIDE DEF q
<1>5. Sequence!Reverse(q) = [i \in 1..Len(p) |-> q[(Len(p) - i) + 1]]
  BY <1>4 DEF Sequence!Reverse
<1>6. \A i \in 1..Len(p) : q[(Len(p) - i) + 1] = p[i]
  <2> TAKE i \in 1..Len(p)
  <2>1. (Len(p) - i) + 1 \in 1..Len(p) /\ (Len(p) - ((Len(p) - i) + 1)) + 1 = i
    BY <1>0
  <2> QED BY <1>1, <1>4, <2>1
<1>7. Sequence!Reverse(q) = [i \in 1..Len(p) |-> p[i]]
  BY <1>5, <1>6
<1>8. p = [i \in 1..Len(p) |-> p[i]]
  OBVIOUS
<1>9. Path(k) = Sequence!Reverse(q)
  BY DEF Path, q
<1> QED BY <1>7, <1>8, <1>9 DEF k

\* The part of a path that the key a has before its position n.
EndOf(a, n) == [j \in 1..(n - 1) |-> a[n - j]]
Ended(a) == {n \in 1..Len(a) : a[n] = "/"}

LEMMA EndIs ==
  ASSUME NEW S, NEW p \in Seq(S), "/" \in S, NEW n \in 1..(Len(p) + 1)
  PROVE  SubSeq(p, ((Len(p) - n) + 1) + 1, Len(p)) = EndOf(KeyTransform(p), n)
<1> DEFINE a == KeyTransform(p)
           m == ((Len(p) - n) + 1) + 1
<1>0. Len(p) \in Nat /\ n \in Nat /\ n >= 1 /\ n <= Len(p) + 1
  OBVIOUS
<1>1. \A i \in 1..Len(p) : a[i] = p[(Len(p) - i) + 1]
  BY KeyIs
<1> HIDE DEF a
<1>2. m \in Nat /\ m >= 1 /\ (Len(p) - m) + 1 = n - 1
  BY <1>0
<1>3. SubSeq(p, m, Len(p)) = [j \in 1..((Len(p) - m) + 1) |-> p[(j + m) - 1]]
  BY <1>0, <1>2
<1>4. \A j \in 1..(n - 1) : p[(j + m) - 1] = a[n - j]
  <2> TAKE j \in 1..(n - 1)
  <2>1. n - j \in 1..Len(p) /\ (Len(p) - (n - j)) + 1 = (j + m) - 1
    BY <1>0
  <2> QED BY <1>1, <2>1
<1>5. EndOf(a, n) = [j \in 1..(n - 1) |-> a[n - j]]
  BY DEF EndOf
<1> HIDE DEF m
<1>6. SubSeq(p, m, Len(p)) = [j \in 1..(n - 1) |-> p[(j + m) - 1]]
  BY <1>2, <1>3
<1>7. [j \in 1..(n - 1) |-> p[(j + m) - 1]] = [j \in 1..(n - 1) |-> a[n - j]]
  BY <1>4
<1>8. SubSeq(p, m, Len(p)) = EndOf(a, n)
  BY <1>5, <1>6, <1>7
<1> QED BY <1>8 DEF m, a

LEMMA EndsAre ==
  ASSUME NEW S, NEW p \in Seq(S), "/" \in S
  PROVE  Ends(p) = {EndOf(KeyTransform(p), n) : n \in Ended(KeyTransform(p))}
<1> DEFINE a == KeyTransform(p)
<1>0. Len(p) \in Nat
  OBVIOUS
<1>1. Len(a) = Len(p) + 1 /\ a[Len(p) + 1] = "/"
      /\ \A i \in 1..Len(p) : a[i] = p[(Len(p) - i) + 1]
  BY KeyIs
<1> HIDE DEF a
<1>2. \A e \in Ends(p) : \E n \in Ended(a) : e = EndOf(a, n)
  <2> TAKE e \in Ends(p)
  <2>1. PICK i \in Slashes(p) : e = SubSeq(p, i + 1, Len(p))
    BY DEF Ends
  <2> DEFINE n == (Len(p) - i) + 1
  <2>2. i \in 0..Len(p) /\ (i = 0 \/ p[i] = "/")
    BY <1>0 DEF Slashes
  <2>3. n \in 1..Len(a) /\ (Len(p) - n) + 1 = i /\ (i # 0 => n \in 1..Len(p)) /\ (i = 0 => n = Len(p) + 1)
    BY <1>0, <1>1, <2>2
  <2> HIDE DEF n
  <2>4. a[n] = "/"
    BY <1>1, <2>2, <2>3
  <2>5. e = EndOf(a, n)
    BY <1>1, <2>1, <2>3, EndIs DEF a
  <2> QED BY <2>3, <2>4, <2>5 DEF Ended
<1>3. \A n \in Ended(a) : EndOf(a, n) \in Ends(p)
  <2> TAKE n \in Ended(a)
  <2> DEFINE i == (Len(p) - n) + 1
  <2>1. n \in 1..(Len(p) + 1) /\ a[n] = "/"
    BY <1>1 DEF Ended
  <2>2. i \in 0..Len(p) /\ (n = Len(p) + 1 => i = 0) /\ (n # Len(p) + 1 => n \in 1..Len(p) /\ i \in 1..Len(p))
    BY <1>0, <2>1
  <2>3. EndOf(a, n) = SubSeq(p, i + 1, Len(p))
    BY <2>1, EndIs DEF a
  <2>4. n \in 1..Len(p) => a[n] = p[i]
    BY <1>1
  <2> HIDE DEF i
  <2>5. i \in Slashes(p)
    BY <2>1, <2>2, <2>4 DEF Slashes
  <2> QED BY <2>3, <2>5 DEF Ends
<1>4. Ends(p) = {EndOf(a, n) : n \in Ended(a)}
  BY <1>2, <1>3
<1> QED BY <1>4 DEF a

\* What two paths have in common at the end is what their keys have in front.
LEMMA InCommonIs ==
  ASSUME NEW S, "/" \in S, NEW p \in Seq(S), NEW q \in Seq(S)
  PROVE  InCommon(p, q) = CommonSlashes(KeyTransform(p), KeyTransform(q))
<1> DEFINE a == KeyTransform(p)
           b == KeyTransform(q)
           C == {i \in CommonPrefix(a, b) : a[i] = "/"}
           E == Ends(p) \cap Ends(q)
<1>1. a \in Seq(S) /\ b \in Seq(S)
  BY KeyIs
<1>2. Ends(p) = {EndOf(a, n) : n \in Ended(a)} /\ Ends(q) = {EndOf(b, n) : n \in Ended(b)}
  BY EndsAre
<1> HIDE DEF a, b
<1>0. Len(a) \in Nat /\ Len(b) \in Nat /\ DOMAIN a = 1..Len(a) /\ DOMAIN b = 1..Len(b)
  BY <1>1
<1>3. \A i \in C : i \in Nat /\ i >= 1 /\ i \in Ended(a) /\ i \in Ended(b) /\ EndOf(a, i) = EndOf(b, i)
  <2> TAKE i \in C
  <2>1. i \in 1..Len(a) /\ i \in 1..Len(b) /\ a[i] = "/" /\ \A j \in 1..i : a[j] = b[j]
    BY <1>0 DEF CommonPrefix
  <2>2. i \in 1..i /\ \A j \in 1..(i - 1) : i - j \in 1..i
    BY <2>1
  <2>3. b[i] = "/" /\ \A j \in 1..(i - 1) : a[i - j] = b[i - j]
    BY <2>1, <2>2
  <2>4. EndOf(a, i) = EndOf(b, i)
    BY <2>3 DEF EndOf
  <2> QED BY <2>1, <2>3, <2>4 DEF Ended
<1>4. \A x \in E : \E i \in C : x = EndOf(a, i)
  <2> TAKE x \in E
  <2>1. PICK n \in Ended(a) : x = EndOf(a, n)
    BY <1>2
  <2>2. PICK m \in Ended(b) : x = EndOf(b, m)
    BY <1>2
  <2>3. n \in 1..Len(a) /\ a[n] = "/" /\ m \in 1..Len(b) /\ b[m] = "/"
    BY DEF Ended
  <2>4. DOMAIN x = 1..(n - 1) /\ \A j \in 1..(n - 1) : x[j] = a[n - j]
    BY <2>1 DEF EndOf
  <2>5. DOMAIN x = 1..(m - 1) /\ \A j \in 1..(m - 1) : x[j] = b[m - j]
    BY <2>2 DEF EndOf
  <2>6. n = m
    <3>1. 1..(n - 1) = 1..(m - 1)
      BY <2>4, <2>5
    <3>2. n \in Nat /\ m \in Nat /\ n >= 1 /\ m >= 1
      BY <1>0, <2>3
    <3>3. n > m => n - 1 \in 1..(n - 1) /\ n - 1 \notin 1..(m - 1)
      BY <3>2
    <3>4. m > n => m - 1 \in 1..(m - 1) /\ m - 1 \notin 1..(n - 1)
      BY <3>2
    <3> QED BY <3>1, <3>2, <3>3, <3>4
  <2>7. \A j \in 1..n : a[j] = b[j]
    <3> TAKE j \in 1..n
    <3>1. CASE j = n
      BY <2>3, <2>6, <3>1
    <3>2. CASE j # n
      <4>1. n - j \in 1..(n - 1) /\ n - (n - j) = j
        BY <1>0, <2>3, <3>2
      <4> QED BY <2>4, <2>5, <2>6, <4>1
    <3> QED BY <3>1, <3>2
  <2>8. n \in C
    BY <1>0, <2>3, <2>6, <2>7 DEF CommonPrefix
  <2> QED BY <2>1, <2>8
<1>5. \A i \in C : EndOf(a, i) \in E
  BY <1>2, <1>3
<1>6. \A i, j \in C : EndOf(a, i) = EndOf(a, j) => i = j
  <2> SUFFICES ASSUME NEW i \in C, NEW j \in C, EndOf(a, i) = EndOf(a, j) PROVE i = j
    OBVIOUS
  <2>1. DOMAIN EndOf(a, i) = 1..(i - 1) /\ DOMAIN EndOf(a, j) = 1..(j - 1)
    BY DEF EndOf
  <2>2. 1..(i - 1) = 1..(j - 1)
    BY <2>1
  <2>3. i \in Nat /\ j \in Nat /\ i >= 1 /\ j >= 1
    BY <1>3
  <2>4. i > j => i - 1 \in 1..(i - 1) /\ i - 1 \notin 1..(j - 1)
    BY <2>3
  <2>5. j > i => j - 1 \in 1..(j - 1) /\ j - 1 \notin 1..(i - 1)
    BY <2>3
  <2> QED BY <2>2, <2>3, <2>4, <2>5
<1>7. IsFiniteSet(C) /\ CommonSlashes(a, b) = Cardinality(C)
  <2>1. IsFiniteSet(1..Len(a)) /\ C \subseteq 1..Len(a)
    BY <1>0, FS_Interval DEF CommonPrefix
  <2> QED BY <2>1, FS_Subset DEF CommonSlashes
<1> HIDE DEF C, E
<1>8. ExistsBijection(C, E)
  <2> DEFINE g == [i \in C |-> EndOf(a, i)]
  <2>1. g \in Bijection(C, E)
    BY <1>4, <1>5, <1>6 DEF Bijection, Injection, Surjection, IsInjective
  <2> QED BY <2>1 DEF ExistsBijection
<1>9. Cardinality(E) = Cardinality(C)
  BY <1>7, <1>8, FS_Bijection
<1> QED BY <1>7, <1>9 DEF InCommon, E, a, b

-----------------------------------------------------------------------------
(* The search.                                                             *)

KeysAbove(k) == {e \in index : ~Less(e, k)}
KeysBelow(k) == {e \in index : Less(e, k)}

\* As far as a key of the index can tell, b is the closest to k.
Closest(b, k) == b \in index /\ \A e \in index : CommonSlashes(k, e) <= CommonSlashes(k, b)

Keys == index \subseteq Seq(Char) /\ IsFiniteSet(index) /\ End \notin index

\* Keys above k: lower_bound() is the first one and shares most with k.
LEMMA FirstAbove ==
  ASSUME CharactersAreOrdered, Keys, NEW k \in Seq(Char), KeysAbove(k) # {}
  PROVE  /\ lower_bound(k) \in KeysAbove(k) /\ lower_bound(k) # End
         /\ \A e \in KeysAbove(k) : e = lower_bound(k) \/ Less(lower_bound(k), e)
         /\ lower_bound(k) # k =>
              /\ k \notin index
              /\ \A e \in KeysAbove(k) : CommonSlashes(k, e) <= CommonSlashes(k, lower_bound(k))
<1> DEFINE T == KeysAbove(k)
           b == lower_bound(k)
<1>1. T \subseteq index /\ T \subseteq Seq(Char) /\ IsFiniteSet(T)
  BY FS_Subset DEF KeysAbove, Keys
<1>2. \E e \in T : \A f \in T : f = e \/ Less(e, f)
  BY <1>1, FirstAndFinal DEF IsFirst
<1>3. b = CHOOSE e \in T : \A f \in T : f = e \/ Less(e, f)
  BY DEF lower_bound, KeysAbove
<1> HIDE DEF b
<1>4. b \in T /\ \A f \in T : f = b \/ Less(b, f)
  BY <1>2, <1>3
<1>5. b \in Seq(Char) /\ b # End /\ ~Less(b, k)
  BY <1>1, <1>4 DEF Keys, KeysAbove
<1>6. ASSUME b # k PROVE k \notin index /\ \A e \in T : CommonSlashes(k, e) <= CommonSlashes(k, b)
  <2>1. Less(k, b)
    BY <1>5, <1>6, Total
  <2>2. k \notin index
    <3>1. k \in index => k \in T
      BY Irreflexive DEF KeysAbove
    <3>2. k \in T => Less(b, k)
      BY <1>4, <1>6
    <3> QED BY <1>5, <3>1, <3>2
  <2>3. \A e \in T : CommonSlashes(k, e) <= CommonSlashes(k, b)
    <3> TAKE e \in T
    <3>1. CASE e = b
      <4>1. CommonSlashes(k, b) \in Nat
        BY <1>5, CountsSlashes
      <4> QED BY <3>1, <4>1
    <3>2. CASE e # b
      <4>1. Less(b, e) /\ e \in Seq(Char)
        BY <1>1, <1>4, <3>2
      <4>2. CommonPrefix(k, e) \subseteq CommonPrefix(k, b)
        BY <1>5, <2>1, <4>1, AboveIsCloser
      <4> QED BY <1>5, <4>1, <4>2, CloserHasMore
    <3> QED BY <3>1, <3>2
  <2> QED BY <2>2, <2>3
<1> QED BY <1>4, <1>5, <1>6 DEF b

\* No key above k: lower_bound() is the end, and the last one is closest.
LEMMA NoneAbove ==
  ASSUME CharactersAreOrdered, Keys, NEW k \in Seq(Char), KeysAbove(k) = {}, index # {}
  PROVE  /\ lower_bound(k) = End /\ k \notin index
         /\ Closest(CHOOSE e \in index : IsLast(e), k)
<1> DEFINE b == CHOOSE e \in index : IsLast(e)
<1>1. lower_bound(k) = End
  BY DEF lower_bound, KeysAbove
<1>2. \A e \in index : Less(e, k) /\ e \in Seq(Char)
  BY DEF KeysAbove, Keys
<1>3. k \notin index
  BY <1>2, Irreflexive
<1>4. \E e \in index : IsLast(e)
  <2>1. PICK e : IsFinal(e, index)
    BY FirstAndFinal DEF Keys
  <2>2. e \in index /\ \A f \in index : f = e \/ Less(f, e)
    BY <2>1 DEF IsFinal
  <2>3. \A f \in index : ~Less(e, f)
    <3> SUFFICES ASSUME NEW f \in index, Less(e, f) PROVE FALSE
      OBVIOUS
    <3>1. f # e
      BY <1>2, <2>2, Irreflexive
    <3>2. Less(f, f)
      BY <1>2, <2>2, <3>1, Transitive
    <3> QED BY <1>2, <3>2, Irreflexive
  <2> QED BY <2>2, <2>3 DEF IsLast
<1>5. b \in index /\ \A f \in index : ~Less(b, f)
  BY <1>4 DEF IsLast
<1> HIDE DEF b
<1>6. \A e \in index : CommonSlashes(k, e) <= CommonSlashes(k, b)
  <2> TAKE e \in index
  <2>0. e \in Seq(Char) /\ b \in Seq(Char) /\ Less(b, k)
    BY <1>2, <1>5
  <2>1. CASE e = b
    <3>1. CommonSlashes(k, b) \in Nat
      BY <2>0, CountsSlashes
    <3> QED BY <2>1, <3>1
  <2>2. CASE e # b
    <3>1. Less(e, b)
      BY <1>5, <2>0, <2>2, Total
    <3>2. CommonPrefix(k, e) \subseteq CommonPrefix(k, b)
      BY <2>0, <3>1, BelowIsCloser
    <3> QED BY <2>0, <3>2, CloserHasMore
  <2> QED BY <2>1, <2>2
<1> QED BY <1>1, <1>3, <1>5, <1>6 DEF Closest, b

\* What is below the lower bound is below k, and the last one is closest.
LEMMA LastBelow ==
  ASSUME CharactersAreOrdered, Keys, NEW k \in Seq(Char), KeysAbove(k) # {}, lower_bound(k) # k
  PROVE  /\ KeysBelow(lower_bound(k)) = KeysBelow(k)
         /\ KeysBelow(k) # {} =>
              /\ Previous(lower_bound(k)) \in KeysBelow(k)
              /\ \A e \in KeysBelow(k) : CommonSlashes(k, e) <= CommonSlashes(k, Previous(lower_bound(k)))
<1> DEFINE b == lower_bound(k)
           T == KeysBelow(b)
<1>1. b \in KeysAbove(k) /\ \A e \in KeysAbove(k) : e = b \/ Less(b, e)
  BY FirstAbove
<1>2. Previous(b) = CHOOSE e \in T : \A f \in T : f = e \/ Less(f, e)
  BY DEF Previous, KeysBelow
<1> HIDE DEF b
<1>3. b \in index /\ b \in Seq(Char) /\ ~Less(b, k) /\ b # k
  BY <1>1 DEF KeysAbove, Keys, b
<1>4. Less(k, b)
  BY <1>3, Total
<1>5. \A e \in index : e \in Seq(Char)
  BY DEF Keys
<1>6. T = KeysBelow(k)
  <2>1. ASSUME NEW e \in index, Less(e, k) PROVE Less(e, b)
    BY <1>3, <1>4, <1>5, <2>1, Transitive
  <2>2. ASSUME NEW e \in index, Less(e, b), ~Less(e, k) PROVE FALSE
    <3>1. e = b \/ Less(b, e)
      BY <1>1, <2>2 DEF KeysAbove
    <3>2. Less(b, b)
      BY <1>3, <1>5, <2>2, <3>1, Transitive
    <3> QED BY <1>3, <3>2, Irreflexive
  <2> QED BY <2>1, <2>2 DEF KeysBelow
<1>7. ASSUME KeysBelow(k) # {}
      PROVE  /\ Previous(b) \in KeysBelow(k)
             /\ \A e \in KeysBelow(k) : CommonSlashes(k, e) <= CommonSlashes(k, Previous(b))
  <2>1. T \subseteq index /\ T \subseteq Seq(Char) /\ IsFiniteSet(T)
    BY FS_Subset DEF KeysBelow, Keys
  <2> DEFINE c == Previous(b)
  <2>2. \E e \in T : \A f \in T : f = e \/ Less(f, e)
    BY <1>6, <1>7, <2>1, FirstAndFinal DEF IsFinal
  <2>3. c \in T /\ \A f \in T : f = c \/ Less(f, c)
    BY <1>2, <2>2
  <2> HIDE DEF c
  <2>4. c \in Seq(Char) /\ Less(c, k)
    BY <1>5, <1>6, <2>3 DEF KeysBelow
  <2>5. \A e \in T : CommonSlashes(k, e) <= CommonSlashes(k, c)
    <3> TAKE e \in T
    <3>1. CASE e = c
      <4>1. CommonSlashes(k, c) \in Nat
        BY <2>4, CountsSlashes
      <4> QED BY <3>1, <4>1
    <3>2. CASE e # c
      <4>1. Less(e, c) /\ e \in Seq(Char)
        BY <2>1, <2>3, <3>2
      <4>2. CommonPrefix(k, e) \subseteq CommonPrefix(k, c)
        BY <2>4, <4>1, BelowIsCloser
      <4> QED BY <2>4, <4>1, <4>2, CloserHasMore
    <3> QED BY <3>1, <3>2
  <2> QED BY <1>6, <2>3, <2>5 DEF c
<1> QED BY <1>6, <1>7 DEF b

-----------------------------------------------------------------------------
(* The function, from one place of it to the next.                         *)

(* Any paths, any number of them, any least score.                         *)
Hypotheses == CharactersAreOrdered /\ Fuzzy \subseteq Int /\ MaxIndex \in Nat

SameArguments == UNCHANGED <<index, key, min_fuzzy_paths>>

Given ==
  /\ key \in Paths /\ min_fuzzy_paths \in Int
  /\ IsFiniteSet(index) /\ \A k \in index : \E p \in Paths : k = KeyTransform(p)

\* As far as the function has looked.
SearchInv ==
  /\ Given
  /\ pc \in {"search", "at", "before", "decide", "done"}
  /\ pc \in {"at", "before", "decide"} =>
       index # {} /\ search_key \notin index /\ result = nullopt
  /\ pc \in {"at", "before"} => found = lower_bound(search_key) /\ found # search_key
  /\ pc = "before" =>
       best = IF found = End THEN CHOOSE e \in index : IsLast(e) ELSE found
  /\ pc \in {"before", "decide"} => best_common_path_elements = CommonSlashes(search_key, best)
  /\ pc = "decide" => Closest(best, search_key)
  /\ pc = "search" => result = nullopt
  /\ TheBestMatchIsFound

LEMMA GivenKeys ==
  ASSUME Hypotheses, Given
  PROVE  Keys /\ search_key \in Seq(Char) /\ search_key # End
<1>1. "/" \in Char /\ Paths \subseteq Seq(Char)
  BY DEF Hypotheses, CharactersAreOrdered
<1>2. \A p \in Paths : KeyTransform(p) \in Seq(Char) /\ KeyTransform(p) # <<>>
  BY <1>1, KeyIs
<1> QED BY <1>2 DEF Given, Keys, End, search_key

\* Nothing the search reads has changed.
LEMMA SameSearch ==
  ASSUME SameArguments
  PROVE  /\ search_key' = search_key /\ lower_bound(search_key)' = lower_bound(search_key)
         /\ Given' = Given
         /\ \A b, k : Closest(b, k)' = Closest(b, k)
         /\ (CHOOSE e \in index : IsLast(e))' = (CHOOSE e \in index : IsLast(e))
BY DEF SameArguments, search_key, lower_bound, Given, Closest, IsLast

\* No key is closer to the one searched than best is, when all are looked at.
LEMMA LookedAtAll ==
  ASSUME Hypotheses, SearchInv, LookBefore
  PROVE  Closest(best', search_key) /\ best_common_path_elements' = CommonSlashes(search_key, best')
<1> DEFINE k == search_key
<1>0. CharactersAreOrdered /\ Keys /\ k \in Seq(Char) /\ k # End
  BY GivenKeys DEF Hypotheses, SearchInv
<1>1. /\ index # {} /\ k \notin index /\ found = lower_bound(k) /\ found # k
      /\ best = IF found = End THEN CHOOSE e \in index : IsLast(e) ELSE found
      /\ best_common_path_elements = CommonSlashes(k, best)
  BY DEF SearchInv, LookBefore
<1>2. IF found # End /\ ~IsBegin(best)
      THEN IF CommonSlashes(k, Previous(best)) > best_common_path_elements
           THEN best' = Previous(best) /\ best_common_path_elements' = CommonSlashes(k, Previous(best))
           ELSE UNCHANGED <<best, best_common_path_elements>>
      ELSE UNCHANGED <<best, best_common_path_elements>>
  BY DEF LookBefore
<1> HIDE DEF k
<1>3. CASE KeysAbove(k) = {}
  <2>1. found = End /\ Closest(best, k)
    BY <1>0, <1>1, <1>3, NoneAbove
  <2> QED BY <1>1, <1>2, <2>1 DEF k
<1>4. CASE KeysAbove(k) # {}
  <2>1. /\ found \in KeysAbove(k) /\ found # End /\ best = found
        /\ \A e \in KeysAbove(k) : CommonSlashes(k, e) <= CommonSlashes(k, best)
    BY <1>0, <1>1, <1>4, FirstAbove
  <2>2. /\ KeysBelow(best) = KeysBelow(k)
        /\ KeysBelow(k) # {} =>
             /\ Previous(best) \in KeysBelow(k)
             /\ \A e \in KeysBelow(k) : CommonSlashes(k, e) <= CommonSlashes(k, Previous(best))
    BY <1>0, <1>1, <1>4, <2>1, LastBelow
  <2>3. IsBegin(best) <=> KeysBelow(k) = {}
    BY <2>2 DEF IsBegin, KeysBelow
  <2>4. index = KeysAbove(k) \cup KeysBelow(k) /\ best \in index
    BY <2>1 DEF KeysAbove, KeysBelow
  <2>5. \A e \in index : CommonSlashes(k, e) \in Nat
    BY <1>0, CountsSlashes DEF Keys
  <2>6. CASE KeysBelow(k) = {}
    <3>1. best' = best /\ best_common_path_elements' = best_common_path_elements
      BY <1>2, <2>3, <2>6
    <3>2. \A e \in index : CommonSlashes(k, e) <= CommonSlashes(k, best)
      BY <2>1, <2>4, <2>6
    <3>3. Closest(best, k) /\ best_common_path_elements = CommonSlashes(k, best)
      BY <1>1, <2>4, <3>2 DEF Closest
    <3> QED BY <3>1, <3>3 DEF k
  <2>7. CASE KeysBelow(k) # {}
    <3> DEFINE c == Previous(best)
    <3>1. c \in index /\ \A e \in KeysBelow(k) : CommonSlashes(k, e) <= CommonSlashes(k, c)
      BY <2>2, <2>4, <2>7
    <3>2. IF CommonSlashes(k, c) > best_common_path_elements
          THEN best' = c /\ best_common_path_elements' = CommonSlashes(k, c)
          ELSE best' = best /\ best_common_path_elements' = best_common_path_elements
      BY <1>2, <2>1, <2>3, <2>7
    <3> HIDE DEF c
    <3>3. /\ CommonSlashes(k, c) \in Nat /\ CommonSlashes(k, best) \in Nat
      BY <2>4, <2>5, <3>1
    <3>4. CASE CommonSlashes(k, c) > CommonSlashes(k, best)
      <4>1. \A e \in index : CommonSlashes(k, e) <= CommonSlashes(k, c)
        BY <2>1, <2>4, <2>5, <3>1, <3>3, <3>4
      <4> QED BY <1>1, <3>1, <3>2, <3>4, <4>1 DEF Closest, k
    <3>5. CASE ~(CommonSlashes(k, c) > CommonSlashes(k, best))
      <4>1. \A e \in index : CommonSlashes(k, e) <= CommonSlashes(k, best)
        BY <2>1, <2>4, <2>5, <3>1, <3>3, <3>5
      <4> QED BY <1>1, <2>4, <3>2, <3>5, <4>1 DEF Closest, k
    <3> QED BY <3>3, <3>4, <3>5
  <2> QED BY <2>6, <2>7
<1> QED BY <1>3, <1>4

\* What the paths of the index have in common with the one looked for.
LEMMA Scores ==
  ASSUME Hypotheses, Given, NEW e \in index
  PROVE  InCommon(key, Path(e)) = CommonSlashes(search_key, e)
<1>1. "/" \in Char /\ key \in Seq(Char)
  BY DEF Hypotheses, CharactersAreOrdered, Given
<1>2. PICK p \in Paths : e = KeyTransform(p)
  BY DEF Given
<1>3. p \in Seq(Char)
  BY DEF Hypotheses, CharactersAreOrdered
<1>4. Path(e) = p
  BY <1>1, <1>2, <1>3, PathOfKey
<1> QED BY <1>1, <1>2, <1>3, <1>4, InCommonIs DEF search_key

LEMMA KnownPath ==
  ASSUME Hypotheses, Given
  PROVE  key \in {Path(k) : k \in index} <=> search_key \in index
<1>1. "/" \in Char /\ key \in Seq(Char) /\ Paths \subseteq Seq(Char)
  BY DEF Hypotheses, CharactersAreOrdered, Given
<1>2. Path(search_key) = key
  BY <1>1, PathOfKey DEF search_key
<1>3. ASSUME NEW e \in index, key = Path(e) PROVE search_key \in index
  <2>1. PICK p \in Paths : e = KeyTransform(p)
    BY DEF Given
  <2>2. p \in Seq(Char) /\ Path(e) = p
    BY <1>1, <2>1, PathOfKey
  <2> QED BY <1>3, <2>1, <2>2 DEF search_key
<1> QED BY <1>2, <1>3

\* The decision, once best is the closest.
LEMMA Decided ==
  ASSUME Hypotheses, SearchInv, Decide
  PROVE  TheBestMatchIsFound'
<1> DEFINE paths == {Path(k) : k \in index}
           most == {p \in paths : \A q \in paths : InCommon(key, p) >= InCommon(key, q)}
           k == search_key
           n == best_common_path_elements
<1>1. Given /\ k \notin index /\ Closest(best, k) /\ n = CommonSlashes(k, best) /\ min_fuzzy_paths \in Int
  BY DEF SearchInv, Decide, Given
<1>2. key \notin paths
  BY <1>1, KnownPath
<1>3. \A e \in index : InCommon(key, Path(e)) = CommonSlashes(k, e) /\ CommonSlashes(k, e) \in Nat
  BY <1>1, Scores, GivenKeys, CountsSlashes DEF Keys
<1> HIDE DEF k
<1>4. best \in index /\ n \in Nat /\ \A e \in index : CommonSlashes(k, e) <= n
  BY <1>1, <1>3 DEF Closest
<1> HIDE DEF n
<1>5. \A p \in paths : InCommon(key, p) \in Nat /\ InCommon(key, p) <= n
  BY <1>3, <1>4
<1>6. Path(best) \in paths /\ InCommon(key, Path(best)) = n
  BY <1>1, <1>3, <1>4
<1>7. Path(best) \in most
  BY <1>5, <1>6
<1>8. /\ result' = IF n < min_fuzzy_paths THEN nullopt
                   ELSE [match |-> Path(best), fuzzy_score |-> n]
      /\ SameArguments /\ pc' = "done"
  BY DEF Decide, n, SameArguments
<1> HIDE DEF paths, most
<1>9. CASE n < min_fuzzy_paths
  <2>1. ~\E p \in most : InCommon(key, p) >= min_fuzzy_paths
    <3>1. \A p \in most : p \in paths
      BY DEF most
    <3> QED BY <1>1, <1>4, <1>5, <1>9, <3>1
  <2>2. result' = nullopt
    BY <1>8, <1>9
  <2> QED BY <1>2, <1>8, <2>1, <2>2 DEF TheBestMatchIsFound, SameArguments, paths, most
<1>10. CASE ~(n < min_fuzzy_paths)
  <2>1. \E p \in most : InCommon(key, p) >= min_fuzzy_paths
    BY <1>1, <1>4, <1>6, <1>7, <1>10
  <2>2. result'.match = Path(best) /\ result'.fuzzy_score = n
    BY <1>8, <1>10
  <2>3. result'.match \in most /\ result'.fuzzy_score = InCommon(key, result'.match)
    BY <1>6, <1>7, <2>2
  <2> QED BY <1>2, <1>8, <2>1, <2>3 DEF TheBestMatchIsFound, SameArguments, paths, most
<1> QED BY <1>9, <1>10

-----------------------------------------------------------------------------
(* From one step to the next.                                              *)

LEMMA InitSearchInv ==
  ASSUME Hypotheses, FindInit
  PROVE  SearchInv
<1>1. PICK n \in 0..MaxIndex : index \in {{KeyTransform(p[i]) : i \in 1..n} : p \in [1..n -> Paths]}
  BY DEF FindInit
<1>2. PICK p \in [1..n -> Paths] : index = {KeyTransform(p[i]) : i \in 1..n}
  BY <1>1
<1>3. n \in Nat /\ IsFiniteSet(1..n)
  BY FS_Interval DEF Hypotheses
<1>4. IsFiniteSet(index)
  <2> DEFINE f == [i \in 1..n |-> KeyTransform(p[i])]
  <2>1. f \in Surjection(1..n, index)
    BY <1>2 DEF Surjection
  <2> QED BY <1>3, <2>1, FS_Surjection
<1>5. \A k \in index : \E q \in Paths : k = KeyTransform(q)
  BY <1>2
<1>6. Given
  BY <1>4, <1>5 DEF Given, FindInit, Hypotheses
<1> QED BY <1>6 DEF SearchInv, FindInit, TheBestMatchIsFound

LEMMA SearchKeepsInv ==
  ASSUME Hypotheses, SearchInv, Search
  PROVE  SearchInv'
<1> DEFINE k == search_key
           b == lower_bound(k)
<1>1. Given /\ SameArguments /\ result = nullopt /\ CharactersAreOrdered
  BY DEF SearchInv, Search, SameArguments, Hypotheses
<1>2. Given' /\ k' = k /\ b' = b
  BY <1>1, SameSearch
<1>3. Keys /\ k \in Seq(Char) /\ k # End
  BY <1>1, GivenKeys
<1>4. CASE index = {}
  <2>1. pc' = "done" /\ result' = result /\ index' = {}
    BY <1>4 DEF Search
  <2>2. TheBestMatchIsFound'
    <3>1. result' = nullopt
      BY <1>1, <2>1
    <3> QED BY <2>1, <3>1 DEF TheBestMatchIsFound
  <2> QED BY <1>2, <2>1, <2>2 DEF SearchInv
<1>5. CASE index # {}
  <2>1. found' = b /\ IF b = k THEN pc' = "done" /\ result' = [match |-> key, fuzzy_score |-> 0]
                             ELSE pc' = "at" /\ result' = result
    BY <1>5 DEF Search
  <2>2. IF KeysAbove(k) = {} THEN b = End /\ k \notin index
                         ELSE b \in index /\ (b # k => k \notin index)
    BY <1>1, <1>3, <1>5, NoneAbove, FirstAbove DEF KeysAbove
  <2> HIDE DEF k, b
  <2>3. CASE b = k
    <3>1. k \in index /\ pc' = "done" /\ result' = [match |-> key, fuzzy_score |-> 0]
      BY <1>3, <2>1, <2>2, <2>3
    <3>2. key \in {Path(e) : e \in index} /\ index' = index /\ key' = key
      BY <1>1, <3>1, KnownPath DEF SameArguments, k
    <3>3. TheBestMatchIsFound'
      BY <3>1, <3>2 DEF TheBestMatchIsFound
    <3> QED BY <1>2, <3>1, <3>3 DEF SearchInv
  <2>4. CASE b # k
    <3>1. k \notin index /\ pc' = "at" /\ result' = nullopt /\ found' = b
      BY <1>1, <2>1, <2>2, <2>4
    <3>2. index' = index /\ TheBestMatchIsFound'
      BY <1>1, <3>1 DEF SameArguments, TheBestMatchIsFound
    <3> QED BY <1>2, <1>5, <2>4, <3>1, <3>2 DEF SearchInv, k, b
  <2> QED BY <2>3, <2>4
<1> QED BY <1>4, <1>5

LEMMA LookAtKeepsInv ==
  ASSUME Hypotheses, SearchInv, LookAt
  PROVE  SearchInv'
<1> DEFINE last == CHOOSE e \in index : IsLast(e)
<1>1. SameArguments /\ Given /\ found' = found /\ result' = result /\ pc' = "before"
      /\ best' = (IF found = End THEN last ELSE found)
      /\ best_common_path_elements' = CommonSlashes(search_key, best')
  BY DEF LookAt, SearchInv, SameArguments
<1>2. /\ search_key' = search_key /\ lower_bound(search_key)' = lower_bound(search_key)
      /\ Given' /\ last' = last
  BY <1>1, SameSearch
<1>3. index # {} /\ search_key \notin index /\ result = nullopt
      /\ found = lower_bound(search_key) /\ found # search_key
  BY DEF SearchInv, LookAt
<1>4. index' = index
  BY <1>1 DEF SameArguments
<1>5. TheBestMatchIsFound'
  BY <1>1 DEF TheBestMatchIsFound
<1>6. best' = (IF found = End THEN last ELSE found)'
  BY <1>1, <1>2
<1> QED BY <1>1, <1>2, <1>3, <1>4, <1>5, <1>6 DEF SearchInv

LEMMA LookBeforeKeepsInv ==
  ASSUME Hypotheses, SearchInv, LookBefore
  PROVE  SearchInv'
<1>1. SameArguments /\ Given /\ found' = found /\ result' = result /\ pc' = "decide"
      /\ index # {} /\ search_key \notin index /\ result = nullopt
  BY DEF LookBefore, SearchInv, SameArguments
<1>2. Closest(best', search_key) /\ best_common_path_elements' = CommonSlashes(search_key, best')
  BY LookedAtAll
<1>3. Given' /\ search_key' = search_key /\ index' = index
  BY <1>1, SameSearch DEF SameArguments
<1>4. Closest(best, search_key)' /\ TheBestMatchIsFound'
  BY <1>1, <1>2, <1>3 DEF Closest, TheBestMatchIsFound
<1> QED BY <1>1, <1>2, <1>3, <1>4 DEF SearchInv

LEMMA DecideKeepsInv ==
  ASSUME Hypotheses, SearchInv, Decide
  PROVE  SearchInv'
<1>1. SameArguments /\ Given /\ pc' = "done"
  BY DEF Decide, SearchInv, SameArguments
<1>2. Given' /\ TheBestMatchIsFound'
  BY <1>1, SameSearch, Decided
<1> QED BY <1>1, <1>2 DEF SearchInv

LEMMA NothingChanges ==
  ASSUME SearchInv, UNCHANGED findVars
  PROVE  SearchInv'
<1>1. SameArguments /\ UNCHANGED <<pc, found, best, best_common_path_elements, result>>
  BY DEF findVars, SameArguments
<1>2. /\ search_key' = search_key /\ lower_bound(search_key)' = lower_bound(search_key)
      /\ Given' = Given /\ Closest(best, search_key)' = Closest(best, search_key)
      /\ (CHOOSE e \in index : IsLast(e))' = (CHOOSE e \in index : IsLast(e))
  BY <1>1, SameSearch DEF Closest, SameArguments, search_key
<1>3. TheBestMatchIsFound' = TheBestMatchIsFound
  BY <1>1 DEF TheBestMatchIsFound, SameArguments
<1>4. index' = index
  BY <1>1 DEF SameArguments
<1> QED BY <1>1, <1>2, <1>3, <1>4 DEF SearchInv

(* FindBySuffix() finds the path looked for if it is there; if it is not,  *)
(* one that shares the most parts of its end with it, of all of the index, *)
(* or nothing if these are too few (header-providers.cc, FindBySuffix).    *)
THEOREM BestMatchIsFound ==
  ASSUME Hypotheses
  PROVE  FindSpec => []TheBestMatchIsFound
<1>1. FindInit => SearchInv
  BY InitSearchInv
<1>2. SearchInv /\ [FindNext]_findVars => SearchInv'
  BY SearchKeepsInv, LookAtKeepsInv, LookBeforeKeepsInv, DecideKeepsInv, NothingChanges DEF FindNext
<1>3. SearchInv => TheBestMatchIsFound
  BY DEF SearchInv
<1> QED BY <1>1, <1>2, <1>3, PTL DEF FindSpec
=============================================================================
