--------------------------- MODULE SourceLocations ---------------------------
(***************************************************************************)
(* Where a string is from (bant/frontend/parsed-project.cc,                *)
(* source-locator, named-content.cc, linecolumn-map.cc and                 *)
(* util/disjoint-range-map.h).  A text is only known by its addresses: a   *)
(* map of the ranges registered, keyed by their ends, leads to the locator *)
(* of the file that the text is a part of, or to the fixed location of the *)
(* expression that made it.                                                *)
(***************************************************************************)
EXTENDS Integers, Sequences, FiniteSets

CONSTANTS
  Texts,        \* contents of files, sequences of characters
  Packages,
  MadeSizes,    \* lengths of strings made by "+" and of all results of a glob()
  Memory        \* bound: addresses are 0..Memory

ASSUME SizesAssumption ==
  /\ Texts \subseteq Seq(STRING)
  /\ MadeSizes \subseteq Nat
  /\ Memory \in Nat

VARIABLES
  files,          \* files kept: records of a package, an address and a text
  made,           \* strings made: records of an address, a size and a location
  location_maps,  \* DisjointRangeMap: records of end, begin and locator
  seen_before     \* packages that had a file already when another one came

locationVars == <<files, made, location_maps, seen_before>>

Span(begin, end) == [begin |-> begin, end |-> end]
Subranges(r) == {Span(p[1], p[2]) : p \in {p \in (r.begin..r.end) \X (r.begin..r.end) : p[1] <= p[2]}}
Content(f) == Span(f.address, f.address + Len(f.text))
Assembled(m) == Span(m.address, m.address + m.size)
Blocks == {Content(f) : f \in files} \cup {Assembled(m) : m \in made}

(* Free places for n bytes.  A block is followed by something else: by the *)
(* NUL of a std::string, by the object allocated after it in the arena.    *)
Places(n) == {b \in 0..(Memory - n) : \A blk \in Blocks : b + n < blk.begin \/ blk.end < b}

-----------------------------------------------------------------------------
(* LineColumnMap: the addresses where lines begin. *)
LineStarts(f) == {f.address} \cup {f.address + i : i \in {i \in DOMAIN f.text : f.text[i] = "\n"}}

\* Mutant: a position at the beginning of a line belongs to the line before.
GetPosLower(f, pos) ==
  LET starts == {s \in LineStarts(f) : s < pos \/ s = f.address}
      start == CHOOSE s \in starts : \A t \in starts : t <= s
  IN [line |-> Cardinality(starts) - 1, col |-> pos - start]
GetPos(f, pos) ==
  LET starts == {s \in LineStarts(f) : s <= pos}
      start == CHOOSE s \in starts : \A t \in starts : t <= s
  IN [line |-> Cardinality(starts) - 1, col |-> pos - start]
GetRange(f, r) == [start |-> GetPos(f, r.begin), end |-> GetPos(f, r.end)]

CharAt(f, address) == f.text[address - f.address + 1]
GetSurroundingLine(f, r) ==
  LET starts == {s \in Content(f).begin..r.begin : \A a \in s..(r.begin - 1) : CharAt(f, a) # "\n"}
      ends   == {e \in r.end..Content(f).end : \A a \in r.end..(e - 1) : CharAt(f, a) # "\n"}
  IN Span(CHOOSE s \in starts : \A t \in starts : s <= t, CHOOSE e \in ends : \A t \in ends : t <= e)

-----------------------------------------------------------------------------
(* A locator: a file's, or a fixed one, which holds one location. *)
FileLocator(package) == [package |-> package, fixed |-> <<>>]
FixedSourceLocator(location) == [package |-> location.package, fixed |-> <<location.range>>]
NotFound == {}

Insert(map, r, locator) ==
  IF \E e \in map : e.end = r.end THEN map
  ELSE map \cup {[end |-> r.end, begin |-> r.begin, locator |-> locator]}

\* Mutant: upper_bound: a range is not found by its last part.
FindBySubrangeUpper(r) ==
  LET behind == {e \in location_maps : e.end > r.end}
      lower  == CHOOSE e \in behind : \A f \in behind : e.end <= f.end
  IN IF behind = {} THEN NotFound ELSE IF lower.begin > r.begin THEN NotFound ELSE {lower.locator}
FindBySubrange(r) ==
  LET behind == {e \in location_maps : e.end >= r.end}
      lower  == CHOOSE e \in behind : \A f \in behind : e.end <= f.end
  IN IF behind = {} THEN NotFound ELSE IF lower.begin > r.begin THEN NotFound ELSE {lower.locator}

FileOf(package) == CHOOSE f \in files : f.package = package
(* The location, or none, where the code ends the program. *)
GetLocation(r) ==
  {[package |-> l.package,
    range |-> IF l.fixed # <<>> THEN l.fixed[1] ELSE GetRange(FileOf(l.package), r)] : l \in FindBySubrange(r)}

-----------------------------------------------------------------------------
LocationsInit == files = {} /\ made = {} /\ location_maps = {} /\ seen_before = {}

(* The first file of a package is kept, another one is destroyed.          *)
AddBuildFileContent ==
  \E package \in Packages, text \in Texts : \E address \in Places(Len(text)) :
    LET f == [package |-> package, address |-> address, text |-> text]
    IN IF \E g \in files : g.package = package
       THEN /\ seen_before' = seen_before \cup {package}
            /\ UNCHANGED <<files, made, location_maps>>
       ELSE /\ files' = files \cup {f}
            /\ location_maps' = Insert(location_maps, Content(f), FileLocator(package))
            /\ UNCHANGED <<made, seen_before>>

(* A string is made at the place of an expression of a file. *)
Make(n) ==
  \E f \in files : \E op \in {r \in Subranges(Content(f)) : r.begin < r.end} :
  \E location \in GetLocation(op) : \E address \in Places(n) :
    LET m == [address |-> address, size |-> n, location |-> location]
    IN /\ made' = made \cup {m}
       /\ location_maps' = Insert(location_maps, Assembled(m), FixedSourceLocator(location))
       /\ UNCHANGED <<files, seen_before>>

ConcatStrings == \E n \in MadeSizes : Make(n)
(* All results of one glob() lie in one block, one after the other. *)
HandleGlob == \E n \in MadeSizes : Make(n)

LocationsNext == AddBuildFileContent \/ ConcatStrings \/ HandleGlob
LocationsSpec == LocationsInit /\ [][LocationsNext]_locationVars

-----------------------------------------------------------------------------
(* Every part of a file and of a string made, a single result of a glob()  *)
(* and the empty one included, has a location, which is in its own file or *)
(* that of the expression: no CHECK ends the program, and no message       *)
(* points to a neighbour in memory or to a file that was not kept.         *)
EveryStringHasItsLocation ==
  /\ \A f \in files : \A r \in Subranges(Content(f)) :
       GetLocation(r) = {[package |-> f.package, range |-> GetRange(f, r)]}
  /\ \A m \in made : \A r \in Subranges(Assembled(m)) : GetLocation(r) = {m.location}

(* Ranges of the map are parts of what is alive. *)
NoRangeDangles ==
  \A e \in location_maps : Span(e.begin, e.end) \in Blocks

(* Line and column are those a reader counts: the newlines in front, and   *)
(* the characters behind the last of them.                                 *)
PositionsAreTrue ==
  \A f \in files : \A pos \in f.address..(f.address + Len(f.text)) :
    LET before == SubSeq(f.text, 1, pos - f.address)
        newlines == {i \in DOMAIN before : before[i] = "\n"}
    IN /\ GetPos(f, pos).line = Cardinality(newlines)
       /\ GetPos(f, pos).col = Cardinality({i \in DOMAIN before : \A n \in newlines : n < i})

(* The line around a text holds it, and is as long as it can be without    *)
(* another newline.                                                        *)
LinesAreWhole ==
  \A f \in files : \A r \in Subranges(Content(f)) :
    LET line == GetSurroundingLine(f, r)
        outside == (line.begin..(r.begin - 1)) \cup (r.end..(line.end - 1))
    IN /\ line.begin <= r.begin /\ r.end <= line.end
       /\ \A a \in outside : CharAt(f, a) # "\n"
       /\ line.begin = f.address \/ CharAt(f, line.begin - 1) = "\n"
       /\ line.end = Content(f).end \/ CharAt(f, line.end) = "\n"

(* All that is looked up by a location is what it is in the text, and what *)
(* it is looked up in is still there (FindBySubrange, GetLocation).        *)
LocationsAreTrue == NoRangeDangles /\ PositionsAreTrue /\ LinesAreWhole
=============================================================================
