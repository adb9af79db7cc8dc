------------------------------ MODULE Scanner ------------------------------
(***************************************************************************)
(* The scanner of BUILD files (bant/frontend/scanner.cc) with the line     *)
(* index it fills on the way (linecolumn-map.cc, named-content.cc).        *)
(*                                                                         *)
(* The content is a sequence of atoms: one atom for a character, or for a  *)
(* whole run of characters the scanner never looks into, such as the words *)
(* it knows.  Positions are positions of atoms, begin() is 1.  Whoever     *)
(* pulls the tokens may Peek() at any time; peeking scans, too, so that    *)
(* the line index runs ahead of the token handed out.                      *)
(***************************************************************************)
EXTENDS Integers, Sequences, FiniteSets, FiniteSetsExt

CONSTANT Contents  \* the files scanned: sequences of atoms

Space == {" ", "\n"}
Quotes == {"dq", "sq"}
Digits == {"0", "1"}
Words == {"not", "in", "if", "name", "r", "x"}
IdentifierChars == Words \cup Digits
Keywords == {"not", "in", "if"}  \* "if" stands for for, and, or, else, too
AsIs == {"(", "[", "+", "."}     \* brackets, comma, colon, operators of one character
MayDouble == {"=", "!", "<", "/"}

VARIABLES
  content,     \* what is scanned
  scan,        \* pos_, line_map_, newline_count_ and last_token_newline_count_
  upcoming_,   \* token peeked at, or NoToken (has_upcoming_ is false)
  handed_out   \* ghost: what Next() returned so far

vars == <<content, scan, upcoming_, handed_out>>

NoToken == [type |-> "none", from |-> 0, to |-> 0, flag |-> FALSE]
End == Len(content) + 1
Is(p, S) == p < End /\ content[p] \in S
Newlines(from, to) == {p \in from..to - 1 : content[p] = "\n"}
Until(from, chars) == {p \in from..End - 1 : content[p] \notin chars}
FirstOf(places) == Min(places \cup {End})   \* or the end, if there is none

(* SkipSpace: white space, backslashes and comments up to the end of line. *)
InComment(from, p) == \E h \in from..p - 1 : content[h] = "#" /\ Newlines(h, p) = {}
SkipSpace(from) ==
  FirstOf({p \in Until(from, Space \cup {"\\", "#"}) : ~InComment(from, p)})

(* ConsumeOptionalIn: where the scanner is after "not". *)
ConsumeOptionalIn(from) ==
  LET run == FirstOf(Until(from, Space))
  IN IF Is(run, {"in"}) THEN run + 1 ELSE from

IdentifierEnd(from) == FirstOf(Until(from, IdentifierChars))

(* HandleString: the loop that counts quotes from body on.  Before each     *)
(* place: close_quote_count and last_was_escape, as if it went on to the    *)
(* end; it ends behind the first quote that brings the count to 0.          *)
LoopAt(text, body, quote, needed) ==
  LET before[p \in Nat] ==
        IF p <= body THEN [count |-> needed, escaped |-> FALSE]
        ELSE [count   |-> IF text[p - 1] = quote /\ ~before[p - 1].escaped
                          THEN before[p - 1].count - 1 ELSE needed,
              escaped |-> text[p - 1] = "\\" /\ ~before[p - 1].escaped]
  IN before
StringLoop(body, quote, needed) ==
  LET before  == LoopAt(content, body, quote, needed)
      closing == {p \in body..End - 1 : content[p] = quote /\ ~before[p].escaped /\ before[p].count = 1}
  IN [closed |-> closing # {}, to |-> IF closing = {} THEN End ELSE FirstOf(closing) + 1]

HandleString(start) ==
  LET open   == IF Is(start, {"r"}) THEN start + 1 ELSE start
      quote  == content[open]
      triple == Is(open + 1, {quote}) /\ Is(open + 2, {quote})
      body   == IF triple THEN open + 3 ELSE open + 1
      needed == IF triple THEN 3 ELSE 1
      loop   == StringLoop(body, quote, needed)
  IN [type |-> IF loop.closed THEN "string" ELSE "error", to |-> loop.to,
      lines |-> Newlines(body, loop.to)]

HandleNumber(start) ==
  LET prefix == content[start] = "0" /\ Is(start + 1, {"x"})  \* of hex or octal
      digits == IF prefix THEN start + 2 ELSE start + 1
      dots == {p \in digits..End - 1 : content[p] = "."}
      to == FirstOf(Until(digits, Digits \cup {"."}) \cup {p \in dots : \E q \in dots : q < p})
  IN [type |-> IF Is(to, {"."}) THEN "error" ELSE "number", to |-> to, lines |-> {}]

HandleIdentifierKeywordRawStringOrInvalid(start) ==
  LET to == IdentifierEnd(start)
      text == SubSeq(content, start, to - 1)
      token(type, end) == [type |-> type, to |-> end, lines |-> {}]
  IN CASE End - start > 2 /\ content[start] = "r" /\ content[start + 1] \in Quotes
            -> HandleString(start)
       [] content[start] \notin IdentifierChars -> token("error", start + 1)
       [] text = <<"not">> -> LET end == ConsumeOptionalIn(to)
                              IN token(IF end = to THEN "not" ELSE "not in", end)
       [] text # <<"not">> /\ Len(text) = 1 /\ text[1] \in Keywords -> token(text[1], to)
       [] OTHER -> token("identifier", to)

(* The operators of one or two characters; "//" ends in a slash, the       *)
(* others in "=".                                                          *)
HandleOperator(start) ==
  LET second == IF content[start] = "/" THEN "/" ELSE "="
      double == Is(start + 1, {second})
  IN [type |-> IF double THEN "double" ELSE content[start],
      to |-> IF double THEN start + 2 ELSE start + 1, lines |-> {}]

Scan(start) ==
  IF content[start] \in AsIs THEN [type |-> content[start], to |-> start + 1, lines |-> {}]
  ELSE IF content[start] \in MayDouble THEN HandleOperator(start)
  ELSE IF content[start] \in Digits THEN HandleNumber(start)
  ELSE IF content[start] \in Quotes THEN HandleString(start)
  ELSE HandleIdentifierKeywordRawStringOrInvalid(start)

(* PushNewline of every newline in a set, in the order they are met. *)
Pushed(map, lines) ==
  map \o [i \in 1..Cardinality(lines) |->
            1 + (CHOOSE p \in lines : Cardinality({q \in lines : q < p}) = i - 1)]

\* Mutant: lines that start in a string are not indexed.
LinesInNoToken(scanned) == {}
LinesIn(scanned) == scanned.lines

(* The part of Next() behind the look at upcoming_: the token scanned from  *)
(* a state of the scanner, and the state after it.                         *)
Consumed(s, start, skipped, scanned) ==
  LET lines == skipped \cup LinesIn(scanned)
      count == s.count + Cardinality(lines)
  IN [token |-> [type |-> scanned.type, from |-> start, to |-> scanned.to,
                 flag |-> s.last_count # count],
      scan  |-> [pos |-> scanned.to, line_map |-> Pushed(s.line_map, lines),
                 count |-> count, last_count |-> count]]

Advanced(s) ==
  LET start   == SkipSpace(s.pos)
      skipped == Newlines(s.pos, start)
  IN IF start # End THEN Consumed(s, start, skipped, Scan(start))
     ELSE [token |-> [type |-> "eof", from |-> End, to |-> End, flag |-> FALSE],
           scan  |-> [s EXCEPT !.pos = End, !.line_map = Pushed(@, skipped),
                               !.count = @ + Cardinality(skipped)]]

Fresh == [pos |-> 1, line_map |-> <<1>>, count |-> 0, last_count |-> 0]

Init ==
  /\ content \in Contents
  /\ scan = Fresh
  /\ upcoming_ = NoToken
  /\ handed_out = <<>>

AtEof == handed_out # <<>> /\ handed_out[Len(handed_out)].type = "eof"

NextPeeked ==
  /\ upcoming_ # NoToken
  /\ handed_out' = Append(handed_out, upcoming_)
  /\ upcoming_' = NoToken
  /\ UNCHANGED <<content, scan>>

NextScanned ==
  /\ upcoming_ = NoToken
  /\ \E a \in {Advanced(scan)} :
       handed_out' = Append(handed_out, a.token) /\ scan' = a.scan
  /\ UNCHANGED <<content, upcoming_>>

Peek ==
  /\ upcoming_ = NoToken
  /\ \E a \in {Advanced(scan)} : upcoming_' = a.token /\ scan' = a.scan
  /\ UNCHANGED <<content, handed_out>>

(* A parser goes on until it is handed the end of the file. *)
Next == ~AtEof /\ (NextPeeked \/ NextScanned \/ Peek)

Spec == Init /\ [][Next]_vars
-----------------------------------------------------------------------------
(* LineColumnMap::GetPos: the last line that starts at or before a         *)
(* position; zero based, as the code has it.                               *)
LineOf(p) == Cardinality({i \in 1..Len(scan.line_map) : scan.line_map[i] <= p}) - 1
GetPos(p) == [line |-> LineOf(p), col |-> p - scan.line_map[LineOf(p) + 1]]
GetRange(token) == [start |-> GetPos(token.from), end |-> GetPos(token.to)]

(* NamedLineIndexedContent::GetSurroundingLine: first and last position.   *)
GetSurroundingLine(token) ==
  [from |-> Max({1} \cup {p + 1 : p \in Newlines(1, token.from)}),
   to   |-> Min({End} \cup Newlines(token.to, End))]

(* StringScalar::FromLiteral: the part of a string token that is its value. *)
StringValue(token) ==
  LET open   == IF content[token.from] = "r" THEN token.from + 1 ELSE token.from
      triple == /\ token.to - open >= 6
                /\ \A p \in open..open + 2 : content[p] = "dq"
      quotes == IF triple THEN 3 ELSE 1
  IN [from |-> open + quotes, to |-> token.to - quotes]

Tokens == {handed_out[i] : i \in 1..Len(handed_out)} \cup ({upcoming_} \ {NoToken})
Returned == handed_out \o (IF upcoming_ = NoToken THEN <<>> ELSE <<upcoming_>>)

TypeOK ==
  /\ scan.pos \in 1..End
  /\ scan.line_map # <<>>
  /\ \A t \in Tokens : t.from \in 1..End /\ t.to \in t.from..End

(* Where a token is said to be is where it is: its line is the number of   *)
(* newlines before it, its column the distance from the last of them, for  *)
(* its first and its last position, and a line printed for context starts  *)
(* where that line starts - at the time it is handed out, peeked at or     *)
(* not, and ever after (PushNewline in three places, GetPos, GetRange).    *)
TrueLine(p) == Cardinality(Newlines(1, p))
TrueColumn(p) == p - Max({1} \cup {q + 1 : q \in Newlines(1, p)})
LocationsAreExact ==
  \A t \in Tokens :
    /\ GetRange(t).start = [line |-> TrueLine(t.from), col |-> TrueColumn(t.from)]
    /\ GetRange(t).end = [line |-> TrueLine(t.to), col |-> TrueColumn(t.to)]
    /\ GetSurroundingLine(t).from = scan.line_map[GetPos(t.from).line + 1]

(* The index is strictly ordered and has no line twice: PushNewline()      *)
(* CHECKs the order, the binary search of GetPos() relies on it.           *)
LineIndexIsOrdered ==
  \A i, j \in 1..Len(scan.line_map) : i < j => scan.line_map[i] < scan.line_map[j]

(* Tokens follow each other without overlap, and what is between them is   *)
(* white space, continuations and comments only: no text is lost, none is  *)
(* read twice; every token consumes something, so that the end is reached  *)
(* (SkipSpace and all handlers).                                           *)
NothingIsLost ==
  \A i \in 1..Len(Returned) :
    LET before == IF i = 1 THEN 1 ELSE Returned[i - 1].to
        t == Returned[i]
    IN /\ before <= t.from
       /\ t.type # "eof" => t.from < t.to
       /\ \A p \in before..t.from - 1 :
            \/ content[p] \in Space \cup {"\\"}
            \/ \E h \in before..p : content[h] = "#" /\ Newlines(h, p) = {}

(* A bracket is flagged iff it is on another line than the token before it *)
(* ended: what the parser takes for the start of a new statement and not   *)
(* for a subscript (newline_since_last_token).                             *)
BracketFlagIsRight ==
  \A i \in 1..Len(Returned) : Returned[i].type \in AsIs =>
    (Returned[i].flag <=>
       Newlines(IF i = 1 THEN 1 ELSE Returned[i - 1].to, Returned[i].from) # {})

(* A string ends at the first quote, or triple of quotes, that no odd      *)
(* number of backslashes precedes, and nowhere else (HandleString).        *)
StringsEndWhereTheyClose ==
  \A t \in {u \in Tokens : u.type = "string"} :
    LET open   == IF content[t.from] = "r" THEN t.from + 1 ELSE t.from
        quote  == content[open]
        triple == Is(open + 1, {quote}) /\ Is(open + 2, {quote})
        n      == IF triple THEN 3 ELSE 1
        slashes(q) == Cardinality({p \in open + n..q - 1 : \A r \in p..q - 1 : content[r] = "\\"})
        closes(q) == \A r \in q - n + 1..q : r >= open + n /\ content[r] = quote /\ slashes(r) % 2 = 0
    IN closes(t.to - 1) /\ \A q \in open + n..t.to - 2 : ~closes(q)

(* "The return value of AsString() has quotes around removed": the value of *)
(* a string is all that is between the quotes that open and close it.      *)
ValueHasQuotesRemoved ==
  \A t \in {u \in Tokens : u.type = "string"} :
    LET open   == IF content[t.from] = "r" THEN t.from + 1 ELSE t.from
        triple == \A p \in open..open + 2 : Is(p, {content[open]})
        n      == IF triple THEN 3 ELSE 1
    IN StringValue(t) = [from |-> open + n, to |-> t.to - n]

(* The stream of tokens does not depend on when anybody peeked: what was   *)
(* handed out is what scanning from the beginning without looking ahead    *)
(* hands out (Peek, Next).                                                 *)
ScanAfter[n \in Nat] == IF n = 0 THEN Fresh ELSE Advanced(ScanAfter[n - 1]).scan
PeekingChangesNothing ==
  \A i \in 1..Len(Returned) : Returned[i] = Advanced(ScanAfter[i - 1]).token

(* Two texts the code does not get right, so that what it promises of them *)
(* is less: a newline between "not" and "in" is not indexed                *)
(* (ConsumeOptionalIn), and triple single quotes are taken for single ones *)
(* by FromLiteral.                                                         *)
NotInIsOnOneLine ==
  \A p, q \in 1..Len(content) :
    p < q /\ content[p] = "not" /\ content[q] = "in" /\ (\A r \in p + 1..q - 1 : content[r] \in Space)
      => \A r \in p + 1..q - 1 : content[r] # "\n"
SingleQuotesAreNotTripled ==
  \A p, q \in 1..Len(content) :
    p + 3 <= q /\ q + 2 <= Len(content) => \E k \in 0..2 : content[p + k] # "sq" \/ content[q + k] # "sq"

ScannerIsFaithful ==
  /\ TypeOK
  /\ LineIndexIsOrdered
  /\ NotInIsOnOneLine => LocationsAreExact
  /\ NothingIsLost
  /\ BracketFlagIsRight
  /\ StringsEndWhereTheyClose
  /\ SingleQuotesAreNotTripled => ValueHasQuotesRemoved
  /\ PeekingChangesNothing

ContentsAreTexts == Contents \subseteq Seq(STRING)
=============================================================================
