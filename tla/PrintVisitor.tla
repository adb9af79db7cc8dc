---------------------------- MODULE PrintVisitor ----------------------------
(***************************************************************************)
(* Printing a syntax tree (bant/frontend/print-visitor.cc, on the visitors *)
(* of ast.h) and what parsing and printing promise together.  Spacing,     *)
(* colors and the highlighting of matches are left out: the output is the  *)
(* sequence of tokens a scanner would find in it, each with the position   *)
(* in the source of the token it came from.                                *)
(***************************************************************************)
EXTENDS Parser

CONSTANT Continuations  \* what is added to a file that was fine

VARIABLE before  \* ghost: what was printed or parsed before the tokens were

Sequence == INSTANCE SequencesExt

Punctuation(t) == <<[t |-> t, at |-> 0]>>
Original(t, i) == <<[t |-> t, at |-> i]>>

RECURSIVE PrintNode(_), Elements(_)

(* The elements of a list with commas between; nothing where a null is     *)
(* printed leaves the name NIL.                                            *)
Elements(sub) ==
  IF sub = <<>> THEN <<>>
  ELSE (IF Head(sub) = Null THEN Punctuation("id") ELSE PrintNode(Head(sub)))
       \o (IF Len(sub) = 1 THEN <<>> ELSE Punctuation(",") \o Elements(Tail(sub)))

VisitList(n) ==
  Punctuation(n.kind) \o Elements(n.sub)
  \o (IF n.kind = "(" /\ Len(n.sub) = 1 THEN Punctuation(",") ELSE <<>>)
  \o Punctuation(EndTokenFor(n.kind))

VisitTernary(n) ==
  PrintNode(n.sub[2]) \o Original("if", n.at) \o PrintNode(n.sub[1])
  \o (IF n.sub[3] = Null THEN <<>> ELSE Punctuation("else") \o PrintNode(n.sub[3]))

(* Infix, for assignments and the parts of a comprehension, too. *)
VisitBinOpNode(n) ==
  LET op == IF n.kind = "[]" THEN "[" ELSE IF n.kind = "for-in" THEN "in" ELSE n.kind
  IN PrintNode(n.sub[1]) \o Original(op, n.at) \o PrintNode(n.sub[2])
     \o (IF n.kind = "[]" THEN Punctuation("]") ELSE <<>>)

PrintNode(n) ==
  CASE n.kind = "null"                -> <<>>  \* WalkNonNull
    [] n.kind \in {"id", "str", "num"} -> Original(n.kind, n.at)
    [] n.kind \in {"[", "{", "("}      -> VisitList(n)
    [] n.kind = "call"                -> Original("id", n.at) \o PrintNode(n.sub[2])
    [] n.kind = "unary"               -> Original(tokens[n.at], n.at) \o PrintNode(n.sub[1])
    [] n.kind = "if"                  -> VisitTernary(n)
    [] n.kind \in {"for[", "for{"}    ->
         LET open == IF n.kind = "for[" THEN "[" ELSE "{"
         IN Punctuation(open) \o PrintNode(n.sub[1]) \o Punctuation(EndTokenFor(open))
    [] OTHER                          -> VisitBinOpNode(n)
-----------------------------------------------------------------------------
(* A file is parsed; what came out is printed and parsed again, or the     *)
(* file gets longer and is parsed again.                                   *)
Nothing == [printed |-> <<>>, statements |-> <<>>]
PrintInit == Init /\ before = Nothing

Parsed == statements # <<>> \/ error
Kinds(printed) == [i \in 1..Len(printed) |-> printed[i].t]

(* All nodes of a tree, those that are missing included. *)
RECURSIVE Nodes(_)
Nodes(n) == {n} \cup UNION {Nodes(n.sub[i]) : i \in 1..Len(n.sub)}
AllNodes == UNION {Nodes(statements[i]) : i \in 1..Len(statements)}

ParseFile == ~Parsed /\ parse /\ UNCHANGED before

PrintAndReadAgain ==
  /\ before = Nothing
  /\ Len(statements) = 1 /\ ~error
  /\ \A n \in AllNodes : n.kind = "unary" => n.sub[1] # Null
  /\ tokens' = Kinds(PrintNode(statements[1]))
  /\ before' = [Nothing EXCEPT !.printed = tokens']
  /\ statements' = <<>>
  /\ UNCHANGED error

Continue(more) ==
  /\ before = Nothing
  /\ statements # <<>> /\ ~error
  /\ tokens' = tokens \o more
  /\ before' = [Nothing EXCEPT !.statements = statements]
  /\ statements' = <<>>
  /\ UNCHANGED error

PrintNext == ParseFile \/ PrintAndReadAgain \/ \E more \in Continuations : Continue(more)
PrintSpec == PrintInit /\ [][PrintNext]_<<vars, before>>
-----------------------------------------------------------------------------

(* Without an error, what is missing in the tree is what the language      *)
(* allows to be missing: one end of a slice, an else, a variable of a      *)
(* tuple, the operand of a sign in front of nothing in (-) or x[-].        *)
Arity(n) ==
  CASE n.kind \in {"id", "str", "num", "null"} -> Len(n.sub) = 0
    [] n.kind = "call" -> Len(n.sub) = 2 /\ n.sub[1].kind = "id" /\ n.sub[2].kind = "("
    [] n.kind = "if" -> Len(n.sub) = 3 /\ n.sub[1] # Null /\ n.sub[2] # Null
    [] n.kind = ":" -> Len(n.sub) = 2 /\ ~(n.sub[1] = Null /\ n.sub[2] = Null)
    [] n.kind = "unary" -> Len(n.sub) = 1
    [] n.kind \in {"for[", "for{"} -> Len(n.sub) = 1 /\ n.sub[1].kind = "for"
    [] n.kind \in {"[", "{"} -> \A i \in 1..Len(n.sub) : n.sub[i] # Null
    [] n.kind = "(" -> TRUE
    [] OTHER -> Len(n.sub) = 2 /\ n.sub[1] # Null /\ n.sub[2] # Null
TreesAreComplete == ~error => \A n \in AllNodes : Arity(n)

(* Without an error no token gets lost, doubled or moved on the way        *)
(* through the tree and back: printed in order, the names, numbers and     *)
(* operators are those of the source (all of parser.cc, print-visitor.cc). *)
Named == {"id", "num", "+", "-", ".", "if", "not", "="}
PrintKeepsTokens ==
  (statements # <<>> /\ ~error) =>
    LET printed == Sequence!FlattenSeq([s \in 1..Len(statements) |-> PrintNode(statements[s])])
        kept   == SelectSeq(printed, LAMBDA p : p.at # 0 /\ p.t \in Named)
        wanted == SelectSeq([i \in 1..Len(tokens) |-> i], LAMBDA i : tokens[i] \in Named)
    IN [k \in 1..Len(kept) |-> kept[k].at] = wanted

(* Parentheses that only group are not in the tree, and the parser gives   *)
(* operators no precedence: what is printed may mean something else than   *)
(* what was read.  But it is a text the parser accepts, and printed again  *)
(* it stays as it is.                                                      *)
PrintIsStable ==
  (Parsed /\ before.printed # <<>>) =>
    /\ ~error
    /\ Len(statements) = 1
    /\ Kinds(PrintNode(statements[1])) = before.printed

(* A file with an error has the statements in front of it: whatever        *)
(* follows behind a complete part, if it begins with a name, can not take  *)
(* the statements of that part away ("return at least partial tree").      *)
EarlierStatementsKept == Parsed => Sequence!IsPrefix(before.statements, statements)

(* What is accepted has its brackets balanced: each closing token closes   *)
(* the last one that is open (ParseList, tuples, subscripts, loops).       *)
Opens == {"(", "[", "^[", "{"}
Closes == {")", "]", "}"}
Matches(open, close) == EndTokenFor(IF open = "^[" THEN "[" ELSE open) = close
Balanced ==
  Sequence!FoldLeft(LAMBDA stack, t :
             IF t \in Opens THEN <<t>> \o stack
             ELSE IF t \notin Closes THEN stack
             ELSE IF stack # <<>> /\ Matches(Head(stack), t) THEN Tail(stack)
             ELSE <<"=">> \o stack,
           <<>>, tokens) = <<>>
AcceptedIsBalanced == (statements # <<>> /\ ~error) => Balanced

(* The tree is the text: what is accepted is balanced, no node of it lacks *)
(* a part, printing it gives the tokens back and printing that the same    *)
(* again; and where there is an error, all in front of it is kept.         *)
TreesKeepTheText ==
  AcceptedIsBalanced /\ TreesAreComplete /\ PrintKeepsTokens /\ PrintIsStable /\ EarlierStatementsKept
=============================================================================
