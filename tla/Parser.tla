------------------------------- MODULE Parser -------------------------------
(***************************************************************************)
(* The recursive descent parser of BUILD files (bant/frontend/parser.cc).  *)
(*                                                                         *)
(* The input is a sequence of token kinds.  Identifiers, strings and       *)
(* numbers are told apart by their position; "+" stands for every binary   *)
(* operator without a role of its own, "bad" for a number out of range,    *)
(* "^[" for an opening bracket on a new line.  A node is its kind, the     *)
(* position of the token it is made from, and its subtrees (ast.h).        *)
(***************************************************************************)
EXTENDS Naturals, Sequences

CONSTANT Inputs  \* the files parsed

VARIABLES tokens, statements, error

vars == <<tokens, statements, error>>

Tok(i) == IF i > Len(tokens) THEN "eof" ELSE tokens[i]
Behind(i) == IF i > Len(tokens) THEN i ELSE i + 1  \* Next() at the end stays there

Node(kind, at, sub) == [kind |-> kind, at |-> at, sub |-> sub]
Null == Node("null", 0, <<>>)
Leaf(i) == Node(tokens[i], i, <<>>)

(* A node, where the parser stands behind it, and whether ErrAt was called. *)
Result(node, i, e) == [node |-> node, i |-> i, e |-> e]

BinaryOperators == {"+", "-", "in", "."}
Square == {"[", "^["}
EndTokenFor(type) == CASE type = "[" -> "]" [] type = "{" -> "}" [] type = "(" -> ")"

(* Productions refer to each other by name, as ParseList is given the       *)
(* parser of its elements.                                                 *)
RECURSIVE Production(_, _)

ParseOptionalIdentifier(i) ==
  IF Tok(i) = "id" THEN Result(Leaf(i), i + 1, FALSE) ELSE Result(Null, i, FALSE)

ExpressionOrAssignment(i) ==
  LET value == Production("expression", i)
      rhs   == Production("expression", value.i + 1)
  IN IF value.node.kind = "id" /\ Tok(value.i) = "="
     THEN Result(Node("=", value.i, <<value.node, rhs.node>>), rhs.i, value.e \/ rhs.e)
     ELSE value

ParseMapTuple(i) ==
  LET lhs == Production("expression", i)
      rhs == Production("expression", lhs.i + 1)
  IN IF Tok(lhs.i) # ":" THEN Result(Null, Behind(lhs.i), TRUE)
     ELSE Result(Node(":", lhs.i, <<lhs.node, rhs.node>>), rhs.i, lhs.e \/ rhs.e)

RECURSIVE ParseList(_, _, _, _, _)
(* From behind the opening token, or behind a first element and its comma, *)
(* to behind the end token.                                                *)
ParseList(list, i, parse, end, e) ==
  IF Tok(i) = end THEN Result(list, i + 1, e)
  ELSE LET x == Production(parse, i)
           longer == [list EXCEPT !.sub = Append(@, x.node)]
       IN IF Tok(x.i) = "," THEN ParseList(longer, x.i + 1, parse, end, e \/ x.e)
          ELSE Result(longer, Behind(x.i), e \/ x.e \/ Tok(x.i) # end)

ParseFunCall(i) ==
  LET args == ParseList(Node("(", i + 1, <<>>), i + 2, "argument", ")", FALSE)
  IN Result(Node("call", i, <<Leaf(i), args.node>>), args.i, args.e)

RECURSIVE ParseComprehensionFor(_, _)
(* The loop over "for variables in values", nested loops on the left. *)
ParseComprehensionFor(target, end) ==
  IF Tok(target.i) # "for"
  THEN IF Tok(target.i) = end THEN [target EXCEPT !.i = @ + 1]
       ELSE Result(Null, Behind(target.i), TRUE)
  ELSE LET paren == Tok(target.i + 1) = "("
           none  == Node("(", 0, <<>>)
           vs    == IF paren THEN ParseList(none, target.i + 2, "variable", ")", FALSE)
                    ELSE ParseList(none, target.i + 1, "variable", "in", FALSE)
           no_in == paren /\ Tok(vs.i) # "in"
           range == Production("expression", IF paren THEN Behind(vs.i) ELSE vs.i)
           loop  == Node("for", target.i, <<target.node, Node("for-in", 0, <<vs.node, range.node>>)>>)
       IN ParseComprehensionFor(
            Result(loop, range.i, target.e \/ vs.e \/ no_in \/ range.e), end)

ParseListOrListComprehension(type, i) ==
  LET end   == EndTokenFor(type)
      parse == IF type = "{" THEN "pair" ELSE "expression"
      first == Production(parse, i)
      list  == Node(type, i - 1, <<first.node>>)
  IN CASE Tok(i) = end -> Result(Node(type, i - 1, <<>>), i + 1, FALSE)
       [] Tok(i) # end /\ first.node = Null -> first
       [] Tok(i) # end /\ first.node # Null ->
            CASE Tok(first.i) = "for" ->
                   LET loop == ParseComprehensionFor(first, end)
                   IN [loop EXCEPT !.node = Node("for" \o type, i - 1, <<@>>)]
              [] Tok(first.i) = "," -> ParseList(list, first.i + 1, parse, end, first.e)
              [] OTHER -> ParseList(list, first.i, parse, end, first.e \/ Tok(first.i) # end)

ParseValueOrIdentifier(i, can_be_optional) ==
  CASE Tok(i) \in {"str", "num"} -> Result(Leaf(i), i + 1, FALSE)
    [] Tok(i) = "bad"            -> Result(Null, i + 1, TRUE)  \* ParseIntFromToken
    [] Tok(i) = "id" /\ Tok(i + 1) = "(" -> ParseFunCall(i)
    [] Tok(i) = "id" /\ Tok(i + 1) # "(" -> Result(Leaf(i), i + 1, FALSE)
    [] Tok(i) \in Square         -> ParseListOrListComprehension("[", i + 1)
    [] Tok(i) = "{"              -> ParseListOrListComprehension("{", i + 1)
    [] OTHER                     -> Result(Null, i, ~can_be_optional)

(* From behind "(": the elements of a tuple behind the first one. *)
RECURSIVE TupleRest(_, _, _)
TupleRest(tuple, i, e) ==
  CASE Tok(i) = ")" -> Result(tuple, i + 1, e)
    [] Tok(i) = "," /\ Tok(i + 1) = ")" -> Result(tuple, i + 2, e)
    [] Tok(i) = "," /\ Tok(i + 1) # ")" ->
         LET x == Production("expression", i + 1)
         IN TupleRest([tuple EXCEPT !.sub = Append(@, x.node)], x.i, e \/ x.e)
    [] OTHER -> Result(tuple, Behind(i), TRUE)

ParseParenExpressionOrTuple(i) ==
  LET exp == Production("optional", i + 1)
      tuple(sub) == Node("(", i, sub)
  IN IF exp.node = Null
     THEN Result(tuple(<<>>), Behind(exp.i), exp.e \/ Tok(exp.i) # ")")
     ELSE IF Tok(exp.i) = ")" THEN [exp EXCEPT !.i = @ + 1]
     ELSE TupleRest(tuple(<<exp.node>>), exp.i, exp.e)

ParseArrayOrSliceAccess(i) ==
  LET n   == Production("optional", i)
      rhs == Production("optional", n.i + 1)
      e   == n.e \/ rhs.e
  IN CASE Tok(n.i) = "]" -> Result(n.node, n.i + 1, n.e \/ n.node = Null)
       [] Tok(n.i) = ":" ->
            IF Tok(rhs.i) # "]" \/ (n.node = Null /\ rhs.node = Null)
            THEN Result(Null, Behind(rhs.i), TRUE)
            ELSE Result(Node(":", n.i, <<n.node, rhs.node>>), rhs.i + 1, e)
       [] OTHER -> Result(Null, Behind(n.i), TRUE)

\* Mutant: the two branches of the constructor's call in the wrong order.
ParseIfElseSwapped(positive) ==
  LET condition == Production("expression", positive.i + 1)
  IN Result(Node("if", positive.i, <<positive.node, condition.node, Null>>),
            condition.i, positive.e \/ condition.e)
ParseIfElse(positive) ==
  LET condition == Production("expression", positive.i + 1)
      negative  == IF Tok(condition.i) = "else" THEN Production("expression", condition.i + 1)
                   ELSE Result(Null, condition.i, FALSE)
  IN Result(Node("if", positive.i, <<condition.node, positive.node, negative.node>>),
            negative.i, positive.e \/ condition.e \/ negative.e)

RECURSIVE Suffixed(_)
(* What may follow a value: operators take the whole rest, subscripts go on. *)
Suffixed(n) ==
  LET rhs    == Production("expression", n.i + 1)
      access == ParseArrayOrSliceAccess(n.i + 1)
  IN CASE Tok(n.i) = "if" -> ParseIfElse(n)
       [] Tok(n.i) \in BinaryOperators ->
            Result(Node(Tok(n.i), n.i, <<n.node, rhs.node>>), rhs.i, n.e \/ rhs.e)
       [] Tok(n.i) = "[" ->
            Suffixed(Result(Node("[]", n.i, <<n.node, access.node>>), access.i, n.e \/ access.e))
       [] OTHER -> n

ParseExpression(i, can_be_optional) ==
  LET operand == Production(IF can_be_optional THEN "optional" ELSE "expression", i + 1)
      n == CASE Tok(i) \in {"-", "not"} ->
                  Result(Node("unary", i, <<operand.node>>), operand.i, operand.e)
             [] Tok(i) = "(" -> ParseParenExpressionOrTuple(i)
             [] OTHER -> ParseValueOrIdentifier(i, can_be_optional)
  IN IF n.node = Null THEN n ELSE Suffixed(n)

(* One statement at the top level, Null if there is none. *)
ParseStatement(i) ==
  LET variables == ParseList(Node("(", i, <<>>), i + 1, "variable", ")", FALSE)
      rhs(j)    == Production("expression", j)
      binary(op, at, lhs, right, e) == Result(Node(op, at, <<lhs, right.node>>), right.i, e \/ right.e)
  IN CASE Tok(i) \in Square -> ParseListOrListComprehension("[", i + 1)
       [] Tok(i) = "(" ->
            IF Tok(variables.i) = "="
            THEN binary("=", variables.i, variables.node, rhs(variables.i + 1), variables.e)
            ELSE Result(Null, Behind(variables.i), TRUE)
       [] Tok(i) = "id" /\ Tok(i + 1) \in {"=", "."} ->
            binary(Tok(i + 1), i + 1, Leaf(i), rhs(i + 2), FALSE)
       [] Tok(i) = "id" /\ Tok(i + 1) = "(" -> ParseFunCall(i)
       [] OTHER -> Result(Null, i, TRUE)

Production(parse, i) ==
  CASE parse = "statement"  -> ParseStatement(i)
    [] parse = "expression" -> ParseExpression(i, FALSE)
    [] parse = "optional"   -> ParseExpression(i, TRUE)
    [] parse = "argument"   -> ExpressionOrAssignment(i)
    [] parse = "pair"       -> ParseMapTuple(i)
    [] parse = "variable"   -> ParseOptionalIdentifier(i)

(* parse(): what is appended before an error is returned. *)
RECURSIVE ParseFrom(_, _)
ParseFrom(i, sofar) ==
  CASE Tok(i) = "eof" -> [statements |-> sofar, error |-> FALSE]
    [] Tok(i) = "str" -> ParseFrom(i + 1, sofar)
    [] OTHER ->
         LET x == Production("statement", i)
             more == IF x.node = Null THEN sofar ELSE Append(sofar, x.node)
         IN IF x.e THEN [statements |-> more, error |-> TRUE]
            ELSE ParseFrom(x.i, more)

Init ==
  /\ tokens \in Inputs
  /\ statements = <<>>
  /\ error = FALSE

parse ==
  /\ statements = <<>> /\ ~error
  /\ \E r \in {ParseFrom(1, <<>>)} : statements' = r.statements /\ error' = r.error
  /\ UNCHANGED tokens

Spec == Init /\ [][parse]_vars
=============================================================================
