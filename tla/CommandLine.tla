----------------------------- MODULE CommandLine -----------------------------
(***************************************************************************)
(* The command line (main() in bant/bant.cc, RunCliCommand() in            *)
(* bant/cli-commands.cc): the options one by one, the command, of which a  *)
(* prefix is enough, and the patterns.  getopt() hands out the options in  *)
(* front of all other arguments; "--//flags" were taken out before.        *)
(***************************************************************************)
EXTENDS Integers, Sequences, FiniteSets, TLC

CONSTANTS
  CommandLines,  \* records [options, args]: options [letter, arg], and the other arguments
  Valid(_),      \* BazelPattern::ParseFrom() succeeds
  Accessible,    \* directories and files that can be entered and opened
  MaxInt         \* std::numeric_limits<int>::max()

VARIABLES
  options,      \* what getopt() has not returned yet
  asked,        \* ghost: all options of the command line
  args,         \* positional_args
  flags,        \* CommandlineFlags, and the switch -i
  primary_out, info_out,
  called,       \* the command found, "" before
  typed,        \* patterns read
  status,       \* the exit status, "" while running, "run" if RunCommand() is called
  complaint     \* what the last message is about

lineVars == <<options, asked, args, flags, primary_out, info_out, called, typed, status, complaint>>

kCommandNames ==
  {"parse", "print", "list-packages", "list-targets", "workspace", "lib-headers", "aliased-by",
   "depends-on", "has-dependents", "genrule-outputs", "dwyu", "compilation-db", "compile-flags",
   "canonicalize"}
kFormatOutNames == {"native", "s-expr", "plist", "csv", "json", "graphviz"}

-----------------------------------------------------------------------------
(* std::map<std::string_view, ...>: in the order of std::string_view.      *)
Alphabet == "-abcdefghijklmnopqrstuvwxyz"
Char(s, i) == SubSeq(s, i, i)
Code == [c \in {Char(Alphabet, i) : i \in 1..Len(Alphabet)} |-> CHOOSE i \in 1..Len(Alphabet) : Char(Alphabet, i) = c]
StartsWith(s, prefix) == Len(prefix) <= Len(s) /\ SubSeq(s, 1, Len(prefix)) = prefix
Less(s, t) ==
  \/ s # t /\ StartsWith(t, s)
  \/ \E i \in 1..Len(s) : /\ i <= Len(t) /\ SubSeq(s, 1, i - 1) = SubSeq(t, 1, i - 1)
                          /\ Code[Char(s, i)] < Code[Char(t, i)]
Names == kCommandNames \cup kFormatOutNames
Rank == [n \in Names |-> Cardinality({m \in Names : Less(m, n)})]
Least(names) == CHOOSE n \in names : \A m \in names : Rank[n] <= Rank[m]
lower_bound(names, s) == {n \in names : ~Less(n, s)}
Behind(names, found) == {n \in names : Rank[found] < Rank[n]}

-----------------------------------------------------------------------------
NoFlags ==
  [verbose |-> 0, print_ast |-> FALSE, print_only_errors |-> FALSE, elaborate |-> FALSE,
   ignore_keep_comment |-> FALSE, recurse_dependency_depth |-> 0, output_format |-> "native",
   grep_regex |-> "", case_insensitive |-> FALSE]

LineInit ==
  /\ \E c \in CommandLines : options = c.options /\ asked = c.options /\ args = c.args
  /\ flags = NoFlags
  /\ primary_out = "stdout" /\ info_out = "stderr"
  /\ called = "" /\ typed = <<>> /\ status = "" /\ complaint = <<>>

Exit(code, about) == status' = code /\ complaint' = about
(* getopt() returns "?" for a letter it is not given, as is "E". *)
getopt(letter) ==
  IF letter \in {"C", "q", "o", "v", "h", "p", "e", "c", "b", "f", "r", "V", "k", "g", "i"} THEN letter ELSE "?"
Opt == getopt(Head(options).letter)
Option(opts) == status = "" /\ options # <<>> /\ Opt \in opts /\ options' = Tail(options)
Arg == Head(options).arg
atoi(s) == IF \E n \in -9..9 : ToString(n) = s THEN CHOOSE n \in -9..9 : ToString(n) = s ELSE 0
Rest == UNCHANGED <<asked, args, called, typed>>

ChangeDirectory ==
  /\ Option({"C"}) /\ Rest
  /\ IF Arg \in Accessible THEN UNCHANGED <<status, complaint>> ELSE Exit("1", <<Arg>>)
  /\ UNCHANGED <<flags, primary_out, info_out>>

Quiet ==
  /\ Option({"q"}) /\ Rest
  /\ info_out' = "none"
  /\ UNCHANGED <<flags, primary_out, status, complaint>>

OutputTo ==
  /\ Option({"o"}) /\ Rest
  /\ IF Arg \in Accessible \/ Arg = "-"
     THEN /\ primary_out' = IF Arg = "-" THEN "stdout" ELSE Arg
          /\ UNCHANGED <<status, complaint>>
     ELSE Exit("1", <<Arg>>) /\ UNCHANGED primary_out
  /\ UNCHANGED <<flags, info_out>>

SetFlag ==
  /\ Option({"r", "k", "g", "i", "p", "E", "b", "e", "v"}) /\ Rest
  /\ LET o == Opt IN
       flags' = CASE o = "r" -> [flags EXCEPT !.recurse_dependency_depth =
                                   IF Arg = "" THEN MaxInt ELSE atoi(Arg)]
                  [] o = "k" -> [flags EXCEPT !.ignore_keep_comment = TRUE]
                  [] o = "g" -> [flags EXCEPT !.grep_regex = Arg]
                  [] o = "i" -> [flags EXCEPT !.case_insensitive = TRUE]
                  [] o = "p" -> [flags EXCEPT !.print_ast = TRUE]
                  [] o = "E" -> [flags EXCEPT !.print_only_errors = TRUE]
                  [] o \in {"b", "e"} -> [flags EXCEPT !.elaborate = TRUE]
                  [] o = "v" -> [flags EXCEPT !.verbose = @ + 1]
  /\ UNCHANGED <<primary_out, info_out, status, complaint>>

Format ==
  /\ Option({"f"}) /\ Rest
  /\ LET found == lower_bound(kFormatOutNames, Arg) IN
       IF found = {} \/ ~StartsWith(Least(found), Arg)
       THEN Exit("1", <<Arg>>) /\ UNCHANGED flags
       ELSE /\ flags' = [flags EXCEPT !.output_format = Least(found)]
            /\ UNCHANGED <<status, complaint>>
  /\ UNCHANGED <<primary_out, info_out>>

(* The version, and usage() for what has no case. *)
VersionOrUsage ==
  /\ Option({"V", "h", "c", "?"}) /\ Rest
  /\ Exit("0", <<>>)
  /\ UNCHANGED <<flags, primary_out, info_out>>

Ready == status = "" /\ options = <<>>
Read == UNCHANGED <<options, asked, args, flags, primary_out, info_out>>

FindCommand ==
  /\ Ready /\ called = "" /\ Read
  /\ LET found == IF args = <<>> THEN {} ELSE lower_bound(kCommandNames, args[1])
         name == Least(found)
         next == Behind(kCommandNames, name)
     IN IF \/ found = {} \/ ~StartsWith(name, args[1])
           \/ next # {} /\ StartsWith(Least(next), args[1])
        THEN Exit("2", <<>>) /\ UNCHANGED <<called, typed>>
        ELSE called' = name /\ UNCHANGED <<typed, status, complaint>>

Unread == SubSeq(args, Len(typed) + 2, Len(args))
AddPattern ==
  /\ Ready /\ called # "" /\ Unread # <<>> /\ Read
  /\ IF Valid(Head(Unread)) THEN typed' = Append(typed, Head(Unread)) /\ UNCHANGED <<status, complaint>>
     ELSE Exit("1", <<args[2]>>) /\ UNCHANGED typed
  /\ UNCHANGED called

CallCommand ==
  /\ Ready /\ called # "" /\ Unread = <<>> /\ Read
  /\ IF called \in {"canonicalize", "dwyu", "print"} /\ typed = <<>>
     THEN Exit("1", <<>>)
     ELSE Exit("run", <<>>)
  /\ UNCHANGED <<called, typed>>

LineNext == \/ ChangeDirectory \/ Quiet \/ OutputTo \/ SetFlag \/ Format \/ VersionOrUsage
        \/ FindCommand \/ AddPattern \/ CallCommand
LineSpec == LineInit /\ [][LineNext]_lineVars

-----------------------------------------------------------------------------
(* The command called is the only one that begins with what was typed, and *)
(* it is called unless something in the command line is wrong: "Commands   *)
(* (unique prefix sufficient)".  lower_bound() and a look at the next name *)
(* have to find all the names with a prefix.                               *)
TheCommandIsTheOneMeant ==
  LET meant == IF args = <<>> THEN {} ELSE {n \in kCommandNames : StartsWith(n, args[1])}
  IN /\ called # "" => meant = {called}
     /\ (status = "2") => ~\E n \in kCommandNames : meant = {n}

(* A command that writes edits or a whole project is called with patterns  *)
(* only, all of them read: "Don't look through everything for these."      *)
OnlyWhatWasAskedForIsEdited ==
  status = "run" =>
    /\ typed = Tail(args)
    /\ (called \in {"canonicalize", "dwyu", "print"} => typed # <<>>)

(* The format is the last one asked for, by a prefix that only it has:     *)
(* "Unique prefix ok".  What no format begins with ends the program.       *)
TheFormatIsTheOneMeant ==
  LET formats == SelectSeq(SubSeq(asked, 1, Len(asked) - Len(options)), LAMBDA o : o.letter = "f")
      last == formats[Len(formats)].arg
      meant == {f \in kFormatOutNames : StartsWith(f, last)}
  IN (formats # <<>> /\ last # "") =>
       IF meant = {} THEN status = "1" /\ complaint = <<last>>
       ELSE meant = {flags.output_format} /\ complaint # <<last>>

(* The words of the command line are taken for what they say: the command, *)
(* its patterns and the format (main, FindCommand, RunCliCommand).         *)
TheLineIsUnderstood == TheCommandIsTheOneMeant /\ OnlyWhatWasAskedForIsEdited /\ TheFormatIsTheOneMeant
=============================================================================
