------------------------------- MODULE Labels -------------------------------
(***************************************************************************)
(* A label or a name is read in a package, the target is printed, and      *)
(* what was printed is read again, in that package or in another one.      *)
(***************************************************************************)
EXTENDS BazelTarget

CONSTANTS
  Written,   \* records: a text, its kind, the package it stands in, and the target it means
  Contexts,  \* packages what was printed is read in
  Nothing, Unknown   \* no target yet, and the meaning of any text

VARIABLES
  text,      \* what is read
  kind,      \* "label", or "name" of a rule in a BUILD file
  context,   \* the package it is read in
  target,    \* what was read, Nothing before
  meant      \* the target the text was written for, or Unknown

vars == <<text, kind, context, target, meant>>

-----------------------------------------------------------------------------
(* What is written as a label is one of these, or any text; the name of a  *)
(* rule is that of a target of its package.                                *)
WrittenAssumption ==
  \A l \in Written :
    /\ l.text \in Text /\ IsPackage(l.context)
    /\ \/ /\ l.kind = "label" /\ NamesRepository(l.text)
          /\ l.meant # Unknown => IsTargetOf(l.meant, l.context) /\ l.text \in Spellings(l.meant, l.context)
       \/ /\ l.kind = "name" /\ \A i \in 2..Len(l.text) : l.text[i] # ":"
          /\ l.meant # Unknown => /\ IsTargetOf(l.meant, l.context) /\ l.context = l.meant.package
                                 /\ l.text \in {l.meant.target_name, <<":">> \o l.meant.target_name}
ASSUME LabelsAssumption ==
  /\ WrittenAssumption
  /\ \A ctx \in Contexts : IsPackage(ctx)
  /\ Nothing # Rejected
  /\ Nothing \notin [package : [project : Text, path : Text], target_name : Text]
  /\ Unknown \notin [package : [project : Text, path : Text], target_name : Text]

-----------------------------------------------------------------------------
Init == \E l \in Written :
          /\ text = l.text /\ kind = l.kind /\ context = l.context /\ meant = l.meant
          /\ target = Nothing

Parse ==
  /\ target = Nothing /\ kind = "label"
  /\ target' = ParseFrom(text, context)
  /\ UNCHANGED <<text, kind, context, meant>>

(* The name attribute of a rule of the package. *)
Qualify ==
  /\ target = Nothing /\ kind = "name"
  /\ target' = QualifiedTarget(context, text)
  /\ UNCHANGED <<text, kind, context, meant>>

IsTarget == target \notin {Nothing, Rejected}
Again(printed, ctx) ==
  /\ text' = printed /\ kind' = "label" /\ context' = ctx
  /\ meant' = target /\ target' = Nothing

(* An absolute label names a package of the project it is read in. *)
PrintTarget == \E ctx \in Contexts :
           /\ IsTarget
           /\ target.package.project = <<>> => ctx.project = <<>>
           /\ Again(ToString(target), ctx)

PrintRelative == \E ctx \in {c \in Contexts : IsTarget /\ c = target.package} :
                   Again(ToStringRelativeTo(target, ctx), ctx)

Next == Parse \/ Qualify \/ PrintTarget \/ PrintRelative
Spec == Init /\ [][Next]_vars

-----------------------------------------------------------------------------
(* The target of a label, or of a rule's name, is the one it was written   *)
(* for, whichever of the spellings Bazel allows was chosen, and what       *)
(* ToString() and ToStringRelativeTo() print for a target is read as that  *)
(* target again: the edits that dwyu proposes name the targets it found.   *)
(* A target without a name, as in //foo/, is not meant.                    *)
LabelsKeepTheirTarget ==
  (target # Nothing /\ meant # Unknown) => target = meant \/ meant.target_name = <<>>

(* Whatever was typed, the package of what is read has the one form.       *)
PackagesHaveOneForm == IsTarget => HasOneForm(target.package)
=============================================================================
