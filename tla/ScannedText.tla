---------------------------- MODULE ScannedText ----------------------------
(***************************************************************************)
(* The scanner next to components that have names in common with it.       *)
(***************************************************************************)
CONSTANT ScannedContents  \* the files scanned: sequences of atoms

VARIABLES content, scan, upcoming_, handed_out   \* of the scanner
scannerVars == <<content, scan, upcoming_, handed_out>>

Scanning == INSTANCE Scanner WITH Contents <- ScannedContents

ASSUME ContentsAssumption == Scanning!ContentsAreTexts

(* What Scanner promises: each token is where it is said to be (unless a   *)
(* "not in" spans lines), no text is lost between tokens or read twice,    *)
(* strings end where they close and have the value between the quotes      *)
(* (unless single ones are tripled), a bracket on a new line is flagged,   *)
(* and Peek() at any time does not change what Next() returns.             *)
ScannerIsFaithful == Scanning!ScannerIsFaithful
=============================================================================
