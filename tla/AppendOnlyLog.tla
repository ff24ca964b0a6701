---------------------------- MODULE AppendOnlyLog ----------------------------
(***************************************************************************)
(* What the tree promises its callers about the leaves (spec 3, 8.3): a   *)
(* log that starts empty and only ever grows at its end.  A step may      *)
(* append any number of values, none included.                           *)
(***************************************************************************)
EXTENDS Naturals, Sequences

CONSTANT Vals

VARIABLE log

Init == log = <<>>

\* The new log keeps the old one as a prefix.
Extend ==
    /\ log' \in Seq(Vals)
    /\ Len(log') >= Len(log)
    /\ SubSeq(log', 1, Len(log)) = log

Spec == Init /\ [][Extend]_log
=============================================================================
