----------------------------- MODULE SegmentLog -----------------------------
(***************************************************************************)
(* What the reasoning history of an incident promises its readers: a log   *)
(* of segments that only grows at its end, whose numbers rise and whose    *)
(* entries depend on entries before them.  When its writer is killed the   *)
(* log may be lost, but then as a whole.                                   *)
(***************************************************************************)
EXTENDS Integers, Sequences

CONSTANT Kills  \* whether its writer is killed

VARIABLE log    \* the indexed segments: name (number and source), hash, deps

Init == log = <<>>

\* The last entry of l is newer than the others and depends on some of them.
Consistent(l) ==
    LET e == l[Len(l)]
        Names == {l[k].name : k \in 1..(Len(l) - 1)}
    IN  /\ \A n \in Names : n.num < e.name.num
        /\ e.deps \subseteq Names

AppendEntry ==
    /\ Len(log') = Len(log) + 1
    /\ SubSeq(log', 1, Len(log)) = log
    /\ Consistent(log')

Lose == Kills /\ log' = <<>>

Next == AppendEntry \/ Lose

Spec == Init /\ [][Next]_log
=============================================================================
