----------------------- MODULE MCMultitrackReasoning -----------------------
(* Instances of MultitrackReasoning for TLC. *)
EXTENDS MultitrackReasoning

Says(v, s) == [verdict |-> v, sure |-> s]

\* An answer for each way in which a track, or a run, goes on or ends.
MainAnswers ==
    {Says("open", FALSE), Says("supported", TRUE), Says("refuted", FALSE)}
=============================================================================
