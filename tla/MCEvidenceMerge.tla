--------------------------- MODULE MCEvidenceMerge ---------------------------
(* Instances of EvidenceMerge for TLC. *)
EXTENDS EvidenceMerge

\* Symptoms of either path, and gaps, one of which a log file closes.
MCSymptoms == {"dns-text", "crashloop", "log-sink", "file-log"}

\* The scripts of a matched skill, and a request it does not cover.
MCSkillPool == {"sink", "node-tail", "describe"}
MCRequestable == {"tail"}
=============================================================================
