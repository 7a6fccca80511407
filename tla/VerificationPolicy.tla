-------------------------- MODULE VerificationPolicy --------------------------
(***************************************************************************)
(* The verification requests of an analysis and the policy they are under: *)
(* which of them analyse runs by itself (recollection.py, analyse.py) and  *)
(* what the guardrails make of them (shared/verification_guardrails.py).   *)
(***************************************************************************)

Tiers == {"first_class", "ad_hoc_readonly", "other", "blocked"}
Types == {"script", "ad_hoc_command"}
Policies == {"auto_allowed", "approval_required", "blocked"}
Risks == {"read-only", "destructive"}

\* What the argv of an ad hoc command is: none or not a list of strings, with
\* a token of shell control, with a mutation, without a read-only prefix, or
\* a read-only command.
Argvs == {"none", "shell", "mutation", "unknown", "read-only"}

Requests == [tier : Tiers, type : Types, policy : Policies, risk : Risks,
             argv : Argvs, planned : BOOLEAN]

\* auto_allowed_verification_script_ids, _auto_allowed_verification_requests
AutoAllowed(r) ==
    /\ r.tier = "first_class"
    /\ r.policy = "auto_allowed"
    /\ r.risk = "read-only"
    /\ r.type = "script"

AdHoc(r) == r.tier = "ad_hoc_readonly" \/ r.type = "ad_hoc_command"

\* _mark_blocked
Blocked(r) ==
    [tier |-> "blocked", type |-> r.type, policy |-> "blocked",
     risk |-> "destructive", argv |-> r.argv, planned |-> FALSE]

\* An ad hoc command that only reads waits for an approval.
Approvable(r) ==
    [tier |-> "ad_hoc_readonly", type |-> "ad_hoc_command",
     policy |-> "approval_required", risk |-> "read-only", argv |-> r.argv,
     planned |-> TRUE]

\* _guard_ad_hoc_readonly_request
GuardAdHoc(r) == IF r.argv = "read-only" THEN Approvable(r) ELSE Blocked(r)

\* _guard_verification_request
Guard(r) ==
    IF AdHoc(r) THEN GuardAdHoc(r)
    ELSE IF r.risk = "destructive" \/ r.policy = "blocked" THEN Blocked(r)
    ELSE r

\* A request that the guardrails have been over: none of its parts contradict
\* each other, and what is not a script of a first class asset never runs by
\* itself.
Settled(r) ==
    /\ AdHoc(r) => r.policy # "auto_allowed"
    /\ r.risk = "destructive" => r.policy = "blocked"
    /\ r.policy = "blocked" => ~r.planned
===============================================================================
