----------------------------- MODULE Transaction -----------------------------
(***************************************************************************)
(* What Batch promises (batch.rs): "A batch of netfilter messages to be    *)
(* performed in one atomic operation."  The caller describes a change to   *)
(* the ruleset; the change happens as a whole or not at all; the answer    *)
(* "ok" is only given when it did, "refused" only when it did not, and     *)
(* "unknown" when the outcome could not be learnt.                         *)
(***************************************************************************)
CONSTANTS Bodies

VARIABLES
  ruleset,  \* the objects in the kernel
  want,     \* the ruleset the caller has asked for so far
  stage     \* "open", "committed", "aborted", then the answer

transVars == <<ruleset, want, stage>>

Apply(rs, b, t) == IF t = "Add" THEN rs \cup {b} ELSE rs \ {b}

Init ==
  /\ ruleset \in SUBSET Bodies
  /\ want = ruleset
  /\ stage = "open"

Request(b, t) ==
  /\ stage = "open"
  /\ want' = Apply(want, b, t)
  /\ UNCHANGED <<ruleset, stage>>

Commit ==
  /\ stage = "open"
  /\ ruleset' = want
  /\ stage' = "committed"
  /\ UNCHANGED want

Abort ==
  /\ stage = "open"
  /\ stage' = "aborted"
  /\ UNCHANGED <<ruleset, want>>

Answer ==
  /\ \/ stage = "committed" /\ stage' \in {"ok", "unknown"}
     \/ stage = "aborted" /\ stage' \in {"refused", "unknown"}
     \/ stage = "open" /\ stage' = "refused"
  /\ UNCHANGED <<ruleset, want>>

Next ==
  \/ \E b \in Bodies, t \in {"Add", "Del"} : Request(b, t)
  \/ Commit \/ Abort \/ Answer

Spec == Init /\ [][Next]_transVars

==============================================================================
