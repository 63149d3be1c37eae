---------------------------- MODULE MCAgePolicy ----------------------------
(***************************************************************************)
(* One package, new to the target suite or not, with three more uploads of *)
(* any urgency; a bounty, a penalty and both kinds of hints.  The policy   *)
(* treats the packages one by one.                                         *)
(***************************************************************************)
EXTENDS AgePolicy

MCMinDays == [u \in {"low", "medium", "high"} |->
                CASE u = "low" -> 2 [] u = "medium" -> 1 [] OTHER -> 0]
MCUrgentHints == {[source |-> "a", version |-> 4]}
MCAgeDayHints == <<[source |-> "a", version |-> 3, days |-> 3],
                   [source |-> "a", version |-> 3, days |-> 2]>>
=============================================================================
