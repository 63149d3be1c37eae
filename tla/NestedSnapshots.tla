--------------------------- MODULE NestedSnapshots ---------------------------
(***************************************************************************)
(* What a stack of nested transactions promises: to begin one saves the    *)
(* value, changes leave every saved value alone, a commit forgets the last *)
(* saved value and keeps the present one, a rollback returns to it.        *)
(***************************************************************************)
EXTENDS Naturals, Sequences

VARIABLES
  current,  \* the value the transactions are about
  saved     \* what it was when each open transaction began

vars == <<current, saved>>

Init == saved = <<>>

Outer == SubSeq(saved, 1, Len(saved) - 1)

Begin == saved' = Append(saved, current) /\ UNCHANGED current

Change == UNCHANGED saved

Commit == saved # <<>> /\ saved' = Outer /\ UNCHANGED current

Rollback == saved # <<>> /\ saved' = Outer /\ current' = saved[Len(saved)]

Next == Begin \/ Change \/ Commit \/ Rollback

Spec == Init /\ [][Next]_vars

=============================================================================
