------------------------ MODULE MCInstallabilityTester ------------------------
(***************************************************************************)
(* Small universes for InstallabilityTester.                               *)
(***************************************************************************)
EXTENDS InstallabilityTester, TLC

CONSTANTS E, a, b, d, m, n, x, z, z2, t, p, q, r, v, p2, p3, q2, q3

Among(pairs) == [i \in Package |-> {j \in Package : {i, j} \in pairs}]
Clauses(some) == [i \in Package |-> IF i \in DOMAIN some THEN some[i] ELSE {}]
EachAlone == [i \in Package |-> {i}]

\* An essential package with alternatives, each of which a package conflicts
\* with; the guesses of p for its two choices always exclude each other; x needs
\* one of two equivalent packages, with which m conflicts.
MixedDependencies ==
  Clauses(E :> {{a, b}, {d}} @@ p :> {{n, x}, {m, q}} @@ x :> {{z, z2}})
MixedConflicts == Among({{a, n}, {b, m}, {m, z}, {m, z2}, {q, n}, {q, x}})
EquivalentPair == [EachAlone EXCEPT ![z] = {z, z2}, ![z2] = {z, z2}]

\* t needs p2 or p3, and these need p, and q2 or q3, and these need q, but p
\* and q conflict.
GuessDependencies ==
  Clauses(t :> {{p, q, r}, {p2, p3}, {q2, q3}} @@ p2 :> {{p}} @@ p3 :> {{p}, {r}}
            @@ q2 :> {{q}} @@ q3 :> {{q}, {r}})
GuessConflicts == Among({{p, q}, {q, v}, {r, v}})

==============================================================================
