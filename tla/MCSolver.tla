------------------------------- MODULE MCSolver -------------------------------
(***************************************************************************)
(* Up to four items, each with a package it adds and one it removes, and   *)
(* three families of archives: every graph of few edges on four items;      *)
(* items that need, replace, remove and conflict with each other's         *)
(* packages in every mixture; and broken packages and alternatives.        *)
(***************************************************************************)
EXTENDS Solver

CONSTANTS i1, i2, i3, i4, n1, n2, n3, n4, o1, o2, o3, bad

MCItems == <<i1, i2, i3, i4>>
MCRank == i1 :> 1 @@ i2 :> 2 @@ i3 :> 3 @@ i4 :> 4
New == <<n1, n2, n3, n4>>
Old == <<o1, o2, o3>>

MCArchive(depends, conflicts, adds, rms) ==
  LET table(f) == [p \in Package |-> IF p \in DOMAIN f THEN f[p] ELSE {}]
      each(f) == [i \in {i1, i2, i3, i4} |-> IF i \in DOMAIN f THEN f[i] ELSE {}]
  IN  [depends |-> table(depends @@ bad :> {{}}), conflicts |-> table(conflicts),
       adds |-> each(adds), rms |-> each(rms), target |-> {o1, o2, o3}]

\* Every graph on four items with up to five edges.
Graphs ==
  {MCArchive([p \in {n1, n2, n3, n4} |-> {{q} : q \in f[p]}], <<>>,
             i1 :> {n1} @@ i2 :> {n2} @@ i3 :> {n3} @@ i4 :> {n4}, <<>>) :
     f \in {f \in [{n1, n2, n3, n4} -> SUBSET {n1, n2, n3, n4}] :
             /\ \A p \in DOMAIN f : p \notin f[p]
             /\ Cardinality(UNION {{p} \X f[p] : p \in DOMAIN f}) <= 5}}

\* What the packages of an item have to do with those of another.
Kinds == {"nothing", "new", "old", "either", "conflict"}
Pairs == {<<1, 2>>, <<2, 1>>, <<2, 3>>, <<3, 1>>}
NewClause(kind, j) == CASE kind = "new"    -> {{New[j]}}
                        [] kind = "old"    -> {{Old[j]}}
                        [] kind = "either" -> {{New[j], Old[j]}}
                        [] OTHER           -> {}
Mixtures ==
  {MCArchive(
     [p \in {n1, n2, n3, o1, o2, o3} |->
        UNION {IF p = New[e[1]] THEN NewClause(kind[e], e[2])
               ELSE IF p = Old[e[1]] /\ kind[e] \in {"old", "either"} THEN {{Old[e[2]]}} ELSE {} :
                 e \in Pairs}],
     [p \in {n1, n2, n3} |-> {Old[e[2]] : e \in {e \in Pairs : kind[e] = "conflict" /\ p = New[e[1]]}}],
     i1 :> {n1} @@ i2 :> {n2} @@ i3 :> {n3}, i1 :> {o1} @@ i2 :> {o2} @@ i3 :> {o3}) :
   kind \in [Pairs -> Kinds]}

\* Broken packages, chains of them, alternatives and equivalents.
Few(S) == {c \in SUBSET S : Cardinality(c) <= 2}
Breakages ==
  {MCArchive(n1 :> d1 @@ n2 :> d2 @@ n3 :> d3 @@ o2 :> d4, c,
             i1 :> {n1} @@ i2 :> {n2}, i2 :> {o2}) :
     d1 \in Few({{bad}, {n2, bad}, {n2, o2}, {n3, o1}}), d2 \in Few({{bad}, {n1, o2, bad}}),
     d3 \in {{}, {{n1, bad}}, {{n3, o1}}}, d4 \in {{}, {{bad}}, {{n1, n2}}, {{n2}, {bad, n1}}},
     c \in {<<>>, n1 :> {o2}, n1 :> {bad}}}

MCArchives == Graphs \cup Mixtures \cup Breakages

===============================================================================
