--------------------------- MODULE MCMigrationRun ---------------------------
(***************************************************************************)
(* Archives for MigrationRun.  A and B break each other's users unless     *)
(* they migrate together; A leaves the cruft lib; t is installable once    *)
(* lib is gone or C migrates, at the price of q or of s; M is a            *)
(* binary-only item of mips that needs B; T is an older A from another     *)
(* suite and needs B, too; old is cruft from the start, used by r until C  *)
(* migrates; O is a source without binaries.                               *)
(***************************************************************************)
EXTENDS MigrationRun

CONSTANTS A, B, C, M, T, lib, old, O, amd64, mips, mipsel, p, q, r, s, t, m

MCArchOf ==
  [i \in Item |-> CASE i = M -> mips [] i \in {lib, old} -> amd64 [] OTHER -> SourceItem]

MCUninst ==
  [S \in SUBSET Item |->
    [a \in Arch |->
           (IF (A \in S \/ T \in S) # (B \in S) THEN {p} ELSE {})
      \cup (IF a = amd64 THEN {IF C \in S THEN s ELSE IF lib \in S THEN q ELSE t} ELSE {})
      \cup (IF a = ArchOf[old] /\ old \in S /\ C \notin S THEN {r} ELSE {})
      \cup (IF a = mips /\ M \in S /\ B \notin S THEN {m} ELSE {})]]

MCAllowUninst == [a \in Arch |-> {}]
MCNewCruft == [i \in Item |-> IF i = A THEN {lib} ELSE {}]
MCExcludes == {<<T, A>>}

SameName == {<<a, a>> : a \in Arch}

\* Every mixture of a few hints of each kind, with and without architectures of
\* which much may be broken and new ones.  No architecture is both, and no easy
\* or force-hint leaves cruft.
Archs == {<<{}, {}>>, <<{}, {mips}>>, <<{mips}, {}>>, <<{mips}, {mipsel}>>, <<{mips, mipsel}, {}>>}
MCSetup ==
  {[break_arches |-> archs[1], new_arches |-> archs[2],
    hints |-> [k \in HintKinds |-> CASE k = "easy" -> easy [] k = "force-hint" -> force
                                     [] k = "hint" -> hint [] k = "auto" -> auto]] :
     archs \in Archs, easy \in {{}, {{B, C}, {A, T}}}, force \in {{}, {{B}}, {{C, M}}},
     hint \in {{}, {{M}}, {{A, C}, {C}}}, auto \in {{}, {{A, B}, {C, M}}, {{A, B, C, M}}}}

=============================================================================
