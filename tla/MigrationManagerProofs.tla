----------------------- MODULE MigrationManagerProofs -----------------------
(***************************************************************************)
(* Theorems about MigrationManager, for every archive: its types are       *)
(* right; a rollback restores the sources and the provides table; it       *)
(* restores the binaries and the tester, too, where no item of a           *)
(* transaction takes away what another one of it brought; so the           *)
(* transactions are nested snapshots of the suite.  Where items are apart  *)
(* and the suite was loaded whole, its sources and binaries stay together. *)
(***************************************************************************)
EXTENDS MigrationManager, SequenceTheorems, WellFoundedInduction, FiniteSetTheorems, Induction, TLAPS

-----------------------------------------------------------------------------
(***************************************************************************)
(* The oldest of a set of places.                                          *)
(***************************************************************************)

\* A non-empty set of positions has an oldest one.
LEMMA OldestExists ==
  ASSUME NEW places, places \subseteq Nat, places # {}
  PROVE  Oldest(places) \in places /\ \A m \in places : Oldest(places) <= m
<1>1. PICK n \in places : \A m \in places : <<m, n>> \notin OpToRel(<, Nat)
  BY NatLessThanWellFounded, WFMin
<1>2. \A m \in places : n <= m
  <2>1. SUFFICES ASSUME NEW m \in places, ~(n <= m) PROVE FALSE
    OBVIOUS
  <2>2. <<m, n>> \in {ss \in Nat \X Nat : ss[1] < ss[2]}
    BY <2>1
  <2>3. QED
    BY <1>1, <2>2 DEF OpToRel
<1>3. QED
  BY <1>2 DEF Oldest

\* It is the only position that no other precedes.
LEMMA OldestIs ==
  ASSUME NEW places, places \subseteq Nat, NEW n \in places, \A m \in places : n <= m
  PROVE  Oldest(places) = n
<1>1. Oldest(places) \in places /\ \A m \in places : Oldest(places) <= m
  BY OldestExists
<1>2. Oldest(places) \in Nat /\ n \in Nat /\ Oldest(places) <= n /\ n <= Oldest(places)
  BY <1>1
<1>3. QED
  BY <1>2

-----------------------------------------------------------------------------
(***************************************************************************)
(* Restoring one entry of a table.                                         *)
(***************************************************************************)

\* The places of an undo log are positions of the log.
LEMMA PlacesInLog ==
  ASSUME NEW log \in Seq(UndoItem), NEW table, NEW k
  PROVE  SavedAt(log, table, k) \subseteq 1..Len(log) /\ SavedAt(log, table, k) \subseteq Nat
BY DEF SavedAt

\* Undoing a child's log and then its parent's is undoing the merged log: what
\* commit relies on when it passes the child's undo items to the parent.
LEMMA RestoreMerged ==
  ASSUME NEW log \in Seq(UndoItem), NEW child \in Seq(UndoItem), NEW table, NEW k, NEW value
  PROVE  RestoredEntry(log \o child, table, k, value)
           = RestoredEntry(log, table, k, RestoredEntry(child, table, k, value))
<1> DEFINE merged == log \o child
           first == SavedAt(log, table, k)
           second == SavedAt(child, table, k)
           all == SavedAt(merged, table, k)
<1>1. /\ merged \in Seq(UndoItem)
      /\ Len(merged) = Len(log) + Len(child)
      /\ \A n \in 1..Len(log) + Len(child) :
           merged[n] = IF n <= Len(log) THEN log[n] ELSE child[n - Len(log)]
  BY ConcatProperties
<1>2. /\ all = {n \in 1..Len(merged) : merged[n][table][k] # {}}
      /\ first = {n \in 1..Len(log) : log[n][table][k] # {}}
      /\ second = {n \in 1..Len(child) : child[n][table][k] # {}}
  BY <1>1 DEF SavedAt
<1>3. /\ Len(log) \in Nat /\ Len(child) \in Nat /\ Len(merged) \in Nat
      /\ all \subseteq Nat /\ first \subseteq Nat /\ second \subseteq Nat
  BY <1>1, <1>2, LenProperties
<1> HIDE DEF merged, first, second, all
<1>4. \A n \in first : n \in all /\ merged[n] = log[n]
  BY <1>1, <1>2, <1>3
<1>5. \A n \in all : n \in first \/ (n - Len(log) \in second /\ n > Len(log))
  <2>1. SUFFICES ASSUME NEW n \in all, n \notin first
                 PROVE  n - Len(log) \in second /\ n > Len(log)
    OBVIOUS
  <2>2. n \in 1..Len(log) + Len(child) /\ merged[n][table][k] # {}
    BY <1>1, <1>2
  <2>3. ~(n <= Len(log))
    BY <1>1, <1>2, <1>3, <2>1, <2>2
  <2>4. n - Len(log) \in 1..Len(child) /\ merged[n] = child[n - Len(log)]
    BY <1>1, <1>3, <2>2, <2>3
  <2>5. QED
    BY <1>2, <1>3, <2>2, <2>3, <2>4
<1>6. \A n \in second : n + Len(log) \in all /\ merged[n + Len(log)] = child[n]
  <2>1. SUFFICES ASSUME NEW n \in second
                 PROVE  n + Len(log) \in all /\ merged[n + Len(log)] = child[n]
    OBVIOUS
  <2>2. n \in 1..Len(child) /\ n + Len(log) \in 1..Len(merged) /\ ~(n + Len(log) <= Len(log))
    BY <1>1, <1>2, <1>3
  <2>3. (n + Len(log)) - Len(log) = n
    BY <1>3, <2>2
  <2>4. QED
    BY <1>1, <1>2, <2>2, <2>3
<1>7. CASE first # {}
  <2>1. Oldest(first) \in first /\ \A m \in first : Oldest(first) <= m
    BY <1>3, <1>7, OldestExists
  <2>2. Oldest(first) <= Len(log)
    BY <1>2, <2>1
  <2>3. Oldest(first) \in all /\ \A m \in all : Oldest(first) <= m
    <3>1. Oldest(first) \in all /\ Oldest(first) \in Nat
      BY <1>3, <1>4, <2>1
    <3>2. ASSUME NEW m \in all PROVE Oldest(first) <= m
      <4>1. m \in Nat /\ (m \in first \/ m > Len(log))
        BY <1>3, <1>5
      <4>2. QED
        BY <1>3, <2>1, <2>2, <3>1, <4>1
    <3>3. QED
      BY <3>1, <3>2
  <2>4. Oldest(all) = Oldest(first)
    BY <1>3, <2>3, OldestIs
  <2>5. all # {} /\ merged[Oldest(all)] = log[Oldest(first)]
    BY <1>4, <2>1, <2>3, <2>4
  <2>6. QED
    BY <1>7, <2>5 DEF RestoredEntry, first, all, merged
<1>8. CASE first = {} /\ second # {}
  <2>1. Oldest(second) \in second /\ \A m \in second : Oldest(second) <= m
    BY <1>3, <1>8, OldestExists
  <2>2. /\ Oldest(second) + Len(log) \in all
        /\ merged[Oldest(second) + Len(log)] = child[Oldest(second)]
    BY <1>6, <2>1
  <2>3. \A m \in all : Oldest(second) + Len(log) <= m
    <3>1. SUFFICES ASSUME NEW m \in all PROVE Oldest(second) + Len(log) <= m
      OBVIOUS
    <3>2. m \in Nat /\ m - Len(log) \in second
      BY <1>3, <1>5, <1>8
    <3>3. Oldest(second) <= m - Len(log) /\ Oldest(second) \in Nat
      BY <1>3, <2>1, <3>2
    <3>4. QED
      BY <1>3, <3>2, <3>3
  <2>4. Oldest(all) = Oldest(second) + Len(log)
    BY <1>3, <2>2, <2>3, OldestIs
  <2>5. all # {} /\ merged[Oldest(all)] = child[Oldest(second)]
    BY <2>2, <2>4
  <2>6. QED
    BY <1>8, <2>5 DEF RestoredEntry, first, second, all, merged
<1>9. CASE first = {} /\ second = {}
  <2>1. all = {}
    BY <1>5, <1>9
  <2>2. QED
    BY <1>9, <2>1 DEF RestoredEntry, first, second, all, merged
<1>10. QED
  BY <1>7, <1>8, <1>9

\* With nothing logged, nothing is restored.
LEMMA RestoreNothing ==
  ASSUME NEW table, NEW k, NEW value
  PROVE  RestoredEntry(<<>>, table, k, value) = value
BY DEF RestoredEntry, SavedAt

\* Undoing one item gives back the value it saved, or leaves the entry alone.
LEMMA RestoreOne ==
  ASSUME NEW u \in UndoItem, NEW table, NEW k, NEW value
  PROVE  /\ u[table][k] = {} => RestoredEntry(<<u>>, table, k, value) = value
         /\ \A old : u[table][k] = {old} => RestoredEntry(<<u>>, table, k, value) = old
<1>1. SavedAt(<<u>>, table, k) = IF u[table][k] = {} THEN {} ELSE {1}
  BY DEF SavedAt
<1>2. Oldest({1}) = 1
  BY OldestIs
<1>3. QED
  BY <1>1, <1>2 DEF RestoredEntry

\* So an item is undone whenever it saved every entry it changed.
LEMMA RestoreAppended ==
  ASSUME NEW log \in Seq(UndoItem), NEW u \in UndoItem, NEW table, NEW k, NEW old, NEW new,
         \/ u[table][k] = {old}
         \/ u[table][k] = {} /\ new = old
  PROVE  RestoredEntry(Append(log, u), table, k, new) = RestoredEntry(log, table, k, old)
<1> DEFINE one == <<u>>
<1>1. Append(log, u) = log \o one /\ one \in Seq(UndoItem)
  OBVIOUS
<1>2. RestoredEntry(one, table, k, new) = old
  BY RestoreOne
<1> HIDE DEF one
<1>3. RestoredEntry(log \o one, table, k, new)
        = RestoredEntry(log, table, k, RestoredEntry(one, table, k, new))
  BY <1>1, RestoreMerged
<1>4. QED
  BY <1>1, <1>2, <1>3

-----------------------------------------------------------------------------
(***************************************************************************)
(* Types.                                                                  *)
(***************************************************************************)

\* What is restored is of the type of what was saved.
LEMMA RestoredEntryType ==
  ASSUME NEW log \in Seq(UndoItem), NEW table, NEW k, NEW T, NEW value \in T,
         \A n \in 1..Len(log) : log[n][table][k] \subseteq T
  PROVE  RestoredEntry(log, table, k, value) \in T
<1>1. CASE SavedAt(log, table, k) = {}
  BY <1>1 DEF RestoredEntry
<1>2. CASE SavedAt(log, table, k) # {}
  <2>1. Oldest(SavedAt(log, table, k)) \in SavedAt(log, table, k)
    BY <1>2, PlacesInLog, OldestExists
  <2>2. /\ Oldest(SavedAt(log, table, k)) \in 1..Len(log)
        /\ log[Oldest(SavedAt(log, table, k))][table][k] # {}
    <3> DEFINE first == Oldest(SavedAt(log, table, k))
    <3>1. first \in {n \in DOMAIN log : log[n][table][k] # {}}
      BY <2>1 DEF SavedAt
    <3> HIDE DEF first
    <3>2. first \in 1..Len(log) /\ log[first][table][k] # {}
      BY <3>1
    <3>3. QED
      BY <3>2 DEF first
  <2> DEFINE old == log[Oldest(SavedAt(log, table, k))][table][k]
  <2>3. old # {} /\ old \subseteq T
    BY <2>2
  <2>4. (CHOOSE o \in old : TRUE) \in T
    BY <2>3
  <2>5. QED
    BY <1>2, <2>4 DEF RestoredEntry
<1>3. QED
  BY <1>1, <1>2

\* A rollback leaves well-typed tables.
LEMMA RestoredType ==
  ASSUME NEW log \in Seq(UndoItem), NEW st \in Tables
  PROVE  Restored(log, st) \in Tables
<1>1. \A n \in 1..Len(log) : log[n] \in UndoItem
  OBVIOUS
<1>2. RestoredSources(log, st) \in [Source -> SourceData \cup {NoSource}]
  <2>1. ASSUME NEW s \in Source
        PROVE  RestoredEntry(log, "sources", s, st.sources[s]) \in SourceData \cup {NoSource}
    <3>1. st.sources[s] \in SourceData \cup {NoSource}
      BY DEF Tables
    <3>2. \A n \in 1..Len(log) : log[n]["sources"][s] \subseteq SourceData \cup {NoSource}
      BY <1>1 DEF UndoItem
    <3>3. QED
      BY <3>1, <3>2, RestoredEntryType
  <2>2. QED
    BY <2>1 DEF RestoredSources
<1>3. RestoredBinaries(log, st) \in [Key -> BinId \cup {NoBin}]
  <2>1. ASSUME NEW k \in Key, NEW value \in BinId \cup {NoBin}
        PROVE  RestoredEntry(log, "binaries", k, value) \in BinId \cup {NoBin}
    <3>1. \A n \in 1..Len(log) : log[n]["binaries"][k] \subseteq BinId \cup {NoBin}
      BY <1>1 DEF UndoItem
    <3>2. QED
      BY <3>1, RestoredEntryType
  <2>2. \A k \in Key : st.binaries[k] \in BinId \cup {NoBin}
    BY DEF Tables
  <2>3. QED
    BY <2>1, <2>2 DEF RestoredBinaries
<1>4. RestoredProvides(log, st) \in [Virtual -> Provided]
  <2>1. ASSUME NEW v \in Virtual
        PROVE  RestoredEntry(log, "virtual", v, st.provides[v]) \in Provided
    <3>1. st.provides[v] \in Provided
      BY DEF Tables
    <3>2. \A n \in 1..Len(log) : log[n]["virtual"][v] \subseteq Provided
      BY <1>1 DEF UndoItem
    <3>3. QED
      BY <3>1, <3>2, RestoredEntryType
  <2>2. QED
    BY <2>1 DEF RestoredProvides
<1>5. RestoredTester(log, st) \subseteq BinId
  <2>1. \A n \in DOMAIN log, k \in Key : log[n].binaries[k] \subseteq BinId
    BY <1>1 DEF UndoItem
  <2>2. st.tester \subseteq BinId
    BY DEF Tables
  <2>3. QED
    BY <2>1, <2>2 DEF RestoredTester
<1>6. QED
  BY <1>2, <1>3, <1>4, <1>5 DEF Restored, Tables

\* A chosen binary of a key is one of those that have it.
LEMMA PickInSet ==
  ASSUME NEW bins, NEW k \in Keys(bins)
  PROVE  Pick(bins, k) \in bins /\ KeyOf(Pick(bins, k)) = k
BY DEF Pick, Keys

\* Entries of the provides table are names with versions.
LEMMA EntriesType ==
  ASSUME NEW bins, bins \subseteq BinId, NEW v
  PROVE  EntriesOf(bins, v) \in Provided
<1>1. ASSUME NEW b \in BinId PROVE Entries(b, v) \subseteq Key \X Nat
  <2>1. Bin[b] \in BinaryData
    BY DataAssumption
  <2>2. KeyOf(b) \in Key /\ \A q \in Bin[b].provides : q \in Virtual \X Nat
    BY <2>1 DEF BinaryData, KeyOf
  <2>3. QED
    BY <2>2 DEF Entries
<1>2. QED
  BY <1>1 DEF EntriesOf, Provided

\* What an item adds and removes are binaries, and an update has its source.
LEMMA GroupsType ==
  ASSUME TypeOK, NEW i \in Candidates, NEW smooth
  PROVE  /\ i \in Item
         /\ SourceName(i) \in Source
         /\ i.kind = "update" => SuiteSources[i.suite][i.package] \in SourceData
         /\ Adds(i) \subseteq BinId
         /\ Removes(i, smooth) \subseteq BinId
<1>1. i \in UpgradeMe \/ i \in CruftItems \/ i \in ObsoleteItems
  <2>1. OldLibraries \subseteq CruftItems
    BY DEF OldLibraries
  <2> QED
    BY <2>1 DEF Candidates, TypeOK
<1>2. i \in CruftItems => i.kind = "remove_cruft" /\ i.bin \in BinId
  BY DEF CruftItems, Holds, TypeOK, Tables
<1>3. i \in ObsoleteItems => i.kind = "remove_source" /\ i.package \in Source
  BY DEF ObsoleteItems
<1>4. i \in Item
  <2>1. CASE i \in UpgradeMe
    BY <2>1, DataAssumption
  <2>2. CASE i \in CruftItems
    BY <2>2, <1>2 DEF CruftItems, Item
  <2>3. CASE i \in ObsoleteItems
    BY <2>3, <1>3 DEF ObsoleteItems, Item
  <2>4. QED
    BY <1>1, <2>1, <2>2, <2>3
<1>5. /\ i.kind \in {"update", "remove_source", "remove_cruft"}
      /\ i.kind = "remove_cruft" => i.bin \in BinId
      /\ i.kind # "remove_cruft" => i.package \in Source
      /\ i.kind = "update" => i.suite \in Suite
  BY <1>4 DEF Item
<1>6. SourceName(i) \in Source
  BY <1>5, DataAssumption DEF SourceName, BinaryData
<1>7. i.kind = "update" => SuiteSources[i.suite][i.package] \in SourceData
  <2>1. i.kind = "update" => i \in UpgradeMe
    BY <1>1, <1>2, <1>3
  <2>2. QED
    BY <1>5, <2>1, DataAssumption, LoaderAssumption
<1>8. Adds(i) \subseteq BinId
  BY <1>7 DEF Adds, SourceData
<1>9. Removes(i, smooth) \subseteq BinId
  <2>1. CASE i.kind = "remove_cruft"
    BY <1>5, <2>1 DEF Removes
  <2>2. CASE i.kind # "remove_cruft"
    <3>1. target.sources[i.package] \in SourceData \cup {NoSource}
      BY <1>5, <2>2 DEF TypeOK, Tables
    <3>2. Leaving(i) \subseteq BinId
      BY <3>1 DEF Leaving, SourceData
    <3>3. QED
      BY <2>2, <3>2 DEF Removes
  <2>3. QED
    BY <2>1, <2>2
<1>10. QED
  BY <1>4, <1>6, <1>7, <1>8, <1>9

\* The tables after an item, and its undo item, are well typed.
LEMMA AppliedType ==
  ASSUME TypeOK, NEW i \in Candidates, Defined(i), NEW smooth
  PROVE  /\ Applied(i, Adds(i), Removes(i, smooth)) \in Tables
         /\ Undo(i, Adds(i), Removes(i, smooth)) \in UndoItem
<1> DEFINE adds == Adds(i)
           rms == Removes(i, smooth)
           new == Applied(i, adds, rms)
           undo == Undo(i, adds, rms)
<1>1. /\ i \in Item /\ SourceName(i) \in Source
      /\ i.kind = "update" => SuiteSources[i.suite][i.package] \in SourceData
      /\ adds \subseteq BinId /\ rms \subseteq BinId
  BY GroupsType
<1>2. /\ target.sources \in [Source -> SourceData \cup {NoSource}]
      /\ target.binaries \in [Key -> BinId \cup {NoBin}]
      /\ target.provides \in [Virtual -> Provided]
      /\ target.tester \subseteq BinId
  BY DEF TypeOK, Tables
<1> HIDE DEF adds, rms
<1>3. new.sources \in [Source -> SourceData \cup {NoSource}]
  <2>1. NewSource(i, adds, rms) \in SourceData \cup {NoSource}
    <3> DEFINE old == target.sources[SourceName(i)]
               kept == (IF old = NoSource THEN {} ELSE old.binaries \ rms) \cup adds
    <3>1. kept \subseteq BinId
      BY <1>1, <1>2 DEF SourceData
    <3>2. CASE i.kind = "update"
      <4>1. SuiteSources[i.suite][SourceName(i)].version \in Nat
        BY <1>1, <3>2 DEF SourceName, SourceData
      <4>2. QED
        BY <3>1, <3>2, <4>1 DEF NewSource, SourceData
    <3>3. CASE i.kind = "remove_source"
      BY <3>3 DEF NewSource
    <3>4. CASE i.kind = "remove_cruft"
      <4>1. old \in SourceData
        BY <1>1, <1>2, <3>4 DEF Defined, SourceName
      <4>2. QED
        BY <3>1, <3>4, <4>1 DEF NewSource, SourceData
    <3>5. QED
      BY <1>1, <3>2, <3>3, <3>4 DEF Item
  <2>2. QED
    BY <1>2, <2>1 DEF Applied
<1>4. new.binaries \in [Key -> BinId \cup {NoBin}]
  BY <1>1, <1>2, PickInSet DEF Applied, NewBinaries
<1>5. new.provides \in [Virtual -> Provided]
  BY <1>1, <1>2, EntriesType DEF Applied, NewProvides, Provided
<1>6. new.tester \subseteq BinId
  BY <1>1, <1>2 DEF Applied, NewTester
<1>7. undo.sources \in [Source -> SUBSET (SourceData \cup {NoSource})]
  BY <1>2 DEF Undo
<1>8. undo.binaries \in [Key -> SUBSET BinId]
  BY <1>1, <1>2, PickInSet DEF Undo, Replaced
<1>9. undo.virtual \in [Virtual -> SUBSET Provided]
  BY <1>2 DEF Undo
<1>10. new \in Tables
  BY <1>3, <1>4, <1>5, <1>6 DEF Applied, Tables
<1>11. undo \in UndoItem
  BY <1>1, <1>7, <1>8, <1>9 DEF Undo, UndoItem
<1>12. QED
  BY <1>10, <1>11 DEF adds, rms

-----------------------------------------------------------------------------
(***************************************************************************)
(* The stack of transactions.                                              *)
(***************************************************************************)

\* The stack below the top, and its elements.
LEMMA StackFacts ==
  ASSUME NEW T, NEW stack \in Seq(T), stack # <<>>
  PROVE  /\ Len(stack) \in Nat \ {0}
         /\ stack[Len(stack)] \in T
         /\ SubSeq(stack, 1, Len(stack) - 1) \in Seq(T)
         /\ Len(SubSeq(stack, 1, Len(stack) - 1)) = Len(stack) - 1
         /\ \A n \in 1..Len(stack) - 1 : SubSeq(stack, 1, Len(stack) - 1)[n] = stack[n]
<1> DEFINE last == Len(stack) - 1
           below == SubSeq(stack, 1, last)
<1>1. Len(stack) \in Nat \ {0}
  BY EmptySeq, LenProperties
<1>2. 1 \in 1..Len(stack) + 1 /\ last \in 0..Len(stack) /\ last \in Nat
  BY <1>1
<1> HIDE DEF last
<1>3. below \in Seq(T) /\ Len(below) = IF 1 <= last THEN last - 1 + 1 ELSE 0
  BY <1>2, SubSeqProperties
<1>4. \A n \in 1..last - 1 + 1 : below[n] = stack[1 + n - 1]
  BY <1>2, SubSeqProperties
<1>5. Len(below) = last /\ \A n \in 1..last : below[n] = stack[n]
  BY <1>2, <1>3, <1>4
<1>6. QED
  BY <1>1, <1>3, <1>5, ElementOfSeq DEF last

-----------------------------------------------------------------------------
(***************************************************************************)
(* Type correctness.                                                       *)
(***************************************************************************)

\* The loaded suite is well typed.
LEMMA InitType == Init => TypeOK
<1>1. SUFFICES ASSUME Init PROVE TypeOK
  OBVIOUS
<1>2. target \in Tables
  <2>1. Holds(InitialBinaries) \subseteq BinId
    BY DataAssumption DEF Holds
  <2>2. \A v \in Virtual : EntriesOf(Holds(InitialBinaries), v) \in Provided
    BY <2>1, EntriesType
  <2>3. QED
    BY <1>1, <2>1, <2>2, DataAssumption DEF Init, Tables
<1>3. transactions \in Seq(OpenTransaction) /\ Depth = 0
  BY <1>1 DEF Init, Depth
<1>4. QED
  BY <1>1, <1>2, <1>3 DEF Init, TypeOK

\* A transaction that begins is well typed.
LEMMA TransactionType ==
  ASSUME TypeOK, NEW kind \in {"hint", "recursing", "component"}
  PROVE  Transaction(kind) \in OpenTransaction
BY DEF Transaction, OpenTransaction, TypeOK

\* Every step keeps the types.
LEMMA NextType == TypeOK /\ [Next]_vars => TypeOK'
<1> SUFFICES ASSUME TypeOK, [Next]_vars PROVE TypeOK'
  OBVIOUS
<1>1. /\ target \in Tables /\ transactions \in Seq(OpenTransaction)
      /\ Depth \in Nat /\ Depth <= 2 /\ Depth = Len(transactions)
      /\ all_selected \subseteq Item /\ phase \in {"runs", "obsolete", "cruft"}
  BY DEF TypeOK, Depth
<1>2. transactions # <<>> =>
        /\ Depth \in Nat \ {0}
        /\ Top \in OpenTransaction
        /\ Below \in Seq(OpenTransaction)
        /\ Len(Below) = Depth - 1
  BY <1>1, StackFacts DEF Top, Below, Depth
<1>3. transactions = <<>> => Depth = 0
  BY EmptySeq DEF Depth
<1>4. CASE StartHint
  <2>1. Transaction("hint") \in OpenTransaction
    BY TransactionType
  <2> DEFINE one == <<Transaction("hint")>>
  <2>2. one \in Seq(OpenTransaction) /\ Len(one) = 1
    BY <2>1
  <2>3. QED
    BY <1>1, <1>4, <2>2 DEF StartHint, TypeOK, Depth
<1>5. CASE StartComponent
  <2> DEFINE component == Transaction("component")
             one == <<component>>
             outer == [Top EXCEPT !.kind = "recursing"]
             two == <<outer, component>>
  <2>1. component \in OpenTransaction
    BY TransactionType
  <2>2. CASE transactions' = one
    <3>1. one \in Seq(OpenTransaction) /\ Len(one) = 1
      BY <2>1
    <3>2. QED
      BY <1>1, <1>5, <2>2, <3>1 DEF StartComponent, TypeOK, Depth
  <2>3. CASE Depth = 1 /\ transactions' = two
    <3>1. transactions # <<>>
      BY <1>3, <2>3
    <3>2. outer \in OpenTransaction
      BY <1>2, <3>1 DEF OpenTransaction
    <3>3. two \in Seq(OpenTransaction) /\ Len(two) = 2
      BY <2>1, <3>2
    <3>4. QED
      BY <1>1, <1>5, <2>3, <3>3 DEF StartComponent, TypeOK, Depth
  <2>4. QED
    BY <1>5, <2>2, <2>3 DEF StartComponent
<1>6. CASE Migrate
  <2> PICK i \in Candidates : \E smooth \in SUBSET SmoothCandidates(i) : ApplyItem(i, smooth)
    BY <1>6 DEF Migrate
  <2>1. PICK smooth \in SUBSET SmoothCandidates(i) : ApplyItem(i, smooth)
    OBVIOUS
  <2> DEFINE undo == Undo(i, Adds(i), Removes(i, smooth))
  <2>2. i \in Item
    BY GroupsType
  <2>3. target' \in Tables /\ undo \in UndoItem
    BY <2>1, AppliedType DEF ApplyItem
  <2> HIDE DEF undo
  <2>4. CASE transactions = <<>>
    BY <1>1, <2>1, <2>2, <2>3, <2>4 DEF ApplyItem, TypeOK, Depth
  <2>5. CASE transactions # <<>>
    <3> DEFINE log == Append(transactions[Depth].undo_items, undo)
               items == transactions[Depth].items \cup {i}
               top == [transactions[Depth] EXCEPT !.undo_items = log, !.items = items]
    <3>1. transactions' = [transactions EXCEPT ![Depth] = top]
      BY <2>1, <2>5 DEF ApplyItem, undo
    <3>2. /\ transactions[Depth].undo_items \in Seq(UndoItem)
          /\ transactions[Depth] \in OpenTransaction
      BY <1>2, <2>5 DEF Top, OpenTransaction
    <3>3. top \in OpenTransaction
      <4>1. log \in Seq(UndoItem)
        BY <2>3, <3>2
      <4>2. items \subseteq Item
        BY <2>2, <3>2 DEF OpenTransaction
      <4> HIDE DEF log, items
      <4>3. QED
        BY <3>2, <4>1, <4>2 DEF OpenTransaction
    <3> HIDE DEF top
    <3>4. transactions' \in Seq(OpenTransaction) /\ Len(transactions') = Len(transactions)
      <4>1. Depth \in 1..Len(transactions)
        BY <1>1, <1>2, <2>5
      <4>2. QED
        BY <1>1, <3>1, <3>3, <4>1, ExceptSeq
    <3>5. UNCHANGED <<all_selected, phase>>
      BY <2>1, <2>5 DEF ApplyItem
    <3>6. QED
      BY <1>1, <2>3, <3>4, <3>5 DEF TypeOK, Depth
  <2>6. QED
    BY <2>4, <2>5
<1>7. CASE Commit
  <2>1. transactions # <<>> /\ UNCHANGED <<target, phase>>
    BY <1>7 DEF Commit
  <2>2. Top.undo_items \in Seq(UndoItem) /\ Top.items \subseteq Item
    BY <1>2, <2>1 DEF OpenTransaction
  <2>3. CASE Depth = 1
    BY <1>1, <1>7, <2>1, <2>2, <2>3 DEF Commit, TypeOK, Depth
  <2>4. CASE Depth # 1
    <3> DEFINE log == Below[Depth - 1].undo_items \o Top.undo_items
               items == Below[Depth - 1].items \cup Top.items
               parent == [Below[Depth - 1] EXCEPT !.undo_items = log, !.items = items]
    <3>1. transactions' = [Below EXCEPT ![Depth - 1] = parent] /\ UNCHANGED all_selected
      BY <1>7, <2>4 DEF Commit
    <3>2. Below[Depth - 1] \in OpenTransaction
      BY <1>1, <1>2, <2>1, <2>4, ElementOfSeq
    <3>3. parent \in OpenTransaction
      <4>1. log \in Seq(UndoItem) /\ items \subseteq Item
        BY <2>2, <3>2, ConcatProperties DEF OpenTransaction
      <4> HIDE DEF log, items
      <4>2. QED
        BY <3>2, <4>1 DEF OpenTransaction
    <3> HIDE DEF parent
    <3>4. transactions' \in Seq(OpenTransaction) /\ Len(transactions') = Len(Below)
      <4>1. Depth - 1 \in 1..Len(Below)
        BY <1>1, <1>2, <2>1, <2>4
      <4>2. QED
        BY <1>2, <2>1, <3>1, <3>3, <4>1, ExceptSeq
    <3>5. QED
      BY <1>1, <1>2, <2>1, <3>1, <3>4 DEF TypeOK, Depth
  <2>5. QED
    BY <2>3, <2>4
<1>8. CASE Rollback
  <2>1. transactions # <<>> /\ target' = Restored(Top.undo_items, target)
        /\ transactions' = Below /\ UNCHANGED <<all_selected, phase>>
    BY <1>8 DEF Rollback
  <2>2. Top.undo_items \in Seq(UndoItem)
    BY <1>2, <2>1 DEF OpenTransaction
  <2>3. target' \in Tables
    BY <1>1, <2>1, <2>2, RestoredType
  <2>4. QED
    BY <1>1, <1>2, <2>1, <2>3 DEF TypeOK, Depth
<1>9. CASE CleanUp
  BY <1>1, <1>9 DEF CleanUp, TypeOK, Depth
<1>10. CASE UNCHANGED vars
  BY <1>1, <1>10 DEF vars, TypeOK, Depth
<1>11. QED
  BY <1>4, <1>5, <1>6, <1>7, <1>8, <1>9, <1>10 DEF Next

\* The tables, the undo items and the stack are well typed in every archive:
\* every value a rollback writes is one the table could hold.
THEOREM TypeCorrect == Spec => []TypeOK
BY InitType, NextType, PTL DEF Spec

-----------------------------------------------------------------------------
(***************************************************************************)
(* Undoing a log.                                                          *)
(***************************************************************************)

\* Undoing the log brings the sources and the provides table back from after
\* to before.
Undoes(log, after, before) ==
  /\ RestoredSources(log, after) = before.sources
  /\ RestoredProvides(log, after) = before.provides

\* An empty log undoes nothing.
LEMMA UndoesNothing ==
  ASSUME NEW st \in Tables
  PROVE  Undoes(<<>>, st, st)
<1>1. \A s \in Source : RestoredEntry(<<>>, "sources", s, st.sources[s]) = st.sources[s]
  BY RestoreNothing
<1>2. \A v \in Virtual : RestoredEntry(<<>>, "virtual", v, st.provides[v]) = st.provides[v]
  BY RestoreNothing
<1>3. QED
  BY <1>1, <1>2 DEF Undoes, RestoredSources, RestoredProvides, Tables

\* Committing a child into its parent loses nothing of either log.
LEMMA UndoesMerged ==
  ASSUME NEW log \in Seq(UndoItem), NEW child \in Seq(UndoItem),
         NEW after, NEW between \in Tables, NEW before,
         Undoes(child, after, between), Undoes(log, between, before)
  PROVE  Undoes(log \o child, after, before)
<1>1. \A s \in Source :
        RestoredEntry(log \o child, "sources", s, after.sources[s])
          = RestoredEntry(log, "sources", s,
                          RestoredEntry(child, "sources", s, after.sources[s]))
  BY RestoreMerged
<1>2. \A s \in Source :
        RestoredEntry(child, "sources", s, after.sources[s]) = between.sources[s]
  BY DEF Undoes, RestoredSources
<1>3. \A v \in Virtual :
        RestoredEntry(log \o child, "virtual", v, after.provides[v])
          = RestoredEntry(log, "virtual", v,
                          RestoredEntry(child, "virtual", v, after.provides[v]))
  BY RestoreMerged
<1>4. \A v \in Virtual :
        RestoredEntry(child, "virtual", v, after.provides[v]) = between.provides[v]
  BY DEF Undoes, RestoredProvides
<1>5. QED
  BY <1>1, <1>2, <1>3, <1>4 DEF Undoes, RestoredSources, RestoredProvides

\* The undo item of an item saved every entry of the two tables it changed,
\* in particular every virtual package of the binaries that were removed.
LEMMA UndoesApplied ==
  ASSUME TypeOK, NEW i \in Candidates, Defined(i), NEW smooth,
         NEW log \in Seq(UndoItem), NEW before, Undoes(log, target, before)
  PROVE  Undoes(Append(log, Undo(i, Adds(i), Removes(i, smooth))),
                Applied(i, Adds(i), Removes(i, smooth)), before)
<1> DEFINE adds == Adds(i)
           rms == Removes(i, smooth)
           new == Applied(i, adds, rms)
           undo == Undo(i, adds, rms)
           removed == Removed(rms)
<1>1. undo \in UndoItem /\ new \in Tables /\ target \in Tables
  BY AppliedType DEF TypeOK
<1> HIDE DEF adds, rms
<1>2. ASSUME NEW s \in Source
      PROVE  RestoredEntry(Append(log, undo), "sources", s, new.sources[s])
               = RestoredEntry(log, "sources", s, target.sources[s])
  <2>1. undo["sources"][s] = IF s = SourceName(i) THEN {target.sources[s]} ELSE {}
    BY DEF Undo
  <2>2. s # SourceName(i) => new.sources[s] = target.sources[s]
    BY <1>1 DEF Applied, Tables
  <2> HIDE DEF undo, new
  <2>3. QED
    BY <1>1, <2>1, <2>2, RestoreAppended
<1>3. ASSUME NEW v \in Virtual
      PROVE  RestoredEntry(Append(log, undo), "virtual", v, new.provides[v])
               = RestoredEntry(log, "virtual", v, target.provides[v])
  <2>1. undo["virtual"][v] = IF EntriesOf(removed \cup adds, v) # {}
                             THEN {target.provides[v]} ELSE {}
    BY DEF Undo
  <2>2. EntriesOf(removed \cup adds, v) = EntriesOf(removed, v) \cup EntriesOf(adds, v)
    BY DEF EntriesOf
  <2>3. new.provides[v] = (target.provides[v] \ EntriesOf(removed, v)) \cup EntriesOf(adds, v)
    BY DEF Applied, NewProvides
  <2>4. EntriesOf(removed \cup adds, v) = {} => new.provides[v] = target.provides[v]
    BY <2>2, <2>3
  <2>5. \/ undo["virtual"][v] = {target.provides[v]}
        \/ undo["virtual"][v] = {} /\ new.provides[v] = target.provides[v]
    BY <2>1, <2>4
  <2> HIDE DEF undo, new, removed
  <2>6. QED
    BY <1>1, <2>5, RestoreAppended
<1>4. QED
  BY <1>2, <1>3 DEF Undoes, RestoredSources, RestoredProvides, adds, rms

-----------------------------------------------------------------------------
(***************************************************************************)
(* Rollback of the sources and the provides table.                         *)
(***************************************************************************)

\* The invariant, level by level.
LEMMA RestorableLevels ==
  TablesRestorable <=>
    \A n \in 1..Depth : Undoes(transactions[n].undo_items, StateAbove(n), transactions[n].snapshot)
BY DEF TablesRestorable, Undoes

\* With no transaction there is nothing to restore.
LEMMA InitRestorable == Init => TablesRestorable
<1>1. Init => Depth = 0
  BY EmptySeq DEF Init, Depth
<1>2. QED
  BY <1>1 DEF TablesRestorable

\* Every step keeps every open transaction restorable.
LEMMA NextRestorable == TypeOK /\ TablesRestorable /\ [Next]_vars => TablesRestorable'
<1> SUFFICES ASSUME TypeOK, TablesRestorable, [Next]_vars PROVE TablesRestorable'
  OBVIOUS
<1> DEFINE Level(n) == Undoes(transactions[n].undo_items, StateAbove(n), transactions[n].snapshot)
<1>1. /\ target \in Tables /\ transactions \in Seq(OpenTransaction)
      /\ Depth \in Nat /\ Depth <= 2 /\ Depth = Len(transactions)
  BY DEF TypeOK, Depth
<1>2. transactions # <<>> =>
        /\ Depth \in 1..Len(transactions)
        /\ Top \in OpenTransaction
        /\ Len(Below) = Depth - 1
        /\ \A n \in 1..Depth - 1 : Below[n] = transactions[n]
  BY <1>1, StackFacts DEF Top, Below, Depth
<1>3. transactions = <<>> => Depth = 0
  BY EmptySeq DEF Depth
<1>4. \A n \in 1..Depth : Level(n) /\ transactions[n] \in OpenTransaction
  BY <1>1, RestorableLevels, ElementOfSeq
<1>5. SUFFICES ASSUME NEW n \in 1..Depth' PROVE Level(n)'
  BY DEF TablesRestorable, Undoes
<1>6. ASSUME NEW kind PROVE Undoes(Transaction(kind).undo_items, target, Transaction(kind).snapshot)
  BY <1>1, UndoesNothing DEF Transaction
<1>7. CASE StartHint
  <2>1. Depth' = 1 /\ transactions'[1] = Transaction("hint") /\ target' = target
    BY <1>7 DEF StartHint, Depth
  <2>2. n = 1 /\ StateAbove(n)' = target
    BY <2>1 DEF StateAbove
  <2>3. QED
    BY <1>6, <2>1, <2>2
<1>8. CASE StartComponent
  <2>1. target' = target
    BY <1>8 DEF StartComponent
  <2>2. CASE transactions' = <<Transaction("component")>>
    <3>1. Depth' = 1 /\ transactions'[1] = Transaction("component")
      BY <2>2 DEF Depth
    <3>2. n = 1 /\ StateAbove(n)' = target
      BY <2>1, <3>1 DEF StateAbove
    <3>3. QED
      BY <1>6, <3>1, <3>2
  <2>3. CASE /\ Depth = 1
             /\ transactions' = <<[Top EXCEPT !.kind = "recursing"], Transaction("component")>>
    <3>1. /\ Depth' = 2
          /\ transactions'[1] = [Top EXCEPT !.kind = "recursing"]
          /\ transactions'[2] = Transaction("component")
      BY <2>3 DEF Depth
    <3>2. /\ StateAbove(1)' = Transaction("component").snapshot
          /\ StateAbove(2)' = target
      BY <2>1, <3>1 DEF StateAbove
    <3>3. Transaction("component").snapshot = target
      BY DEF Transaction
    <3>4. CASE n = 1
      <4>1. Top = transactions[1] /\ StateAbove(1) = target /\ Level(1) /\ Top \in OpenTransaction
        BY <1>4, <2>3 DEF Top, StateAbove
      <4>2. /\ transactions'[1].undo_items = Top.undo_items
            /\ transactions'[1].snapshot = Top.snapshot
        BY <3>1, <4>1 DEF OpenTransaction
      <4>3. QED
        BY <3>2, <3>3, <3>4, <4>1, <4>2
    <3>5. CASE n = 2
      BY <1>6, <3>1, <3>2, <3>5
    <3>6. QED
      BY <3>1, <3>4, <3>5
  <2>4. QED
    BY <1>8, <2>2, <2>3 DEF StartComponent
<1>9. CASE Migrate
  <2> PICK i \in Candidates : \E smooth \in SUBSET SmoothCandidates(i) : ApplyItem(i, smooth)
    BY <1>9 DEF Migrate
  <2>1. PICK smooth \in SUBSET SmoothCandidates(i) : ApplyItem(i, smooth)
    OBVIOUS
  <2> DEFINE undo == Undo(i, Adds(i), Removes(i, smooth))
  <2>2. Defined(i) /\ target' = Applied(i, Adds(i), Removes(i, smooth))
    BY <2>1 DEF ApplyItem
  <2>3. transactions # <<>>
    <3>1. transactions = <<>> => transactions' = <<>>
      BY <2>1 DEF ApplyItem
    <3>2. QED
      BY <1>3, <3>1 DEF Depth
  <2>4. transactions' = [transactions EXCEPT ![Depth].undo_items = Append(@, undo),
                                             ![Depth].items = @ \cup {i}]
    BY <2>1, <2>3 DEF ApplyItem
  <2> HIDE DEF undo
  <2>5. /\ Depth' = Depth
        /\ \A m \in 1..Depth : transactions'[m].snapshot = transactions[m].snapshot
        /\ \A m \in 1..Depth : m # Depth => transactions'[m] = transactions[m]
        /\ transactions'[Depth].undo_items = Append(transactions[Depth].undo_items, undo)
    BY <1>1, <1>2, <1>4, <2>3, <2>4 DEF Depth, OpenTransaction
  <2>6. CASE n = Depth
    <3>1. Undoes(transactions[n].undo_items, target, transactions[n].snapshot)
      BY <1>4, <2>5, <2>6 DEF StateAbove
    <3>2. transactions[n].undo_items \in Seq(UndoItem)
      BY <1>4, <2>5, <2>6 DEF OpenTransaction
    <3>3. Undoes(Append(transactions[n].undo_items, undo), target', transactions[n].snapshot)
      BY <2>2, <3>1, <3>2, UndoesApplied DEF undo
    <3>4. StateAbove(n)' = target'
      BY <2>5, <2>6 DEF StateAbove
    <3>5. QED
      BY <2>5, <2>6, <3>3, <3>4
  <2>7. CASE n # Depth
    <3>1. n + 1 \in 1..Depth
      BY <1>1, <2>5, <2>7
    <3>2. StateAbove(n)' = StateAbove(n)
      BY <2>5, <2>7, <3>1 DEF StateAbove
    <3>3. QED
      BY <1>4, <2>5, <2>7, <3>2
  <2>8. QED
    BY <2>6, <2>7
<1>10. CASE Commit
  <2>1. transactions # <<>> /\ target' = target
    BY <1>10 DEF Commit
  <2>2. Depth # 1
    BY <1>3, <1>10, <2>1, EmptySeq DEF Commit, Depth
  <2>3. transactions' = [Below EXCEPT ![Depth - 1].undo_items = @ \o Top.undo_items,
                                      ![Depth - 1].items = @ \cup Top.items]
    BY <1>10, <2>2 DEF Commit
  <2>4. Depth - 1 \in 1..Depth /\ Below \in Seq(OpenTransaction)
    BY <1>1, <1>2, <2>1, <2>2, StackFacts DEF Below, Depth
  <2>5. /\ Depth' = Depth - 1
        /\ \A m \in 1..Depth - 1 : transactions'[m].snapshot = transactions[m].snapshot
        /\ \A m \in 1..Depth - 1 : m # Depth - 1 => transactions'[m] = transactions[m]
        /\ transactions'[Depth - 1].undo_items
             = transactions[Depth - 1].undo_items \o Top.undo_items
    <3> DEFINE log == Below[Depth - 1].undo_items \o Top.undo_items
               items == Below[Depth - 1].items \cup Top.items
               parent == [Below[Depth - 1] EXCEPT !.undo_items = log, !.items = items]
    <3>1. transactions' = [Below EXCEPT ![Depth - 1] = parent]
      BY <2>3
    <3>2. Depth - 1 \in 1..Len(Below) /\ Below[Depth - 1] = transactions[Depth - 1]
      BY <1>1, <1>2, <2>1, <2>4
    <3>3. Below[Depth - 1] \in OpenTransaction
      BY <1>4, <2>4, <3>2
    <3> HIDE DEF log, items
    <3>4. /\ parent.undo_items = log /\ parent.snapshot = transactions[Depth - 1].snapshot
      BY <3>2, <3>3 DEF OpenTransaction
    <3> HIDE DEF parent
    <3>5. /\ Len(transactions') = Len(Below)
          /\ \A m \in 1..Len(Below) :
               transactions'[m] = IF m = Depth - 1 THEN parent ELSE Below[m]
      BY <2>4, <3>1, <3>2
    <3>6. QED
      BY <1>2, <2>1, <3>2, <3>4, <3>5 DEF Depth, log
  <2>6. CASE n = Depth - 1
    <3>1. Undoes(Top.undo_items, target, Top.snapshot)
      BY <1>2, <1>4, <2>1 DEF StateAbove, Top
    <3>2. Undoes(transactions[n].undo_items, Top.snapshot, transactions[n].snapshot)
      BY <1>1, <1>4, <2>4, <2>6 DEF StateAbove, Top
    <3>3. /\ Top.undo_items \in Seq(UndoItem) /\ transactions[n].undo_items \in Seq(UndoItem)
          /\ Top.snapshot \in Tables
      BY <1>2, <1>4, <2>1, <2>4, <2>6 DEF OpenTransaction
    <3>4. Undoes(transactions[n].undo_items \o Top.undo_items, target, transactions[n].snapshot)
      BY <3>1, <3>2, <3>3, UndoesMerged
    <3>5. StateAbove(n)' = target
      BY <2>1, <2>5, <2>6 DEF StateAbove
    <3>6. QED
      BY <1>1, <2>4, <2>5, <2>6, <3>4, <3>5
  <2>7. CASE n # Depth - 1
    <3>1. n \in 1..Depth - 1 /\ n + 1 \in 1..Depth - 1
      BY <1>1, <2>5, <2>7
    <3>2. StateAbove(n)' = StateAbove(n)
      BY <1>1, <2>5, <2>7, <3>1 DEF StateAbove
    <3>3. QED
      BY <1>1, <1>4, <2>5, <2>7, <3>1, <3>2
  <2>8. QED
    BY <2>6, <2>7
<1>11. CASE Rollback
  <2>1. transactions # <<>> /\ target' = Restored(Top.undo_items, target) /\ transactions' = Below
    BY <1>11 DEF Rollback
  <2>2. Depth' = Depth - 1 /\ \A m \in 1..Depth - 1 : transactions'[m] = transactions[m]
    BY <1>2, <2>1 DEF Depth
  <2>3. target'.sources = Top.snapshot.sources /\ target'.provides = Top.snapshot.provides
    <3>1. Undoes(Top.undo_items, target, Top.snapshot)
      BY <1>2, <1>4, <2>1 DEF StateAbove, Top
    <3>2. QED
      BY <2>1, <3>1 DEF Undoes, Restored
  <2>4. n \in 1..Depth /\ n + 1 \in 1..Depth
    BY <1>1, <2>2
  <2>5. CASE n = Depth - 1
    <3>1. StateAbove(n)' = target' /\ StateAbove(n) = Top.snapshot
      BY <1>1, <2>2, <2>5 DEF StateAbove, Top
    <3>2. QED
      BY <1>4, <2>2, <2>3, <2>4, <3>1 DEF Undoes, RestoredSources, RestoredProvides
  <2>6. CASE n # Depth - 1
    <3>1. StateAbove(n)' = StateAbove(n)
      BY <1>1, <2>2, <2>4, <2>6 DEF StateAbove
    <3>2. QED
      BY <1>4, <2>2, <2>4, <3>1
  <2>7. QED
    BY <2>5, <2>6
<1>12. CASE CleanUp \/ UNCHANGED vars
  <2>1. UNCHANGED <<target, transactions>>
    BY <1>12 DEF CleanUp, vars
  <2>2. QED
    BY <1>4, <2>1 DEF StateAbove, Depth
<1>13. QED
  BY <1>7, <1>8, <1>9, <1>10, <1>11, <1>12 DEF Next

\* In every archive a transaction can be rolled back from any point to the
\* sources and the provides table it started from, also after transactions
\* nested in it were rolled back or committed into it.
THEOREM RollbackRestoresTables == Spec => []TablesRestorable
<1>1. Init => TypeOK /\ TablesRestorable
  BY InitType, InitRestorable
<1>2. TypeOK /\ TablesRestorable /\ [Next]_vars => (TypeOK /\ TablesRestorable)'
  BY NextType, NextRestorable
<1>3. QED
  BY <1>1, <1>2, PTL DEF Spec

-----------------------------------------------------------------------------
(***************************************************************************)
(* The transactions implement nested snapshots of the two tables.          *)
(***************************************************************************)

\* The refinement mapping of TableSnapshots.
Current == SourcesAndProvides(target)
Saved == [n \in 1..Depth |-> SourcesAndProvides(transactions[n].snapshot)]

Snapshot == [Source -> SourceData \cup {NoSource}] \X [Virtual -> Provided]

SavedPerTransaction ==
  /\ Depth \in Nat /\ Current \in Snapshot
  /\ Saved \in Seq(Snapshot) /\ Len(Saved) = Depth
  /\ \A n \in 1..Depth : Saved[n] = SourcesAndProvides(transactions[n].snapshot)

\* What is saved is a sequence with a snapshot for every transaction.
LEMMA SavedType == TypeOK => SavedPerTransaction
<1> SUFFICES ASSUME TypeOK PROVE SavedPerTransaction
  OBVIOUS
<1>1. transactions \in Seq(OpenTransaction) /\ Depth = Len(transactions) /\ Depth \in Nat
  BY DEF TypeOK, Depth
<1>2. \A n \in 1..Depth : transactions[n].snapshot \in Tables
  <2>1. \A n \in 1..Depth : transactions[n] \in OpenTransaction
    BY <1>1, ElementOfSeq
  <2>2. QED
    BY <2>1 DEF OpenTransaction
<1>3. \A st \in Tables : SourcesAndProvides(st) \in Snapshot
  BY DEF Tables, SourcesAndProvides, Snapshot
<1>4. Saved \in [1..Depth -> Snapshot]
  BY <1>2, <1>3 DEF Saved
<1>5. Saved \in Seq(Snapshot) /\ Len(Saved) = Depth
  BY <1>1, <1>4
<1>6. QED
  BY <1>1, <1>3, <1>5 DEF Saved, Current, TypeOK, SavedPerTransaction

\* So it is after a step.
LEMMA SavedTypeNext == TypeOK' => SavedPerTransaction'
BY SavedType, PTL

\* Every step is a step of NestedSnapshots, or leaves the two tables alone.
LEMMA NextNested ==
  TypeOK /\ TypeOK' /\ TablesRestorable /\ [Next]_vars
    => [TableSnapshots!Next]_TableSnapshots!vars
<1> SUFFICES ASSUME TypeOK, TypeOK', TablesRestorable, [Next]_vars
             PROVE  [TableSnapshots!Next]_TableSnapshots!vars
  OBVIOUS
<1> DEFINE Kept(n) == SourcesAndProvides(transactions[n].snapshot)
<1>1. /\ Depth \in Nat /\ Current \in Snapshot
      /\ Saved \in Seq(Snapshot) /\ Len(Saved) = Depth
      /\ \A n \in 1..Depth : Saved[n] = Kept(n)
  BY SavedType DEF SavedPerTransaction
<1>2. /\ Depth' \in Nat
      /\ Saved' \in Seq(Snapshot) /\ Len(Saved') = Depth'
      /\ \A n \in 1..Depth' : Saved'[n] = Kept(n)'
  BY SavedTypeNext DEF SavedPerTransaction
<1>3. /\ target \in Tables /\ transactions \in Seq(OpenTransaction)
      /\ Depth \in Nat /\ Depth <= 2 /\ Depth = Len(transactions)
  BY DEF TypeOK, Depth
<1>4. transactions # <<>> =>
        /\ Depth \in 1..Len(transactions)
        /\ Top \in OpenTransaction
        /\ Len(Below) = Depth - 1
        /\ \A n \in 1..Depth - 1 : Below[n] = transactions[n]
  BY <1>3, StackFacts DEF Top, Below, Depth
<1>5. transactions = <<>> => Depth = 0
  BY EmptySeq DEF Depth
<1>6. \A n \in 1..Depth : transactions[n] \in OpenTransaction
  BY <1>3, ElementOfSeq
<1>7. ASSUME Depth' = Depth + 1, target' = target,
             \A n \in 1..Depth : Kept(n)' = Kept(n),
             SourcesAndProvides(transactions'[Depth + 1].snapshot) = Current
      PROVE  Saved' = Append(Saved, Current) /\ UNCHANGED Current
  <2>1. /\ Append(Saved, Current) \in Seq(Snapshot) /\ Len(Append(Saved, Current)) = Depth + 1
        /\ \A n \in 1..Depth : Append(Saved, Current)[n] = Saved[n]
        /\ Append(Saved, Current)[Depth + 1] = Current
    BY <1>1, AppendProperties
  <2>2. \A n \in 1..Depth + 1 : Saved'[n] = Append(Saved, Current)[n]
    BY <1>1, <1>2, <1>7, <2>1
  <2>3. QED
    BY <1>2, <1>7, <2>1, <2>2, SeqEqual DEF Current
<1>8. ASSUME transactions # <<>>, Depth' = Depth - 1,
             \A n \in 1..Depth - 1 : Kept(n)' = Kept(n)
      PROVE  Saved # <<>> /\ Saved' = SubSeq(Saved, 1, Len(Saved) - 1)
  <2>1. Saved # <<>>
    BY <1>1, <1>4, <1>8, EmptySeq
  <2>2. /\ SubSeq(Saved, 1, Len(Saved) - 1) \in Seq(Snapshot)
        /\ Len(SubSeq(Saved, 1, Len(Saved) - 1)) = Depth - 1
        /\ \A n \in 1..Depth - 1 : SubSeq(Saved, 1, Len(Saved) - 1)[n] = Saved[n]
    BY <1>1, <2>1, StackFacts
  <2>3. \A n \in 1..Depth - 1 : Saved'[n] = SubSeq(Saved, 1, Len(Saved) - 1)[n]
    BY <1>1, <1>2, <1>8, <2>2
  <2>4. QED
    BY <1>2, <1>8, <2>1, <2>2, <2>3, SeqEqual
<1>9. ASSUME Depth' = Depth, \A n \in 1..Depth : Kept(n)' = Kept(n)
      PROVE  Saved' = Saved
  BY <1>1, <1>2, <1>9, SeqEqual
<1>10. ASSUME Saved' = Append(Saved, Current) /\ UNCHANGED Current
       PROVE  TableSnapshots!Next
  BY <1>10 DEF TableSnapshots!Next, TableSnapshots!Begin, Saved, Current
<1>11. ASSUME Saved # <<>>, Saved' = SubSeq(Saved, 1, Len(Saved) - 1), UNCHANGED Current
       PROVE  TableSnapshots!Next
  BY <1>11 DEF TableSnapshots!Next, TableSnapshots!Commit, TableSnapshots!Outer, Saved, Current
<1>12. ASSUME Saved # <<>>, Saved' = SubSeq(Saved, 1, Len(Saved) - 1),
              Current' = Saved[Len(Saved)]
       PROVE  TableSnapshots!Next
  BY <1>12 DEF TableSnapshots!Next, TableSnapshots!Rollback, TableSnapshots!Outer, Saved, Current
<1>13. ASSUME Saved' = Saved
       PROVE  TableSnapshots!Next
  BY <1>13 DEF TableSnapshots!Next, TableSnapshots!Change, Saved
<1>14. \A kind : SourcesAndProvides(Transaction(kind).snapshot) = Current
  BY DEF Transaction, Current
<1>15. CASE StartHint
  <2>1. Depth = 0 /\ Depth' = 1 /\ transactions'[1] = Transaction("hint") /\ target' = target
    BY <1>5, <1>15 DEF StartHint, Depth
  <2>2. SourcesAndProvides(transactions'[Depth + 1].snapshot) = Current
    BY <1>14, <2>1
  <2>3. QED
    BY <1>7, <1>10, <2>1, <2>2
<1>16. CASE StartComponent
  <2>1. target' = target
    BY <1>16 DEF StartComponent
  <2>2. CASE transactions = <<>> /\ transactions' = <<Transaction("component")>>
    <3>1. Depth = 0 /\ Depth' = 1 /\ transactions'[1] = Transaction("component")
      BY <1>5, <2>2 DEF Depth
    <3>2. SourcesAndProvides(transactions'[Depth + 1].snapshot) = Current
      BY <1>14, <3>1
    <3>3. QED
      BY <1>7, <1>10, <2>1, <3>1, <3>2
  <2>3. CASE /\ Depth = 1
             /\ transactions' = <<[Top EXCEPT !.kind = "recursing"], Transaction("component")>>
    <3>1. /\ Depth' = 2
          /\ transactions'[1] = [Top EXCEPT !.kind = "recursing"]
          /\ transactions'[2] = Transaction("component")
      BY <2>3 DEF Depth
    <3>2. Top = transactions[1] /\ Top \in OpenTransaction
      BY <1>6, <2>3 DEF Top
    <3>3. transactions'[1].snapshot = transactions[1].snapshot
      BY <3>1, <3>2 DEF OpenTransaction
    <3>4. /\ SourcesAndProvides(transactions'[Depth + 1].snapshot) = Current
          /\ \A n \in 1..Depth : Kept(n)' = Kept(n)
      BY <1>14, <2>3, <3>1, <3>3
    <3>5. QED
      BY <1>7, <1>10, <2>1, <2>3, <3>1, <3>4
  <2>4. QED
    BY <1>16, <2>2, <2>3 DEF StartComponent
<1>17. CASE Migrate
  <2> PICK i \in Candidates : \E smooth \in SUBSET SmoothCandidates(i) : ApplyItem(i, smooth)
    BY <1>17 DEF Migrate
  <2>1. PICK smooth \in SUBSET SmoothCandidates(i) : ApplyItem(i, smooth)
    OBVIOUS
  <2> DEFINE undo == Undo(i, Adds(i), Removes(i, smooth))
  <2>2. CASE transactions = <<>>
    <3>1. Depth' = Depth /\ Depth = 0
      BY <1>5, <2>1, <2>2 DEF ApplyItem, Depth
    <3>2. QED
      BY <1>9, <1>13, <3>1
  <2>3. CASE transactions # <<>>
    <3>1. transactions' = [transactions EXCEPT ![Depth].undo_items = Append(@, undo),
                                               ![Depth].items = @ \cup {i}]
      BY <2>1, <2>3 DEF ApplyItem
    <3> HIDE DEF undo
    <3>2. /\ Depth' = Depth
          /\ \A m \in 1..Depth : transactions'[m].snapshot = transactions[m].snapshot
      BY <1>3, <1>4, <1>6, <2>3, <3>1 DEF Depth, OpenTransaction
    <3>3. QED
      BY <1>9, <1>13, <3>2
  <2>4. QED
    BY <2>2, <2>3
<1>18. CASE Commit
  <2>1. transactions # <<>> /\ target' = target
    BY <1>18 DEF Commit
  <2>2. Depth' = Depth - 1 /\ \A n \in 1..Depth - 1 : Kept(n)' = Kept(n)
    <3>1. CASE Depth = 1
      BY <1>18, <3>1, EmptySeq DEF Commit, Depth
    <3>2. CASE Depth # 1
      <4> DEFINE log == Below[Depth - 1].undo_items \o Top.undo_items
                 items == Below[Depth - 1].items \cup Top.items
                 parent == [Below[Depth - 1] EXCEPT !.undo_items = log, !.items = items]
      <4>1. transactions' = [Below EXCEPT ![Depth - 1] = parent]
        BY <1>18, <3>2 DEF Commit
      <4>2. /\ Depth - 1 \in 1..Len(Below) /\ Below[Depth - 1] = transactions[Depth - 1]
            /\ Below \in Seq(OpenTransaction) /\ Below[Depth - 1] \in OpenTransaction
        BY <1>3, <1>4, <1>6, <2>1, <3>2, StackFacts DEF Below, Depth
      <4> HIDE DEF log, items
      <4>3. parent.snapshot = transactions[Depth - 1].snapshot
        BY <4>2 DEF OpenTransaction
      <4> HIDE DEF parent
      <4>4. /\ Len(transactions') = Len(Below)
            /\ \A m \in 1..Len(Below) :
                 transactions'[m] = IF m = Depth - 1 THEN parent ELSE Below[m]
        BY <4>1, <4>2
      <4>5. QED
        BY <1>4, <2>1, <4>3, <4>4 DEF Depth
    <3>3. QED
      BY <3>1, <3>2
  <2>3. UNCHANGED Current
    BY <2>1 DEF Current
  <2>4. QED
    BY <1>8, <1>11, <2>1, <2>2, <2>3
<1>19. CASE Rollback
  <2>1. transactions # <<>> /\ target' = Restored(Top.undo_items, target) /\ transactions' = Below
    BY <1>19 DEF Rollback
  <2>2. Depth' = Depth - 1 /\ \A n \in 1..Depth - 1 : Kept(n)' = Kept(n)
    BY <1>4, <2>1 DEF Depth
  <2>3. target'.sources = Top.snapshot.sources /\ target'.provides = Top.snapshot.provides
    <3>1. Undoes(Top.undo_items, target, Top.snapshot)
      BY <1>3, <1>4, <2>1, RestorableLevels DEF StateAbove, Top
    <3>2. QED
      BY <2>1, <3>1 DEF Undoes, Restored
  <2>4. Current' = Saved[Len(Saved)]
    BY <1>1, <1>3, <1>4, <2>1, <2>3 DEF Current, SourcesAndProvides, Top
  <2>5. QED
    BY <1>8, <1>12, <2>1, <2>2, <2>4
<1>20. CASE CleanUp \/ UNCHANGED vars
  <2>1. UNCHANGED <<target, transactions>>
    BY <1>20 DEF CleanUp, vars
  <2>2. Saved' = Saved
    BY <1>9, <2>1 DEF Depth
  <2>3. QED
    BY <1>13, <2>2
<1>21. QED
  BY <1>15, <1>16, <1>17, <1>18, <1>19, <1>20 DEF Next

\* In every archive, whatever items are tried, the hints and components of the
\* migration run behave on the sources and the provides table as nested
\* snapshots.
THEOREM TransactionsImplementSnapshots == Spec => TablesAreNested
<1>1. Init => TableSnapshots!Init
  <2>1. Init => Depth = 0 /\ Saved = [n \in 1..0 |-> SourcesAndProvides(transactions[n].snapshot)]
    BY EmptySeq DEF Init, Depth, Saved
  <2>2. Init => Saved = <<>>
    BY <2>1
  <2>3. QED
    BY <2>2 DEF TableSnapshots!Init, Saved
<1>2. QED
  BY <1>1, TypeCorrect, RollbackRestoresTables, NextNested, PTL
     DEF Spec, TablesAreNested, TableSnapshots!Spec

-----------------------------------------------------------------------------
(***************************************************************************)
(* Undoing the binaries.  It is exact only where no two items of a         *)
(* transaction touch one binary (run rollback_leak).                       *)
(***************************************************************************)

\* No item of the log takes a binary away that an earlier one of it brought.
NotRetaken(log) ==
  \A m, n \in DOMAIN log, k \in Key :
    m < n /\ k \in Keys(log[m].updated) => log[n].binaries[k] = {}

\* Nor does any of an open transaction, whatever was committed into it.
NothingRetaken == \A n \in 1..Depth : NotRetaken(transactions[n].undo_items)

Takes(log, k) == \E n \in DOMAIN log : log[n].binaries[k] # {}
Brings(log, k) == \E n \in DOMAIN log : k \in Keys(log[n].updated)

\* What is in the log of the binary k, when it turned before into after: the
\* value at first, if an item took it, and the one at last, if one brought it.
ExactAt(log, k, after, before) ==
  /\ \A n \in DOMAIN log : log[n].binaries[k] # {} =>
       log[n].binaries[k] = {before} /\ before # NoBin
  /\ \A n \in DOMAIN log : k \in Keys(log[n].updated) =>
       Pick(log[n].updated, k) = after /\ after # NoBin
  /\ IF Takes(log, k) THEN Brings(log, k) \/ after = NoBin
     ELSE IF Brings(log, k) THEN before = NoBin ELSE after = before

Exact(log, after, before) ==
  \A k \in Key : ExactAt(log, k, after.binaries[k], before.binaries[k])

\* Every binary is filed under its name, and its source, if there is one, lists
\* it, or no binary of that name (it outlived its source, which came back).
Filed(st) ==
  \A k \in Key : st.binaries[k] # NoBin =>
    /\ KeyOf(st.binaries[k]) = k
    /\ LET src == st.sources[Bin[st.binaries[k]].source]
       IN  src # NoSource => st.binaries[k] \in src.binaries \/ k \notin Keys(src.binaries)

\* The tester and the provides table agree with the binaries.
Agreeing(st) ==
  /\ st.tester = Holds(st.binaries)
  /\ \A b \in Holds(st.binaries), v \in Virtual : Entries(b, v) \subseteq st.provides[v]

Sound(st) == Filed(st) /\ Agreeing(st)

\* The invariant: present and saved suites are sound, and each log is exact.
ExactOK ==
  /\ Sound(target)
  /\ \A n \in 1..Depth : /\ Sound(transactions[n].snapshot)
                         /\ Exact(transactions[n].undo_items, StateAbove(n), transactions[n].snapshot)

\* Positions where a log takes or brings a binary.
LEMMA TakesBrings ==
  ASSUME NEW log \in Seq(UndoItem), NEW k
  PROVE  /\ Takes(log, k) <=> SavedAt(log, "binaries", k) # {}
         /\ Brings(log, k) <=> UpdatedAt(log, k) # {}
BY DEF Takes, Brings, SavedAt, UpdatedAt

\* The newest of a non-empty set of positions of a log is one of them.
LEMMA NewestExists ==
  ASSUME NEW log \in Seq(UndoItem), NEW places, places \subseteq DOMAIN log, places # {}
  PROVE  Newest(places) \in places
<1>1. places \in SUBSET Nat /\ Len(log) \in Nat /\ \A n \in places : n <= Len(log)
  OBVIOUS
<1>2. \E n \in places : \A m \in places : m <= n
  BY <1>1, Greatest
<1> QED  BY <1>2 DEF Newest

\* A log that is exact gives the binaries and the tester back.
LEMMA ExactUndoes ==
  ASSUME NEW log \in Seq(UndoItem), NEW after \in Tables, NEW before \in Tables,
         Exact(log, after, before), Sound(after), Sound(before)
  PROVE  /\ RestoredBinaries(log, after) = before.binaries
         /\ RestoredTester(log, after) = before.tester
<1>1. /\ after.binaries \in [Key -> BinId \cup {NoBin}]
      /\ before.binaries \in [Key -> BinId \cup {NoBin}]
  BY DEF Tables
<1>2. \A k \in Key : ExactAt(log, k, after.binaries[k], before.binaries[k])
  BY DEF Exact
<1>3. DOMAIN log \subseteq Nat
  OBVIOUS
<1>4. ASSUME NEW k \in Key
      PROVE  RestoredEntry(log, "binaries", k, IF UpdatedAt(log, k) # {} THEN NoBin ELSE after.binaries[k])
               = before.binaries[k]
  <2> DEFINE places == SavedAt(log, "binaries", k)
  <2>1. CASE places # {}
    <3>1. Oldest(places) \in places
      BY <1>3, <2>1, OldestExists DEF SavedAt
    <3>2. log[Oldest(places)].binaries[k] = {before.binaries[k]}
      BY <1>2, <3>1 DEF SavedAt, ExactAt
    <3>3. (CHOOSE old \in log[Oldest(places)]["binaries"][k] : TRUE) = before.binaries[k]
      BY <3>2
    <3> QED  BY <2>1, <3>3 DEF RestoredEntry
  <2>2. CASE places = {}
    <3>1. ~Takes(log, k)
      BY <2>2, TakesBrings
    <3>2. IF Brings(log, k) THEN before.binaries[k] = NoBin ELSE after.binaries[k] = before.binaries[k]
      BY <1>2, <3>1 DEF ExactAt
    <3> QED  BY <2>2, <3>2, TakesBrings DEF RestoredEntry
  <2> QED  BY <2>1, <2>2
<1>5. RestoredBinaries(log, after) = before.binaries
  BY <1>1, <1>4 DEF RestoredBinaries
<1> DEFINE gone == {j \in Key : UpdatedAt(log, j) # {} /\ after.binaries[j] # NoBin}
           deleted == {Pick(log[Newest(UpdatedAt(log, k))].updated, k) : k \in gone}
           saved == UNION {log[n].binaries[k] : n \in DOMAIN log, k \in Key}
<1>6. \A k \in gone : Pick(log[Newest(UpdatedAt(log, k))].updated, k) = after.binaries[k]
  <2> SUFFICES ASSUME NEW k \in gone
               PROVE  Pick(log[Newest(UpdatedAt(log, k))].updated, k) = after.binaries[k]
    OBVIOUS
  <2>1. Newest(UpdatedAt(log, k)) \in UpdatedAt(log, k)
    BY NewestExists DEF UpdatedAt
  <2> QED  BY <1>2, <2>1 DEF UpdatedAt, ExactAt
<1>7. \A k \in Key : Brings(log, k) => k \in gone
  BY <1>2, TakesBrings DEF ExactAt, Brings
<1>8. \A x : x \in deleted <=> \E k \in Key : Brings(log, k) /\ x = after.binaries[k]
  BY <1>6, <1>7, TakesBrings
<1>9. \A x : x \in saved <=> \E k \in Key : Takes(log, k) /\ x = before.binaries[k]
  <2>1. \A x : x \in saved <=> \E k \in Key : \E n \in DOMAIN log : x \in log[n].binaries[k]
    OBVIOUS
  <2> HIDE DEF saved
  <2>2. ASSUME NEW k \in Key, NEW x
        PROVE  (\E n \in DOMAIN log : x \in log[n].binaries[k]) <=> Takes(log, k) /\ x = before.binaries[k]
    BY <1>2 DEF ExactAt, Takes
  <2> QED  BY <2>1, <2>2
<1>10. RestoredTester(log, after) = (after.tester \ deleted) \cup saved
  BY DEF RestoredTester
<1> HIDE DEF gone, deleted, saved
<1>11. /\ after.tester = Holds(after.binaries) /\ before.tester = Holds(before.binaries)
       /\ \A k \in Key : after.binaries[k] # NoBin => KeyOf(after.binaries[k]) = k
  BY DEF Sound, Agreeing, Filed
<1>12. ASSUME NEW x PROVE x \in (after.tester \ deleted) \cup saved <=> x \in before.tester
  <2>1. ASSUME x \in before.tester PROVE x \in (after.tester \ deleted) \cup saved
    <3>1. PICK k \in Key : x = before.binaries[k] /\ x # NoBin
      BY <1>11, <2>1 DEF Holds
    <3>2. CASE Takes(log, k)
      BY <1>9, <3>1, <3>2
    <3>3. CASE ~Takes(log, k)
      <4>1. ~Brings(log, k) /\ after.binaries[k] = x
        BY <1>2, <3>1, <3>3 DEF ExactAt
      <4>2. x \in after.tester
        BY <1>11, <3>1, <4>1 DEF Holds
      <4>3. x \notin deleted
        BY <1>8, <1>11, <3>1, <4>1
      <4> QED  BY <4>2, <4>3
    <3> QED  BY <3>2, <3>3
  <2>2. ASSUME x \in saved PROVE x \in before.tester
    <3>1. PICK k \in Key : Takes(log, k) /\ x = before.binaries[k]
      BY <1>9, <2>2
    <3>2. x # NoBin
      BY <1>2, <3>1 DEF ExactAt, Takes
    <3> QED  BY <1>11, <3>1, <3>2 DEF Holds
  <2>3. ASSUME x \in after.tester, x \notin deleted PROVE x \in before.tester
    <3>1. PICK k \in Key : x = after.binaries[k] /\ x # NoBin
      BY <1>11, <2>3 DEF Holds
    <3>2. ~Brings(log, k)
      BY <1>8, <2>3, <3>1
    <3>3. ~Takes(log, k) /\ before.binaries[k] = x
      BY <1>2, <3>1, <3>2 DEF ExactAt
    <3> QED  BY <1>11, <3>1, <3>3 DEF Holds
  <2> QED  BY <2>1, <2>2, <2>3
<1>13. (after.tester \ deleted) \cup saved = before.tester
  BY <1>12
<1> QED  BY <1>5, <1>10, <1>13

\* With no log, nothing happened.
LEMMA ExactNothing ==
  ASSUME NEW st
  PROVE  Exact(<<>>, st, st)
BY DEF Exact, ExactAt, Takes, Brings

\* A step's changes to one binary, on top of an exact log.
LEMMA ExactAppended ==
  ASSUME NEW log \in Seq(UndoItem), NEW undo \in UndoItem, NEW k \in Key,
         NEW after, NEW between, NEW before,
         ExactAt(log, k, between, before),
         NotRetaken(Append(log, undo)),
         undo.binaries[k] \in {{}, {between}},
         undo.binaries[k] # {} => between # NoBin,
         k \in Keys(undo.updated) => /\ Pick(undo.updated, k) = after /\ after # NoBin
                                     /\ between # NoBin => undo.binaries[k] # {},
         k \notin Keys(undo.updated) => after = IF undo.binaries[k] # {} THEN NoBin ELSE between
  PROVE  ExactAt(Append(log, undo), k, after, before)
<1> DEFINE new == Append(log, undo)
<1>1. /\ Len(log) \in Nat /\ DOMAIN log = 1..Len(log) /\ DOMAIN new = 1..Len(log) + 1
      /\ \A n \in 1..Len(log) : new[n] = log[n]
      /\ new[Len(log) + 1] = undo
  BY AppendProperties
<1>2. \A n \in DOMAIN new : n \in DOMAIN log \/ n = Len(log) + 1
  BY <1>1
<1>3. Len(log) + 1 \in DOMAIN new /\ \A n \in DOMAIN log : n \in DOMAIN new /\ n < Len(log) + 1 /\ new[n] = log[n]
  BY <1>1
<1>4. undo.binaries[k] # {} => ~Brings(log, k)
  BY <1>1, <1>3 DEF NotRetaken, Brings
<1> HIDE DEF new
<1>5. Takes(new, k) <=> Takes(log, k) \/ undo.binaries[k] # {}
  BY <1>1, <1>2, <1>3 DEF Takes
<1>6. Brings(new, k) <=> Brings(log, k) \/ k \in Keys(undo.updated)
  BY <1>1, <1>2, <1>3 DEF Brings
<1>7. CASE undo.binaries[k] # {}
  <2>1. ~Brings(log, k) /\ ~Takes(log, k) /\ between = before
    BY <1>4, <1>7 DEF ExactAt
  <2>2. \A n \in DOMAIN log : log[n].binaries[k] = {} /\ k \notin Keys(log[n].updated)
    BY <2>1 DEF Takes, Brings
  <2> QED  BY <1>1, <1>2, <1>3, <1>5, <1>6, <1>7, <2>1, <2>2 DEF ExactAt, new
<1>8. CASE undo.binaries[k] = {} /\ k \in Keys(undo.updated)
  <2>1. between = NoBin
    BY <1>8
  <2>2. ~Brings(log, k) /\ (~Takes(log, k) => before = NoBin)
    BY <2>1 DEF ExactAt, Brings
  <2> QED  BY <1>1, <1>2, <1>3, <1>5, <1>6, <1>8, <2>1, <2>2 DEF ExactAt, Brings, new
<1>9. CASE undo.binaries[k] = {} /\ k \notin Keys(undo.updated)
  BY <1>1, <1>2, <1>3, <1>5, <1>6, <1>9 DEF ExactAt, new
<1> QED  BY <1>7, <1>8, <1>9 DEF new

\* A child's log committed into its parent's.
LEMMA ExactMerged ==
  ASSUME NEW log \in Seq(UndoItem), NEW child \in Seq(UndoItem),
         NEW after, NEW between, NEW before,
         Exact(child, after, between), Exact(log, between, before),
         NotRetaken(log \o child)
  PROVE  Exact(log \o child, after, before)
<1> DEFINE new == log \o child
<1>1. /\ new \in Seq(UndoItem) /\ Len(log) \in Nat /\ Len(child) \in Nat
      /\ Len(new) = Len(log) + Len(child)
      /\ \A n \in 1..Len(log) + Len(child) :
           new[n] = IF n <= Len(log) THEN log[n] ELSE child[n - Len(log)]
  BY ConcatProperties
<1>2. \A n \in DOMAIN log : n \in DOMAIN new /\ new[n] = log[n] /\ n <= Len(log)
  BY <1>1
<1>3. \A n \in DOMAIN child : n + Len(log) \in DOMAIN new /\ new[n + Len(log)] = child[n] /\ n + Len(log) > Len(log)
  <2> SUFFICES ASSUME NEW n \in DOMAIN child
               PROVE  n + Len(log) \in DOMAIN new /\ new[n + Len(log)] = child[n] /\ n + Len(log) > Len(log)
    OBVIOUS
  <2>1. n \in 1..Len(child) /\ n + Len(log) \in 1..Len(log) + Len(child) /\ ~(n + Len(log) <= Len(log))
    BY <1>1
  <2>2. (n + Len(log)) - Len(log) = n
    BY <1>1, <2>1
  <2> QED  BY <1>1, <2>1, <2>2
<1>4. \A n \in DOMAIN new : n \in DOMAIN log \/ (n - Len(log) \in DOMAIN child /\ new[n] = child[n - Len(log)])
  <2> SUFFICES ASSUME NEW n \in DOMAIN new, n \notin DOMAIN log
               PROVE  n - Len(log) \in DOMAIN child /\ new[n] = child[n - Len(log)]
    OBVIOUS
  <2>1. n \in 1..Len(log) + Len(child) /\ ~(n <= Len(log)) /\ n - Len(log) \in 1..Len(child)
    BY <1>1
  <2> QED  BY <1>1, <2>1
<1>5. DOMAIN log \subseteq Nat /\ DOMAIN child \subseteq Nat
  OBVIOUS
<1>6. SUFFICES ASSUME NEW k \in Key
               PROVE  ExactAt(new, k, after.binaries[k], before.binaries[k])
  BY DEF Exact
<1> DEFINE a == after.binaries[k]
           m == between.binaries[k]
           b == before.binaries[k]
<1>7. ExactAt(child, k, a, m) /\ ExactAt(log, k, m, b)
  BY DEF Exact
<1>8. Takes(child, k) => ~Brings(log, k)
  <2> SUFFICES ASSUME NEW n \in DOMAIN child, child[n].binaries[k] # {},
                      NEW l \in DOMAIN log, k \in Keys(log[l].updated)
               PROVE  FALSE
    BY DEF Takes, Brings
  <2>1. /\ l \in DOMAIN new /\ n + Len(log) \in DOMAIN new /\ l < n + Len(log)
        /\ new[l] = log[l] /\ new[n + Len(log)] = child[n]
    BY <1>1, <1>2, <1>3, <1>5
  <2> QED  BY <2>1 DEF NotRetaken
<1> HIDE DEF new, a, m, b
<1>9. Takes(new, k) <=> Takes(log, k) \/ Takes(child, k)
  BY <1>2, <1>3, <1>4 DEF Takes
<1>10. Brings(new, k) <=> Brings(log, k) \/ Brings(child, k)
  BY <1>2, <1>3, <1>4 DEF Brings
<1>11. Takes(child, k) => ~Takes(log, k) /\ m = b /\ m # NoBin
  BY <1>7, <1>8 DEF ExactAt, Takes
<1>12. Brings(log, k) => ~Takes(child, k) /\ ~Brings(child, k) /\ a = m /\ m # NoBin
  BY <1>7, <1>8 DEF ExactAt, Brings
<1>13. ASSUME NEW n \in DOMAIN new
       PROVE  /\ new[n].binaries[k] # {} => new[n].binaries[k] = {b} /\ b # NoBin
              /\ k \in Keys(new[n].updated) => Pick(new[n].updated, k) = a /\ a # NoBin
  <2>1. CASE n \in DOMAIN log
    BY <1>2, <1>7, <1>12, <2>1 DEF ExactAt, Brings
  <2>2. CASE n - Len(log) \in DOMAIN child /\ new[n] = child[n - Len(log)]
    <3> DEFINE c == child[n - Len(log)]
    <3>1. c.binaries[k] # {} => Takes(child, k)
      BY <2>2 DEF Takes
    <3>2. /\ c.binaries[k] # {} => c.binaries[k] = {m} /\ m # NoBin
          /\ k \in Keys(c.updated) => Pick(c.updated, k) = a /\ a # NoBin
      BY <1>7, <2>2 DEF ExactAt
    <3> QED  BY <1>11, <2>2, <3>1, <3>2
  <2> QED  BY <1>4, <2>1, <2>2
<1>14. IF Takes(new, k) THEN Brings(new, k) \/ a = NoBin
       ELSE IF Brings(new, k) THEN b = NoBin ELSE a = b
  BY <1>7, <1>9, <1>10, <1>11, <1>12 DEF ExactAt
<1> QED  BY <1>13, <1>14 DEF ExactAt, new, a, m, b

-----------------------------------------------------------------------------
(***************************************************************************)
(* An item applied to a sound suite.                                       *)
(***************************************************************************)

\* What leaves with a source is what the suite holds.
LEMMA LeavingHeld ==
  ASSUME TypeOK, Filed(target), NEW i \in Candidates, i.kind # "remove_cruft", Defined(i),
         NEW b \in Leaving(i)
  PROVE  b \in BinId /\ KeyOf(b) \in Key /\ target.binaries[KeyOf(b)] = b
<1> DEFINE src == target.sources[i.package]
           t == target.binaries[KeyOf(b)]
<1>1. src # NoSource /\ b \in src.binaries
  BY DEF Leaving
<1>2. Covers(i, KeyOf(b)) /\ t # NoBin /\ Bin[t].source = i.package /\ Bin[t].source_version = src.version
  BY DEF Leaving
<1>3. i \in Item /\ i.kind \in {"update", "remove_source"} /\ i.package \in Source
  BY GroupsType DEF Item
<1>4. src \in SourceData /\ b \in BinId
  BY <1>1, <1>3 DEF TypeOK, Tables, SourceData
<1>5. KeyOf(b) \in Key
  BY <1>4, DataAssumption DEF KeyOf, BinaryData
<1>6. KeyOf(t) = KeyOf(b) /\ t \in src.binaries
  <2>1. KeyOf(b) \in Keys(src.binaries)
    BY <1>1 DEF Keys
  <2> QED  BY <1>1, <1>2, <1>5, <2>1 DEF Filed
<1>7. t \in Leaving(i)
  BY <1>1, <1>2, <1>6 DEF Leaving
<1>8. \A c, d \in Leaving(i) : KeyOf(c) = KeyOf(d) => c = d
  BY <1>1, <1>3 DEF Defined
<1>9. b = t
  BY <1>6, <1>7, <1>8
<1> QED  BY <1>4, <1>5, <1>9

\* What an item removes is in the suite.
LEMMA RemovesHeld ==
  ASSUME TypeOK, Filed(target), NEW i \in Candidates, Defined(i), Permitted(i), NEW smooth,
         NEW b \in Removes(i, smooth)
  PROVE  b \in BinId /\ KeyOf(b) \in Key /\ target.binaries[KeyOf(b)] = b
<1>1. CASE i.kind = "remove_cruft"
  <2>1. b = i.bin /\ b \in BinId
    BY <1>1, GroupsType DEF Removes
  <2>2. KeyOf(b) \in Key
    BY <2>1, DataAssumption DEF KeyOf, BinaryData
  <2> QED  BY <1>1, <2>1, <2>2 DEF Permitted
<1>2. CASE i.kind # "remove_cruft"
  <2>1. b \in Leaving(i)
    BY <1>2 DEF Removes
  <2> QED  BY <1>2, <2>1, LeavingHeld
<1> QED  BY <1>1, <1>2

\* What an update adds is in its suite, of its source, and named by its key.
LEMMA UpdateAdds ==
  ASSUME NEW i \in UpgradeMe, i.kind = "update", NEW b \in Adds(i)
  PROVE  /\ b \in BinId /\ KeyOf(b) \in Key
         /\ Bin[b].source = i.package
         /\ SuiteBinaries[i.suite][KeyOf(b)] = b
         /\ Pick(Adds(i), KeyOf(b)) = b
<1>1. i \in Item /\ i.suite \in Suite /\ i.package \in Source
  BY DataAssumption DEF Item
<1>2. SuiteSources[i.suite][i.package] # NoSource /\ SuiteSources[i.suite][i.package] \in SourceData
  BY <1>1, LoaderAssumption, DataAssumption
<1>3. ASSUME NEW c \in Adds(i)
      PROVE  /\ c \in BinId /\ KeyOf(c) \in Key
             /\ Bin[c].source = i.package /\ SuiteBinaries[i.suite][KeyOf(c)] = c
  <2>1. c \in SuiteSources[i.suite][i.package].binaries /\ c \notin Hijacked(i) /\ Covers(i, KeyOf(c))
    BY DEF Adds
  <2>2. c \in BinId
    BY <1>2, <2>1 DEF SourceData
  <2>3. KeyOf(c) \in Key
    BY <2>2, DataAssumption DEF KeyOf, BinaryData
  <2>4. Bin[SuiteBinaries[i.suite][KeyOf(c)]].source = i.package
    BY <2>1 DEF Hijacked
  <2>5. SuiteBinaries[i.suite][KeyOf(c)] = c
    BY <1>1, <1>2, <2>1, <2>4, LoaderAssumption DEF KeyOf
  <2> QED  BY <2>2, <2>3, <2>4, <2>5
<1>4. KeyOf(b) \in Keys(Adds(i))
  BY DEF Keys
<1>5. Pick(Adds(i), KeyOf(b)) \in Adds(i) /\ KeyOf(Pick(Adds(i), KeyOf(b))) = KeyOf(b)
  BY <1>4, PickInSet
<1>6. Pick(Adds(i), KeyOf(b)) = b
  BY <1>3, <1>5
<1> QED  BY <1>3, <1>6

\* Where an item that is tried comes from.
LEMMA CandidateKinds ==
  ASSUME TypeOK, NEW i \in Candidates
  PROVE  /\ i.kind = "update" => i \in UpgradeMe \ Selected
         /\ i.kind = "remove_source" => i \in UpgradeMe \/ i \in ObsoleteItems
         /\ i.kind = "remove_cruft" => i \in CruftItems
<1>1. i \in UpgradeMe \ Selected \/ i \in CruftItems \/ i \in ObsoleteItems
  <2>1. OldLibraries \subseteq CruftItems
    BY DEF OldLibraries
  <2> QED  BY <2>1 DEF Candidates, TypeOK
<1>2. (i \in CruftItems => i.kind = "remove_cruft") /\ (i \in ObsoleteItems => i.kind = "remove_source")
  BY DEF CruftItems, ObsoleteItems
<1> QED  BY <1>1, <1>2, LoaderAssumption

\* What an item adds, if it adds anything.
LEMMA AddsFiled ==
  ASSUME TypeOK, NEW i \in Candidates, NEW b \in Adds(i)
  PROVE  /\ i \in UpgradeMe /\ i.kind = "update"
         /\ b \in BinId /\ KeyOf(b) \in Key
         /\ Bin[b].source = i.package
         /\ SuiteBinaries[i.suite][KeyOf(b)] = b
         /\ Pick(Adds(i), KeyOf(b)) = b
<1>1. i.kind = "update"
  BY DEF Adds
<1> QED  BY <1>1, CandidateKinds, UpdateAdds

\* The source of an item, unless it is removed, has what was not removed of its
\* binaries, and what was added.
LEMMA NewSourceThere ==
  ASSUME TypeOK, NEW i \in Candidates, Defined(i), i.kind # "remove_source", NEW smooth
  PROVE  LET adds == Adds(i)
             rms == Removes(i, smooth)
             old == target.sources[SourceName(i)]
         IN  /\ NewSource(i, adds, rms) # NoSource
             /\ NewSource(i, adds, rms).binaries = (IF old = NoSource THEN {} ELSE old.binaries \ rms) \cup adds
<1> DEFINE adds == Adds(i)
           rms == Removes(i, smooth)
           s == SourceName(i)
           old == target.sources[s]
           bins == (IF old = NoSource THEN {} ELSE old.binaries \ rms) \cup adds
           version == IF i.kind = "update" THEN SuiteSources[i.suite][s].version ELSE old.version
<1>1. /\ i \in Item /\ s \in Source
      /\ i.kind = "update" => SuiteSources[i.suite][i.package] \in SourceData
      /\ adds \subseteq BinId /\ rms \subseteq BinId
  BY GroupsType
<1>2. target.sources \in [Source -> SourceData \cup {NoSource}]
  BY DEF TypeOK, Tables
<1>3. i.kind = "update" \/ old # NoSource
  BY <1>1 DEF Item, Defined, SourceName
<1>4. i.kind = "update" => s = i.package
  BY DEF SourceName
<1>5. bins \subseteq BinId
  BY <1>1, <1>2 DEF SourceData
<1>6. version \in Nat
  BY <1>1, <1>2, <1>3, <1>4 DEF SourceData
<1>7. NewSource(i, adds, rms) = [version |-> version, binaries |-> bins]
  BY DEF NewSource
<1> HIDE DEF bins, version
<1>8. [version |-> version, binaries |-> bins] \in SourceData
  BY <1>5, <1>6 DEF SourceData
<1>9. NewSource(i, adds, rms) # NoSource
  BY <1>7, <1>8, DataAssumption
<1>10. NewSource(i, adds, rms).binaries = bins
  BY <1>7
<1> QED  BY <1>9, <1>10 DEF bins

\* The binaries after an item: each is filed with its source.
LEMMA FiledApplied ==
  ASSUME TypeOK, Filed(target), NEW i \in Candidates, Defined(i), Permitted(i), NEW smooth
  PROVE  Filed(Applied(i, Adds(i), Removes(i, smooth)))
<1> DEFINE adds == Adds(i)
           rms == Removes(i, smooth)
           new == Applied(i, adds, rms)
           s == SourceName(i)
           old == target.sources[s]
<1>1. /\ i \in Item /\ s \in Source
      /\ i.kind = "update" => SuiteSources[i.suite][i.package] \in SourceData
      /\ adds \subseteq BinId /\ rms \subseteq BinId
  BY GroupsType
<1>2. /\ target.sources \in [Source -> SourceData \cup {NoSource}]
      /\ target.binaries \in [Key -> BinId \cup {NoBin}]
  BY DEF TypeOK, Tables
<1>3. \A b \in adds : /\ i \in UpgradeMe /\ i.kind = "update" /\ KeyOf(b) \in Key
                      /\ Bin[b].source = i.package
  BY AddsFiled
<1>4. /\ i.kind \in {"update", "remove_source", "remove_cruft"}
      /\ i.kind = "update" => s = i.package /\ i.package \in Source
      /\ i.kind = "remove_source" => s = i.package
      /\ i.kind = "remove_cruft" => old # NoSource
  BY <1>1 DEF Item, SourceName, Defined
<1>5. i.kind # "remove_source" =>
        /\ NewSource(i, adds, rms) # NoSource
        /\ NewSource(i, adds, rms).binaries = (IF old = NoSource THEN {} ELSE old.binaries \ rms) \cup adds
  BY NewSourceThere
<1>6. new.sources = [target.sources EXCEPT ![s] = NewSource(i, adds, rms)] /\ new.binaries = NewBinaries(adds, rms)
  BY DEF Applied
<1> SUFFICES ASSUME NEW k \in Key, new.binaries[k] # NoBin
             PROVE  LET b == new.binaries[k]
                        src == new.sources[Bin[b].source]
                    IN  /\ KeyOf(b) = k
                        /\ src # NoSource => b \in src.binaries \/ k \notin Keys(src.binaries)
  BY DEF Filed
<1> HIDE DEF adds, rms, new, s
<1>9. CASE k \in Keys(adds)
  <2>1. new.binaries[k] = Pick(adds, k)
    BY <1>6, <1>9 DEF NewBinaries
  <2>2. Pick(adds, k) \in adds /\ KeyOf(Pick(adds, k)) = k
    BY <1>9, PickInSet
  <2>3. Bin[Pick(adds, k)].source = s /\ i.kind = "update"
    BY <1>3, <1>4, <2>2
  <2>4. new.sources[s] = NewSource(i, adds, rms)
    BY <1>1, <1>2, <1>6
  <2> QED  BY <1>5, <2>1, <2>2, <2>3, <2>4
<1>10. CASE k \notin Keys(adds)
  <2> DEFINE t == target.binaries[k]
             p == Bin[t].source
  <2>1. k \notin Keys(rms) /\ new.binaries[k] = t
    BY <1>6, <1>10 DEF NewBinaries
  <2>2. t # NoBin /\ t \in BinId
    BY <1>2, <2>1
  <2>3. /\ KeyOf(t) = k /\ p \in Source
        /\ LET src == target.sources[p]
           IN  src # NoSource => t \in src.binaries \/ k \notin Keys(src.binaries)
    BY <2>2, DataAssumption DEF Filed, BinaryData
  <2>4. t \notin rms
    BY <2>1, <2>3 DEF Keys
  <2>5. CASE p # s
    <3>1. new.sources[p] = target.sources[p]
      BY <1>2, <1>6, <2>3, <2>5
    <3> QED  BY <2>1, <2>3, <3>1
  <2>6. CASE p = s
    <3>1. new.sources[p] = NewSource(i, adds, rms)
      BY <1>1, <1>2, <1>6, <2>6
    <3>2. CASE i.kind = "remove_source"
      <4>1. new.sources[p] = NoSource
        BY <3>1, <3>2 DEF NewSource
      <4> QED  BY <2>1, <2>3, <4>1
    <3>3. CASE i.kind # "remove_source"
      <4> DEFINE bins == (IF old = NoSource THEN {} ELSE old.binaries \ rms) \cup adds
      <4>1. new.sources[p].binaries = bins
        BY <1>5, <3>1, <3>3
      <4>2. t \in bins \/ k \notin Keys(bins)
        <5>1. CASE old = NoSource
          BY <1>10, <5>1
        <5>2. CASE old # NoSource /\ t \in old.binaries
          BY <2>4, <5>2
        <5>3. CASE old # NoSource /\ k \notin Keys(old.binaries)
          BY <1>10, <5>3 DEF Keys
        <5> QED  BY <2>3, <2>6, <5>1, <5>2, <5>3
      <4> HIDE DEF bins
      <4> QED  BY <2>1, <2>3, <4>1, <4>2
    <3> QED  BY <3>2, <3>3
  <2> QED  BY <2>5, <2>6
<1> QED  BY <1>9, <1>10

\* The tester and the provides table after an item.
LEMMA AgreeingApplied ==
  ASSUME TypeOK, Sound(target), NEW i \in Candidates, Defined(i), Permitted(i), NEW smooth
  PROVE  Agreeing(Applied(i, Adds(i), Removes(i, smooth)))
<1> DEFINE adds == Adds(i)
           rms == Removes(i, smooth)
           new == Applied(i, adds, rms)
<1>1. /\ target.binaries \in [Key -> BinId \cup {NoBin}] /\ NoBin \notin BinId
      /\ target.tester = Holds(target.binaries)
      /\ \A b \in Holds(target.binaries), v \in Virtual : Entries(b, v) \subseteq target.provides[v]
      /\ \A k \in Key : target.binaries[k] # NoBin => KeyOf(target.binaries[k]) = k
      /\ adds \subseteq BinId
  BY GroupsType, DataAssumption DEF TypeOK, Tables, Sound, Agreeing, Filed
<1>2. \A b \in adds : KeyOf(b) \in Key /\ Pick(adds, KeyOf(b)) = b
  BY AddsFiled
<1>3. \A b \in rms : b \in BinId /\ KeyOf(b) \in Key /\ target.binaries[KeyOf(b)] = b
  BY RemovesHeld DEF Sound
<1>4. /\ new.binaries = NewBinaries(adds, rms) /\ new.provides = NewProvides(adds, rms)
      /\ new.tester = NewTester(adds, rms)
  BY DEF Applied
<1> HIDE DEF adds, rms, new
<1>5. \A b \in adds : KeyOf(b) \in Keys(adds)
  BY DEF Keys
<1>6. \A b \in rms : KeyOf(b) \in Keys(rms)
  BY DEF Keys
<1>7. \A k \in Keys(adds) : k \in Key /\ Pick(adds, k) \in adds /\ KeyOf(Pick(adds, k)) = k
  BY <1>2, PickInSet DEF Keys
<1>8. \A k \in Keys(rms) : k \in Key /\ target.binaries[k] \in rms
  BY <1>3 DEF Keys
<1>9. \A x : x \in Holds(new.binaries) <=>
        \/ x \in adds
        \/ \E k \in Key : k \notin Keys(adds) /\ k \notin Keys(rms) /\ x = target.binaries[k] /\ x # NoBin
  <2> SUFFICES ASSUME NEW x
               PROVE  x \in Holds(new.binaries) <=>
                        \/ x \in adds
                        \/ \E k \in Key : k \notin Keys(adds) /\ k \notin Keys(rms) /\ x = target.binaries[k] /\ x # NoBin
    OBVIOUS
  <2>1. x \in Holds(new.binaries) <=> x # NoBin /\ \E k \in Key : x = new.binaries[k]
    BY DEF Holds
  <2>2. \A k \in Key : new.binaries[k] = IF k \in Keys(adds) THEN Pick(adds, k)
                                          ELSE IF k \in Keys(rms) THEN NoBin
                                          ELSE target.binaries[k]
    BY <1>4 DEF NewBinaries
  <2>3. ASSUME x \in adds PROVE x # NoBin /\ \E k \in Key : x = new.binaries[k]
    <3>1. KeyOf(x) \in Key /\ new.binaries[KeyOf(x)] = x
      BY <1>2, <1>5, <2>2, <2>3
    <3> QED  BY <1>1, <2>3, <3>1
  <2>4. ASSUME NEW k \in Key, k \in Keys(adds) PROVE new.binaries[k] \in adds
    BY <1>7, <2>2, <2>4
  <2> QED  BY <2>1, <2>2, <2>3, <2>4
<1>10. new.tester = Holds(new.binaries)
  <2> DEFINE out == rms \cup {target.binaries[k] : k \in Replaced(adds, rms)}
  <2>1. new.tester = (target.tester \ out) \cup adds
    BY <1>4 DEF NewTester
  <2>2. \A x : x \in target.tester <=> x # NoBin /\ \E k \in Key : x = target.binaries[k]
    BY <1>1 DEF Holds
  <2>3. ASSUME NEW k \in Key, target.binaries[k] # NoBin
        PROVE  target.binaries[k] \in out <=> k \in Keys(rms) \/ k \in Keys(adds)
    <3>1. ASSUME k \in Keys(rms) PROVE target.binaries[k] \in out
      BY <1>8, <3>1
    <3>2. ASSUME k \in Keys(adds), k \notin Keys(rms) PROVE target.binaries[k] \in out
      BY <2>3, <3>2 DEF Replaced
    <3>3. ASSUME target.binaries[k] \in rms PROVE k \in Keys(rms)
      BY <1>1, <1>6, <2>3, <3>3
    <3>4. ASSUME NEW j \in Replaced(adds, rms), target.binaries[k] = target.binaries[j]
          PROVE  k \in Keys(adds)
      <4>1. j \in Keys(adds) /\ j \in Key
        BY <1>7 DEF Replaced
      <4>2. j = k
        BY <1>1, <2>3, <3>4, <4>1
      <4> QED  BY <4>1, <4>2
    <3> QED  BY <3>1, <3>2, <3>3, <3>4
  <2> HIDE DEF out
  <2>4. ASSUME NEW x PROVE x \in new.tester <=> x \in Holds(new.binaries)
    BY <1>9, <2>1, <2>2, <2>3
  <2> QED  BY <2>4
<1>11. ASSUME NEW b \in Holds(new.binaries), NEW v \in Virtual
       PROVE  Entries(b, v) \subseteq new.provides[v]
  <2>1. new.provides[v] = (target.provides[v] \ EntriesOf(Removed(rms), v)) \cup EntriesOf(adds, v)
    BY <1>4 DEF NewProvides
  <2>2. CASE b \in adds
    <3>1. Entries(b, v) \subseteq EntriesOf(adds, v)
      BY <2>2 DEF EntriesOf
    <3> QED  BY <2>1, <3>1
  <2>3. CASE b \notin adds
    <3>1. PICK k \in Key : k \notin Keys(adds) /\ k \notin Keys(rms) /\ b = target.binaries[k] /\ b # NoBin
      BY <1>9, <2>3
    <3>2. Entries(b, v) \subseteq target.provides[v] /\ KeyOf(b) = k
      BY <1>1, <3>1 DEF Holds
    <3>3. ASSUME NEW e \in Entries(b, v), e \in EntriesOf(Removed(rms), v) PROVE FALSE
      <4>1. PICK c \in Removed(rms) : e \in Entries(c, v)
        BY <3>3 DEF EntriesOf
      <4>2. PICK j \in Keys(rms) : c = target.binaries[j]
        BY DEF Removed
      <4>3. KeyOf(c) = j
        BY <1>3, <1>8, <4>2 DEF Keys
      <4>4. e[1] = KeyOf(b) /\ e[1] = KeyOf(c)
        BY <3>3, <4>1 DEF Entries
      <4> QED  BY <3>1, <3>2, <4>3, <4>4
    <3> QED  BY <2>1, <3>2, <3>3
  <2> QED  BY <2>2, <2>3
<1> QED  BY <1>10, <1>11 DEF Agreeing, adds, rms, new

\* The log with the undo item of an item is exact.
LEMMA ExactApplied ==
  ASSUME TypeOK, Sound(target), NEW i \in Candidates, Defined(i), Permitted(i), NEW smooth,
         NEW log \in Seq(UndoItem), NEW before, Exact(log, target, before),
         NotRetaken(Append(log, Undo(i, Adds(i), Removes(i, smooth))))
  PROVE  Exact(Append(log, Undo(i, Adds(i), Removes(i, smooth))),
               Applied(i, Adds(i), Removes(i, smooth)), before)
<1> DEFINE adds == Adds(i)
           rms == Removes(i, smooth)
           new == Applied(i, adds, rms)
           undo == Undo(i, adds, rms)
<1>1. undo \in UndoItem
  BY AppliedType
<1>2. \A b \in adds : b \in BinId /\ KeyOf(b) \in Key /\ Pick(adds, KeyOf(b)) = b
  BY AddsFiled
<1>3. \A b \in rms : b \in BinId /\ KeyOf(b) \in Key /\ target.binaries[KeyOf(b)] = b
  BY RemovesHeld DEF Sound
<1>4. new.binaries = NewBinaries(adds, rms) /\ undo.updated = adds
  BY DEF Applied, Undo
<1>5. \A k \in Key : undo.binaries[k] = IF k \in Keys(rms) THEN {Pick(rms, k)}
                                        ELSE IF k \in Replaced(adds, rms) THEN {target.binaries[k]}
                                        ELSE {}
  BY DEF Undo
<1>6. NoBin \notin BinId
  BY DataAssumption
<1> HIDE DEF adds, rms, new, undo
<1> SUFFICES ASSUME NEW k \in Key PROVE ExactAt(Append(log, undo), k, new.binaries[k], before.binaries[k])
  BY DEF Exact, adds, rms, new, undo
<1>7. k \in Keys(adds) => Pick(adds, k) \in BinId
  BY <1>2, PickInSet
<1>8. k \in Keys(rms) => Pick(rms, k) = target.binaries[k] /\ target.binaries[k] \in BinId
  BY <1>3, PickInSet
<1>9. new.binaries[k] = IF k \in Keys(adds) THEN Pick(adds, k)
                        ELSE IF k \in Keys(rms) THEN NoBin
                        ELSE target.binaries[k]
  BY <1>4 DEF NewBinaries
<1>10. k \in Replaced(adds, rms) <=> k \in Keys(adds) /\ k \notin Keys(rms) /\ target.binaries[k] # NoBin
  BY DEF Replaced
<1>11. undo.binaries[k] \in {{}, {target.binaries[k]}} /\ (undo.binaries[k] # {} => target.binaries[k] # NoBin)
  BY <1>5, <1>6, <1>8, <1>10
<1>12. k \in Keys(adds) => /\ Pick(adds, k) = new.binaries[k] /\ new.binaries[k] # NoBin
                           /\ target.binaries[k] # NoBin => undo.binaries[k] # {}
  BY <1>5, <1>6, <1>7, <1>9, <1>10
<1>13. k \notin Keys(adds) => new.binaries[k] = IF undo.binaries[k] # {} THEN NoBin ELSE target.binaries[k]
  BY <1>5, <1>9, <1>10
<1>14. ExactAt(log, k, target.binaries[k], before.binaries[k])
  BY DEF Exact
<1>15. NotRetaken(Append(log, undo))
  BY DEF undo, adds, rms
<1> QED  BY <1>1, <1>4, <1>11, <1>12, <1>13, <1>14, <1>15, ExactAppended

-----------------------------------------------------------------------------
(***************************************************************************)
(* What a step does to the stack.                                          *)
(***************************************************************************)

Log(n) == transactions[n].undo_items
Start(n) == transactions[n].snapshot
Items(n) == transactions[n].items
NewLog(n) == transactions'[n].undo_items
NewStart(n) == transactions'[n].snapshot
NewItems(n) == transactions'[n].items
NewAbove(n) == IF n = Depth' THEN target' ELSE NewStart(n + 1)

\* What has migrated when the items up to a level are counted.
Chosen(n) == all_selected \cup UNION {Items(m) : m \in 1..n}
NewChosen(n) == all_selected' \cup UNION {NewItems(m) : m \in 1..n}

SameStart(levels) == \A n \in levels : NewStart(n) = Start(n)
SameLog(levels) == \A n \in levels : NewLog(n) = Log(n)
KeepsItems(levels) == \A n \in levels : Items(n) \subseteq NewItems(n)
SameChosen(levels) == \A n \in levels : NewChosen(n) = Chosen(n)

Begins ==
  /\ Depth' = Depth + 1 /\ target' = target
  /\ SameStart(1..Depth) /\ SameLog(1..Depth) /\ KeepsItems(1..Depth)
  /\ NewStart(Depth') = target /\ NewLog(Depth') = <<>>
  /\ SameChosen(0..Depth) /\ NewChosen(Depth') = Chosen(Depth) /\ phase' = phase

Changes ==
  \E i \in Candidates : \E smooth \in SUBSET SmoothCandidates(i) :
    /\ Defined(i) /\ Permitted(i)
    /\ Depth' = Depth /\ target' = Applied(i, Adds(i), Removes(i, smooth))
    /\ SameStart(1..Depth) /\ SameLog(1..Depth - 1) /\ KeepsItems(1..Depth)
    /\ Depth # 0 => /\ NewLog(Depth) = Append(Log(Depth), Undo(i, Adds(i), Removes(i, smooth)))
                    /\ i \in NewItems(Depth)
    /\ SameChosen(0..Depth - 1) /\ NewChosen(Depth) = Chosen(Depth) \cup {i} /\ phase' = phase

Commits ==
  /\ Depth # 0 /\ Depth' = Depth - 1 /\ target' = target
  /\ SameStart(1..Depth - 1) /\ SameLog(1..Depth - 2) /\ KeepsItems(1..Depth - 1)
  /\ Depth # 1 => /\ NewLog(Depth') = Log(Depth - 1) \o Log(Depth)
                  /\ Items(Depth) \subseteq NewItems(Depth')
  /\ SameChosen(0..Depth - 2) /\ NewChosen(Depth') = Chosen(Depth) /\ phase' = phase

RollsBack ==
  /\ Depth # 0 /\ Depth' = Depth - 1 /\ target' = Restored(Log(Depth), target)
  /\ SameStart(1..Depth - 1) /\ SameLog(1..Depth - 1) /\ KeepsItems(1..Depth - 1)
  /\ SameChosen(0..Depth - 1) /\ phase' = phase

Stays ==
  /\ UNCHANGED <<target, transactions, all_selected>>
  /\ phase' # phase => phase' # "runs"

\* Levels of the stack are well typed.
LEMMA LevelTypes ==
  TypeOK => /\ Depth \in Nat /\ Depth = Len(transactions) /\ transactions \in Seq(OpenTransaction)
            /\ (Depth = 0 <=> transactions = <<>>)
            /\ \A n \in 1..Depth : Log(n) \in Seq(UndoItem) /\ Start(n) \in Tables /\ transactions[n] \in OpenTransaction
<1> SUFFICES ASSUME TypeOK
             PROVE  /\ Depth \in Nat /\ Depth = Len(transactions) /\ transactions \in Seq(OpenTransaction)
                    /\ (Depth = 0 <=> transactions = <<>>)
                    /\ \A n \in 1..Depth : Log(n) \in Seq(UndoItem) /\ Start(n) \in Tables /\ transactions[n] \in OpenTransaction
  OBVIOUS
<1>1. transactions \in Seq(OpenTransaction) /\ Depth = Len(transactions) /\ Depth \in Nat
  BY DEF TypeOK, Depth
<1>2. \A n \in 1..Depth : transactions[n] \in OpenTransaction
  BY <1>1, ElementOfSeq
<1>3. Depth = 0 <=> transactions = <<>>
  BY <1>1, EmptySeq
<1> QED  BY <1>1, <1>2, <1>3 DEF Log, Start, OpenTransaction

LEMMA ChosenIs ==
  /\ Chosen(0) = all_selected /\ NewChosen(0) = all_selected'
  /\ Chosen(1) = all_selected \cup Items(1) /\ NewChosen(1) = all_selected' \cup NewItems(1)
  /\ \A n \in Nat \ {0} : /\ Chosen(n) = Chosen(n - 1) \cup Items(n)
                         /\ NewChosen(n) = NewChosen(n - 1) \cup NewItems(n)
  /\ \A n \in Nat : all_selected' = all_selected /\ (\A m \in 1..n : NewItems(m) = Items(m)) =>
       NewChosen(n) = Chosen(n)
<1>1. \A n \in Nat \ {0} : 1..n = (1..n - 1) \cup {n}
  OBVIOUS
<1>2. 1..0 = {} /\ 1..1 = {1}
  OBVIOUS
<1>3. ASSUME NEW n \in Nat \ {0}
      PROVE  /\ Chosen(n) = Chosen(n - 1) \cup Items(n)
             /\ NewChosen(n) = NewChosen(n - 1) \cup NewItems(n)
  BY <1>1 DEF Chosen, NewChosen
<1>4. /\ Chosen(0) = all_selected /\ NewChosen(0) = all_selected'
      /\ Chosen(1) = all_selected \cup Items(1) /\ NewChosen(1) = all_selected' \cup NewItems(1)
  BY <1>2 DEF Chosen, NewChosen
<1> QED  BY <1>3, <1>4 DEF Chosen, NewChosen

\* Every step begins or ends a transaction, or changes the suite in the one on top.
LEMMA StackMoves ==
  TypeOK /\ [Next]_vars => Begins \/ Changes \/ Commits \/ RollsBack \/ Stays
<1> SUFFICES ASSUME TypeOK, [Next]_vars
             PROVE  Begins \/ Changes \/ Commits \/ RollsBack \/ Stays
  OBVIOUS
<1>1. /\ Depth \in Nat /\ Depth = Len(transactions) /\ transactions \in Seq(OpenTransaction)
      /\ (Depth = 0 <=> transactions = <<>>)
      /\ \A n \in 1..Depth : transactions[n] \in OpenTransaction
  BY LevelTypes
<1>2. transactions # <<>> =>
        /\ Depth \in 1..Depth /\ Top = transactions[Depth] /\ Top \in OpenTransaction
        /\ Below \in Seq(OpenTransaction) /\ Len(Below) = Depth - 1
        /\ \A n \in 1..Depth - 1 : Below[n] = transactions[n]
  BY <1>1, StackFacts DEF Top, Below
<1>3. \A kind : Transaction(kind).undo_items = <<>> /\ Transaction(kind).snapshot = target
  BY DEF Transaction
<1>4. CASE StartHint
  <2>1. Depth = 0 /\ target' = target /\ transactions' = <<Transaction("hint")>>
    BY <1>1, <1>4 DEF StartHint
  <2>2. Depth' = 1 /\ transactions'[1] = Transaction("hint")
    BY <2>1 DEF Depth
  <2>3. NewItems(1) = {} /\ all_selected' = all_selected /\ phase' = phase
    BY <1>4, <2>2 DEF StartHint, NewItems, Transaction
  <2>4. NewChosen(0) = Chosen(0) /\ NewChosen(1) = Chosen(0)
    BY <2>3, ChosenIs
  <2> QED  BY <1>3, <2>1, <2>2, <2>3, <2>4 DEF Begins, SameStart, SameLog, KeepsItems, SameChosen, Start, Log, Items, NewStart, NewLog, NewItems
<1>5. CASE StartComponent
  <2>1. target' = target /\ all_selected' = all_selected /\ phase' = phase
    BY <1>5 DEF StartComponent
  <2>2. CASE transactions = <<>> /\ transactions' = <<Transaction("component")>>
    <3>1. Depth = 0 /\ Depth' = 1 /\ transactions'[1] = Transaction("component")
      BY <1>1, <2>2 DEF Depth
    <3>2. NewItems(1) = {}
      BY <3>1 DEF NewItems, Transaction
    <3>3. NewChosen(0) = Chosen(0) /\ NewChosen(1) = Chosen(0)
      BY <2>1, <3>2, ChosenIs
    <3> QED  BY <1>3, <2>1, <3>1, <3>3 DEF Begins, SameStart, SameLog, KeepsItems, SameChosen, Start, Log, Items, NewStart, NewLog, NewItems
  <2>3. CASE /\ Depth = 1
             /\ transactions' = <<[Top EXCEPT !.kind = "recursing"], Transaction("component")>>
    <3>1. /\ Depth' = 2
          /\ transactions'[1] = [Top EXCEPT !.kind = "recursing"]
          /\ transactions'[2] = Transaction("component")
      BY <2>3 DEF Depth
    <3>2. Top = transactions[1] /\ Top \in OpenTransaction
      BY <1>1, <1>2, <2>3
    <3>3. /\ transactions'[1].undo_items = transactions[1].undo_items
          /\ transactions'[1].snapshot = transactions[1].snapshot
          /\ transactions'[1].items = transactions[1].items
      BY <3>1, <3>2 DEF OpenTransaction
    <3>4. NewItems(1) = Items(1) /\ NewItems(2) = {}
      BY <3>1, <3>3 DEF NewItems, Items, Transaction
    <3>5. NewChosen(0) = Chosen(0) /\ NewChosen(1) = Chosen(1) /\ NewChosen(2) = Chosen(1)
      BY <2>1, <3>4, ChosenIs
    <3>6. 0..1 = {0, 1}
      OBVIOUS
    <3> QED  BY <1>3, <2>1, <2>3, <3>1, <3>3, <3>5, <3>6 DEF Begins, SameStart, SameLog, KeepsItems, SameChosen, Start, Log, Items, NewStart, NewLog, NewItems
  <2> QED  BY <1>5, <2>2, <2>3 DEF StartComponent
<1>6. CASE Migrate
  <2> PICK i \in Candidates : \E smooth \in SUBSET SmoothCandidates(i) : ApplyItem(i, smooth)
    BY <1>6 DEF Migrate
  <2>1. PICK smooth \in SUBSET SmoothCandidates(i) : ApplyItem(i, smooth)
    OBVIOUS
  <2> DEFINE undo == Undo(i, Adds(i), Removes(i, smooth))
  <2>2. Defined(i) /\ Permitted(i) /\ target' = Applied(i, Adds(i), Removes(i, smooth)) /\ phase' = phase
    BY <2>1 DEF ApplyItem
  <2>3. CASE transactions = <<>>
    <3>1. transactions' = transactions
      BY <2>1, <2>3 DEF ApplyItem
    <3>2. Depth = 0 /\ Depth' = 0
      BY <1>1, <2>3, <3>1 DEF Depth
    <3>3. all_selected' = all_selected \cup {i}
      BY <2>1, <2>3 DEF ApplyItem
    <3>4. NewChosen(0) = Chosen(0) \cup {i}
      BY <3>3, ChosenIs
    <3> QED  BY <2>2, <3>2, <3>4 DEF Changes, SameStart, SameLog, KeepsItems, SameChosen
  <2>4. CASE transactions # <<>>
    <3>1. transactions' = [transactions EXCEPT ![Depth].undo_items = Append(@, undo),
                                               ![Depth].items = @ \cup {i}]
      BY <2>1, <2>4 DEF ApplyItem
    <3> HIDE DEF undo
    <3>2. /\ Depth' = Depth
          /\ \A m \in 1..Depth : transactions'[m].snapshot = transactions[m].snapshot
          /\ \A m \in 1..Depth : m # Depth => transactions'[m] = transactions[m]
          /\ transactions'[Depth].undo_items = Append(transactions[Depth].undo_items, undo)
          /\ transactions'[Depth].items = transactions[Depth].items \cup {i}
      BY <1>1, <1>2, <2>4, <3>1 DEF Depth, OpenTransaction
    <3>3. \A m \in 1..Depth - 1 : m \in 1..Depth /\ m # Depth
      BY <1>1
    <3>4. /\ SameStart(1..Depth) /\ SameLog(1..Depth - 1) /\ KeepsItems(1..Depth)
          /\ NewLog(Depth) = Append(Log(Depth), undo) /\ i \in NewItems(Depth)
      BY <3>2, <3>3 DEF SameStart, SameLog, KeepsItems, Start, Log, Items, NewStart, NewLog, NewItems
    <3>5. all_selected' = all_selected
      BY <2>1, <2>4 DEF ApplyItem
    <3>6. transactions'[Depth].items = transactions[Depth].items \cup {i}
      BY <1>1, <1>2, <2>4, <3>1 DEF OpenTransaction
    <3>7. NewItems(Depth) = Items(Depth) \cup {i} /\ \A m \in 1..Depth - 1 : NewItems(m) = Items(m)
      BY <3>2, <3>3, <3>6 DEF NewItems, Items
    <3>8. SameChosen(0..Depth - 1)
      <4> SUFFICES ASSUME NEW n \in 0..Depth - 1 PROVE NewChosen(n) = Chosen(n)
        BY DEF SameChosen
      <4>1. n \in Nat /\ \A m \in 1..n : m \in 1..Depth - 1
        BY <1>1
      <4> QED  BY <3>5, <3>7, <4>1, ChosenIs
    <3>9. NewChosen(Depth) = Chosen(Depth) \cup {i}
      <4>1. Depth \in Nat \ {0} /\ Depth - 1 \in 0..Depth - 1
        BY <1>1, <2>4
      <4> QED  BY <3>7, <3>8, <4>1, ChosenIs DEF SameChosen
    <3> QED  BY <2>2, <3>2, <3>4, <3>8, <3>9 DEF Changes, undo
  <2> QED  BY <2>3, <2>4
<1>7. CASE Commit
  <2>1. transactions # <<>> /\ target' = target /\ phase' = phase
    BY <1>7 DEF Commit
  <2>2. CASE Depth = 1
    <3>1. transactions' = <<>>
      BY <1>7, <2>2 DEF Commit
    <3>2. Depth' = 0
      BY <3>1, EmptySeq DEF Depth
    <3>3. all_selected' = all_selected \cup Items(1)
      BY <1>2, <1>7, <2>1, <2>2 DEF Commit, Items
    <3>4. NewChosen(0) = Chosen(1)
      BY <3>3, ChosenIs
    <3> QED  BY <2>1, <2>2, <3>2, <3>4 DEF Commits, SameStart, SameLog, KeepsItems, SameChosen
  <2>3. CASE Depth # 1
    <3> DEFINE log == Below[Depth - 1].undo_items \o Top.undo_items
               items == Below[Depth - 1].items \cup Top.items
               parent == [Below[Depth - 1] EXCEPT !.undo_items = log, !.items = items]
    <3>1. transactions' = [Below EXCEPT ![Depth - 1] = parent]
      BY <1>7, <2>3 DEF Commit
    <3>2. Depth - 1 \in 1..Len(Below) /\ Below[Depth - 1] = transactions[Depth - 1]
      BY <1>1, <1>2, <2>1, <2>3
    <3>3. Below[Depth - 1] \in OpenTransaction
      BY <1>1, <1>2, <2>1, <3>2
    <3> HIDE DEF log, items
    <3>4. /\ parent.undo_items = log /\ parent.snapshot = transactions[Depth - 1].snapshot
          /\ parent.items = items
      BY <3>2, <3>3 DEF OpenTransaction
    <3> HIDE DEF parent
    <3>5. /\ Len(transactions') = Depth - 1
          /\ \A m \in 1..Depth - 1 :
               transactions'[m] = IF m = Depth - 1 THEN parent ELSE transactions[m]
      BY <1>2, <2>1, <3>1, <3>2
    <3>6. Depth' = Depth - 1
      BY <3>5 DEF Depth
    <3>7. \A m \in 1..Depth - 2 : m \in 1..Depth - 1 /\ m # Depth - 1
      BY <1>1
    <3>8. SameStart(1..Depth - 1) /\ SameLog(1..Depth - 2) /\ KeepsItems(1..Depth - 1)
      BY <3>2, <3>4, <3>5, <3>7 DEF items, SameStart, SameLog, KeepsItems, Start, Log, Items, NewStart, NewLog, NewItems
    <3>9. NewLog(Depth') = Log(Depth - 1) \o Log(Depth) /\ Items(Depth) \subseteq NewItems(Depth')
      BY <1>2, <2>1, <3>2, <3>4, <3>5, <3>6 DEF Log, NewLog, Items, NewItems, log, items
    <3>10. NewItems(Depth - 1) = Items(Depth - 1) \cup Items(Depth) /\ \A m \in 1..Depth - 2 : NewItems(m) = Items(m)
      BY <1>1, <1>2, <2>1, <2>3, <3>2, <3>4, <3>5, <3>7 DEF NewItems, Items, items
    <3>11. all_selected' = all_selected
      BY <1>7, <2>3 DEF Commit
    <3>12. SameChosen(0..Depth - 2)
      <4> SUFFICES ASSUME NEW n \in 0..Depth - 2 PROVE NewChosen(n) = Chosen(n)
        BY DEF SameChosen
      <4>1. n \in Nat /\ \A m \in 1..n : m \in 1..Depth - 2
        BY <1>1
      <4> QED  BY <3>10, <3>11, <4>1, ChosenIs
    <3>13. NewChosen(Depth - 1) = Chosen(Depth)
      <4>1. /\ Depth \in Nat \ {0} /\ Depth - 1 \in Nat \ {0} /\ Depth - 2 \in 0..Depth - 2
            /\ (Depth - 1) - 1 = Depth - 2
        BY <1>1, <2>1, <2>3
      <4>2. /\ NewChosen(Depth - 1) = NewChosen(Depth - 2) \cup NewItems(Depth - 1)
            /\ Chosen(Depth - 1) = Chosen(Depth - 2) \cup Items(Depth - 1)
            /\ Chosen(Depth) = Chosen(Depth - 1) \cup Items(Depth)
        BY <4>1, ChosenIs
      <4> QED  BY <3>10, <3>12, <4>1, <4>2 DEF SameChosen
    <3> QED  BY <1>1, <2>1, <3>6, <3>8, <3>9, <3>12, <3>13 DEF Commits
  <2> QED  BY <2>2, <2>3
<1>8. CASE Rollback
  <2>1. transactions # <<>> /\ target' = Restored(Top.undo_items, target) /\ transactions' = Below
    BY <1>8 DEF Rollback
  <2>2. Depth' = Depth - 1 /\ \A m \in 1..Depth - 1 : transactions'[m] = transactions[m]
    BY <1>2, <2>1 DEF Depth
  <2>3. all_selected' = all_selected /\ phase' = phase
    BY <1>8 DEF Rollback
  <2>4. SameChosen(0..Depth - 1)
    <3> SUFFICES ASSUME NEW n \in 0..Depth - 1 PROVE NewChosen(n) = Chosen(n)
      BY DEF SameChosen
    <3>1. n \in Nat /\ \A m \in 1..n : m \in 1..Depth - 1
      BY <1>1
    <3> QED  BY <2>2, <2>3, <3>1, ChosenIs DEF NewItems, Items
  <2> QED  BY <1>1, <1>2, <2>1, <2>2, <2>3, <2>4 DEF RollsBack, SameStart, SameLog, KeepsItems, Start, Log, Items, NewStart, NewLog, NewItems
<1>9. CASE CleanUp \/ UNCHANGED vars
  BY <1>9 DEF CleanUp, vars, Stays
<1> QED  BY <1>4, <1>5, <1>6, <1>7, <1>8, <1>9 DEF Next

\* The suite above a level, before and after a step.
LEMMA StateAboveFacts ==
  ASSUME TypeOK, TypeOK'
  PROVE  /\ \A n \in 1..Depth' - 1 : NewAbove(n) = NewStart(n + 1)
         /\ Depth' # 0 => NewAbove(Depth') = target'
         /\ \A n \in 1..Depth - 1 : StateAbove(n) = Start(n + 1)
         /\ StateAbove(Depth) = target
<1>1. Depth \in Nat /\ Depth' \in Nat
  <2>1. TypeOK' => Depth' \in Nat
    BY DEF TypeOK, Depth
  <2> QED  BY <2>1, LevelTypes
<1>2. /\ \A n \in 1..Depth - 1 : n # Depth
      /\ \A n \in 1..Depth' - 1 : n # Depth'
  <2>1. \A d \in Nat : \A n \in 1..d - 1 : n # d
    OBVIOUS
  <2> QED  BY <1>1, <2>1
<1>3. \A n \in 1..Depth - 1 : StateAbove(n) = Start(n + 1)
  BY <1>2 DEF StateAbove, Start
<1>4. \A n \in 1..Depth' - 1 : NewAbove(n) = NewStart(n + 1)
  BY <1>2 DEF NewAbove
<1> QED  BY <1>3, <1>4 DEF StateAbove, NewAbove

\* A step changes the suite above the topmost level only, and a rollback not
\* even that one, if it returns to the suite it started from.
LEMMA StateAboveMoves ==
  ASSUME TypeOK, TypeOK'
  PROVE  /\ Begins => /\ \A n \in 1..Depth : NewAbove(n) = StateAbove(n)
                      /\ NewAbove(Depth + 1) = target
         /\ Changes => /\ \A n \in 1..Depth - 1 : NewAbove(n) = StateAbove(n)
                       /\ Depth # 0 => NewAbove(Depth) = target'
         /\ Commits => /\ \A n \in 1..Depth - 2 : NewAbove(n) = StateAbove(n)
                       /\ Depth # 1 => NewAbove(Depth - 1) = target
         /\ RollsBack /\ target' = Start(Depth) => \A n \in 1..Depth - 1 : NewAbove(n) = StateAbove(n)
<1>1. Depth \in Nat
  BY LevelTypes
<1>2. /\ \A n \in 1..Depth' - 1 : NewAbove(n) = NewStart(n + 1)
      /\ Depth' # 0 => NewAbove(Depth') = target'
      /\ \A n \in 1..Depth - 1 : StateAbove(n) = Start(n + 1)
      /\ StateAbove(Depth) = target
  BY StateAboveFacts
<1>3. ASSUME Begins
      PROVE  /\ \A n \in 1..Depth : NewAbove(n) = StateAbove(n)
             /\ NewAbove(Depth + 1) = target
  <2>1. Depth' = Depth + 1 /\ Depth' - 1 = Depth /\ target' = target
    BY <1>1, <1>3 DEF Begins
  <2>2. \A n \in 1..Depth : NewStart(n) = Start(n)
    BY <1>3 DEF Begins, SameStart
  <2>3. NewStart(Depth + 1) = target
    BY <1>3, <2>1 DEF Begins
  <2>4. ASSUME NEW n \in 1..Depth PROVE NewAbove(n) = StateAbove(n)
    <3>1. NewAbove(n) = NewStart(n + 1)
      BY <1>2, <2>1
    <3>2. CASE n = Depth
      BY <1>2, <2>3, <3>1, <3>2
    <3>3. CASE n # Depth
      <4>1. n \in 1..Depth - 1 /\ n + 1 \in 1..Depth
        BY <1>1, <3>3
      <4> QED  BY <1>2, <2>2, <3>1, <4>1
    <3> QED  BY <3>2, <3>3
  <2> QED  BY <1>1, <1>2, <2>1, <2>4
<1>4. ASSUME Changes
      PROVE  /\ \A n \in 1..Depth - 1 : NewAbove(n) = StateAbove(n)
             /\ Depth # 0 => NewAbove(Depth) = target'
  <2>1. Depth' = Depth /\ \A n \in 1..Depth : NewStart(n) = Start(n)
    BY <1>4 DEF Changes, SameStart
  <2>2. \A n \in 1..Depth - 1 : n + 1 \in 1..Depth
    BY <1>1
  <2> QED  BY <1>2, <2>1, <2>2
<1>5. ASSUME Commits
      PROVE  /\ \A n \in 1..Depth - 2 : NewAbove(n) = StateAbove(n)
             /\ Depth # 1 => NewAbove(Depth - 1) = target
  <2>1. Depth # 0 /\ Depth' = Depth - 1 /\ target' = target /\ \A n \in 1..Depth - 1 : NewStart(n) = Start(n)
    BY <1>5 DEF Commits, SameStart
  <2>2. \A n \in 1..Depth - 2 : n \in 1..Depth' - 1 /\ n + 1 \in 1..Depth - 1 /\ n \in 1..Depth - 1
    BY <1>1, <2>1
  <2> QED  BY <1>1, <1>2, <2>1, <2>2
<1>6. ASSUME RollsBack, target' = Start(Depth), NEW n \in 1..Depth - 1
      PROVE  NewAbove(n) = StateAbove(n)
  <2>1. Depth # 0 /\ Depth' = Depth - 1 /\ \A m \in 1..Depth - 1 : NewStart(m) = Start(m)
    BY <1>6 DEF RollsBack, SameStart
  <2>2. CASE n = Depth - 1
    <3>1. NewAbove(n) = target' /\ StateAbove(n) = Start(Depth)
      BY <1>1, <1>2, <2>1, <2>2
    <3> QED  BY <1>6, <3>1
  <2>3. CASE n # Depth - 1
    <3>1. n \in 1..Depth' - 1 /\ n + 1 \in 1..Depth - 1
      BY <1>1, <2>1, <2>3
    <3> QED  BY <1>2, <2>1, <3>1
  <2> QED  BY <2>2, <2>3
<1> QED  BY <1>3, <1>4, <1>5, <1>6

-----------------------------------------------------------------------------
(***************************************************************************)
(* The invariant.                                                          *)
(***************************************************************************)

LEMMA InitExact == Init => ExactOK
<1> SUFFICES ASSUME Init PROVE ExactOK
  OBVIOUS
<1>1. Depth = 0
  BY EmptySeq DEF Init, Depth
<1>2. /\ target.sources = InitialSources /\ target.binaries = InitialBinaries
      /\ target.tester = Holds(InitialBinaries)
      /\ \A v \in Virtual : target.provides[v] = EntriesOf(Holds(InitialBinaries), v)
  BY DEF Init
<1>3. Filed(target)
  BY <1>2, LoaderAssumption DEF Filed, KeyOf
<1>4. Agreeing(target)
  BY <1>2 DEF Agreeing, EntriesOf
<1> QED  BY <1>1, <1>3, <1>4 DEF ExactOK, Sound

\* A rollback returns to the whole suite the transaction on top started from.
LEMMA RollbackReturns ==
  ASSUME TypeOK, TablesRestorable, ExactOK, Depth # 0
  PROVE  Restored(Log(Depth), target) = Start(Depth)
<1>1. /\ Depth \in 1..Depth /\ target \in Tables
      /\ Log(Depth) \in Seq(UndoItem) /\ Start(Depth) \in Tables
  BY LevelTypes DEF TypeOK
<1>2. StateAbove(Depth) = target
  BY DEF StateAbove
<1>3. Sound(target) /\ Sound(Start(Depth)) /\ Exact(Log(Depth), target, Start(Depth))
  BY <1>1, <1>2 DEF ExactOK, Log, Start
<1>4. /\ RestoredBinaries(Log(Depth), target) = Start(Depth).binaries
      /\ RestoredTester(Log(Depth), target) = Start(Depth).tester
  BY <1>1, <1>3, ExactUndoes
<1>5. /\ RestoredSources(Log(Depth), target) = Start(Depth).sources
      /\ RestoredProvides(Log(Depth), target) = Start(Depth).provides
  BY <1>1, <1>2 DEF TablesRestorable, Log, Start
<1> QED  BY <1>1, <1>4, <1>5 DEF Restored, Tables

\* Every step keeps the suites sound and the logs exact.
LEMMA NextExact ==
  TypeOK /\ TypeOK' /\ TablesRestorable /\ NothingRetaken' /\ ExactOK /\ [Next]_vars => ExactOK'
<1> SUFFICES ASSUME TypeOK, TypeOK', TablesRestorable, NothingRetaken', ExactOK, [Next]_vars
             PROVE  ExactOK'
  OBVIOUS
<1>1. /\ Depth \in Nat /\ target \in Tables
      /\ \A n \in 1..Depth : Log(n) \in Seq(UndoItem) /\ Start(n) \in Tables
  BY LevelTypes DEF TypeOK
<1>2. StateAbove(Depth) = target /\ \A n \in 1..Depth - 1 : StateAbove(n) = Start(n + 1)
  BY StateAboveFacts
<1>3. Sound(target) /\ \A n \in 1..Depth : Sound(Start(n)) /\ Exact(Log(n), StateAbove(n), Start(n))
  BY DEF ExactOK, Log, Start
<1>4. SUFFICES Sound(target') /\ \A n \in 1..Depth' : Sound(NewStart(n)) /\ Exact(NewLog(n), NewAbove(n), NewStart(n))
  <2>1. Sound(target)' <=> Sound(target')
    BY DEF Sound, Filed, Agreeing, Holds
  <2> QED  BY <2>1 DEF ExactOK, NewLog, NewStart, NewAbove, StateAbove, Sound, Filed, Agreeing,
              Holds, Exact, ExactAt, Takes, Brings, Keys, Pick
<1>5. \A n \in 1..Depth' : NotRetaken(NewLog(n))
  BY DEF NothingRetaken, NotRetaken, NewLog, Keys
<1>6. CASE Begins
  <2>1. Depth' = Depth + 1 /\ Depth' - 1 = Depth /\ target' = target
    BY <1>1, <1>6 DEF Begins
  <2>2. \A n \in 1..Depth : NewStart(n) = Start(n) /\ NewLog(n) = Log(n)
    BY <1>6 DEF Begins, SameStart, SameLog
  <2>3. NewStart(Depth + 1) = target /\ NewLog(Depth + 1) = <<>>
    BY <1>6, <2>1 DEF Begins
  <2>4. (\A n \in 1..Depth : NewAbove(n) = StateAbove(n)) /\ NewAbove(Depth + 1) = target
    BY <1>6, StateAboveMoves
  <2>6. Exact(<<>>, target, target)
    BY ExactNothing
  <2>7. \A n \in 1..Depth' : n \in 1..Depth \/ n = Depth + 1
    BY <1>1, <2>1
  <2> QED  BY <1>3, <2>1, <2>2, <2>3, <2>4, <2>6, <2>7
<1>7. CASE Changes
  <2>1. PICK i \in Candidates : \E smooth \in SUBSET SmoothCandidates(i) :
    /\ Defined(i) /\ Permitted(i)
    /\ Depth' = Depth /\ target' = Applied(i, Adds(i), Removes(i, smooth))
    /\ SameStart(1..Depth) /\ SameLog(1..Depth - 1) /\ KeepsItems(1..Depth)
    /\ Depth # 0 => /\ NewLog(Depth) = Append(Log(Depth), Undo(i, Adds(i), Removes(i, smooth)))
                    /\ i \in NewItems(Depth)
    BY <1>7 DEF Changes
  <2>2. PICK smooth \in SUBSET SmoothCandidates(i) :
    /\ Defined(i) /\ Permitted(i)
    /\ Depth' = Depth /\ target' = Applied(i, Adds(i), Removes(i, smooth))
    /\ SameStart(1..Depth) /\ SameLog(1..Depth - 1) /\ KeepsItems(1..Depth)
    /\ Depth # 0 => /\ NewLog(Depth) = Append(Log(Depth), Undo(i, Adds(i), Removes(i, smooth)))
                    /\ i \in NewItems(Depth)
    BY <2>1
  <2>3. \A n \in 1..Depth : NewStart(n) = Start(n)
    BY <2>2 DEF SameStart
  <2>4. \A n \in 1..Depth - 1 : NewLog(n) = Log(n) /\ NewAbove(n) = StateAbove(n)
    BY <1>7, <2>2, StateAboveMoves DEF SameLog
  <2>5. Sound(target')
    BY <1>3, <2>2, FiledApplied, AgreeingApplied DEF Sound
  <2>6. ASSUME Depth # 0 PROVE Exact(NewLog(Depth), NewAbove(Depth), NewStart(Depth))
    <3>1. Depth \in 1..Depth /\ Depth \in 1..Depth'
      BY <1>1, <2>2, <2>6
    <3>2. Exact(Log(Depth), target, Start(Depth)) /\ Log(Depth) \in Seq(UndoItem)
      BY <1>1, <1>2, <1>3, <3>1
    <3>3. NotRetaken(Append(Log(Depth), Undo(i, Adds(i), Removes(i, smooth))))
      BY <1>5, <2>2, <2>6, <3>1
    <3>4. Exact(Append(Log(Depth), Undo(i, Adds(i), Removes(i, smooth))), target', Start(Depth))
      BY <1>3, <2>2, <3>2, <3>3, ExactApplied
    <3>5. NewAbove(Depth) = target'
      BY <1>7, <2>2, <2>6, StateAboveMoves
    <3> QED  BY <2>2, <2>3, <2>6, <3>1, <3>4, <3>5
  <2>7. \A n \in 1..Depth' : n \in 1..Depth /\ (n \in 1..Depth - 1 \/ (n = Depth /\ Depth # 0))
    BY <1>1, <2>2
  <2> QED  BY <1>3, <2>3, <2>4, <2>5, <2>6, <2>7
<1>8. CASE Commits
  <2>1. Depth # 0 /\ Depth' = Depth - 1 /\ target' = target
    BY <1>8 DEF Commits
  <2>2. \A n \in 1..Depth - 1 : NewStart(n) = Start(n)
    BY <1>8 DEF Commits, SameStart
  <2>3. \A n \in 1..Depth - 2 : NewLog(n) = Log(n) /\ NewAbove(n) = StateAbove(n)
    BY <1>8, StateAboveMoves DEF Commits, SameLog
  <2>4. ASSUME Depth # 1
        PROVE  Exact(NewLog(Depth - 1), NewAbove(Depth - 1), NewStart(Depth - 1))
    <3>1. Depth - 1 \in 1..Depth - 1 /\ Depth - 1 \in 1..Depth /\ Depth \in 1..Depth /\ (Depth - 1) + 1 = Depth
      BY <1>1, <2>1, <2>4
    <3>2. Exact(Log(Depth), target, Start(Depth))
      BY <1>2, <1>3, <3>1
    <3>3. Exact(Log(Depth - 1), Start(Depth), Start(Depth - 1))
      BY <1>2, <1>3, <3>1
    <3>4. NewLog(Depth - 1) = Log(Depth - 1) \o Log(Depth)
      BY <1>8, <2>1, <2>4 DEF Commits
    <3>5. NotRetaken(Log(Depth - 1) \o Log(Depth))
      BY <1>5, <2>1, <3>1, <3>4
    <3>6. Exact(Log(Depth - 1) \o Log(Depth), target, Start(Depth - 1))
      BY <1>1, <3>1, <3>2, <3>3, <3>5, ExactMerged
    <3>7. NewAbove(Depth - 1) = target
      BY <1>8, <2>4, StateAboveMoves
    <3> QED  BY <2>2, <3>1, <3>4, <3>6, <3>7
  <2>5. \A n \in 1..Depth' : n \in 1..Depth /\ n \in 1..Depth - 1 /\ (n \in 1..Depth - 2 \/ (n = Depth - 1 /\ Depth # 1))
    BY <1>1, <2>1
  <2> QED  BY <1>3, <2>1, <2>2, <2>3, <2>4, <2>5
<1>9. CASE RollsBack
  <2>1. Depth # 0 /\ Depth' = Depth - 1 /\ target' = Restored(Log(Depth), target)
    BY <1>9 DEF RollsBack
  <2>2. \A n \in 1..Depth - 1 : NewStart(n) = Start(n) /\ NewLog(n) = Log(n)
    BY <1>9 DEF RollsBack, SameStart, SameLog
  <2>3. Depth \in 1..Depth
    BY <1>1, <2>1
  <2>4. target' = Start(Depth)
    BY <2>1, <2>3, RollbackReturns
  <2>5. \A n \in 1..Depth - 1 : NewAbove(n) = StateAbove(n)
    BY <1>9, <2>4, StateAboveMoves
  <2>6. \A n \in 1..Depth' : n \in 1..Depth /\ n \in 1..Depth - 1
    BY <1>1, <2>1
  <2> QED  BY <1>3, <2>2, <2>3, <2>4, <2>5, <2>6
<1>10. CASE Stays
  <2>1. target' = target /\ Depth' = Depth
    BY <1>10 DEF Stays, Depth
  <2>2. \A n : NewStart(n) = Start(n) /\ NewLog(n) = Log(n) /\ NewAbove(n) = StateAbove(n)
    BY <1>10, <2>1 DEF Stays, Start, Log, StateAbove, NewStart, NewLog, NewAbove
  <2> QED  BY <1>3, <2>1, <2>2
<1> QED  BY <1>6, <1>7, <1>8, <1>9, <1>10, StackMoves

\* The invariant says what the runs check.
LEMMA ExactRestorable == TypeOK /\ ExactOK => BinariesRestorable /\ TablesAgree
<1> SUFFICES ASSUME TypeOK, ExactOK PROVE BinariesRestorable /\ TablesAgree
  OBVIOUS
<1>1. /\ Depth \in Nat /\ target \in Tables
      /\ \A n \in 1..Depth : Log(n) \in Seq(UndoItem) /\ Start(n) \in Tables
  BY LevelTypes DEF TypeOK
<1>2. \A n \in 1..Depth : StateAbove(n) \in Tables /\ Sound(StateAbove(n))
  <2> SUFFICES ASSUME NEW n \in 1..Depth PROVE StateAbove(n) \in Tables /\ Sound(StateAbove(n))
    OBVIOUS
  <2>1. n # Depth => n + 1 \in 1..Depth
    BY <1>1
  <2> QED  BY <1>1, <2>1 DEF ExactOK, StateAbove, Start
<1>3. ASSUME NEW n \in 1..Depth
      PROVE  /\ RestoredBinaries(Log(n), StateAbove(n)) = Start(n).binaries
             /\ RestoredTester(Log(n), StateAbove(n)) = Start(n).tester
  BY <1>1, <1>2, ExactUndoes DEF ExactOK, Log, Start
<1>4. TablesAgree
  BY DEF ExactOK, Sound, Agreeing, TablesAgree
<1> QED  BY <1>3, <1>4 DEF BinariesRestorable, Log, Start

LEMMA AlwaysExact == Spec /\ []NothingRetaken => []ExactOK
BY InitExact, NextExact, TypeCorrect, RollbackRestoresTables, PTL DEF Spec

\* In every archive, as long as no item of a transaction takes away a binary
\* that another one of it brought, a transaction can be rolled back from any
\* point to the binaries it started from, in the table and in the tester.
THEOREM RollbackRestoresBinaries == Spec /\ []NothingRetaken => []BinariesRestorable
BY AlwaysExact, ExactRestorable, TypeCorrect, PTL

\* And through any sequence of items, commits and rollbacks the tester has
\* exactly the binaries of the suite, and what they provide is provided.
THEOREM TesterFollowsSuite == Spec /\ []NothingRetaken => []TablesAgree
BY AlwaysExact, ExactRestorable, TypeCorrect, PTL

-----------------------------------------------------------------------------
(***************************************************************************)
(* The transactions implement nested snapshots of the whole suite.         *)
(***************************************************************************)

\* The refinement mapping of SuiteSnapshots.
SavedSuites == [n \in 1..Depth |-> transactions[n].snapshot]

\* What is saved is a sequence with a suite for every transaction.
LEMMA SavedSuitesType ==
  TypeOK => /\ Depth \in Nat /\ SavedSuites \in Seq(Tables) /\ Len(SavedSuites) = Depth
            /\ \A n \in 1..Depth : SavedSuites[n] = Start(n)
<1> SUFFICES ASSUME TypeOK
             PROVE  /\ Depth \in Nat /\ SavedSuites \in Seq(Tables) /\ Len(SavedSuites) = Depth
                    /\ \A n \in 1..Depth : SavedSuites[n] = Start(n)
  OBVIOUS
<1>1. Depth \in Nat /\ \A n \in 1..Depth : Start(n) \in Tables
  BY LevelTypes
<1>2. SavedSuites \in [1..Depth -> Tables]
  BY <1>1 DEF SavedSuites, Start
<1> QED  BY <1>1, <1>2 DEF SavedSuites, Start

\* So it is after a step.
LEMMA NewSavedSuitesType ==
  TypeOK' => /\ Depth' \in Nat /\ SavedSuites' \in Seq(Tables) /\ Len(SavedSuites') = Depth'
             /\ \A n \in 1..Depth' : SavedSuites'[n] = NewStart(n)
<1>1. TypeOK' => (/\ Depth \in Nat /\ SavedSuites \in Seq(Tables) /\ Len(SavedSuites) = Depth
                  /\ \A n \in 1..Depth : SavedSuites[n] = Start(n))'
  BY SavedSuitesType, PTL
<1> QED  BY <1>1 DEF Start, NewStart

\* Every step is a step of NestedSnapshots on the whole suite.
LEMMA NextSuiteNested ==
  TypeOK /\ TypeOK' /\ TablesRestorable /\ ExactOK /\ [Next]_vars
    => [SuiteSnapshots!Next]_SuiteSnapshots!vars
<1> SUFFICES ASSUME TypeOK, TypeOK', TablesRestorable, ExactOK, [Next]_vars
             PROVE  SuiteSnapshots!Next
  OBVIOUS
<1>1. /\ Depth \in Nat /\ SavedSuites \in Seq(Tables) /\ Len(SavedSuites) = Depth
      /\ \A n \in 1..Depth : SavedSuites[n] = Start(n)
  BY SavedSuitesType
<1>2. /\ Depth' \in Nat /\ SavedSuites' \in Seq(Tables) /\ Len(SavedSuites') = Depth'
      /\ \A n \in 1..Depth' : SavedSuites'[n] = NewStart(n)
  BY NewSavedSuitesType
<1>3. target \in Tables
  BY DEF TypeOK
<1>4. ASSUME Depth # 0, Depth' = Depth - 1, SameStart(1..Depth - 1)
      PROVE  SavedSuites # <<>> /\ SavedSuites' = SubSeq(SavedSuites, 1, Len(SavedSuites) - 1)
  <2>1. SavedSuites # <<>>
    BY <1>1, <1>4, EmptySeq
  <2>2. /\ SubSeq(SavedSuites, 1, Len(SavedSuites) - 1) \in Seq(Tables)
        /\ Len(SubSeq(SavedSuites, 1, Len(SavedSuites) - 1)) = Depth - 1
        /\ \A n \in 1..Depth - 1 : SubSeq(SavedSuites, 1, Len(SavedSuites) - 1)[n] = SavedSuites[n]
    BY <1>1, <2>1, StackFacts
  <2>3. \A n \in 1..Depth - 1 : SavedSuites'[n] = SubSeq(SavedSuites, 1, Len(SavedSuites) - 1)[n]
    BY <1>1, <1>2, <1>4, <2>2 DEF SameStart
  <2> QED  BY <1>2, <1>4, <2>1, <2>2, <2>3, SeqEqual
<1>5. CASE Begins
  <2>1. /\ Append(SavedSuites, target) \in Seq(Tables) /\ Len(Append(SavedSuites, target)) = Depth + 1
        /\ \A n \in 1..Depth : Append(SavedSuites, target)[n] = SavedSuites[n]
        /\ Append(SavedSuites, target)[Depth + 1] = target
    BY <1>1, <1>3, AppendProperties
  <2>2. \A n \in 1..Depth + 1 : n \in 1..Depth \/ n = Depth + 1
    BY <1>1
  <2>3. Depth' = Depth + 1 /\ NewStart(Depth + 1) = target /\ \A n \in 1..Depth : NewStart(n) = Start(n)
    BY <1>5 DEF Begins, SameStart
  <2>4. \A n \in 1..Depth + 1 : SavedSuites'[n] = Append(SavedSuites, target)[n]
    BY <1>1, <1>2, <2>1, <2>2, <2>3
  <2>5. SavedSuites' = Append(SavedSuites, target)
    BY <1>2, <2>1, <2>3, <2>4, SeqEqual
  <2> QED  BY <1>5, <2>5 DEF Begins, SuiteSnapshots!Next, SuiteSnapshots!Begin, SavedSuites
<1>6. CASE Changes \/ Stays
  <2>1. Depth' = Depth /\ \A n \in 1..Depth : NewStart(n) = Start(n)
    BY <1>6 DEF Changes, Stays, SameStart, NewStart, Start, Depth
  <2>2. SavedSuites' = SavedSuites
    BY <1>1, <1>2, <2>1, SeqEqual
  <2> QED  BY <2>2 DEF SuiteSnapshots!Next, SuiteSnapshots!Change, SavedSuites
<1>7. CASE Commits
  <2>1. SavedSuites # <<>> /\ SavedSuites' = SubSeq(SavedSuites, 1, Len(SavedSuites) - 1)
    BY <1>4, <1>7 DEF Commits
  <2> QED  BY <1>7, <2>1 DEF Commits, SuiteSnapshots!Next, SuiteSnapshots!Commit, SuiteSnapshots!Outer, SavedSuites
<1>8. CASE RollsBack
  <2>1. SavedSuites # <<>> /\ SavedSuites' = SubSeq(SavedSuites, 1, Len(SavedSuites) - 1)
    BY <1>4, <1>8 DEF RollsBack
  <2>2. Depth \in 1..Depth
    BY <1>1, <1>8 DEF RollsBack
  <2>3. target' = Start(Depth)
    BY <1>8, <2>2, RollbackReturns DEF RollsBack
  <2>4. target' = SavedSuites[Len(SavedSuites)]
    BY <1>1, <2>2, <2>3
  <2> QED  BY <2>1, <2>4 DEF SuiteSnapshots!Next, SuiteSnapshots!Rollback, SuiteSnapshots!Outer, SavedSuites
<1> QED  BY <1>5, <1>6, <1>7, <1>8, StackMoves

\* In every archive, whatever items are tried, the hints and components of the
\* migration run behave on the whole suite, with the tester's contents, as
\* nested snapshots, as long as no item of a transaction takes away a binary
\* that another one of it brought.
THEOREM SuiteImplementsSnapshots == Spec /\ []NothingRetaken => SuiteIsNested
<1>1. Init => SuiteSnapshots!Init
  <2>1. Init => Depth = 0 /\ SavedSuites = [n \in 1..0 |-> transactions[n].snapshot]
    BY EmptySeq DEF Init, Depth, SavedSuites
  <2>2. Init => SavedSuites = <<>>
    BY <2>1
  <2> QED  BY <2>2 DEF SuiteSnapshots!Init, SavedSuites
<1> QED  BY <1>1, TypeCorrect, RollbackRestoresTables, AlwaysExact, NextSuiteNested, PTL
         DEF Spec, SuiteIsNested, SuiteSnapshots!Spec

-----------------------------------------------------------------------------
(***************************************************************************)
(* Archives in which nothing is retaken.                                   *)
(***************************************************************************)

\* No two items bring the same binary; the items of one source are from one
\* suite, for different architectures; what they bring is up to date; and
\* what is updated is not to be removed, too.
ItemsApart ==
  \A i \in UpgradeMe : i.kind = "update" =>
    /\ \A b \in Adds(i) : Bin[b].source_version = SuiteSources[i.suite][i.package].version
    /\ \A j \in UpgradeMe : j.kind = "update" /\ j # i =>
         /\ Keys(Adds(i)) \cap Keys(Adds(j)) = {}
         /\ i.package = j.package => i.arch # j.arch /\ SourceItem \notin {i.arch, j.arch} /\ i.suite = j.suite
    /\ \A j \in UpgradeMe : j.kind = "remove_source" => j.package # i.package

\* A binary and its source are in the suite, and the source has its version.
UpToDate(st, b) ==
  /\ st.binaries[KeyOf(b)] = b
  /\ st.sources[Bin[b].source] # NoSource
  /\ st.sources[Bin[b].source].version = Bin[b].source_version

\* What open transactions brought was brought by their items, and is up to date
\* in the suite ever since, and no undo item after it took it away.
BroughtAt(n, l) ==
  /\ Log(n)[l].updated # {} => \E i \in Items(n) \cap UpgradeMe : Log(n)[l].updated = Adds(i)
  /\ \A b \in Log(n)[l].updated : \A m \in n..Depth : UpToDate(StateAbove(m), b)
  /\ \A k \in Keys(Log(n)[l].updated) : \A m \in n..Depth : \A j \in DOMAIN Log(m) :
       m > n \/ j > l => Log(m)[j].binaries[k] = {}

BroughtOK == \A n \in 1..Depth : \A l \in DOMAIN Log(n) : BroughtAt(n, l)

\* The same after a step.
BroughtAtNew(n, l) ==
  /\ NewLog(n)[l].updated # {} => \E i \in NewItems(n) \cap UpgradeMe : NewLog(n)[l].updated = Adds(i)
  /\ \A b \in NewLog(n)[l].updated : \A m \in n..Depth' : UpToDate(NewAbove(m), b)
  /\ \A k \in Keys(NewLog(n)[l].updated) : \A m \in n..Depth' : \A j \in DOMAIN NewLog(m) :
       m > n \/ j > l => NewLog(m)[j].binaries[k] = {}

LEMMA BroughtNew == BroughtOK' <=> \A n \in 1..Depth' : \A l \in DOMAIN NewLog(n) : BroughtAtNew(n, l)
BY DEF BroughtOK, BroughtAt, BroughtAtNew, Log, NewLog, Items, NewItems, StateAbove, NewAbove, NewStart,
       UpToDate, Keys, Adds, Hijacked, Covers, KeyOf

\* An item leaves alone what another item of an open transaction brought.
LEMMA BroughtStays ==
  ASSUME ItemsApart, TypeOK, Sound(target), NEW i \in Candidates, Defined(i), Permitted(i), NEW smooth,
         NEW e \in UpgradeMe \cap Selected, NEW b \in Adds(e), UpToDate(target, b)
  PROVE  /\ KeyOf(b) \notin Keys(Adds(i)) /\ KeyOf(b) \notin Keys(Removes(i, smooth))
         /\ UpToDate(Applied(i, Adds(i), Removes(i, smooth)), b)
<1> DEFINE adds == Adds(i)
           rms == Removes(i, smooth)
           new == Applied(i, adds, rms)
           p == Bin[b].source
           old == target.sources[p]
<1>1. e.kind = "update"
  BY DEF Adds
<1>2. b \in BinId /\ KeyOf(b) \in Key /\ p = e.package
  BY <1>1, UpdateAdds
<1>3. i \in Item /\ SourceName(i) \in Source /\ i.kind \in {"update", "remove_source", "remove_cruft"}
  BY GroupsType DEF Item
<1>4. i.kind = "update" => i \in UpgradeMe /\ i # e
  BY CandidateKinds
<1>5. /\ \A c \in Adds(e) : Bin[c].source_version = SuiteSources[e.suite][e.package].version
      /\ i.kind = "update" =>
           /\ Keys(Adds(e)) \cap Keys(Adds(i)) = {}
           /\ e.package = i.package => e.arch # i.arch /\ SourceItem \notin {e.arch, i.arch} /\ e.suite = i.suite
  BY <1>1, <1>4 DEF ItemsApart
<1>6. target.binaries[KeyOf(b)] = b /\ old # NoSource /\ old.version = Bin[b].source_version
  BY DEF UpToDate
<1>7. b \in Holds(target.binaries)
  BY <1>2, <1>6, DataAssumption DEF Holds
<1>8. i.kind = "remove_source" => i.package # p
  <2> SUFFICES ASSUME i.kind = "remove_source" PROVE i.package # p
    OBVIOUS
  <2>1. CASE i \in UpgradeMe
    BY <1>1, <1>2, <2>1 DEF ItemsApart
  <2>2. CASE i \in ObsoleteItems
    BY <1>7, <2>2 DEF ObsoleteItems
  <2> QED  BY <2>1, <2>2, CandidateKinds
<1>9. KeyOf(b) \notin Keys(adds)
  <2>1. CASE i.kind = "update"
    <3>1. KeyOf(b) \in Keys(Adds(e))
      BY DEF Keys
    <3> QED  BY <1>5, <2>1, <3>1
  <2>2. CASE i.kind # "update"
    BY <2>2 DEF Adds, Keys
  <2> QED  BY <2>1, <2>2
<1>10. KeyOf(b) \notin Keys(rms)
  <2> SUFFICES ASSUME NEW c \in rms, KeyOf(c) = KeyOf(b) PROVE FALSE
    BY DEF Keys
  <2>1. target.binaries[KeyOf(c)] = c
    BY RemovesHeld DEF Sound
  <2>2. c = b
    BY <1>6, <2>1
  <2>3. CASE i.kind = "remove_cruft"
    <3>1. i.bin = b /\ i \in CruftItems
      BY <2>2, <2>3, CandidateKinds DEF Removes
    <3>2. IsCruft(b)
      BY <3>1 DEF CruftItems
    <3> QED  BY <1>6, <3>2 DEF IsCruft
  <2>4. CASE i.kind # "remove_cruft"
    <3>1. b \in Leaving(i)
      BY <2>2, <2>4 DEF Removes
    <3>2. Covers(i, KeyOf(b)) /\ p = i.package
      BY <1>6, <3>1 DEF Leaving
    <3>3. i.kind = "update"
      BY <1>3, <1>8, <2>4, <3>2
    <3>4. Covers(e, KeyOf(b))
      BY <1>1 DEF Adds
    <3> QED  BY <1>1, <1>2, <1>5, <3>2, <3>3, <3>4 DEF Covers
  <2> QED  BY <2>3, <2>4
<1>11. new.binaries[KeyOf(b)] = b
  BY <1>2, <1>6, <1>9, <1>10 DEF Applied, NewBinaries
<1>12. new.sources[p] # NoSource /\ new.sources[p].version = Bin[b].source_version
  <2>1. target.sources \in [Source -> SourceData \cup {NoSource}] /\ p \in Source
    BY <1>2, DataAssumption DEF TypeOK, Tables, BinaryData
  <2>2. new.sources = [target.sources EXCEPT ![SourceName(i)] = NewSource(i, adds, rms)]
    BY DEF Applied
  <2>3. CASE SourceName(i) # p
    BY <1>6, <2>1, <2>2, <2>3
  <2>4. CASE SourceName(i) = p
    <3>1. new.sources[p] = NewSource(i, adds, rms)
      BY <2>1, <2>2, <2>4
    <3>2. i.kind # "remove_source"
      BY <1>3, <1>8, <2>4 DEF SourceName
    <3>3. NewSource(i, adds, rms) # NoSource
      BY <3>2, NewSourceThere, <1>6, <2>4
    <3>4. NewSource(i, adds, rms).version = IF i.kind = "update" THEN SuiteSources[i.suite][p].version ELSE old.version
      BY <2>4, <3>2 DEF NewSource
    <3>5. i.kind = "update" => i.package = p
      BY <2>4 DEF SourceName
    <3> QED  BY <1>2, <1>5, <1>6, <3>1, <3>3, <3>4, <3>5
  <2> QED  BY <2>3, <2>4
<1> QED  BY <1>9, <1>10, <1>11, <1>12 DEF UpToDate

\* What an item brings is up to date.
LEMMA BroughtUpToDate ==
  ASSUME ItemsApart, TypeOK, NEW i \in Candidates, Defined(i), NEW smooth, NEW b \in Adds(i)
  PROVE  UpToDate(Applied(i, Adds(i), Removes(i, smooth)), b)
<1> DEFINE new == Applied(i, Adds(i), Removes(i, smooth))
<1>1. /\ i \in UpgradeMe /\ i.kind = "update" /\ KeyOf(b) \in Key
      /\ Bin[b].source = i.package /\ Pick(Adds(i), KeyOf(b)) = b
  BY AddsFiled
<1>2. Bin[b].source_version = SuiteSources[i.suite][i.package].version
  BY <1>1 DEF ItemsApart
<1>3. KeyOf(b) \in Keys(Adds(i))
  BY DEF Keys
<1>4. new.binaries[KeyOf(b)] = b
  BY <1>1, <1>3 DEF Applied, NewBinaries
<1>5. target.sources \in [Source -> SourceData \cup {NoSource}] /\ SourceName(i) = i.package /\ SourceName(i) \in Source
  BY <1>1, GroupsType DEF TypeOK, Tables, SourceName
<1>6. new.sources[i.package] = NewSource(i, Adds(i), Removes(i, smooth))
  BY <1>5 DEF Applied
<1>7. NewSource(i, Adds(i), Removes(i, smooth)) # NoSource
  BY <1>1, NewSourceThere
<1>8. NewSource(i, Adds(i), Removes(i, smooth)).version = SuiteSources[i.suite][i.package].version
  BY <1>1, <1>5 DEF NewSource
<1> QED  BY <1>1, <1>2, <1>4, <1>6, <1>7, <1>8 DEF UpToDate

\* Every step leaves alone what open transactions brought.
LEMMA NextBrought ==
  ItemsApart /\ TypeOK /\ TypeOK' /\ TablesRestorable /\ ExactOK /\ BroughtOK /\ [Next]_vars => BroughtOK'
<1> SUFFICES ASSUME ItemsApart, TypeOK, TypeOK', TablesRestorable, ExactOK, BroughtOK, [Next]_vars,
                    NEW n \in 1..Depth', NEW l \in DOMAIN NewLog(n)
             PROVE  BroughtAtNew(n, l)
  BY BroughtNew
<1>1. /\ Depth \in Nat /\ StateAbove(Depth) = target
      /\ \A m \in 1..Depth : Log(m) \in Seq(UndoItem) /\ Start(m) \in Tables
  BY LevelTypes, StateAboveFacts
<1>2. \A m \in 1..Depth : \A j \in DOMAIN Log(m) : BroughtAt(m, j)
  BY DEF BroughtOK
<1>3. \A m \in 1..Depth : Items(m) \subseteq Selected
  BY DEF Selected, Items
\* A level whose log stays, and so does the suite above it and above those on it.
<1>4. ASSUME NEW m \in 1..Depth, NEW j \in DOMAIN Log(m), NewLog(n) = Log(m), n = m, j = l,
             Items(m) \subseteq NewItems(m),
             \A b \in Log(m)[j].updated : \A d \in n..Depth' : UpToDate(NewAbove(d), b),
             \A k \in Keys(Log(m)[j].updated) : \A d \in n..Depth' : \A o \in DOMAIN NewLog(d) :
               d > n \/ o > l => NewLog(d)[o].binaries[k] = {}
      PROVE  BroughtAtNew(n, l)
  BY <1>2, <1>4 DEF BroughtAtNew, BroughtAt
<1>5. CASE Begins
  <2>1. /\ Depth' = Depth + 1 /\ NewLog(Depth + 1) = <<>>
        /\ \A m \in 1..Depth : NewLog(m) = Log(m) /\ Items(m) \subseteq NewItems(m)
    BY <1>5 DEF Begins, SameLog, KeepsItems
  <2>2. /\ \A m \in 1..Depth : NewAbove(m) = StateAbove(m)
        /\ NewAbove(Depth + 1) = StateAbove(Depth)
    BY <1>1, <1>5, StateAboveMoves
  <2>3. n \in 1..Depth
    BY <1>1, <2>1
  <2>4. BroughtAt(n, l)
    BY <1>2, <2>1, <2>3
  <2>5. \A d \in n..Depth' : d \in n..Depth \/ d = Depth + 1
    BY <1>1, <2>1, <2>3
  <2>6. Depth \in n..Depth /\ \A d \in n..Depth : d \in 1..Depth
    BY <1>1, <2>3
  <2>7. \A b \in Log(n)[l].updated : \A d \in n..Depth' : UpToDate(NewAbove(d), b)
    BY <2>2, <2>4, <2>5, <2>6 DEF BroughtAt
  <2>8. \A k \in Keys(Log(n)[l].updated) : \A d \in n..Depth' : \A o \in DOMAIN NewLog(d) :
          d > n \/ o > l => NewLog(d)[o].binaries[k] = {}
    BY <2>1, <2>4, <2>5, <2>6 DEF BroughtAt
  <2> QED  BY <1>4, <2>1, <2>3, <2>7, <2>8
<1>6. CASE Changes
  <2>1. PICK i \in Candidates : \E smooth \in SUBSET SmoothCandidates(i) :
    /\ Defined(i) /\ Permitted(i)
    /\ Depth' = Depth /\ target' = Applied(i, Adds(i), Removes(i, smooth))
    /\ SameStart(1..Depth) /\ SameLog(1..Depth - 1) /\ KeepsItems(1..Depth)
    /\ Depth # 0 => /\ NewLog(Depth) = Append(Log(Depth), Undo(i, Adds(i), Removes(i, smooth)))
                    /\ i \in NewItems(Depth)
    BY <1>6 DEF Changes
  <2>2. PICK smooth \in SUBSET SmoothCandidates(i) :
    /\ Defined(i) /\ Permitted(i)
    /\ Depth' = Depth /\ target' = Applied(i, Adds(i), Removes(i, smooth))
    /\ SameStart(1..Depth) /\ SameLog(1..Depth - 1) /\ KeepsItems(1..Depth)
    /\ Depth # 0 => /\ NewLog(Depth) = Append(Log(Depth), Undo(i, Adds(i), Removes(i, smooth)))
                    /\ i \in NewItems(Depth)
    BY <2>1
  <2> DEFINE undo == Undo(i, Adds(i), Removes(i, smooth))
             last == Len(Log(Depth)) + 1
  <2>3. n \in 1..Depth /\ Depth # 0 /\ Depth \in 1..Depth
    BY <1>1, <2>2
  <2>4. /\ \A m \in 1..Depth - 1 : NewLog(m) = Log(m) /\ NewAbove(m) = StateAbove(m)
        /\ NewAbove(Depth) = target'
        /\ \A m \in 1..Depth : Items(m) \subseteq NewItems(m)
    BY <1>6, <2>2, <2>3, StateAboveMoves DEF SameLog, KeepsItems
  <2>5. /\ DOMAIN NewLog(Depth) = 1..last /\ DOMAIN Log(Depth) = 1..Len(Log(Depth)) /\ Len(Log(Depth)) \in Nat
        /\ \A j \in DOMAIN Log(Depth) : NewLog(Depth)[j] = Log(Depth)[j]
        /\ NewLog(Depth)[last] = undo
  <3>1. Log(Depth) \in Seq(UndoItem) /\ undo \in UndoItem
    BY <1>1, <2>2, <2>3, AppliedType
  <3>2. NewLog(Depth) = Append(Log(Depth), undo)
    BY <2>2, <2>3
  <3> HIDE DEF undo
  <3> QED  BY <3>1, <3>2, AppendProperties
  <2> HIDE DEF undo, last
  <2>6. Sound(target)
    BY DEF ExactOK
  <2>7. ASSUME NEW m \in 1..Depth, NEW j \in DOMAIN Log(m), NEW b \in Log(m)[j].updated
        PROVE  UpToDate(target', b) /\ undo.binaries[KeyOf(b)] = {}
    <3>1. BroughtAt(m, j) /\ Log(m)[j].updated # {} /\ Depth \in m..Depth
      BY <1>1, <1>2, <2>7
    <3>2. PICK e \in Items(m) \cap UpgradeMe : Log(m)[j].updated = Adds(e)
      BY <3>1 DEF BroughtAt
    <3>3. UpToDate(target, b) /\ b \in Adds(e) /\ e \in UpgradeMe \cap Selected
      BY <1>1, <1>3, <2>7, <3>1, <3>2 DEF BroughtAt
    <3>4. /\ KeyOf(b) \notin Keys(Adds(i)) /\ KeyOf(b) \notin Keys(Removes(i, smooth))
          /\ UpToDate(target', b)
      BY <2>2, <2>6, <3>3, BroughtStays
    <3>5. KeyOf(b) \in Key
      BY <3>2, <3>3, UpdateAdds DEF Adds
    <3> QED  BY <3>4, <3>5 DEF undo, Undo, Replaced
  <2>8. CASE n \in 1..Depth - 1 \/ (n = Depth /\ l \in DOMAIN Log(Depth))
    <3>1. l \in DOMAIN Log(n) /\ NewLog(n)[l] = Log(n)[l]
      BY <2>3, <2>4, <2>5, <2>8
    <3>2. BroughtAt(n, l)
      BY <1>2, <2>3, <3>1
    <3>3. \A d \in n..Depth : d \in 1..Depth /\ (d \in 1..Depth - 1 \/ d = Depth)
      BY <1>1, <2>3
    <3>4. \A b \in Log(n)[l].updated : \A d \in n..Depth : UpToDate(NewAbove(d), b)
      BY <2>3, <2>4, <2>7, <3>1, <3>2, <3>3 DEF BroughtAt
    <3>5. ASSUME NEW k \in Keys(Log(n)[l].updated), NEW d \in n..Depth, NEW o \in DOMAIN NewLog(d), d > n \/ o > l
          PROVE  NewLog(d)[o].binaries[k] = {}
      <4>1. CASE o \in DOMAIN Log(d) /\ NewLog(d)[o] = Log(d)[o]
        BY <3>2, <3>5, <4>1 DEF BroughtAt
      <4>2. CASE d = Depth /\ o = last
        <5>1. PICK b \in Log(n)[l].updated : k = KeyOf(b)
          BY DEF Keys
        <5> QED  BY <2>3, <2>5, <2>7, <3>1, <4>2, <5>1
      <4>3. d \in 1..Depth - 1 => o \in DOMAIN Log(d) /\ NewLog(d)[o] = Log(d)[o]
        BY <2>4
      <4>4. d = Depth => o = last \/ (o \in DOMAIN Log(d) /\ NewLog(d)[o] = Log(d)[o])
        BY <2>5 DEF last
      <4> QED  BY <3>3, <4>1, <4>2, <4>3, <4>4
    <3> QED  BY <2>2, <2>3, <2>4, <3>1, <3>2, <3>4, <3>5 DEF BroughtAtNew, BroughtAt
  <2>9. CASE n = Depth /\ l = last
    <3>1. NewLog(n)[l].updated = Adds(i)
      BY <2>5, <2>9 DEF undo, Undo
    <3>2. Adds(i) # {} => i \in UpgradeMe
      BY AddsFiled
    <3>3. \A b \in Adds(i) : UpToDate(target', b)
      BY <2>2, BroughtUpToDate
    <3>4. \A d \in n..Depth' : d = Depth
      BY <1>1, <2>2, <2>9
    <3>5. \A o \in DOMAIN NewLog(Depth) : ~(o > l)
      BY <2>5, <2>9 DEF last
    <3> QED  BY <1>1, <2>2, <2>4, <2>9, <3>1, <3>2, <3>3, <3>4, <3>5 DEF BroughtAtNew
  <2>10. n \in 1..Depth - 1 \/ n = Depth
    BY <1>1, <2>3
  <2>11. n = Depth => l \in DOMAIN Log(Depth) \/ l = last
    BY <2>5 DEF last
  <2> QED  BY <2>8, <2>9, <2>10, <2>11
<1>7. CASE Commits
  <2>1. /\ Depth # 0 /\ Depth' = Depth - 1
        /\ \A m \in 1..Depth - 2 : NewLog(m) = Log(m)
        /\ \A m \in 1..Depth - 1 : Items(m) \subseteq NewItems(m)
    BY <1>7 DEF Commits, SameLog, KeepsItems
  <2>2. n \in 1..Depth - 1 /\ n \in 1..Depth /\ Depth # 1 /\ Depth - 1 \in 1..Depth /\ Depth \in 1..Depth
    BY <1>1, <2>1
  <2>3. NewLog(Depth - 1) = Log(Depth - 1) \o Log(Depth) /\ Items(Depth) \subseteq NewItems(Depth - 1)
    BY <1>7, <2>1, <2>2 DEF Commits
  <2>4. /\ \A m \in 1..Depth - 2 : NewAbove(m) = StateAbove(m)
        /\ NewAbove(Depth - 1) = StateAbove(Depth)
    BY <1>1, <1>7, <2>2, StateAboveMoves
  <2> DEFINE first == Log(Depth - 1)
             second == Log(Depth)
             shift == Len(first)
  <2>5. /\ first \in Seq(UndoItem) /\ second \in Seq(UndoItem)
        /\ shift \in Nat /\ Len(second) \in Nat
        /\ DOMAIN first = 1..shift /\ DOMAIN second = 1..Len(second)
    BY <1>1, <2>2
  <2>6. /\ DOMAIN NewLog(Depth - 1) = 1..shift + Len(second)
        /\ \A j \in 1..shift + Len(second) : NewLog(Depth - 1)[j] = IF j <= shift THEN first[j] ELSE second[j - shift]
    <3> HIDE DEF first, second
    <3>1. NewLog(Depth - 1) = first \o second
      BY <2>3 DEF first, second
    <3> QED  BY <2>5, <3>1, ConcatProperties
  <2> HIDE DEF first, second, shift
  \* An undo item comes from one of the two logs.
  <2>7. ASSUME NEW j \in DOMAIN NewLog(Depth - 1)
        PROVE  \/ j \in DOMAIN first /\ j <= shift /\ NewLog(Depth - 1)[j] = first[j]
               \/ j - shift \in DOMAIN second /\ j > shift /\ NewLog(Depth - 1)[j] = second[j - shift]
    BY <2>5, <2>6
  <2>8. \A d \in n..Depth' : d \in 1..Depth /\ d \in n..Depth /\ (d \in 1..Depth - 2 \/ d = Depth - 1)
    BY <1>1, <2>1, <2>2
  <2>9. Depth \in n..Depth /\ Depth > n
    BY <1>1, <2>2
  \* What the level itself brought.
  <2>10. ASSUME l \in DOMAIN Log(n), NewLog(n)[l] = Log(n)[l]
         PROVE  BroughtAtNew(n, l)
    <3>1. BroughtAt(n, l)
      BY <1>2, <2>2, <2>10
    <3>2. \A b \in Log(n)[l].updated : \A d \in n..Depth' : UpToDate(NewAbove(d), b)
      BY <2>4, <2>8, <2>9, <3>1 DEF BroughtAt
    <3>3. ASSUME NEW k \in Keys(Log(n)[l].updated), NEW d \in n..Depth', NEW o \in DOMAIN NewLog(d), d > n \/ o > l
          PROVE  NewLog(d)[o].binaries[k] = {}
      <4>1. CASE d \in 1..Depth - 2
        BY <2>1, <2>8, <3>1, <3>3, <4>1 DEF BroughtAt
      <4>2. CASE d = Depth - 1
        <5>1. CASE o \in DOMAIN first /\ NewLog(d)[o] = first[o]
          BY <2>8, <3>1, <3>3, <4>2, <5>1 DEF BroughtAt, first
        <5>2. CASE o - shift \in DOMAIN second /\ NewLog(d)[o] = second[o - shift]
          BY <2>9, <3>1, <5>2 DEF BroughtAt, second
        <5> QED  BY <2>7, <4>2, <5>1, <5>2
      <4> QED  BY <2>8, <4>1, <4>2
    <3> QED  BY <2>1, <2>2, <2>10, <3>1, <3>2, <3>3 DEF BroughtAtNew, BroughtAt
  \* What came with the child.
  <2>11. ASSUME n = Depth - 1, l - shift \in DOMAIN second, l > shift, NewLog(n)[l] = second[l - shift]
         PROVE  BroughtAtNew(n, l)
    <3>1. BroughtAt(Depth, l - shift)
      BY <1>2, <2>2, <2>11 DEF second
    <3>2. \A d \in n..Depth' : d = n
      BY <1>1, <2>1, <2>11
    <3>3. \A b \in second[l - shift].updated : UpToDate(NewAbove(n), b)
      BY <1>1, <2>4, <2>11, <3>1 DEF BroughtAt, second
    <3>4. ASSUME NEW k \in Keys(second[l - shift].updated), NEW o \in DOMAIN NewLog(n), o > l
          PROVE  NewLog(n)[o].binaries[k] = {}
      <4>1. l \in Nat /\ o \in Nat
        BY <2>5, <2>6, <2>11
      <4>2. o - shift \in DOMAIN second /\ NewLog(n)[o] = second[o - shift]
        BY <2>5, <2>7, <2>11, <3>4, <4>1
      <4>3. o - shift > l - shift
        BY <2>5, <3>4, <4>1
      <4> QED  BY <1>1, <3>1, <4>2, <4>3 DEF BroughtAt, second
    <3>5. second[l - shift].updated # {} =>
            \E i \in NewItems(n) \cap UpgradeMe : second[l - shift].updated = Adds(i)
      BY <2>3, <2>11, <3>1 DEF BroughtAt, second
    <3>6. \A d \in n..Depth' : ~(d > n)
      BY <1>1, <2>1, <2>11
    <3> QED  BY <2>11, <3>2, <3>3, <3>4, <3>5, <3>6 DEF BroughtAtNew
  <2>12. CASE n = Depth - 1
    BY <2>7, <2>10, <2>11, <2>12 DEF first
  <2>13. CASE n # Depth - 1
    <3>1. n \in 1..Depth - 2
      BY <1>1, <2>2, <2>13
    <3> QED  BY <2>1, <2>10, <3>1
  <2> QED  BY <2>12, <2>13
<1>8. CASE RollsBack
  <2>1. /\ Depth # 0 /\ Depth' = Depth - 1
        /\ \A m \in 1..Depth - 1 : NewLog(m) = Log(m) /\ Items(m) \subseteq NewItems(m)
    BY <1>8 DEF RollsBack, SameLog, KeepsItems
  <2>2. \A m \in 1..Depth - 1 : NewAbove(m) = StateAbove(m)
    BY <1>8, RollbackReturns, StateAboveMoves DEF RollsBack
  <2>3. n \in 1..Depth /\ n \in 1..Depth - 1 /\ \A d \in n..Depth' : d \in 1..Depth - 1 /\ d \in n..Depth
    BY <1>1, <2>1
  <2>4. BroughtAt(n, l)
    BY <1>2, <2>1, <2>3
  <2> QED  BY <2>1, <2>2, <2>3, <2>4 DEF BroughtAt, BroughtAtNew
<1>9. CASE Stays
  <2>1. Depth' = Depth /\ \A m : NewLog(m) = Log(m) /\ NewItems(m) = Items(m) /\ NewAbove(m) = StateAbove(m)
    BY <1>9 DEF Stays, Depth, NewLog, Log, NewItems, Items, NewAbove, NewStart, StateAbove
  <2> QED  BY <1>2, <2>1 DEF BroughtAt, BroughtAtNew
<1> QED  BY <1>5, <1>6, <1>7, <1>8, <1>9, StackMoves

\* What is left alone is not retaken.
LEMMA BroughtNotRetaken == TypeOK /\ BroughtOK => NothingRetaken
<1> SUFFICES ASSUME TypeOK, BroughtOK, NEW n \in 1..Depth,
                    NEW m \in DOMAIN Log(n), NEW j \in DOMAIN Log(n), NEW k \in Key,
                    m < j, k \in Keys(Log(n)[m].updated)
             PROVE  Log(n)[j].binaries[k] = {}
  BY DEF NothingRetaken, NotRetaken, Log
<1>1. Depth \in Nat /\ Log(n) \in Seq(UndoItem)
  BY LevelTypes
<1>2. n \in n..Depth /\ j > m
  BY <1>1
<1> QED  BY <1>2 DEF BroughtOK, BroughtAt

LEMMA InitBrought == Init => BroughtOK
<1>1. Init => Depth = 0
  BY EmptySeq DEF Init, Depth
<1> QED  BY <1>1 DEF BroughtOK

\* In an archive whose items are apart, no item of a transaction takes away
\* what another one of it brought, however the items are grouped and tried.
THEOREM ApartNotRetaken ==
  ASSUME ItemsApart
  PROVE  Spec => []NothingRetaken
<1>1. Init => ExactOK /\ BroughtOK
  BY InitExact, InitBrought
<1>2. TypeOK /\ TypeOK' /\ TablesRestorable /\ ExactOK /\ BroughtOK /\ [Next]_vars => BroughtOK'
  BY ItemsApart, NextBrought
<1>3. TypeOK /\ BroughtOK => NothingRetaken
  BY BroughtNotRetaken
<1>4. TypeOK /\ TypeOK' /\ TablesRestorable /\ ExactOK /\ NothingRetaken' /\ [Next]_vars => ExactOK'
  BY NextExact
<1> QED  BY <1>1, <1>2, <1>3, <1>4, TypeCorrect, RollbackRestoresTables, PTL DEF Spec

\* In such an archive the hints and components of the run are nested snapshots
\* of the whole suite, and whatever is tried, committed or rolled back leaves
\* the tables and the tester in agreement.
THEOREM ApartArchives ==
  ASSUME ItemsApart
  PROVE  Spec => [](BinariesRestorable /\ TablesAgree) /\ SuiteIsNested
<1>1. Spec => []NothingRetaken
  BY ItemsApart, ApartNotRetaken
<1> QED  BY <1>1, RollbackRestoresBinaries, TesterFollowsSuite, SuiteImplementsSnapshots, PTL

-----------------------------------------------------------------------------
(***************************************************************************)
(* Archives in which binaries and sources stay together.                   *)
(***************************************************************************)

\* The target suite as it was loaded holds what its sources list; a source that
\* is to be removed is there, without binaries of older versions.
StartsWhole ==
  /\ \A s \in Source : InitialSources[s] # NoSource =>
       \A b \in InitialSources[s].binaries : Bin[b].source = s /\ InitialBinaries[KeyOf(b)] = b
  /\ \A r \in UpgradeMe : r.kind = "remove_source" =>
       LET src == InitialSources[r.package]
       IN  src # NoSource /\ \A b \in src.binaries : Bin[b].source_version = src.version

\* What the items chosen so far brought is up to date.
BroughtHolds(st, chosen) == \A e \in UpgradeMe \cap chosen : \A b \in Adds(e) : UpToDate(st, b)

\* A binary that a source lists is in the suite, or one brought in its place.
ListsHold(st, chosen) ==
  \A s \in Source : st.sources[s] # NoSource => \A b \in st.sources[s].binaries :
    LET t == st.binaries[KeyOf(b)]
    IN  /\ Bin[b].source = s /\ t # NoBin
        /\ t = b \/ \E e \in UpgradeMe \cap chosen : t \in Adds(e)

HeldHaveSources(st) == \A b \in Holds(st.binaries) : st.sources[Bin[b].source] # NoSource

\* A source to remove leaves with all its binaries, and not before its item.
RemovalsWhole(st, chosen, now) ==
  \A r \in UpgradeMe : r.kind = "remove_source" =>
    LET src == st.sources[r.package]
    IN  /\ src = NoSource /\ now = "runs" => r \in chosen
        /\ src # NoSource => \A b \in Holds(st.binaries) : Bin[b].source = r.package =>
             b \in src.binaries /\ Bin[b].source_version = src.version

Regular(st, chosen, now) ==
  /\ BroughtHolds(st, chosen)
  /\ ListsHold(st, chosen)
  /\ HeldHaveSources(st)
  /\ RemovalsWhole(st, chosen, now)

RegularOK ==
  /\ Regular(target, Chosen(Depth), phase)
  /\ \A n \in 1..Depth : Regular(Start(n), Chosen(n - 1), phase)

LEMMA RegularNew ==
  RegularOK' <=> /\ Regular(target', NewChosen(Depth'), phase')
                 /\ \A n \in 1..Depth' : Regular(NewStart(n), NewChosen(n - 1), phase')
BY DEF RegularOK, Regular, BroughtHolds, ListsHold, HeldHaveSources, RemovalsWhole, Chosen, NewChosen,
       Items, NewItems, Start, NewStart, UpToDate, Holds, Adds, Hijacked, Covers, KeyOf

\* An item of the clean-up is no longer one of the excuses.
LEMMA RemovalKinds ==
  ASSUME TypeOK, NEW i \in Candidates, i.kind = "remove_source"
  PROVE  i \in ObsoleteItems \/ (phase = "runs" /\ i \in UpgradeMe \ Selected)
<1>1. i \notin CruftItems
  BY DEF CruftItems
<1> QED  BY <1>1 DEF Candidates, OldLibraries, TypeOK

\* What an item that is tried takes is not what another brought.
LEMMA NotBrought ==
  ASSUME ItemsApart, TypeOK, Filed(target), NEW i \in Candidates, i.kind # "remove_cruft", NEW b \in Leaving(i),
         NEW e \in UpgradeMe \cap Selected, target.binaries[KeyOf(b)] \in Adds(e)
  PROVE  FALSE
<1> DEFINE t == target.binaries[KeyOf(b)]
<1>1. /\ Covers(i, KeyOf(b)) /\ Bin[t].source = i.package /\ t # NoBin
      /\ target.sources[i.package] # NoSource /\ b \in target.sources[i.package].binaries
  BY DEF Leaving
<1>2. i \in Item /\ i.kind \in {"update", "remove_source"} /\ i.package \in Source
  BY GroupsType DEF Item
<1>3. KeyOf(b) \in Key
  <2>1. b \in BinId
    BY <1>1, <1>2 DEF TypeOK, Tables, SourceData
  <2> QED  BY <2>1, DataAssumption DEF KeyOf, BinaryData
<1>4. KeyOf(t) = KeyOf(b) /\ t \in Holds(target.binaries)
  BY <1>1, <1>3 DEF Filed, Holds
<1>5. e.kind = "update"
  BY DEF Adds
<1>6. Bin[t].source = e.package /\ Covers(e, KeyOf(b))
  BY <1>4, <1>5, UpdateAdds DEF Adds
<1>7. CASE i.kind = "update"
  <2>1. i \in UpgradeMe /\ i # e
    BY <1>7, CandidateKinds
  <2>2. e.arch # i.arch /\ SourceItem \notin {e.arch, i.arch}
    BY <1>1, <1>5, <1>6, <1>7, <2>1 DEF ItemsApart
  <2> QED  BY <1>1, <1>5, <1>6, <1>7, <2>2 DEF Covers
<1>8. CASE i \in UpgradeMe /\ i.kind = "remove_source"
  BY <1>1, <1>5, <1>6, <1>8 DEF ItemsApart
<1>9. CASE i \in ObsoleteItems
  BY <1>1, <1>4, <1>9 DEF ObsoleteItems
<1> QED  BY <1>2, <1>7, <1>8, <1>9, CandidateKinds

\* In a regular suite no candidate fails on a missing or doubled entry.
LEMMA RegularDefined ==
  ASSUME ItemsApart, TypeOK, Filed(target), Regular(target, Selected, phase)
  PROVE  CandidatesDefined
<1> SUFFICES ASSUME NEW i \in Candidates PROVE Defined(i)
  BY DEF CandidatesDefined
<1> DEFINE src == target.sources[i.package]
<1>1. i \in Item /\ i.kind \in {"update", "remove_source", "remove_cruft"}
  BY GroupsType DEF Item
<1>2. i.kind # "remove_cruft" => i.package \in Source
  BY <1>1 DEF Item
<1>3. ASSUME i.kind # "remove_cruft", src # NoSource, NEW b \in src.binaries
      PROVE  target.binaries[KeyOf(b)] # NoBin
  BY <1>2, <1>3 DEF Regular, ListsHold
<1>4. ASSUME i.kind # "remove_cruft", src # NoSource, NEW b \in Leaving(i)
      PROVE  target.binaries[KeyOf(b)] = b
  <2>1. b \in src.binaries
    BY DEF Leaving
  <2>2. \/ target.binaries[KeyOf(b)] = b
        \/ \E e \in UpgradeMe \cap Selected : target.binaries[KeyOf(b)] \in Adds(e)
    BY <1>2, <1>4, <2>1 DEF Regular, ListsHold
  <2> QED  BY <1>4, <2>2, NotBrought
<1>5. i.kind # "remove_cruft" /\ src # NoSource => \A b, c \in Leaving(i) : KeyOf(b) = KeyOf(c) => b = c
  BY <1>4
<1>6. CASE i.kind = "update"
  BY <1>3, <1>5, <1>6 DEF Defined
<1>7. CASE i.kind = "remove_source"
  <2>1. src # NoSource
    <3>1. CASE i \in ObsoleteItems
      BY <3>1 DEF ObsoleteItems
    <3>2. CASE phase = "runs" /\ i \in UpgradeMe \ Selected
      BY <1>7, <3>2 DEF Regular, RemovalsWhole
    <3> QED  BY <1>7, <3>1, <3>2, RemovalKinds
  <2> QED  BY <1>5, <1>7, <2>1 DEF Defined
<1>8. CASE i.kind = "remove_cruft"
  <2>1. i \in CruftItems
    BY <1>8, CandidateKinds
  <2>2. PICK b \in Holds(target.binaries) : IsCruft(b) /\ i.bin = b
    BY <2>1 DEF CruftItems
  <2>3. target.binaries[KeyOf(b)] = b /\ b # NoBin
    BY DEF Holds, Filed
  <2>4. target.sources[Bin[b].source] # NoSource
    BY <2>2 DEF IsCruft
  <2> QED  BY <1>8, <2>2, <2>3, <2>4 DEF Defined
<1> QED  BY <1>1, <1>6, <1>7, <1>8

-----------------------------------------------------------------------------
\* The sources and binaries after an item.
LEMMA AppliedTables ==
  ASSUME TypeOK, Sound(target), NEW i \in Candidates, Defined(i), Permitted(i), NEW smooth \in SUBSET SmoothCandidates(i)
  PROVE  LET adds == Adds(i)
             rms == Removes(i, smooth)
             new == Applied(i, adds, rms)
         IN  /\ \A s \in Source : s # SourceName(i) => new.sources[s] = target.sources[s]
             /\ i.kind = "remove_source" => new.sources[SourceName(i)] = NoSource /\ adds = {}
             /\ i.kind # "remove_source" =>
                  LET old == target.sources[SourceName(i)]
                      src == new.sources[SourceName(i)]
                  IN  /\ src # NoSource
                      /\ src.binaries = (IF old = NoSource THEN {} ELSE old.binaries \ rms) \cup adds
                      /\ i.kind = "remove_cruft" => src.version = old.version
             /\ \A k \in Key :
                  \/ \E b \in adds : KeyOf(b) = k /\ new.binaries[k] = b
                  \/ \E b \in rms : KeyOf(b) = k /\ target.binaries[k] = b /\ new.binaries[k] = NoBin
                  \/ k \notin Keys(rms) /\ k \notin Keys(adds) /\ new.binaries[k] = target.binaries[k]
<1> DEFINE adds == Adds(i)
           rms == Removes(i, smooth)
           new == Applied(i, adds, rms)
           s == SourceName(i)
<1>1. i \in Item /\ s \in Source
  BY GroupsType
<1>2. target.sources \in [Source -> SourceData \cup {NoSource}]
  BY DEF TypeOK, Tables
<1>3. new.sources = [target.sources EXCEPT ![s] = NewSource(i, adds, rms)]
  BY DEF Applied
<1>4. new.sources[s] = NewSource(i, adds, rms) /\ \A r \in Source : r # s => new.sources[r] = target.sources[r]
  BY <1>1, <1>2, <1>3
<1>5. i.kind = "remove_source" => new.sources[s] = NoSource /\ adds = {}
  BY <1>4 DEF NewSource, Adds
<1>6. ASSUME i.kind # "remove_source"
      PROVE  LET old == target.sources[s]
                 src == new.sources[s]
             IN  /\ src # NoSource
                 /\ src.binaries = (IF old = NoSource THEN {} ELSE old.binaries \ rms) \cup adds
                 /\ i.kind = "remove_cruft" => src.version = old.version
  <2>1. /\ new.sources[s] # NoSource
        /\ new.sources[s].binaries = (IF target.sources[s] = NoSource THEN {} ELSE target.sources[s].binaries \ rms) \cup adds
    BY <1>4, <1>6, NewSourceThere
  <2>2. i.kind = "remove_cruft" => new.sources[s].version = target.sources[s].version
    BY <1>4 DEF NewSource
  <2> QED  BY <2>1, <2>2
<1>7. ASSUME NEW k \in Key
      PROVE  \/ \E b \in adds : KeyOf(b) = k /\ new.binaries[k] = b
             \/ \E b \in rms : KeyOf(b) = k /\ target.binaries[k] = b /\ new.binaries[k] = NoBin
             \/ k \notin Keys(rms) /\ k \notin Keys(adds) /\ new.binaries[k] = target.binaries[k]
  <2>1. new.binaries[k] = IF k \in Keys(adds) THEN Pick(adds, k)
                          ELSE IF k \in Keys(rms) THEN NoBin ELSE target.binaries[k]
    BY DEF Applied, NewBinaries
  <2>2. CASE k \in Keys(adds)
    <3>1. PICK b \in adds : KeyOf(b) = k
      BY <2>2 DEF Keys
    <3> QED  BY <2>1, <2>2, <3>1, AddsFiled
  <2>3. CASE k \notin Keys(adds) /\ k \in Keys(rms)
    <3>1. PICK b \in rms : KeyOf(b) = k
      BY <2>3 DEF Keys
    <3> QED  BY <2>1, <2>3, <3>1, RemovesHeld DEF Sound
  <2> QED  BY <2>1, <2>2, <2>3
<1> QED  BY <1>4, <1>5, <1>6, <1>7

\* A regular suite stays so, whatever is tried on it.
LEMMA RegularApplied ==
  ASSUME ItemsApart, TypeOK, Sound(target), Regular(target, Selected, phase),
         NEW i \in Candidates, Defined(i), Permitted(i), NEW smooth \in SUBSET SmoothCandidates(i)
  PROVE  Regular(Applied(i, Adds(i), Removes(i, smooth)), Selected \cup {i}, phase)
<1> DEFINE adds == Adds(i)
           rms == Removes(i, smooth)
           new == Applied(i, adds, rms)
           p == SourceName(i)
<1>1. /\ i \in Item /\ p \in Source /\ i.kind \in {"update", "remove_source", "remove_cruft"}
      /\ i.kind # "remove_cruft" => p = i.package
  BY GroupsType DEF Item, SourceName
<1>2. /\ \A s \in Source : s # p => new.sources[s] = target.sources[s]
      /\ i.kind = "remove_source" => new.sources[p] = NoSource /\ adds = {}
      /\ i.kind # "remove_source" =>
           /\ new.sources[p] # NoSource
           /\ new.sources[p].binaries =
                (IF target.sources[p] = NoSource THEN {} ELSE target.sources[p].binaries \ rms) \cup adds
           /\ i.kind = "remove_cruft" => new.sources[p].version = target.sources[p].version
      /\ \A k \in Key :
           \/ \E b \in adds : KeyOf(b) = k /\ new.binaries[k] = b
           \/ \E b \in rms : KeyOf(b) = k /\ target.binaries[k] = b /\ new.binaries[k] = NoBin
           \/ k \notin Keys(rms) /\ k \notin Keys(adds) /\ new.binaries[k] = target.binaries[k]
  BY AppliedTables
<1>3. /\ target.sources \in [Source -> SourceData \cup {NoSource}]
      /\ target.binaries \in [Key -> BinId \cup {NoBin}]
  BY DEF TypeOK, Tables
<1>4. \A b \in adds : /\ i \in UpgradeMe /\ i.kind = "update" /\ b \in BinId /\ b # NoBin /\ KeyOf(b) \in Key
                      /\ Bin[b].source = p
  BY <1>1, AddsFiled, DataAssumption
\* What leaves is of the source of the item.
<1>5. \A b \in rms : Bin[b].source = p /\ target.binaries[KeyOf(b)] = b /\ KeyOf(b) \in Key
  <2> SUFFICES ASSUME NEW b \in rms PROVE Bin[b].source = p /\ target.binaries[KeyOf(b)] = b /\ KeyOf(b) \in Key
    OBVIOUS
  <2>1. target.binaries[KeyOf(b)] = b /\ KeyOf(b) \in Key
    BY RemovesHeld DEF Sound
  <2>2. CASE i.kind = "remove_cruft"
    BY <2>1, <2>2 DEF Removes, SourceName
  <2>3. CASE i.kind # "remove_cruft"
    BY <1>1, <2>1, <2>3 DEF Removes, Leaving
  <2> QED  BY <2>1, <2>2, <2>3
<1>6. ASSUME NEW e \in UpgradeMe \cap Selected, NEW b \in Adds(e)
      PROVE  UpToDate(new, b) /\ KeyOf(b) \notin Keys(rms)
  <2>1. UpToDate(target, b)
    BY DEF Regular, BroughtHolds
  <2> QED  BY <2>1, BroughtStays
<1>7. BroughtHolds(new, Selected \cup {i})
  BY <1>6, BroughtUpToDate DEF BroughtHolds
<1>8. ListsHold(new, Selected \cup {i})
  <2> SUFFICES ASSUME NEW s \in Source, new.sources[s] # NoSource, NEW b \in new.sources[s].binaries
               PROVE  /\ Bin[b].source = s /\ new.binaries[KeyOf(b)] # NoBin
                      /\ \/ new.binaries[KeyOf(b)] = b
                         \/ \E e \in UpgradeMe \cap (Selected \cup {i}) : new.binaries[KeyOf(b)] \in Adds(e)
    BY DEF ListsHold
  <2>1. CASE b \in adds /\ s = p
    <3>1. KeyOf(b) \in Keys(adds) /\ Pick(adds, KeyOf(b)) = b
      BY <2>1, AddsFiled DEF Keys
    <3>2. new.binaries[KeyOf(b)] = b
      BY <1>4, <2>1, <3>1 DEF Applied, NewBinaries
    <3> QED  BY <1>4, <2>1, <3>2
  <2>2. CASE target.sources[s] # NoSource /\ b \in target.sources[s].binaries /\ (s = p => b \notin rms)
    <3>1. KeyOf(b) \in Key
      <4>1. b \in BinId
        BY <1>3, <2>2 DEF SourceData
      <4> QED  BY <4>1, DataAssumption DEF KeyOf, BinaryData
    <3>2. /\ Bin[b].source = s /\ target.binaries[KeyOf(b)] # NoBin
          /\ \/ target.binaries[KeyOf(b)] = b
             \/ \E e \in UpgradeMe \cap Selected : target.binaries[KeyOf(b)] \in Adds(e)
      BY <2>2 DEF Regular, ListsHold
    <3>3. CASE \E c \in adds : KeyOf(c) = KeyOf(b) /\ new.binaries[KeyOf(b)] = c
      BY <1>4, <3>2, <3>3
    <3>4. CASE \E c \in rms : KeyOf(c) = KeyOf(b) /\ target.binaries[KeyOf(b)] = c
      <4>1. PICK c \in rms : KeyOf(c) = KeyOf(b) /\ target.binaries[KeyOf(b)] = c
        BY <3>4
      <4>2. CASE c = b
        BY <1>5, <2>2, <3>2, <4>2
      <4>3. CASE \E e \in UpgradeMe \cap Selected : c \in Adds(e)
        <5>1. PICK e \in UpgradeMe \cap Selected : c \in Adds(e)
          BY <4>3
        <5> QED  BY <1>6, <5>1 DEF Keys
      <4> QED  BY <3>2, <4>1, <4>2, <4>3
    <3>5. CASE new.binaries[KeyOf(b)] = target.binaries[KeyOf(b)]
      BY <3>2, <3>5
    <3> QED  BY <1>2, <3>1, <3>3, <3>4, <3>5
  <2> QED  BY <1>1, <1>2, <2>1, <2>2
\* What is held before and after an item is not removed.
<1>9. ASSUME NEW b \in Holds(new.binaries), b \notin adds
      PROVE  b \in Holds(target.binaries) /\ b \notin rms
  <2>1. PICK k \in Key : new.binaries[k] = b /\ b # NoBin
    BY DEF Holds
  <2>2. k \notin Keys(rms) /\ target.binaries[k] = b
    BY <1>2, <1>9, <2>1
  <2>3. b \in Holds(target.binaries) /\ KeyOf(b) = k
    BY <2>1, <2>2 DEF Holds, Sound, Filed
  <2> QED  BY <2>2, <2>3 DEF Keys
<1>10. HeldHaveSources(new)
  <2> SUFFICES ASSUME NEW b \in Holds(new.binaries) PROVE new.sources[Bin[b].source] # NoSource
    BY DEF HeldHaveSources
  <2>1. CASE b \in adds
    BY <1>2, <1>4, <2>1
  <2>2. CASE b \notin adds
    <3>1. b \in Holds(target.binaries) /\ b \notin rms
      BY <1>9, <2>2
    <3>2. target.sources[Bin[b].source] # NoSource
      BY <3>1 DEF Regular, HeldHaveSources
    <3>3. b \in BinId /\ target.binaries[KeyOf(b)] = b /\ b # NoBin
      BY <1>3, <3>1 DEF Holds, Sound, Filed
    <3>4. Bin[b].source \in Source
      BY <3>3, DataAssumption DEF BinaryData
    <3>5. ASSUME i.kind = "remove_source", Bin[b].source = p PROVE FALSE
      <4>1. CASE i \in ObsoleteItems
        BY <1>1, <3>1, <3>5, <4>1 DEF ObsoleteItems
      <4>2. CASE i \in UpgradeMe
        <5>1. b \in target.sources[p].binaries /\ Bin[b].source_version = target.sources[p].version
          BY <1>1, <3>1, <3>2, <3>5, <4>2 DEF Regular, RemovalsWhole
        <5>2. b \in Leaving(i)
          BY <1>1, <3>2, <3>3, <3>5, <5>1 DEF Leaving, Covers
        <5>3. smooth = {}
          BY <3>5 DEF SmoothCandidates
        <5>4. b \in rms
          BY <3>5, <5>2, <5>3 DEF Removes
        <5> QED  BY <3>1, <5>4
      <4> QED  BY <3>5, <4>1, <4>2, RemovalKinds
    <3>6. CASE Bin[b].source = p
      BY <1>2, <3>5, <3>6
    <3>7. CASE Bin[b].source # p
      BY <1>2, <3>2, <3>4, <3>7
    <3> QED  BY <3>6, <3>7
  <2> QED  BY <2>1, <2>2
<1>11. RemovalsWhole(new, Selected \cup {i}, phase)
  <2> SUFFICES ASSUME NEW r \in UpgradeMe, r.kind = "remove_source"
               PROVE  LET src == new.sources[r.package]
                      IN  /\ src = NoSource /\ phase = "runs" => r \in Selected \cup {i}
                          /\ src # NoSource => \A b \in Holds(new.binaries) : Bin[b].source = r.package =>
                               b \in src.binaries /\ Bin[b].source_version = src.version
    BY DEF RemovalsWhole
  <2> DEFINE old == target.sources[r.package]
             src == new.sources[r.package]
  <2>1. r \in Item /\ r.package \in Source
    BY DataAssumption DEF Item
  <2>2. /\ old = NoSource /\ phase = "runs" => r \in Selected
        /\ old # NoSource => \A b \in Holds(target.binaries) : Bin[b].source = r.package =>
             b \in old.binaries /\ Bin[b].source_version = old.version
    BY DEF Regular, RemovalsWhole
  <2>3. i.kind = "update" => p # r.package
    <3>1. i.kind = "update" => i \in UpgradeMe /\ p = i.package
      BY <1>1, CandidateKinds
    <3> QED  BY <3>1 DEF ItemsApart
  <2>4. \A b \in Holds(new.binaries) : Bin[b].source = r.package => b \in Holds(target.binaries) /\ b \notin rms
    BY <1>4, <1>9, <2>3
  <2>5. CASE p # r.package
    BY <1>2, <2>1, <2>2, <2>4, <2>5
  <2>6. CASE p = r.package /\ i.kind = "remove_source"
    <3>1. i = r
      <4>1. i \in [kind : {"remove_source"}, package : Source] /\ r \in [kind : {"remove_source"}, package : Source]
        BY <1>1, <2>1, <2>6 DEF Item
      <4> QED  BY <1>1, <2>6, <4>1
    <3> QED  BY <1>2, <2>6, <3>1
  <2>7. CASE p = r.package /\ i.kind = "remove_cruft"
    <3>1. i \in CruftItems /\ p = Bin[i.bin].source
      BY <2>7, CandidateKinds DEF SourceName
    <3>2. PICK b \in Holds(target.binaries) : i.bin = b /\ IsCruft(b)
      BY <3>1 DEF CruftItems
    <3>3. old # NoSource /\ Bin[b].source_version # old.version
      BY <2>7, <3>1, <3>2 DEF IsCruft
    <3> QED  BY <2>2, <2>7, <3>1, <3>2, <3>3
  <2> QED  BY <1>1, <2>3, <2>5, <2>6, <2>7
<1> QED  BY <1>7, <1>8, <1>10, <1>11 DEF Regular

-----------------------------------------------------------------------------
LEMMA InitRegular ==
  ASSUME StartsWhole
  PROVE  Init => RegularOK
<1> SUFFICES ASSUME Init PROVE RegularOK
  OBVIOUS
<1>1. Depth = 0 /\ Chosen(Depth) = {}
  <2>1. Depth = 0
    BY EmptySeq DEF Init, Depth
  <2> QED  BY <2>1, ChosenIs DEF Init
<1>2. target.sources = InitialSources /\ target.binaries = InitialBinaries
  BY DEF Init
<1>3. ListsHold(target, {})
  <2> SUFFICES ASSUME NEW s \in Source, InitialSources[s] # NoSource, NEW b \in InitialSources[s].binaries
               PROVE  Bin[b].source = s /\ InitialBinaries[KeyOf(b)] # NoBin /\ InitialBinaries[KeyOf(b)] = b
    BY <1>2 DEF ListsHold
  <2>1. b \in BinId
    BY DataAssumption DEF SourceData
  <2> QED  BY <2>1, DataAssumption DEF StartsWhole
<1>4. \A b \in Holds(InitialBinaries) :
        /\ InitialSources[Bin[b].source] # NoSource
        /\ b \in InitialSources[Bin[b].source].binaries
  BY LoaderAssumption DEF Holds
<1>5. RemovalsWhole(target, {}, phase)
  BY <1>2, <1>4 DEF RemovalsWhole, StartsWhole
<1>6. BroughtHolds(target, {}) /\ HeldHaveSources(target)
  BY <1>2, <1>4 DEF BroughtHolds, HeldHaveSources
<1> QED  BY <1>1, <1>3, <1>5, <1>6 DEF RegularOK, Regular

\* Every step leaves the present and the saved suites regular.
LEMMA NextRegular ==
  ItemsApart /\ TypeOK /\ TablesRestorable /\ ExactOK /\ RegularOK /\ [Next]_vars => RegularOK'
<1> SUFFICES ASSUME ItemsApart, TypeOK, TablesRestorable, ExactOK, RegularOK, [Next]_vars
             PROVE  /\ Regular(target', NewChosen(Depth'), phase')
                    /\ \A n \in 1..Depth' : Regular(NewStart(n), NewChosen(n - 1), phase')
  BY RegularNew
<1>1. Depth \in Nat /\ (Depth = 0 <=> transactions = <<>>)
  BY LevelTypes
<1>2. /\ Regular(target, Chosen(Depth), phase)
      /\ \A n \in 1..Depth : Regular(Start(n), Chosen(n - 1), phase)
  BY DEF RegularOK
<1>3. Chosen(Depth) = Selected
  BY DEF Chosen, Selected, Items
<1>4. \A n \in 1..Depth : n - 1 \in 0..Depth /\ n - 1 \in 0..Depth - 1
  BY <1>1
<1>5. CASE Begins
  <2>1. /\ Depth' = Depth + 1 /\ target' = target /\ phase' = phase
        /\ \A n \in 1..Depth : NewStart(n) = Start(n) /\ NewChosen(n - 1) = Chosen(n - 1)
        /\ NewStart(Depth + 1) = target /\ NewChosen(Depth + 1) = Chosen(Depth) /\ NewChosen(Depth) = Chosen(Depth)
    BY <1>1, <1>4, <1>5 DEF Begins, SameStart, SameChosen
  <2>2. \A n \in 1..Depth' : n \in 1..Depth \/ (n = Depth + 1 /\ n - 1 = Depth)
    BY <1>1, <2>1
  <2> QED  BY <1>2, <2>1, <2>2
<1>6. CASE Changes
  <2>1. PICK i \in Candidates : \E smooth \in SUBSET SmoothCandidates(i) :
    /\ Defined(i) /\ Permitted(i)
    /\ Depth' = Depth /\ target' = Applied(i, Adds(i), Removes(i, smooth))
    /\ SameStart(1..Depth) /\ SameChosen(0..Depth - 1)
    /\ NewChosen(Depth) = Chosen(Depth) \cup {i} /\ phase' = phase
    BY <1>6 DEF Changes
  <2>2. PICK smooth \in SUBSET SmoothCandidates(i) :
    /\ Defined(i) /\ Permitted(i)
    /\ Depth' = Depth /\ target' = Applied(i, Adds(i), Removes(i, smooth))
    /\ SameStart(1..Depth) /\ SameChosen(0..Depth - 1)
    /\ NewChosen(Depth) = Chosen(Depth) \cup {i} /\ phase' = phase
    BY <2>1
  <2>3. Sound(target)
    BY DEF ExactOK
  <2>4. Regular(target', NewChosen(Depth'), phase')
    BY <1>2, <1>3, <2>2, <2>3, RegularApplied
  <2>5. \A n \in 1..Depth : NewStart(n) = Start(n) /\ NewChosen(n - 1) = Chosen(n - 1)
    BY <1>4, <2>2 DEF SameStart, SameChosen
  <2> QED  BY <1>2, <2>2, <2>4, <2>5
<1>7. CASE Commits
  <2>1. /\ Depth # 0 /\ Depth' = Depth - 1 /\ target' = target /\ phase' = phase
        /\ NewChosen(Depth') = Chosen(Depth)
        /\ SameStart(1..Depth - 1) /\ SameChosen(0..Depth - 2)
    BY <1>7 DEF Commits
  <2>2. \A n \in 1..Depth' : n \in 1..Depth - 1 /\ n \in 1..Depth /\ n - 1 \in 0..Depth - 2
    BY <1>1, <2>1
  <2> QED  BY <1>2, <2>1, <2>2 DEF SameStart, SameChosen
<1>8. CASE RollsBack
  <2>1. /\ Depth # 0 /\ Depth' = Depth - 1 /\ phase' = phase
        /\ target' = Restored(Log(Depth), target)
        /\ SameStart(1..Depth - 1) /\ SameChosen(0..Depth - 1)
    BY <1>8 DEF RollsBack
  <2>2. target' = Start(Depth)
    BY <2>1, RollbackReturns
  <2>3. Depth \in 1..Depth /\ Depth - 1 \in 0..Depth - 1
    BY <1>1, <2>1
  <2>4. \A n \in 1..Depth' : n \in 1..Depth - 1 /\ n \in 1..Depth /\ n - 1 \in 0..Depth - 1
    BY <1>1, <2>1
  <2> QED  BY <1>2, <2>1, <2>2, <2>3, <2>4 DEF SameStart, SameChosen
<1>9. CASE Stays
  <2>1. /\ Depth' = Depth /\ target' = target
        /\ \A n : NewStart(n) = Start(n) /\ NewChosen(n) = Chosen(n)
        /\ phase' # phase => phase' # "runs"
    BY <1>9 DEF Stays, Depth, NewStart, Start, NewChosen, Chosen, NewItems, Items
  <2>2. ASSUME NEW st, NEW chosen, Regular(st, chosen, phase)
        PROVE  Regular(st, chosen, phase')
    BY <2>1, <2>2 DEF Regular, RemovalsWhole
  <2> QED  BY <1>2, <2>1, <2>2
<1> QED  BY <1>5, <1>6, <1>7, <1>8, <1>9, StackMoves

\* What is regular passes check_suite_source_pkg_consistency.
LEMMA RegularConsistent == RegularOK => SourcePkgConsistency
<1> SUFFICES ASSUME RegularOK PROVE SourcePkgConsistency
  OBVIOUS
<1>1. ListsHold(target, Chosen(Depth)) /\ HeldHaveSources(target)
  BY DEF RegularOK, Regular
<1> QED  BY <1>1 DEF SourcePkgConsistency, ListsHold, HeldHaveSources

\* If the items of an archive are apart and its target suite is whole, then the
\* suite stays regular: the invariant, with what it rests on.
LEMMA AlwaysRegular ==
  ASSUME ItemsApart, StartsWhole
  PROVE  Spec => [](TypeOK /\ ExactOK /\ RegularOK)
<1>1. Spec => []ExactOK
  BY ItemsApart, ApartNotRetaken, AlwaysExact, PTL
<1>2. Init => RegularOK
  BY StartsWhole, InitRegular
<1>3. TypeOK /\ TablesRestorable /\ ExactOK /\ RegularOK /\ [Next]_vars => RegularOK'
  BY ItemsApart, NextRegular
<1> QED  BY <1>1, <1>2, <1>3, TypeCorrect, RollbackRestoresTables, PTL DEF Spec

\* In such an archive check_suite_source_pkg_consistency never fails: between
\* transactions each binary has its source and each source its binaries,
\* whatever was tried and rolled back, through smooth updates, binaries that
\* other sources take over, removals, cruft and the clean-up.
THEOREM SourcesAndBinariesTogether ==
  ASSUME ItemsApart, StartsWhole
  PROVE  Spec => []SourcePkgConsistency
<1> QED  BY ItemsApart, StartsWhole, AlwaysRegular, RegularConsistent, PTL

\* In such an archive compute_groups and the application of an item find every
\* table entry they look up, once, for each item that may be tried.
THEOREM NoLookupFails ==
  ASSUME ItemsApart, StartsWhole
  PROVE  Spec => []CandidatesDefined
<1>1. TypeOK /\ ExactOK /\ RegularOK => CandidatesDefined
  <2> SUFFICES ASSUME TypeOK, ExactOK, RegularOK PROVE CandidatesDefined
    OBVIOUS
  <2>1. Chosen(Depth) = Selected
    BY DEF Chosen, Selected, Items
  <2>2. Filed(target) /\ Regular(target, Selected, phase)
    BY <2>1 DEF ExactOK, Sound, RegularOK
  <2> QED  BY <2>2, ItemsApart, RegularDefined
<1> QED  BY <1>1, ItemsApart, StartsWhole, AlwaysRegular, PTL

=============================================================================
