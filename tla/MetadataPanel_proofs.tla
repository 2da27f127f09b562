------------------------ MODULE MetadataPanel_proofs ------------------------
(***************************************************************************)
(* Proofs about the prefixes of a project and the metadata panel, for any  *)
(* projects, namespaces, ontologies, URIs and prefixes, whatever the model *)
(* guesses and whatever fails: the maps and the file of the prefixes       *)
(* agree; a panel that has been told of every change shows what the server *)
(* has, and text that is not saved is marked.  The table of the store is   *)
(* guessed by a loop, which takes an induction.                            *)
(***************************************************************************)
EXTENDS MetadataPanel, Induction

-----------------------------------------------------------------------------
(* Guessing prefixes *)

(* The function that FoldLeft folds with, on the sets of places of a        *)
(* sequence: it exists for those of 1..N by induction on N.                  *)
Iter(iter, table, order, S) ==
  iter = [s \in SUBSET S |-> IF s = {} THEN {table} ELSE GuessFor(iter[s \ {Max(s)}], order[Max(s)])]

LEMMA FoldIsIter ==
  ASSUME NEW table, NEW order
  PROVE  FoldLeft(GuessFor, {table}, order) = (CHOOSE iter : Iter(iter, table, order, DOMAIN order))[DOMAIN order]
BY DEF FoldLeft, MapThenFoldSet, Iter

LEMMA IterExists ==
  ASSUME NEW table, NEW order, NEW N \in Nat
  PROVE  \E iter : Iter(iter, table, order, 1..N)
<1> DEFINE P == {n \in Nat : \E iter : Iter(iter, table, order, 1..n)}
<1>1. 0 \in P
  <2>1. Iter([s \in SUBSET (1..0) |-> {table}], table, order, 1..0)
    BY DEF Iter
  <2>2. QED
    BY <2>1
<1>2. ASSUME NEW n \in P PROVE n + 1 \in P
  <2>1. PICK g : Iter(g, table, order, 1..n)
    BY <1>2
  <2> DEFINE body(s, iter) == IF s = {} THEN {table} ELSE GuessFor(iter[s \ {Max(s)}], order[Max(s)])
             h == [s \in SUBSET (1..n+1) |-> body(s, g)]
  <2>2. ASSUME NEW s \in SUBSET (1..n) PROVE h[s] = g[s]
    <3>1. s \in SUBSET (1..n+1)
      OBVIOUS
    <3>2. QED
      BY <2>1, <3>1 DEF Iter
  <2>3. ASSUME NEW s \in SUBSET (1..n+1), s # {} PROVE s \ {Max(s)} \in SUBSET (1..n)
    <3>1. Max(s) \in s /\ \A i \in s : Max(s) >= i
      <4>1. n + 1 \in Nat
        OBVIOUS
      <4>2. QED
        BY <2>3, <4>1, MaxOf
    <3>2. ASSUME NEW i \in s \ {Max(s)} PROVE i \in 1..n
      <4>1. n \in Nat /\ i \in 1..n+1 /\ Max(s) \in 1..n+1 /\ Max(s) >= i /\ i # Max(s)
        BY <3>1, <3>2
      <4>2. QED
        BY <4>1
    <3>3. QED
      BY <3>2
  <2>4. ASSUME NEW s \in SUBSET (1..n+1) PROVE h[s] = body(s, h)
    BY <2>2, <2>3
  <2>5. h = [s \in SUBSET (1..n+1) |-> body(s, h)]
    BY <2>4
  <2>6. Iter(h, table, order, 1..n+1)
    BY <2>5 DEF Iter
  <2>7. QED
    BY <2>6
<1> HIDE DEF P
<1>3. P = Nat
  BY <1>1, <1>2, UpTo DEF P
<1>4. QED
  BY <1>3 DEF P

(* Guessing prefixes, for any namespaces in any order, leaves a table.      *)
LEMMA GuessedTables ==
  ASSUME NEW table \in NamespaceMaps, NEW N \in Nat, NEW order \in [1..N -> Namespace]
  PROVE  FoldLeft(GuessFor, {table}, order) \subseteq NamespaceMaps
<1> DEFINE iter == CHOOSE iter : Iter(iter, table, order, 1..N)
           P == {n \in Nat : n <= N => iter[1..n] \subseteq NamespaceMaps}
<1>1. Iter(iter, table, order, 1..N)
  BY IterExists
<1> HIDE DEF iter
<1>2. 0 \in P
  BY <1>1 DEF Iter
<1>3. ASSUME NEW n \in P, n + 1 <= N PROVE iter[1..n+1] \subseteq NamespaceMaps
  <2>1. iter[1..n] \subseteq NamespaceMaps
    BY <1>3
  <2>2. Max(1..n+1) = n + 1
    <3>1. n + 1 \in Nat /\ n + 1 \in 1..n+1
      BY <1>3
    <3> DEFINE all == 1..n+1
    <3>2. all \in SUBSET (1..n+1) /\ all # {}
      BY <3>1
    <3>3. Max(all) \in all /\ Max(all) >= n + 1
      BY <3>1, <3>2, MaxOf
    <3>4. QED
      BY <3>1, <3>3
  <2>3. (1..n+1) \ {n + 1} = 1..n
    BY <1>3
  <2>4. iter[1..n+1] = GuessFor(iter[1..n], order[n + 1])
    <3>1. n \in Nat /\ 1..n+1 \in SUBSET (1..N) /\ n + 1 \in 1..n+1
      BY <1>3
    <3>2. iter[1..n+1] = GuessFor(iter[(1..n+1) \ {Max(1..n+1)}], order[Max(1..n+1)])
      BY <1>1, <3>1 DEF Iter
    <3>3. QED
      BY <2>2, <2>3, <3>2
  <2>5. order[n + 1] \in Namespace
    BY <1>3
  <2>6. QED
    BY <2>1, <2>4, <2>5, GuessAssumption DEF GuessFor, GuessMissingPrefix, SetNsPrefix, NamespaceMaps
<1>4. \A n \in P : n + 1 \in P
  BY <1>3
<1> HIDE DEF P
<1>5. P = Nat
  BY <1>2, <1>4, UpTo DEF P
<1>6. iter[1..N] \subseteq NamespaceMaps
  BY <1>5 DEF P
<1>7. DOMAIN order = 1..N
  OBVIOUS
<1>8. FoldLeft(GuessFor, {table}, order) = iter[1..N]
  BY <1>7, FoldIsIter DEF iter
<1>9. QED
  BY <1>6, <1>8

(* The namespaces of a set are listed in an order of all of them.           *)
LEMMA GuessedIsTable ==
  ASSUME NEW table \in NamespaceMaps, NEW namespaces \in SUBSET Namespace
  PROVE  Guessed(table, namespaces) \subseteq NamespaceMaps
<1>1. Cardinality(namespaces) \in Nat
  BY NamesAssumption, FS_Subset, FS_CardinalityType
<1>2. ASSUME NEW order \in SetToSeqs(namespaces)
      PROVE  FoldLeft(GuessFor, {table}, order) \subseteq NamespaceMaps
  <2>1. order \in [1..Cardinality(namespaces) -> Namespace]
    BY <1>2 DEF SetToSeqs
  <2>2. QED
    BY <1>1, <2>1, GuessedTables
<1>3. QED
  BY <1>2 DEF Guessed

LEMMA StoreIsTable ==
  ASSUME NEW table \in NamespaceMaps, NEW n \in Namespace, NEW p \in Prefix
  PROVE  /\ SetNsPrefix(table, n, p) \subseteq NamespaceMaps
         /\ RemoveNsPrefixMapping(table, n) \subseteq NamespaceMaps
<1>1. SetNsPrefix(table, n, p) \subseteq NamespaceMaps
  BY DEF SetNsPrefix, NamespaceMaps
<1>2. RemoveNsPrefixMapping(table, n) \subseteq NamespaceMaps
  BY DEF RemoveNsPrefixMapping, NamespaceMaps
<1>3. QED
  BY <1>1, <1>2

LEMMA OpenedStoreIsTable ==
  ASSUME prefixNamespaceMap' \in NamespaceMaps, NEW table \in KeptByStore
  PROVE  InitializeMappingsPersistence(table) \subseteq NamespaceMaps
<1>1. NoNamespaces \in NamespaceMaps
  BY DEF NoNamespaces, NamespaceMaps
<1>2. table \in NamespaceMaps
  BY <1>1, GuessedIsTable DEF KeptByStore
<1>3. QED
  BY <1>2 DEF InitializeMappingsPersistence, NamespaceMaps

-----------------------------------------------------------------------------
(* The invariant *)

(* What is kept for a project has the right type, and agrees.              *)
PInv == PrefixTypeOK /\ PrefixesAgree

LEMMA InitKept == PrefixInit => PInv
<1>1. ASSUME PrefixInit PROVE PrefixTypeOK
  BY <1>1 DEF PrefixInit, PrefixTypeOK, NoPrefixes, NoNamespaces, PrefixMaps, NamespaceMaps
<1>2. ASSUME PrefixInit PROVE PrefixesAgree
  BY <1>2, ProjectsAssumption DEF PrefixInit, PrefixesAgree, MapsAgree, FileIsCurrent, NoNamespaces
<1>3. QED
  BY <1>1, <1>2 DEF PInv

-----------------------------------------------------------------------------
(* The file *)

(* A request writes the file from the map by namespace if the project is   *)
(* one that writes every change.                                            *)
LEMMA PersistedKeeps ==
  ASSUME PInv, loaded # NoProject, UNCHANGED loaded, Persisted, namespacePrefixMap' \in PrefixMaps
  PROVE  /\ file' \in [Projects -> PrefixMaps] /\ unwritten' \in BOOLEAN
         /\ FileIsCurrent'
<1>1. loaded \in Projects
  BY DEF PInv, PrefixTypeOK
<1>2. CASE loaded \in Continuous
  BY <1>1, <1>2 DEF PInv, PrefixTypeOK, Persisted, UpdatePrefixMappingRegistry, FileIsCurrent
<1>3. CASE loaded \notin Continuous
  BY <1>1, <1>3 DEF PInv, PrefixTypeOK, Persisted, FileIsCurrent
<1>4. QED
  BY <1>2, <1>3

(* A failing write leaves a file that is known to be behind.               *)
LEMMA FailureKeeps ==
  ASSUME PInv, loaded \in Projects, RegistryFails
  PROVE  /\ file' \in [Projects -> PrefixMaps] /\ unwritten' \in BOOLEAN
         /\ FileIsCurrent'
<1>1. NoPrefixes \in PrefixMaps
  BY DEF NoPrefixes, PrefixMaps
<1>2. QED
  BY <1>1 DEF PInv, PrefixTypeOK, RegistryFails, FileIsCurrent

-----------------------------------------------------------------------------
(* The maps *)

LEMMA MappedKeeps ==
  ASSUME PInv, NEW n \in Namespace, NEW p \in Prefix, Mapped(n, p)
  PROVE  /\ namespacePrefixMap' \in PrefixMaps
         /\ prefixNamespaceMap' \in NamespaceMaps
         /\ MapsAgree'
<1>1. namespacePrefixMap' \in PrefixMaps /\ prefixNamespaceMap' \in NamespaceMaps
  BY DEF PInv, PrefixTypeOK, Mapped, PrefixMaps, NamespaceMaps
<1>2. ASSUME NEW q \in Prefix, prefixNamespaceMap'[q] # NoNamespace
      PROVE  namespacePrefixMap'[prefixNamespaceMap'[q]] = q
  <2>1. CASE q = p
    BY <2>1 DEF PInv, PrefixTypeOK, Mapped, PrefixMaps
  <2>2. CASE q # p
    <3>1. q # namespacePrefixMap[n] /\ prefixNamespaceMap'[q] = prefixNamespaceMap[q]
      BY <1>2, <2>2 DEF Mapped
    <3>2. prefixNamespaceMap[q] \in Namespace /\ namespacePrefixMap[prefixNamespaceMap[q]] = q
      BY <1>2, <3>1 DEF PInv, PrefixTypeOK, PrefixesAgree, MapsAgree, NamespaceMaps
    <3>3. QED
      BY <3>1, <3>2 DEF PInv, PrefixTypeOK, Mapped, PrefixMaps
  <2>3. QED
    BY <2>1, <2>2
<1>3. QED
  BY <1>1, <1>2 DEF MapsAgree

LEMMA UnmappedKeeps ==
  ASSUME PInv, NEW n \in Namespace, Unmapped(n)
  PROVE  /\ namespacePrefixMap' \in PrefixMaps
         /\ prefixNamespaceMap' \in NamespaceMaps
         /\ MapsAgree'
<1>1. namespacePrefixMap' \in PrefixMaps /\ prefixNamespaceMap' \in NamespaceMaps
  BY DEF PInv, PrefixTypeOK, Unmapped, PrefixMaps, NamespaceMaps
<1>2. ASSUME NEW q \in Prefix, prefixNamespaceMap'[q] # NoNamespace
      PROVE  namespacePrefixMap'[prefixNamespaceMap'[q]] = q
  <2>1. q # namespacePrefixMap[n] /\ prefixNamespaceMap'[q] = prefixNamespaceMap[q]
    BY <1>2 DEF Unmapped
  <2>2. prefixNamespaceMap[q] \in Namespace /\ namespacePrefixMap[prefixNamespaceMap[q]] = q
    BY <1>2, <2>1 DEF PInv, PrefixTypeOK, PrefixesAgree, MapsAgree, NamespaceMaps
  <2>3. QED
    BY <2>1, <2>2 DEF PInv, PrefixTypeOK, Unmapped, PrefixMaps
<1>3. QED
  BY <1>1, <1>2 DEF MapsAgree

LEMMA ClearedKeeps ==
  ASSUME PInv, ClearNSPrefixMappings
  PROVE  /\ namespacePrefixMap' \in PrefixMaps
         /\ prefixNamespaceMap' \in NamespaceMaps
         /\ MapsAgree'
BY DEF PInv, PrefixTypeOK, ClearNSPrefixMappings, NoNamespaces, NamespaceMaps, MapsAgree

-----------------------------------------------------------------------------
(* The steps *)

LEMMA StepKeeps == PInv /\ [PrefixNext]_prefixVars => PInv'
<1> SUFFICES ASSUME PInv, [PrefixNext]_prefixVars PROVE PInv'
  OBVIOUS
<1>1. ASSUME NEW n \in Namespace, NEW p \in Prefix, SetNSPrefixMapping(n, p) PROVE PInv'
  <2>1. loaded # NoProject /\ UNCHANGED loaded /\ Persisted /\ Mapped(n, p)
    BY <1>1 DEF SetNSPrefixMapping
  <2>2. store' \in NamespaceMaps
    BY <1>1, StoreIsTable DEF PInv, PrefixTypeOK, SetNSPrefixMapping
  <2>3. QED
    BY <2>1, <2>2, MappedKeeps, PersistedKeeps DEF PInv, PrefixTypeOK, PrefixesAgree
<1>2. ASSUME NEW n \in Namespace, NEW p \in Prefix, SetNSPrefixMappingFails(n, p) PROVE PInv'
  <2>1. loaded \in Projects /\ UNCHANGED loaded /\ RegistryFails /\ Mapped(n, p)
    BY <1>2, ProjectsAssumption DEF SetNSPrefixMappingFails
  <2>2. UNCHANGED store
    BY <1>2 DEF SetNSPrefixMappingFails
  <2>3. QED
    BY <2>1, <2>2, MappedKeeps, FailureKeeps DEF PInv, PrefixTypeOK, PrefixesAgree
<1>3. ASSUME NEW n \in Namespace, RemoveNSPrefixMapping(n) PROVE PInv'
  <2>1. loaded # NoProject /\ UNCHANGED loaded /\ Persisted /\ Unmapped(n)
    BY <1>3 DEF RemoveNSPrefixMapping
  <2>2. store' \in NamespaceMaps
    BY <1>3, StoreIsTable, GuessAssumption DEF PInv, PrefixTypeOK, RemoveNSPrefixMapping
  <2>3. QED
    BY <2>1, <2>2, UnmappedKeeps, PersistedKeeps DEF PInv, PrefixTypeOK, PrefixesAgree
<1>4. ASSUME NEW n \in Namespace, RemoveNSPrefixMappingFails(n) PROVE PInv'
  <2>1. loaded \in Projects /\ UNCHANGED loaded /\ RegistryFails /\ Unmapped(n)
    BY <1>4, ProjectsAssumption DEF RemoveNSPrefixMappingFails
  <2>2. UNCHANGED store
    BY <1>4 DEF RemoveNSPrefixMappingFails
  <2>3. QED
    BY <2>1, <2>2, UnmappedKeeps, FailureKeeps DEF PInv, PrefixTypeOK, PrefixesAgree
<1>5. ASSUME NEW namespaces \in SUBSET Namespace, GuessMissingPrefixes(namespaces) PROVE PInv'
  BY <1>5, GuessedIsTable DEF GuessMissingPrefixes, PInv, PrefixTypeOK, PrefixesAgree, MapsAgree, FileIsCurrent
<1>6. CASE ClearData
  <2>1. loaded # NoProject /\ UNCHANGED loaded /\ Persisted /\ ClearNSPrefixMappings
    BY <1>6 DEF ClearData
  <2>2. store' \in NamespaceMaps
    BY <1>6 DEF ClearData, PInv, PrefixTypeOK, NoNamespaces, NamespaceMaps
  <2>3. QED
    BY <2>1, <2>2, ClearedKeeps, PersistedKeeps DEF PInv, PrefixTypeOK, PrefixesAgree
<1>7. CASE ClearDataFails
  <2>1. loaded \in Projects /\ UNCHANGED loaded /\ RegistryFails /\ ClearNSPrefixMappings
    BY <1>7, ProjectsAssumption DEF ClearDataFails
  <2>2. UNCHANGED store
    BY <1>7 DEF ClearDataFails
  <2>3. QED
    BY <2>1, <2>2, ClearedKeeps, FailureKeeps DEF PInv, PrefixTypeOK, PrefixesAgree
<1>8. ASSUME NEW project \in Projects, OpenProject(project) PROVE PInv'
  <2>1. /\ loaded' = project /\ namespacePrefixMap' = file[project] /\ ~unwritten'
        /\ prefixNamespaceMap' \in Inverses(file[project]) /\ file' = file
        /\ unwritten' \in BOOLEAN
    BY <1>8 DEF OpenProject
  <2>2. store' \in NamespaceMaps
    <3>1. prefixNamespaceMap' \in NamespaceMaps
      BY <2>1 DEF Inverses
    <3>2. PICK table \in KeptByStore : store' \in InitializeMappingsPersistence(table)
      BY <1>8 DEF OpenProject
    <3>3. QED
      BY <3>1, <3>2, OpenedStoreIsTable
  <2>3. PrefixTypeOK'
    BY <2>1, <2>2 DEF PInv, PrefixTypeOK, Inverses
  <2>4. MapsAgree'
    BY <2>1 DEF Inverses, MapsAgree
  <2>5. FileIsCurrent'
    BY <2>1 DEF FileIsCurrent
  <2>6. QED
    BY <2>3, <2>4, <2>5 DEF PInv, PrefixesAgree
<1>9. CASE SaveProject
  <2>1. /\ loaded \in Projects \ Continuous
        /\ UNCHANGED <<loaded, namespacePrefixMap, prefixNamespaceMap, store>>
    BY <1>9 DEF SaveProject
  <2>2. CASE RegistryFails
    BY <2>1, <2>2, FailureKeeps DEF PInv, PrefixTypeOK, PrefixesAgree, MapsAgree
  <2>3. CASE file' = [file EXCEPT ![loaded] = namespacePrefixMap] /\ UNCHANGED unwritten
    BY <2>1, <2>3 DEF PInv, PrefixTypeOK, PrefixesAgree, MapsAgree, FileIsCurrent
  <2>4. QED
    BY <1>9, <2>2, <2>3 DEF SaveProject
<1>10. CASE CloseProject
  <2>1. PrefixTypeOK'
    BY <1>10 DEF CloseProject, PInv, PrefixTypeOK, NoPrefixes, NoNamespaces, PrefixMaps, NamespaceMaps
  <2>2. PrefixesAgree'
    BY <1>10, ProjectsAssumption DEF CloseProject, PrefixesAgree, MapsAgree, FileIsCurrent, NoNamespaces
  <2>3. QED
    BY <2>1, <2>2 DEF PInv
<1>11. CASE UNCHANGED prefixVars
  BY <1>11 DEF prefixVars, PInv, PrefixTypeOK, PrefixesAgree, MapsAgree, FileIsCurrent
<1>12. QED
  BY <1>1, <1>2, <1>3, <1>4, <1>5, <1>6, <1>7, <1>8, <1>9, <1>10, <1>11 DEF PrefixNext

(* The maps by namespace and by prefix never contradict each other, and the *)
(* file of a project that writes every change is the map it was written     *)
(* from unless a write failed (NSPrefixMappings.java).                       *)
THEOREM MapsAndFileAgree == PrefixSpec => [](PrefixTypeOK /\ PrefixesAgree)
<1>1. PrefixInit => PInv
  BY InitKept
<1>2. PInv /\ [PrefixNext]_prefixVars => PInv'
  BY StepKeeps
<1>3. PInv => PrefixTypeOK /\ PrefixesAgree
  BY DEF PInv
<1>4. QED
  BY <1>1, <1>2, <1>3, PTL DEF PrefixSpec

-----------------------------------------------------------------------------
(* The panel *)

(* What the marks rely on.  A box that may be saved holds what was typed:  *)
(* taking off the hash twice is then the same as taking it off once.  Only *)
(* the lock puts other texts in the boxes.                                   *)
MarkedIsTyped ==
  /\ lock => bound
  /\ part = "boxes" /\ panel = "shown" /\ ~bound =>
       \A type \in Types : boxes[type].isChanged => boxes[type].text \in Typed

TreeInv == RowsCoverPrefixes /\ ImportsAreCurrent
BoxInv == MarkedIsTyped /\ UnsavedIsMarked
IInv == TypeOK /\ PrefixesAgree /\ TreeInv /\ BoxInv

-----------------------------------------------------------------------------
(* Rows *)

(* Every element of a finite set has a place in the sequence of it.         *)
LEMMA SequenceOfSet ==
  ASSUME NEW S, IsFiniteSet(S)
  PROVE  /\ SetToSeq(S) \in Seq(S)
         /\ \A x \in S : \E i \in DOMAIN SetToSeq(S) : SetToSeq(S)[i] = x
<1> DEFINE D == 1..Cardinality(S)
           f == SetToSeq(S)
<1>1. Cardinality(S) \in Nat /\ ExistsBijection(D, S)
  BY FS_CardinalityType
<1>2. \E g \in [D -> S] : IsInjective(g)
  <2>1. PICK g \in Bijection(D, S) : TRUE
    BY <1>1 DEF ExistsBijection
  <2>2. g \in [D -> S] /\ \A i, j \in D : g[i] = g[j] => i = j
    BY <2>1 DEF Bijection, Injection, IsInjective
  <2>3. QED
    BY <2>2 DEF IsInjective
<1>3. f \in [D -> S] /\ IsInjective(f)
  BY <1>2 DEF SetToSeq
<1>4. f \in Injection(D, S)
  BY <1>3 DEF IsInjective, Injection
<1>5. IsFiniteSet(D) /\ Cardinality(D) = Cardinality(S)
  BY <1>1, FS_Interval
<1>6. f \in Surjection(D, S)
  BY <1>4, <1>5, FS_Injection
<1>7. f \in Seq(S)
  BY <1>1, <1>3
<1>8. \A x \in S : \E i \in D : f[i] = x
  BY <1>6 DEF Surjection
<1>9. QED
  BY <1>3, <1>7, <1>8

LEMMA RowsOfServer ==
  ASSUME NEW table \in NamespaceMaps, NEW explicit \in NamespaceMaps
  PROVE  /\ ServerRows(table, explicit) \in Seq(Row)
         /\ \A p \in Prefix : table[p] # NoNamespace =>
              \E i \in DOMAIN ServerRows(table, explicit) :
                ServerRows(table, explicit)[i] =
                  [prefix |-> p, ns |-> table[p], explicit |-> explicit[p] # NoNamespace]
<1> DEFINE Q == {q \in Prefix : table[q] # NoNamespace}
           row(p) == [prefix |-> p, ns |-> table[p], explicit |-> explicit[p] # NoNamespace]
           S == {row(p) : p \in Q}
<1>1. IsFiniteSet(S)
  <2>1. IsFiniteSet(Q)
    BY NamesAssumption, FS_Subset
  <2>2. [p \in Q |-> row(p)] \in Surjection(Q, S)
    BY DEF Surjection
  <2>3. QED
    BY <2>1, <2>2, FS_Surjection
<1>2. S \subseteq Row
  <2>1. ASSUME NEW p \in Q PROVE row(p) \in Row
    <3>1. table[p] \in Namespace
      BY DEF NamespaceMaps
    <3>2. (explicit[p] # NoNamespace) \in BOOLEAN
      OBVIOUS
    <3>3. QED
      BY <3>1, <3>2 DEF Row
  <2>2. QED
    BY <2>1
<1>3. SetToSeq(S) \in Seq(S) /\ \A x \in S : \E i \in DOMAIN SetToSeq(S) : SetToSeq(S)[i] = x
  BY <1>1, SequenceOfSet
<1>4. SetToSeq(S) \in Seq(Row)
  BY <1>2, <1>3, SeqMonotonic
<1>5. ServerRows(table, explicit) = SetToSeq(S)
  BY DEF ServerRows
<1>6. QED
  BY <1>3, <1>4, <1>5

(* The first row of a namespace goes; those of others stay.                 *)
LEMMA OthersStay ==
  ASSUME NEW rows \in Seq(Row), NEW n
  PROVE  /\ Without(rows, n) \in Seq(Row)
         /\ \A i \in DOMAIN rows : rows[i].ns # n =>
              \E j \in DOMAIN Without(rows, n) : Without(rows, n)[j] = rows[i]
<1> DEFINE I == {i \in 1..Len(rows) : rows[i].ns = n}
<1>1. CASE I = {}
  <2>1. Without(rows, n) = rows
    BY <1>1 DEF Without, RemoveFirstMatch
  <2>2. QED
    BY <2>1
<1>2. CASE I # {}
  <2>1. PICK k \in I : \A i \in I : k <= i
    <3>1. I \in SUBSET Nat
      OBVIOUS
    <3>2. QED
      BY <1>2, <3>1, Least
  <2>2. Min(I) \in I
    BY <2>1 DEF Min
  <2> DEFINE m == Min(I)
             low == SubSeq(rows, 1, m - 1)
             high == SubSeq(rows, m + 1, Len(rows))
  <2>3. Without(rows, n) = low \o high
    BY <1>2 DEF Without, RemoveFirstMatch, RemoveAt, SelectInSeq
  <2>4. m \in 1..Len(rows) /\ rows[m].ns = n /\ Len(rows) \in Nat
    BY <2>2
  <2> HIDE DEF m
  <2>5. /\ low \in Seq(Row) /\ Len(low) = m - 1
        /\ \A i \in 1..m - 1 : low[i] = rows[i]
    BY <2>4
  <2>6. /\ high \in Seq(Row) /\ Len(high) = Len(rows) - m
        /\ \A i \in 1..Len(rows) - m : high[i] = rows[m + i]
    BY <2>4
  <2> HIDE DEF low, high
  <2>7. low \o high \in Seq(Row) /\ Len(low \o high) = Len(rows) - 1
    <3>1. low \o high \in Seq(Row) /\ Len(low \o high) = Len(low) + Len(high)
      BY <2>5, <2>6, ConcatProperties
    <3>2. m \in Nat
      BY <2>4
    <3>3. QED
      BY <2>4, <2>5, <2>6, <3>1, <3>2
  <2>8. ASSUME NEW i \in DOMAIN rows, rows[i].ns # n
        PROVE  \E j \in DOMAIN (low \o high) : (low \o high)[j] = rows[i]
    <3>1. i \in 1..Len(rows) /\ i # m
      BY <2>4, <2>8
    <3>2. CASE i < m
      <4>1. i \in 1..Len(rows) - 1 /\ (low \o high)[i] = rows[i]
        BY <2>4, <2>5, <2>6, <3>1, <3>2
      <4>2. QED
        BY <2>7, <4>1
    <3>3. CASE i > m
      <4>1. i - 1 \in 1..Len(rows) - 1 /\ i - m \in 1..Len(rows) - m
        BY <2>4, <3>1, <3>3
      <4>2. (low \o high)[i - 1] = high[i - m]
        BY <2>4, <2>5, <2>6, <3>1, <3>3
      <4>3. high[i - m] = rows[i]
        BY <2>4, <2>6, <3>1, <4>1
      <4>4. QED
        BY <2>7, <4>1, <4>2, <4>3
    <3>4. QED
      BY <2>4, <3>1, <3>2, <3>3
  <2>9. QED
    BY <2>3, <2>7, <2>8
<1>3. QED
  BY <1>1, <1>2

-----------------------------------------------------------------------------
(* Texts *)

LEMMA HashesAreTexts ==
  ASSUME NEW text \in Texts
  PROVE  WithoutHash(text) \in Texts /\ WithHash(text) \in Texts
BY DEF Texts, Ends, WithoutHash, WithHash

LEMMA TypedOnce ==
  ASSUME NEW text \in Typed
  PROVE  WithoutHash(WithoutHash(text)) = WithoutHash(text) /\ text \in Texts
BY DEF Typed, Texts, Ends, WithoutHash

LEMMA FreshIsTyped ==
  ASSUME NEW metadata \in [Types -> Texts]
  PROVE  /\ Fresh(metadata) \in [Types -> Boxes]
         /\ \A type \in Types : Fresh(metadata)[type] = [text |-> metadata[type], isChanged |-> FALSE]
BY DEF Fresh, Unmarked, Boxes

LEMMA NewMetadata ==
  /\ MetadataOf \subseteq [Types -> Texts]
  /\ MetadataOf # {}
<1>1. ASSUME NEW u \in Uris
      PROVE  [base |-> [uri |-> u, end |-> ""], ns |-> [uri |-> u, end |-> "#"]] \in [Types -> Texts]
  <2>1. [uri |-> u, end |-> ""] \in Texts /\ [uri |-> u, end |-> "#"] \in Texts
    BY DEF Texts, Ends
  <2> DEFINE new == [base |-> [uri |-> u, end |-> ""], ns |-> [uri |-> u, end |-> "#"]]
  <2>2. new \in [base : Texts, ns : Texts]
    BY <2>1
  <2>3. [base : Texts, ns : Texts] = [Types -> Texts]
    BY DEF Types
  <2>4. QED
    BY <2>2, <2>3
<1>2. MetadataOf # {}
  BY PanelAssumption DEF MetadataOf
<1>3. QED
  BY <1>1, <1>2 DEF MetadataOf

(* Without the lock, a key that comes up does nothing; with it, the other  *)
(* box follows.                                                              *)
LEMMA KeyUpIsTyped ==
  ASSUME NEW b \in [Types -> Boxes], NEW type \in Types
  PROVE  /\ KeyUp(b, type) \in [Types -> Boxes]
         /\ ~lock => KeyUp(b, type) = b
<1>1. b["base"].text \in Texts /\ b["ns"].text \in Texts
  BY DEF Types, Boxes
<1>2. /\ Unmarked(WithHash(b["base"].text)) \in Boxes
      /\ Unmarked(WithoutHash(b["ns"].text)) \in Boxes
  BY <1>1, HashesAreTexts DEF Unmarked, Boxes
<1>3. [b EXCEPT !.ns = Unmarked(WithHash(b["base"].text))] \in [Types -> Boxes]
  BY <1>2 DEF Types
<1>4. [b EXCEPT !.base = Unmarked(WithoutHash(b["ns"].text))] \in [Types -> Boxes]
  BY <1>2 DEF Types
<1>5. CASE lock /\ type = "base"
  BY <1>3, <1>5 DEF KeyUp
<1>6. CASE lock /\ type = "ns"
  BY <1>4, <1>6 DEF KeyUp
<1>7. CASE ~lock
  BY <1>7 DEF KeyUp
<1>8. QED
  BY <1>5, <1>6, <1>7 DEF Types

-----------------------------------------------------------------------------
(* What a step may leave alone *)

LEMMA RowIsTyped ==
  ASSUME TypeOK, NEW i \in DOMAIN prefixRows
  PROVE  prefixRows[i] \in Row /\ prefixRows[i].ns \in Namespace
<1>1. prefixRows \in Seq(Row)
  BY DEF TypeOK
<1>2. prefixRows[i] \in Row
  BY <1>1
<1>3. QED
  BY <1>2 DEF Row

(* A step of the panel sends at most one request, and each changes the      *)
(* prefixes as NSPrefixMappings does.                                        *)
LEMMA PrefixStep ==
  ASSUME TypeOK, [Next]_vars
  PROVE  [PrefixNext]_prefixVars
<1>1. ASSUME NEW p \in Prefix, NEW n \in Namespace, AddPrefix(p, n) PROVE PrefixNext
  BY <1>1 DEF AddPrefix, PrefixNext
<1>2. ASSUME NEW i \in DOMAIN prefixRows, RemovePrefix(i) PROVE PrefixNext
  <2>1. prefixRows[i].ns \in Namespace
    BY RowIsTyped
  <2>2. QED
    BY <1>2, <2>1 DEF RemovePrefix, PrefixNext
<1>3. ASSUME NEW i \in DOMAIN prefixRows, NEW p \in Prefix, ChangePrefix(i, p) PROVE PrefixNext
  <2>1. prefixRows[i].ns \in Namespace
    BY RowIsTyped
  <2>2. QED
    BY <1>3, <2>1 DEF ChangePrefix, ChangeNSPrefixMapping, PrefixNext
<1>4. ASSUME NEW o, NEW method, AddOntImport(o, method) PROVE PrefixNext
  BY <1>4 DEF AddOntImport, PrefixNext
<1>5. CASE TreeGesture
  <2>1. ASSUME NEW o \in Onts, RemoveImport(o) \/ MirrorOntology(o) PROVE UNCHANGED prefixVars
    BY <2>1 DEF RemoveImport, MirrorOntology
  <2>2. ASSUME NEW o \in Onts, NEW item, AddImport(o, item) PROVE PrefixNext
    BY <2>2, <1>4 DEF AddImport
  <2>3. ASSUME NEW o \in Onts, AddFromOntologyMirror(o) PROVE PrefixNext
    BY <2>3, <1>4 DEF AddFromOntologyMirror
  <2>4. QED
    BY <1>1, <1>2, <1>3, <1>5, <2>1, <2>2, <2>3 DEF TreeGesture
<1>6. CASE BoxGesture
  BY <1>6 DEF BoxGesture, TypeText, Enter, PressLock
<1>7. CASE Open \/ Close \/ VisLevelChanged
  BY <1>7 DEF Open, Close, VisLevelChanged
<1>8. ASSUME NEW project \in Projects, OpenedProject(project) PROVE PrefixNext
  BY <1>8 DEF OpenedProject, PrefixNext
<1>9. CASE ClosedProject \/ SavedProject
  BY <1>9 DEF ClosedProject, SavedProject, PrefixNext
<1>10. ASSUME NEW onts \in SUBSET Onts, LoadRdf(onts) PROVE PrefixNext
  BY <1>10 DEF LoadRdf, PrefixNext
<1>11. CASE ClearRepository
  BY <1>11 DEF ClearRepository, PrefixNext
<1>12. ASSUME NEW o \in Onts, DeleteMirrorEntry(o) PROVE UNCHANGED prefixVars
  BY <1>12 DEF DeleteMirrorEntry
<1>13. CASE UNCHANGED vars
  BY <1>13 DEF vars
<1>14. QED
  BY <1>5, <1>6, <1>7, <1>8, <1>9, <1>10, <1>11, <1>12, <1>13 DEF Next

(* A step that leaves the boxes and what the server has for them alone     *)
(* either keeps the panel as it is or is one the panel is not told of.     *)
LEMMA BoxesFramed ==
  ASSUME BoxInv, UNCHANGED <<uris, part, boxVars>>, panel' \in {panel, "closed"},
         ~told' \/ part # "boxes" \/ UNCHANGED <<panel, owner, told, loaded>>
  PROVE  BoxInv'
BY DEF BoxInv, MarkedIsTyped, UnsavedIsMarked, UpToDate, boxVars

LEMMA TreesFramed ==
  ASSUME TreeInv, UNCHANGED part,
         \/ ~told'
         \/ part # "trees"
         \/ UNCHANGED <<panel, owner, told, loaded, prefixNamespaceMap, store, treeVars, imports>>
  PROVE  TreeInv'
<1>1. CASE ~told' \/ part # "trees"
  BY <1>1 DEF TreeInv, RowsCoverPrefixes, ImportsAreCurrent, UpToDate
<1>2. CASE UNCHANGED <<panel, owner, told, loaded, prefixNamespaceMap, store, treeVars, imports>>
  BY <1>2 DEF TreeInv, RowsCoverPrefixes, ImportsAreCurrent, UpToDate, treeVars
<1>3. QED
  BY <1>1, <1>2

(* The trees are filled with what the server has.                           *)
LEMMA FilledTrees ==
  ASSUME PrefixTypeOK', FillTrees, loaded' = loaded, loaded \in Projects, part' = part,
         imports' \in [Projects -> [Onts -> Statuses]]
  PROVE  /\ prefixRows' \in Seq(Row) /\ importRows' \in [Onts -> Statuses]
         /\ owner' \in Projects /\ told' = TRUE
         /\ TreeInv'
<1> DEFINE rows == ServerRows(store', prefixNamespaceMap')
<1>1. store' \in NamespaceMaps /\ prefixNamespaceMap' \in NamespaceMaps
  BY DEF PrefixTypeOK
<1>2. /\ rows \in Seq(Row)
      /\ \A p \in Prefix : store'[p] # NoNamespace =>
           \E i \in DOMAIN rows :
             rows[i] = [prefix |-> p, ns |-> store'[p], explicit |-> prefixNamespaceMap'[p] # NoNamespace]
  BY <1>1, RowsOfServer
<1>3. prefixRows' = rows /\ importRows' = imports'[loaded] /\ owner' = loaded /\ told' = TRUE
  BY DEF FillTrees, ServerImports
<1> HIDE DEF rows
<1>4. RowsCoverPrefixes'
  <2>1. ASSUME NEW p \in Prefix, prefixNamespaceMap'[p] # NoNamespace, store'[p] = prefixNamespaceMap'[p]
        PROVE  \E i \in DOMAIN rows : rows[i] = [prefix |-> p, ns |-> store'[p], explicit |-> TRUE]
    <3>1. (prefixNamespaceMap'[p] # NoNamespace) = TRUE
      BY <2>1
    <3>2. QED
      BY <1>2, <2>1, <3>1
  <2>2. QED
    BY <1>3, <2>1 DEF RowsCoverPrefixes
<1>5. ImportsAreCurrent'
  BY <1>3 DEF ImportsAreCurrent
<1>6. QED
  BY <1>2, <1>3, <1>4, <1>5 DEF TreeInv

-----------------------------------------------------------------------------
(* The steps of the trees *)

(* A request that was answered "ok" is followed by filling the trees.       *)
LEMMA RefreshKeeps ==
  ASSUME IInv, PrefixTypeOK', Refresh, loaded' = loaded, loaded \in Projects, uris' = uris,
         imports' \in [Projects -> [Onts -> Statuses]], mirror' \subseteq Onts
  PROVE  TypeOK' /\ TreeInv' /\ BoxInv'
<1>1. /\ FillTrees /\ part = "trees"
      /\ UNCHANGED <<part, panel, boxVars>> /\ panel' \in {panel, "closed"}
  BY DEF Refresh
<1>2. /\ prefixRows' \in Seq(Row) /\ importRows' \in [Onts -> Statuses]
      /\ owner' \in Projects /\ told' = TRUE /\ TreeInv'
  BY <1>1, FilledTrees
<1>3. TypeOK'
  BY <1>1, <1>2 DEF IInv, TypeOK, boxVars
<1>4. BoxInv'
  BY <1>1, BoxesFramed DEF IInv
<1>5. QED
  BY <1>2, <1>3, <1>4

(* A step after which the panel has not been told shows no more than types. *)
LEMMA UntoldKeeps ==
  ASSUME IInv, PrefixTypeOK', ~told', told' \in BOOLEAN, UNCHANGED <<uris, part, owner, treeVars, boxVars>>,
         panel' \in {panel, "closed"},
         imports' \in [Projects -> [Onts -> Statuses]], mirror' \subseteq Onts
  PROVE  TypeOK' /\ TreeInv' /\ BoxInv'
<1>1. TypeOK'
  BY DEF IInv, TypeOK, treeVars, boxVars
<1>2. TreeInv' /\ BoxInv'
  BY TreesFramed, BoxesFramed DEF IInv
<1>3. QED
  BY <1>1, <1>2

LEMMA AlertKeeps ==
  ASSUME IInv, PrefixTypeOK', Alert
  PROVE  TypeOK' /\ TreeInv' /\ BoxInv'
<1>1. ~told' /\ told' \in BOOLEAN /\ UNCHANGED <<serverVars, part, panel, owner, treeVars, boxVars>>
  BY DEF Alert
<1>2. imports' \in [Projects -> [Onts -> Statuses]] /\ mirror' \subseteq Onts
  BY <1>1 DEF IInv, TypeOK, serverVars
<1>3. QED
  BY <1>1, <1>2, UntoldKeeps DEF serverVars

LEMMA LoadedIsProject ==
  ASSUME IInv, loaded # NoProject
  PROVE  loaded \in Projects
BY DEF IInv, TypeOK, PrefixTypeOK

(* A row is added for the prefix; the rows of the others stay.             *)
LEMMA AddPrefixKeeps ==
  ASSUME IInv, PrefixTypeOK', NEW p \in Prefix, NEW n \in Namespace, AddPrefix(p, n)
  PROVE  TypeOK' /\ TreeInv' /\ BoxInv'
<1>1. CASE SetNSPrefixMappingFails(n, p) /\ Alert
  BY <1>1, AlertKeeps
<1>2. CASE /\ SetNSPrefixMapping(n, p)
           /\ prefixRows' = Appended(prefixRows, p, n)
           /\ UNCHANGED <<serverVars, part, panel, owner, importRows, boxVars, told>>
  <2> DEFINE new == [prefix |-> p, ns |-> n, explicit |-> TRUE]
  <2>1. prefixRows \in Seq(Row) /\ new \in Row
    BY DEF IInv, TypeOK, Row
  <2>2. /\ prefixRows' = Append(prefixRows, new)
        /\ prefixRows' \in Seq(Row)
        /\ \A i \in DOMAIN prefixRows : i \in DOMAIN prefixRows' /\ prefixRows'[i] = prefixRows[i]
        /\ Len(prefixRows) + 1 \in DOMAIN prefixRows' /\ prefixRows'[Len(prefixRows) + 1] = new
    BY <1>2, <2>1 DEF Appended
  <2>3. loaded' = loaded /\ Mapped(n, p) /\ store' \in SetNsPrefix(store, n, p)
    BY <1>2 DEF SetNSPrefixMapping
  <2>4. TypeOK'
    BY <1>2, <2>2 DEF IInv, TypeOK, boxVars, serverVars
  <2>5. RowsCoverPrefixes'
    <3>1. SUFFICES ASSUME part = "trees", UpToDate, NEW q \in Prefix,
                          prefixNamespaceMap'[q] # NoNamespace, store'[q] = prefixNamespaceMap'[q]
                   PROVE  \E i \in DOMAIN prefixRows' :
                            prefixRows'[i] = [prefix |-> q, ns |-> store'[q], explicit |-> TRUE]
      BY <1>2, <2>3 DEF RowsCoverPrefixes, UpToDate
    <3>2. CASE q = p
      <4>1. store'[q] = n
        BY <2>3, <3>1, <3>2 DEF Mapped
      <4>2. QED
        BY <2>2, <3>2, <4>1
    <3>3. CASE q # p
      <4>1. prefixNamespaceMap'[q] = prefixNamespaceMap[q]
        BY <2>3, <3>1, <3>3 DEF Mapped
      <4>2. store'[q] = store[q]
        BY <2>3, <3>1, <3>3 DEF SetNsPrefix, IInv, TypeOK, PrefixTypeOK, NamespaceMaps
      <4>3. PICK i \in DOMAIN prefixRows : prefixRows[i] = [prefix |-> q, ns |-> store[q], explicit |-> TRUE]
        BY <3>1, <4>1, <4>2 DEF IInv, TreeInv, RowsCoverPrefixes
      <4>4. QED
        BY <2>2, <4>2, <4>3
    <3>4. QED
      BY <3>2, <3>3
  <2>6. ImportsAreCurrent'
    BY <1>2, <2>3 DEF IInv, TreeInv, ImportsAreCurrent, UpToDate, serverVars
  <2>7. BoxInv'
    BY <1>2, <2>3, BoxesFramed DEF IInv, serverVars
  <2>8. QED
    BY <2>4, <2>5, <2>6, <2>7 DEF TreeInv
<1>3. QED
  BY <1>1, <1>2 DEF AddPrefix

(* The first row of the namespace goes.  A row that is still wanted has    *)
(* another namespace: an explicit prefix of this one would be the prefix   *)
(* that is taken out of both maps.                                           *)
LEMMA RemovePrefixKeeps ==
  ASSUME IInv, PrefixTypeOK', NEW i \in DOMAIN prefixRows, RemovePrefix(i)
  PROVE  TypeOK' /\ TreeInv' /\ BoxInv'
<1> DEFINE n == prefixRows[i].ns
<1>1. n \in Namespace
  BY RowIsTyped DEF IInv
<1>2. CASE RemoveNSPrefixMappingFails(n) /\ Alert
  BY <1>2, AlertKeeps
<1>3. CASE /\ RemoveNSPrefixMapping(n)
           /\ prefixRows' = Without(prefixRows, n)
           /\ UNCHANGED <<serverVars, part, panel, owner, importRows, boxVars, told>>
  <2> HIDE DEF n
  <2>1. /\ prefixRows' \in Seq(Row)
        /\ \A k \in DOMAIN prefixRows : prefixRows[k].ns # n =>
             \E j \in DOMAIN prefixRows' : prefixRows'[j] = prefixRows[k]
    BY <1>3, OthersStay DEF IInv, TypeOK
  <2>2. loaded' = loaded /\ Unmapped(n) /\ store' \in RemoveNsPrefixMapping(store, n)
    BY <1>3 DEF RemoveNSPrefixMapping
  <2>3. TypeOK'
    BY <1>3, <2>1 DEF IInv, TypeOK, boxVars, serverVars
  <2>4. RowsCoverPrefixes'
    <3>1. SUFFICES ASSUME part = "trees", UpToDate, NEW q \in Prefix,
                          prefixNamespaceMap'[q] # NoNamespace, store'[q] = prefixNamespaceMap'[q]
                   PROVE  \E j \in DOMAIN prefixRows' :
                            prefixRows'[j] = [prefix |-> q, ns |-> store'[q], explicit |-> TRUE]
      BY <1>3, <2>2 DEF RowsCoverPrefixes, UpToDate
    <3>2. prefixNamespaceMap'[q] = prefixNamespaceMap[q] /\ q # namespacePrefixMap[n]
      BY <2>2, <3>1 DEF Unmapped
    <3>3. store'[q] = store[q]
      BY <2>2, <3>1 DEF RemoveNsPrefixMapping
    <3>4. store[q] # n
      BY <3>1, <3>2, <3>3 DEF IInv, PrefixesAgree, MapsAgree
    <3>5. PICK k \in DOMAIN prefixRows : prefixRows[k] = [prefix |-> q, ns |-> store[q], explicit |-> TRUE]
      BY <3>1, <3>2, <3>3 DEF IInv, TreeInv, RowsCoverPrefixes
    <3>6. prefixRows[k].ns # n
      BY <3>4, <3>5
    <3>7. QED
      BY <2>1, <3>3, <3>5, <3>6
  <2>5. ImportsAreCurrent'
    BY <1>3, <2>2 DEF IInv, TreeInv, ImportsAreCurrent, UpToDate, serverVars
  <2>6. BoxInv'
    BY <1>3, <2>2, BoxesFramed DEF IInv, serverVars
  <2>7. QED
    BY <2>3, <2>4, <2>5, <2>6 DEF TreeInv
<1>4. QED
  BY <1>2, <1>3 DEF RemovePrefix

LEMMA ChangePrefixKeeps ==
  ASSUME IInv, PrefixTypeOK', NEW i \in DOMAIN prefixRows, NEW p \in Prefix, ChangePrefix(i, p)
  PROVE  TypeOK' /\ TreeInv' /\ BoxInv'
<1> DEFINE n == prefixRows[i].ns
<1>1. CASE SetNSPrefixMappingFails(n, p) /\ Alert
  BY <1>1, AlertKeeps
<1>2. CASE SetNSPrefixMapping(n, p) /\ UNCHANGED serverVars /\ Refresh
  <2>1. loaded' = loaded /\ loaded \in Projects
    BY <1>2, LoadedIsProject DEF SetNSPrefixMapping
  <2>2. uris' = uris /\ imports' \in [Projects -> [Onts -> Statuses]] /\ mirror' \subseteq Onts
    BY <1>2 DEF serverVars, IInv, TypeOK
  <2>3. QED
    BY <1>2, <2>1, <2>2, RefreshKeeps
<1>3. QED
  BY <1>1, <1>2 DEF ChangePrefix, ChangeNSPrefixMapping

LEMMA ImportIsTyped ==
  ASSUME IInv, loaded \in Projects, NEW o \in Onts, NEW status \in Statuses, SetImport(o, status)
  PROVE  imports' \in [Projects -> [Onts -> Statuses]]
BY DEF SetImport, IInv, TypeOK

LEMMA AddOntImportKeeps ==
  ASSUME IInv, PrefixTypeOK', NEW o \in Onts, NEW method, AddOntImport(o, method), Refresh
  PROVE  TypeOK' /\ TreeInv' /\ BoxInv'
<1>1. loaded \in Projects /\ loaded' = loaded /\ uris' = uris
  BY LoadedIsProject DEF AddOntImport, GuessMissingPrefixes
<1>2. imports' \in [Projects -> [Onts -> Statuses]]
  BY <1>1, ImportIsTyped DEF AddOntImport, Statuses
<1>3. mirror' \subseteq Onts
  BY DEF AddOntImport, IInv, TypeOK
<1>4. QED
  BY <1>1, <1>2, <1>3, RefreshKeeps

LEMMA TreeGestureKeeps ==
  ASSUME IInv, PrefixTypeOK', TreeGesture
  PROVE  TypeOK' /\ TreeInv' /\ BoxInv'
<1>1. ASSUME NEW o \in Onts, RemoveImport(o) PROVE TypeOK' /\ TreeInv' /\ BoxInv'
  <2>1. loaded \in Projects /\ loaded' = loaded /\ uris' = uris /\ mirror' \subseteq Onts /\ Refresh
    BY <1>1, LoadedIsProject DEF RemoveImport, prefixVars, IInv, TypeOK
  <2>2. imports' \in [Projects -> [Onts -> Statuses]]
    BY <1>1, <2>1, ImportIsTyped DEF RemoveImport, Statuses
  <2>3. QED
    BY <2>1, <2>2, RefreshKeeps
<1>2. ASSUME NEW o \in Onts, MirrorOntology(o) PROVE TypeOK' /\ TreeInv' /\ BoxInv'
  <2>1. loaded \in Projects /\ loaded' = loaded /\ uris' = uris /\ mirror' \subseteq Onts /\ Refresh
    BY <1>2, LoadedIsProject DEF MirrorOntology, prefixVars, IInv, TypeOK
  <2>2. imports' \in [Projects -> [Onts -> Statuses]]
    BY <1>2, <2>1, ImportIsTyped DEF MirrorOntology, Statuses
  <2>3. QED
    BY <2>1, <2>2, RefreshKeeps
<1>3. ASSUME NEW o \in Onts, NEW item, AddImport(o, item) PROVE TypeOK' /\ TreeInv' /\ BoxInv'
  BY <1>3, AddOntImportKeeps DEF AddImport
<1>4. ASSUME NEW o \in Onts, AddFromOntologyMirror(o) PROVE TypeOK' /\ TreeInv' /\ BoxInv'
  BY <1>4, AddOntImportKeeps DEF AddFromOntologyMirror
<1>5. QED
  BY <1>1, <1>2, <1>3, <1>4, AddPrefixKeeps, RemovePrefixKeeps, ChangePrefixKeeps DEF TreeGesture

-----------------------------------------------------------------------------
(* The steps of the boxes *)

(* Text that is typed marks its box.                                        *)
LEMMA TypeTextKeeps ==
  ASSUME IInv, PrefixTypeOK', NEW type \in Types, NEW text \in Typed, TypeText(type, text)
  PROVE  TypeOK' /\ TreeInv' /\ BoxInv'
<1>1. UNCHANGED <<prefixVars, serverVars, part, panel, owner, treeVars, told, lock, bound>>
  BY DEF TypeText
<1> DEFINE typed == Key(boxes, type, text)
<1>2. /\ typed \in [Types -> Boxes]
      /\ typed[type] = [text |-> text, isChanged |-> TRUE]
      /\ \A t \in Types \ {type} : typed[t] = boxes[t]
  <2>1. [text |-> text, isChanged |-> TRUE] \in Boxes
    BY TypedOnce DEF Boxes
  <2>2. QED
    BY <2>1 DEF Key, IInv, TypeOK
<1>3. boxes' \in [Types -> Boxes] /\ (~lock => boxes' = typed)
  BY <1>2, KeyUpIsTyped DEF TypeText
<1> HIDE DEF typed
<1>4. TypeOK'
  BY <1>1, <1>3 DEF IInv, TypeOK, prefixVars, serverVars, treeVars
<1>5. TreeInv'
  BY <1>1, TreesFramed DEF IInv, prefixVars, serverVars
<1>6. MarkedIsTyped'
  BY <1>1, <1>2, <1>3 DEF IInv, BoxInv, MarkedIsTyped
<1>7. UnsavedIsMarked'
  <2>1. UpToDate' = UpToDate /\ uris' = uris /\ loaded' = loaded
    BY <1>1 DEF UpToDate, prefixVars, serverVars
  <2>2. QED
    BY <1>1, <1>2, <1>3, <2>1 DEF IInv, BoxInv, MarkedIsTyped, UnsavedIsMarked
<1>8. QED
  BY <1>4, <1>5, <1>6, <1>7 DEF BoxInv

LEMMA PressLockKeeps ==
  ASSUME IInv, PrefixTypeOK', PressLock
  PROVE  TypeOK' /\ TreeInv' /\ BoxInv'
<1>1. /\ lock' \in BOOLEAN /\ bound' = TRUE
      /\ UNCHANGED <<prefixVars, serverVars, part, panel, owner, treeVars, told, boxes>>
  BY DEF PressLock, IInv, TypeOK
<1>2. TypeOK'
  BY <1>1 DEF IInv, TypeOK, prefixVars, serverVars, treeVars
<1>3. TreeInv'
  BY <1>1, TreesFramed DEF IInv, prefixVars, serverVars
<1>4. BoxInv'
  BY <1>1 DEF BoxInv, MarkedIsTyped, UnsavedIsMarked
<1>5. QED
  BY <1>2, <1>3, <1>4

(* What is saved: without the lock, the box alone.                         *)
LEMMA SavedIsTyped ==
  ASSUME IInv, loaded \in Projects, NEW type \in Types
  PROVE  /\ Saved(type) \in [Types -> Texts]
         /\ SavedInVain(type) \subseteq [Types -> Texts]
         /\ Confirmed(type) \in [Types -> Boxes]
<1>1. \A t \in Types : boxes[t] \in Boxes /\ boxes[t].text \in Texts /\ uris[loaded][t] \in Texts
  BY DEF IInv, TypeOK, Boxes
<1>2. boxes["base"].text \in Texts /\ boxes["ns"].text \in Texts /\ uris[loaded]["ns"] \in Texts
  BY <1>1 DEF Types
<1>3. Saved(type) \in [Types -> Texts]
  BY <1>1, <1>2, HashesAreTexts DEF Saved
<1>4. [Saved(type) EXCEPT !.ns = uris[loaded]["ns"]] \in [Types -> Texts]
  BY <1>2, <1>3 DEF Types
<1>5. Confirmed(type) \in [Types -> Boxes]
  BY <1>1 DEF Confirmed, Unmarked, Boxes
<1>6. QED
  BY <1>3, <1>4, <1>5 DEF SavedInVain

(* A box that was saved holds what the server now has; one that was not is *)
(* still marked.                                                             *)
LEMMA SaveKeepsMarks ==
  ASSUME IInv, NEW type \in Types, Save(type), ~lock, Shown("boxes"), ~bound, loaded' = loaded
  PROVE  /\ \A t \in Types : boxes'[t].isChanged => boxes[t].isChanged /\ boxes'[t] = boxes[t]
         /\ \A t \in Types \ {type} : boxes'[t] = boxes[t] /\ uris'[loaded][t] = uris[loaded][t]
         /\ \/ boxes'[type].isChanged
            \/ WithoutHash(boxes'[type].text) = WithoutHash(uris'[loaded][type])
<1>1. loaded \in Projects /\ boxes[type].isChanged /\ boxes[type].text \in Typed
  BY LoadedIsProject DEF Save, Shown, IInv, BoxInv, MarkedIsTyped
<1>2. boxes \in [Types -> Boxes] /\ uris \in [Projects -> [Types -> Texts]]
  BY DEF IInv, TypeOK
<1>3. SavedWith(type) = {type}
  BY DEF SavedWith
<1>4. /\ Saved(type) \in [Types -> Texts]
      /\ \A t \in Types \ {type} : Saved(type)[t] = uris[loaded][t]
      /\ type = "base" => Saved(type)[type] = WithoutHash(boxes["base"].text)
      /\ type = "ns" => Saved(type)[type] = boxes["ns"].text
  BY <1>1, <1>3, SavedIsTyped DEF Saved
<1>5. WithoutHash(Saved(type)[type]) = WithoutHash(boxes[type].text)
  BY <1>1, <1>4, TypedOnce DEF Types
<1>6. CASE /\ uris' = [uris EXCEPT ![loaded] = Saved(type)]
           /\ boxes' = KeyUp(Confirmed(type), type)
  <2>1. boxes' = Confirmed(type)
    BY <1>1, <1>6, SavedIsTyped, KeyUpIsTyped
  <2>2. boxes'[type] = [text |-> boxes[type].text, isChanged |-> FALSE]
    BY <1>3, <2>1 DEF Confirmed, Unmarked
  <2>3. \A t \in Types \ {type} : boxes'[t] = boxes[t]
    BY <1>3, <2>1 DEF Confirmed
  <2>4. uris'[loaded] = Saved(type)
    BY <1>1, <1>2, <1>6
  <2>5. QED
    BY <1>4, <1>5, <2>2, <2>3, <2>4
<1>7. CASE /\ \E metadata \in SavedInVain(type) : uris' = [uris EXCEPT ![loaded] = metadata]
           /\ boxes' = KeyUp(boxes, type)
  <2>1. boxes' = boxes
    BY <1>2, <1>7, KeyUpIsTyped
  <2>2. uris' = [uris EXCEPT ![loaded] = Saved(type)]
    BY <1>7 DEF SavedInVain
  <2>3. uris'[loaded] = Saved(type)
    BY <1>1, <1>2, <2>2
  <2>4. QED
    BY <1>1, <1>4, <2>1, <2>3
<1>8. QED
  BY <1>6, <1>7 DEF Save

LEMMA EnterKeeps ==
  ASSUME IInv, PrefixTypeOK', NEW type \in Types, Enter(type)
  PROVE  TypeOK' /\ TreeInv' /\ BoxInv'
<1>1. /\ part = "boxes" /\ Shown("boxes")
      /\ UNCHANGED <<prefixVars, imports, mirror, part, panel, owner, treeVars, told, lock, bound>>
  BY DEF Enter, Shown
<1>2. loaded' = loaded /\ UpToDate' = UpToDate
  BY <1>1 DEF prefixVars, UpToDate
<1>3. boxes \in [Types -> Boxes]
  BY DEF IInv, TypeOK
<1>4. CASE Save(type)
  <2>1. loaded \in Projects
    BY <1>4, LoadedIsProject DEF Save
  <2>2. boxes' \in [Types -> Boxes] /\ uris' \in [Projects -> [Types -> Texts]]
    <3>1. uris \in [Projects -> [Types -> Texts]]
      BY DEF IInv, TypeOK
    <3>2. /\ Saved(type) \in [Types -> Texts] /\ SavedInVain(type) \subseteq [Types -> Texts]
          /\ KeyUp(boxes, type) \in [Types -> Boxes]
          /\ KeyUp(Confirmed(type), type) \in [Types -> Boxes]
      BY <1>3, <2>1, SavedIsTyped, KeyUpIsTyped
    <3>3. PICK metadata \in [Types -> Texts] : uris' = [uris EXCEPT ![loaded] = metadata]
      BY <1>4, <3>2 DEF Save
    <3>4. uris' \in [Projects -> [Types -> Texts]]
      BY <2>1, <3>1, <3>3
    <3>5. QED
      BY <1>4, <3>2, <3>4 DEF Save
  <2>3. TypeOK'
    BY <1>1, <2>2 DEF IInv, TypeOK, treeVars
  <2>4. BoxInv'
    <3>1. CASE bound
      BY <1>1, <3>1 DEF IInv, BoxInv, MarkedIsTyped, UnsavedIsMarked
    <3>2. CASE ~bound
      <4>1. ~lock
        BY <3>2 DEF IInv, BoxInv, MarkedIsTyped
      <4>2. /\ \A t \in Types : boxes'[t].isChanged => boxes[t].isChanged /\ boxes'[t] = boxes[t]
            /\ \A t \in Types \ {type} : boxes'[t] = boxes[t] /\ uris'[loaded][t] = uris[loaded][t]
            /\ \/ boxes'[type].isChanged
               \/ WithoutHash(boxes'[type].text) = WithoutHash(uris'[loaded][type])
        BY <1>1, <1>2, <1>4, <3>2, <4>1, SaveKeepsMarks
      <4>3. MarkedIsTyped'
        BY <1>1, <4>1, <4>2 DEF IInv, BoxInv, MarkedIsTyped
      <4>4. UnsavedIsMarked'
        BY <1>1, <1>2, <4>2 DEF IInv, BoxInv, UnsavedIsMarked
      <4>5. QED
        BY <4>3, <4>4 DEF BoxInv
    <3>3. QED
      BY <3>1, <3>2
  <2>5. QED
    BY <1>1, <2>3, <2>4, TreesFramed DEF IInv
<1>5. CASE UNCHANGED uris /\ boxes' = KeyUp(boxes, type)
  <2>1. boxes' \in [Types -> Boxes] /\ (~lock => boxes' = boxes)
    BY <1>3, <1>5, KeyUpIsTyped
  <2>2. TypeOK'
    BY <1>1, <1>5, <2>1 DEF IInv, TypeOK, treeVars
  <2>3. BoxInv'
    BY <1>1, <1>2, <1>5, <2>1 DEF IInv, BoxInv, MarkedIsTyped, UnsavedIsMarked
  <2>4. QED
    BY <1>1, <2>2, <2>3, TreesFramed DEF IInv
<1>6. QED
  BY <1>4, <1>5 DEF Enter

LEMMA BoxGestureKeeps ==
  ASSUME IInv, PrefixTypeOK', BoxGesture
  PROVE  TypeOK' /\ TreeInv' /\ BoxInv'
BY TypeTextKeeps, EnterKeeps, PressLockKeeps DEF BoxGesture

-----------------------------------------------------------------------------
(* The steps of the panel and of the rest of the extension *)

LEMMA OpenKeeps ==
  ASSUME IInv, PrefixTypeOK', Open
  PROVE  TypeOK' /\ TreeInv' /\ BoxInv'
<1>1. /\ UNCHANGED <<prefixVars, serverVars, part>> /\ ~lock' /\ ~bound'
      /\ lock' \in BOOLEAN /\ bound' \in BOOLEAN /\ panel' \in {"closed", "blank", "shown"}
  BY DEF Open
<1>2. loaded' = loaded /\ imports' = imports /\ mirror' = mirror /\ uris' = uris
  BY <1>1 DEF prefixVars, serverVars
<1>3. boxes \in [Types -> Boxes] /\ imports \in [Projects -> [Onts -> Statuses]]
      /\ uris \in [Projects -> [Types -> Texts]] /\ (loaded # NoProject => loaded \in Projects)
  BY LoadedIsProject DEF IInv, TypeOK
<1>4. CASE loaded = NoProject /\ UNCHANGED <<owner, treeVars, boxes, told>>
  <2>1. panel' = "blank"
    BY <1>4 DEF Open
  <2>2. TypeOK'
    BY <1>1, <1>2, <1>4 DEF IInv, TypeOK, treeVars
  <2>3. TreeInv'
    BY <2>1 DEF TreeInv, RowsCoverPrefixes, ImportsAreCurrent, UpToDate
  <2>4. QED
    BY <1>1, <1>4, <2>1, <2>2, <2>3 DEF BoxInv, UnsavedIsMarked, MarkedIsTyped, UpToDate
<1>5. CASE loaded # NoProject /\ part = "trees" /\ FillTrees /\ UNCHANGED boxes
  <2>1. /\ prefixRows' \in Seq(Row) /\ importRows' \in [Onts -> Statuses]
        /\ owner' \in Projects /\ told' = TRUE /\ TreeInv'
    BY <1>1, <1>2, <1>3, <1>5, FilledTrees
  <2>2. TypeOK'
    BY <1>1, <1>2, <1>5, <2>1 DEF IInv, TypeOK
  <2>3. BoxInv'
    BY <1>1, <1>5 DEF BoxInv, MarkedIsTyped, UnsavedIsMarked
  <2>4. QED
    BY <2>1, <2>2, <2>3
<1>6. CASE loaded # NoProject /\ part = "boxes" /\ FillBoxes /\ UNCHANGED treeVars
  <2>1. /\ boxes' = Fresh(uris[loaded]) /\ owner' = loaded /\ told' = TRUE
        /\ UNCHANGED <<prefixRows, importRows>>
    BY <1>6 DEF FillBoxes, treeVars
  <2>2. uris[loaded] \in [Types -> Texts]
    BY <1>3, <1>6
  <2>3. /\ boxes' \in [Types -> Boxes]
        /\ \A type \in Types : boxes'[type] = [text |-> uris[loaded][type], isChanged |-> FALSE]
    BY <2>1, <2>2, FreshIsTyped
  <2>4. TypeOK'
    BY <1>1, <1>2, <1>3, <1>6, <2>1, <2>3 DEF IInv, TypeOK
  <2>5. TreeInv'
    BY <1>1, <1>6, TreesFramed DEF IInv
  <2>6. BoxInv'
    BY <1>1, <1>2, <2>3 DEF BoxInv, MarkedIsTyped, UnsavedIsMarked
  <2>7. QED
    BY <2>4, <2>5, <2>6
<1>7. QED
  BY <1>4, <1>5, <1>6 DEF Open

LEMMA CloseKeeps ==
  ASSUME IInv, PrefixTypeOK', Close
  PROVE  TypeOK' /\ TreeInv' /\ BoxInv'
<1>1. NoImports \in [Onts -> Statuses]
  BY DEF NoImports, Statuses
<1>2. UNCHANGED <<prefixVars, serverVars, part, boxVars>> /\ ~told' /\ told' \in BOOLEAN
  BY DEF Close
<1>3. prefixRows' = <<>> /\ importRows' = NoImports /\ panel' = "closed" /\ owner' = NoProject
  BY DEF Close
<1>4. TypeOK'
  BY <1>1, <1>2, <1>3 DEF IInv, TypeOK, serverVars, boxVars
<1>5. QED
  BY <1>2, <1>3, <1>4, TreesFramed, BoxesFramed DEF IInv, serverVars

(* An event reaches the panel as far as its listeners are registered; the  *)
(* panel has then not been told of the change.                              *)
LEMMA FireKeeps ==
  ASSUME IInv, PrefixTypeOK', NEW event, Fire(event), UNCHANGED <<uris, part>>,
         imports' \in [Projects -> [Onts -> Statuses]], mirror' \subseteq Onts
  PROVE  TypeOK' /\ TreeInv' /\ BoxInv'
<1>1. /\ ~told' /\ told' \in BOOLEAN /\ panel' \in {panel, "closed"}
      /\ UNCHANGED <<owner, treeVars, boxVars>>
  BY DEF Fire
<1>2. QED
  BY <1>1, UntoldKeeps

LEMMA NextKeeps ==
  ASSUME IInv, PrefixTypeOK', [Next]_vars
  PROVE  TypeOK' /\ TreeInv' /\ BoxInv'
<1>1. imports \in [Projects -> [Onts -> Statuses]] /\ mirror \subseteq Onts
  BY DEF IInv, TypeOK
<1>2. ASSUME NEW project \in Projects, OpenedProject(project) PROVE TypeOK' /\ TreeInv' /\ BoxInv'
  <2>1. PICK status \in Reopened(project) : imports' = [imports EXCEPT ![project] = status]
    BY <1>2 DEF OpenedProject
  <2>2. imports' \in [Projects -> [Onts -> Statuses]]
    BY <1>1, <2>1 DEF Reopened
  <2>3. UNCHANGED <<mirror, uris, part>> /\ Fire("projectOpened")
    BY <1>2 DEF OpenedProject
  <2>4. QED
    BY <1>1, <2>2, <2>3, FireKeeps
<1>3. CASE ClosedProject
  BY <1>1, <1>3, FireKeeps DEF ClosedProject, serverVars
<1>4. CASE VisLevelChanged
  BY <1>1, <1>4, FireKeeps DEF VisLevelChanged, serverVars
<1>5. ASSUME NEW onts \in SUBSET Onts, LoadRdf(onts) PROVE TypeOK' /\ TreeInv' /\ BoxInv'
  <2>1. UNCHANGED <<mirror, uris, part>> /\ Fire("rdfLoaded") /\ loaded \in Projects
    BY <1>5, LoadedIsProject DEF LoadRdf, GuessMissingPrefixes
  <2>2. imports' = [imports EXCEPT ![loaded] =
          [o \in Onts |-> IF o \in onts /\ @[o] = "NONE" THEN IF o \in mirror THEN "LOCAL" ELSE "WEB"
                          ELSE @[o]]]
    BY <1>5 DEF LoadRdf
  <2>3. imports' \in [Projects -> [Onts -> Statuses]]
    BY <1>1, <2>1, <2>2 DEF Statuses
  <2>4. QED
    BY <1>1, <2>1, <2>3, FireKeeps
<1>6. CASE ClearRepository
  <2>1. UNCHANGED <<mirror, uris, part>> /\ part = "trees"
    BY <1>6 DEF ClearRepository
  <2>2. CASE ClearData /\ imports' = [imports EXCEPT ![loaded] = NoImports] /\ Fire("clearedData")
    <3>1. imports' \in [Projects -> [Onts -> Statuses]]
      BY <1>1, <2>2 DEF NoImports, Statuses
    <3>2. QED
      BY <1>1, <2>1, <2>2, <3>1, FireKeeps
  <2>3. CASE ClearDataFails /\ UNCHANGED <<imports, panel, owner, treeVars, boxVars>> /\ told' = FALSE
    BY <1>1, <2>1, <2>3, UntoldKeeps
  <2>4. QED
    BY <1>6, <2>2, <2>3 DEF ClearRepository
<1>7. ASSUME NEW o \in Onts, DeleteMirrorEntry(o) PROVE TypeOK' /\ TreeInv' /\ BoxInv'
  <2>1. /\ UNCHANGED <<prefixVars, imports, uris, part, panel, owner, treeVars, boxVars, told>>
        /\ mirror' \subseteq Onts
    BY <1>1, <1>7 DEF DeleteMirrorEntry
  <2>2. TypeOK'
    BY <2>1 DEF IInv, TypeOK, treeVars, boxVars
  <2>3. QED
    BY <2>1, <2>2, TreesFramed, BoxesFramed DEF IInv, prefixVars
<1>8. CASE SavedProject
  <2>1. UNCHANGED panelVars /\ SaveProject
    BY <1>8 DEF SavedProject
  <2>2. UNCHANGED <<loaded, namespacePrefixMap, prefixNamespaceMap, store>>
    BY <2>1 DEF SaveProject
  <2>3. TypeOK'
    BY <2>1 DEF IInv, TypeOK, panelVars, serverVars, treeVars, boxVars
  <2>4. QED
    BY <2>1, <2>2, <2>3, TreesFramed, BoxesFramed DEF IInv, panelVars, serverVars
<1>9. CASE UNCHANGED vars
  <2>1. UNCHANGED <<prefixVars, panelVars>>
    BY <1>9 DEF vars
  <2>2. TypeOK'
    BY <2>1 DEF IInv, TypeOK, panelVars, serverVars, treeVars, boxVars
  <2>3. QED
    BY <2>1, <2>2, TreesFramed, BoxesFramed DEF IInv, prefixVars, panelVars, serverVars
<1>10. QED
  BY <1>2, <1>3, <1>4, <1>5, <1>6, <1>7, <1>8, <1>9,
     OpenKeeps, CloseKeeps, TreeGestureKeeps, BoxGestureKeeps DEF Next

-----------------------------------------------------------------------------
(* The invariant *)

LEMMA InitHolds == Init => IInv
<1> SUFFICES ASSUME Init PROVE IInv
  OBVIOUS
<1>1. PrefixTypeOK /\ PrefixesAgree
  BY InitKept DEF Init, PInv
<1>2. uris \in [Projects -> [Types -> Texts]]
  BY NewMetadata DEF Init
<1>3. boxes \in [Types -> Boxes] /\ \A type \in Types : ~boxes[type].isChanged
  <2>1. (CHOOSE metadata \in MetadataOf : TRUE) \in [Types -> Texts]
    BY NewMetadata
  <2>2. boxes = Fresh(CHOOSE metadata \in MetadataOf : TRUE)
    BY DEF Init
  <2> DEFINE m == CHOOSE metadata \in MetadataOf : TRUE
  <2> HIDE DEF m
  <2>3. m \in [Types -> Texts] /\ boxes = Fresh(m)
    BY <2>1, <2>2 DEF m
  <2>4. /\ Fresh(m) \in [Types -> Boxes]
        /\ \A type \in Types : Fresh(m)[type] = [text |-> m[type], isChanged |-> FALSE]
    BY <2>3, FreshIsTyped
  <2>5. QED
    BY <2>3, <2>4
<1>4. TypeOK
  <2>1. NoImports \in [Onts -> Statuses] /\ <<>> \in Seq(Row)
    BY DEF NoImports, Statuses
  <2>2. imports \in [Projects -> [Onts -> Statuses]] /\ importRows \in [Onts -> Statuses]
    BY <2>1 DEF Init
  <2>3. prefixRows \in Seq(Row) /\ mirror \subseteq Onts /\ part \in Parts /\ panel = "closed"
        /\ owner = NoProject /\ lock = FALSE /\ told = FALSE /\ bound = FALSE
    BY <2>1 DEF Init
  <2>4. QED
    BY <1>1, <1>2, <1>3, <2>2, <2>3 DEF TypeOK
<1>5. TreeInv
  BY DEF TreeInv, RowsCoverPrefixes, ImportsAreCurrent, UpToDate, Init
<1>6. BoxInv
  BY <1>3 DEF BoxInv, MarkedIsTyped, UnsavedIsMarked, UpToDate, Init
<1>7. QED
  BY <1>1, <1>4, <1>5, <1>6 DEF IInv

LEMMA IInvKept == IInv /\ [Next]_vars => IInv'
<1> SUFFICES ASSUME IInv, [Next]_vars PROVE IInv'
  OBVIOUS
<1>1. PrefixTypeOK' /\ PrefixesAgree'
  <2>1. PInv /\ [PrefixNext]_prefixVars
    BY PrefixStep DEF IInv, TypeOK, PInv
  <2>2. QED
    BY <2>1, StepKeeps DEF PInv
<1>2. QED
  BY <1>1, NextKeeps DEF IInv

LEMMA Inductive == Spec => []IInv
<1>1. QED
  BY InitHolds, IInvKept, PTL DEF Spec

(* Under the panel, too, the maps of the prefixes and the file agree.       *)
THEOREM PanelPrefixesAgree == Spec => []PrefixesAgree
<1>1. IInv => PrefixesAgree
  BY DEF IInv
<1>2. QED
  BY <1>1, Inductive, PTL

(* A panel that has been told of every change of its project has a row for *)
(* every explicit prefix the store knows and the imports of the server:    *)
(* adding and removing rows one by one (imports.js) comes to the same as   *)
(* filling the table again.                                                  *)
THEOREM ShownIsCurrent == Spec => []PanelIsCurrent
<1>1. IInv => PanelIsCurrent
  BY DEF IInv, TreeInv, PanelIsCurrent
<1>2. QED
  BY <1>1, Inductive, PTL

(* Text in the boxes that the server does not have is marked, so that Enter *)
(* saves it (importsUtils.js, metadata.js), whatever was typed, saved or     *)
(* refused, as long as the boxes were not bound to each other.               *)
THEOREM UnsavedTextIsMarked == Spec => []UnsavedIsMarked
<1>1. IInv => UnsavedIsMarked
  BY DEF IInv, BoxInv
<1>2. QED
  BY <1>1, Inductive, PTL
==============================================================================
