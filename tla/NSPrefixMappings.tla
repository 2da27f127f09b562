-------------------------- MODULE NSPrefixMappings --------------------------
(***************************************************************************)
(* The prefixes of the namespaces of a project (NSPrefixMappings.java, and *)
(* STOntologyManager.java and the Metadata service around it).  What the   *)
(* user chose is kept in two maps, one in each direction, and in a file of *)
(* the project, PrefixMappings.xml, which holds the first map.  The store  *)
(* has a table of its own, from prefixes to namespaces, with the prefixes  *)
(* that were guessed as well.                                              *)
(***************************************************************************)

EXTENDS SequencesExt

CONSTANTS
  Projects,
  Continuous,    \* The projects that write every change (PersistentStoreProject).
  Namespace,
  Prefix,
  Guess,         \* [Namespace -> Prefix]: what ModelUtilities guesses.
  Faults,        \* What may fail: "write" or nothing.
  NoProject,
  NoPrefix,
  NoNamespace

ASSUME ProjectsAssumption == Continuous \subseteq Projects /\ NoProject \notin Projects
ASSUME NamesAssumption ==
  /\ IsFiniteSet(Namespace) /\ IsFiniteSet(Prefix)
  /\ NoPrefix \notin Prefix /\ NoNamespace \notin Namespace
ASSUME GuessAssumption == Guess \in [Namespace -> Prefix]
ASSUME FaultsAssumption == Faults \subseteq {"write"}

VARIABLES
  loaded,              \* The project that is loaded.
  namespacePrefixMap,  \* Its prefixes by namespace,
  prefixNamespaceMap,  \* and its namespaces by prefix: the explicit mappings.
  store,               \* The table of the store.
  file,                \* [Projects -> map]: PrefixMappings.xml.
  unwritten            \* A write of the file failed since the project was loaded.

prefixVars == <<loaded, namespacePrefixMap, prefixNamespaceMap, store, file, unwritten>>

NoPrefixes == [n \in Namespace |-> NoPrefix]
NoNamespaces == [p \in Prefix |-> NoNamespace]

PrefixMaps == [Namespace -> Prefix \cup {NoPrefix}]
NamespaceMaps == [Prefix -> Namespace \cup {NoNamespace}]

PrefixInit ==
  /\ loaded = NoProject
  /\ namespacePrefixMap = NoPrefixes
  /\ prefixNamespaceMap = NoNamespaces
  /\ store = NoNamespaces
  /\ file = [project \in Projects |-> NoPrefixes]
  /\ unwritten = FALSE

(***************************************************************************)
(* The file                                                                *)
(***************************************************************************)

(* The registry is written from the map by namespace.  A write that fails  *)
(* may have emptied the file before.                                        *)
UpdatePrefixMappingRegistry ==
  /\ file' = [file EXCEPT ![loaded] = namespacePrefixMap']
  /\ UNCHANGED unwritten

RegistryFails ==
  /\ "write" \in Faults
  /\ file' \in {file, [file EXCEPT ![loaded] = NoPrefixes]}
  /\ unwritten' = TRUE

Persisted ==
  IF loaded \in Continuous THEN UpdatePrefixMappingRegistry ELSE UNCHANGED <<file, unwritten>>

(***************************************************************************)
(* The store                                                               *)
(***************************************************************************)

(* A prefix is given to a namespace; whether the store forgets the prefix   *)
(* the namespace had is up to its implementation.                           *)
SetNsPrefix(table, n, p) ==
  {[table EXCEPT ![p] = n],
   [q \in Prefix |-> IF q = p THEN n ELSE IF table[q] = n THEN NoNamespace ELSE table[q]]}

RemoveNsPrefixMapping(table, n) ==
  {[q \in Prefix |-> IF q \in gone THEN NoNamespace ELSE table[q]] :
     gone \in {{q} : q \in {r \in Prefix : table[r] = n}} \cup {{r \in Prefix : table[r] = n}}}

(* A namespace without a prefix gets the one that is guessed, whether or   *)
(* not that prefix is in use.                                               *)
GuessMissingPrefix(table, n) ==
  IF \E p \in Prefix : table[p] = n THEN {table} ELSE SetNsPrefix(table, n, Guess[n])

(***************************************************************************)
(* Requests                                                                *)
(***************************************************************************)

(* Definitions named Mut... are plausible mistakes.  No action uses them:    *)
(* the runs are repeated with one of them in the place of the definition    *)
(* after it.                                                                 *)
MutMapped(n, p) ==
  /\ namespacePrefixMap' = [namespacePrefixMap EXCEPT ![n] = p]
  /\ prefixNamespaceMap' = [prefixNamespaceMap EXCEPT ![p] = n]

(* setNSPrefixMapping of NSPrefixMappings: the prefix the namespace had is *)
(* taken out of the other map, whatever it stood for there.                 *)
Mapped(n, p) ==
  /\ namespacePrefixMap' = [namespacePrefixMap EXCEPT ![n] = p]
  /\ prefixNamespaceMap' = [q \in Prefix |->
       IF q = p THEN n ELSE IF q = namespacePrefixMap[n] THEN NoNamespace ELSE prefixNamespaceMap[q]]

(* The maps, then the file, then the store; a write that fails leaves the  *)
(* maps changed and the store as it was.                                    *)
SetNSPrefixMapping(n, p) ==
  /\ loaded # NoProject
  /\ Mapped(n, p)
  /\ Persisted
  /\ store' \in SetNsPrefix(store, n, p)
  /\ UNCHANGED loaded

SetNSPrefixMappingFails(n, p) ==
  /\ loaded \in Continuous
  /\ Mapped(n, p)
  /\ RegistryFails
  /\ UNCHANGED <<store, loaded>>

Unmapped(n) ==
  /\ namespacePrefixMap' = [namespacePrefixMap EXCEPT ![n] = NoPrefix]
  /\ prefixNamespaceMap' = [q \in Prefix |->
       IF q = namespacePrefixMap[n] THEN NoNamespace ELSE prefixNamespaceMap[q]]

(* A namespace without an entry is refused ("inconsistency error").          *)
RemoveNSPrefixMapping(n) ==
  /\ loaded # NoProject
  /\ namespacePrefixMap[n] # NoPrefix
  /\ Unmapped(n)
  /\ Persisted
  /\ store' \in RemoveNsPrefixMapping(store, n)
  /\ UNCHANGED loaded

RemoveNSPrefixMappingFails(n) ==
  /\ loaded \in Continuous
  /\ namespacePrefixMap[n] # NoPrefix
  /\ Unmapped(n)
  /\ RegistryFails
  /\ UNCHANGED <<store, loaded>>

(* clearData: one of the maps is cleared, and the file is written from the  *)
(* other.  The store may keep its prefixes.                                 *)
ClearNSPrefixMappings ==
  /\ prefixNamespaceMap' = NoNamespaces
  /\ UNCHANGED namespacePrefixMap

ClearData ==
  /\ loaded # NoProject
  /\ ClearNSPrefixMappings
  /\ Persisted
  /\ store' \in {store, NoNamespaces}
  /\ UNCHANGED loaded

ClearDataFails ==
  /\ loaded \in Continuous
  /\ ClearNSPrefixMappings
  /\ RegistryFails
  /\ UNCHANGED <<store, loaded>>

(* The namespaces that are in use are listed in some order.                 *)
GuessFor(tables, n) == UNION {GuessMissingPrefix(table, n) : table \in tables}

Guessed(table, namespaces) ==
  UNION {FoldLeft(GuessFor, {table}, order) : order \in SetToSeqs(namespaces)}

(* An import: the namespaces without a prefix get one.                      *)
GuessMissingPrefixes(namespaces) ==
  /\ loaded # NoProject
  /\ store' \in Guessed(store, namespaces)
  /\ UNCHANGED <<loaded, namespacePrefixMap, prefixNamespaceMap, file, unwritten>>

(***************************************************************************)
(* Projects                                                                *)
(***************************************************************************)

(* The file is read into both maps, in the order of a hash table: of two   *)
(* namespaces with one prefix either may win.  The prefixes of the store,  *)
(* some of which it kept, are then set again from the map by prefix.       *)
Inverses(map) ==
  {inverse \in NamespaceMaps :
     \A p \in Prefix :
       IF \E n \in Namespace : map[n] = p THEN inverse[p] # NoNamespace /\ map[inverse[p]] = p
       ELSE inverse[p] = NoNamespace}

(* The store of a project that is opened has kept its table, or has guessed *)
(* what the model needs; it may forget what it has for an explicit one.     *)
InitializeMappingsPersistence(table) ==
  {[p \in Prefix |-> IF prefixNamespaceMap'[p] # NoNamespace THEN prefixNamespaceMap'[p]
                     ELSE IF \E q \in Prefix : forgets /\ prefixNamespaceMap'[q] = table[p]
                       THEN NoNamespace ELSE table[p]] : forgets \in BOOLEAN}

KeptByStore == UNION {Guessed(NoNamespaces, namespaces) : namespaces \in SUBSET Namespace}

OpenProject(project) ==
  /\ loaded = NoProject
  /\ loaded' = project
  /\ namespacePrefixMap' = file[project]
  /\ prefixNamespaceMap' \in Inverses(file[project])
  /\ \E table \in KeptByStore : store' \in InitializeMappingsPersistence(table)
  /\ unwritten' = FALSE
  /\ UNCHANGED file

(* saveProject of a project that is saved on demand.                        *)
SaveProject ==
  /\ loaded \in Projects \ Continuous
  /\ \/ file' = [file EXCEPT ![loaded] = namespacePrefixMap] /\ UNCHANGED unwritten
     \/ RegistryFails
  /\ UNCHANGED <<loaded, namespacePrefixMap, prefixNamespaceMap, store>>

CloseProject ==
  /\ loaded # NoProject
  /\ loaded' = NoProject
  /\ namespacePrefixMap' = NoPrefixes
  /\ prefixNamespaceMap' = NoNamespaces
  /\ store' = NoNamespaces
  /\ unwritten' = FALSE
  /\ UNCHANGED file

PrefixNext ==
  \/ \E n \in Namespace, p \in Prefix : SetNSPrefixMapping(n, p) \/ SetNSPrefixMappingFails(n, p)
  \/ \E n \in Namespace : RemoveNSPrefixMapping(n) \/ RemoveNSPrefixMappingFails(n)
  \/ \E namespaces \in SUBSET Namespace : GuessMissingPrefixes(namespaces)
  \/ ClearData
  \/ ClearDataFails
  \/ \E project \in Projects : OpenProject(project)
  \/ SaveProject
  \/ CloseProject

PrefixSpec == PrefixInit /\ [][PrefixNext]_prefixVars

(***************************************************************************)
(* Properties                                                              *)
(***************************************************************************)
PrefixTypeOK ==
  /\ loaded \in Projects \cup {NoProject}
  /\ namespacePrefixMap \in PrefixMaps
  /\ prefixNamespaceMap \in NamespaceMaps
  /\ store \in NamespaceMaps
  /\ file \in [Projects -> PrefixMaps]
  /\ unwritten \in BOOLEAN

(* What the map by prefix says, the map by namespace says too: the two maps *)
(* NSPrefixMappings keeps by hand never contradict each other on an         *)
(* explicit mapping (the converse fails: a prefix used twice is lost from   *)
(* one of them).                                                             *)
MapsAgree ==
  \A p \in Prefix :
    prefixNamespaceMap[p] # NoNamespace => namespacePrefixMap[prefixNamespaceMap[p]] = p

(* A project that writes every change has on disk what it has in memory.     *)
FileIsCurrent ==
  loaded \in Continuous /\ ~ unwritten => file[loaded] = namespacePrefixMap

(* A project says the same in its three places: no contradiction between    *)
(* the maps, and a file that is the one of the memory.                        *)
PrefixesAgree == MapsAgree /\ FileIsCurrent
=============================================================================
