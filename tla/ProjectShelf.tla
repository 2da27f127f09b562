---------------------------- MODULE ProjectShelf ----------------------------
(***************************************************************************)
(* What the project services promise, without directories, files, labels   *)
(* or handlers: a shelf of named contents and at most one loaded project   *)
(* that is read from the shelf, edited, and written back.                  *)
(***************************************************************************)
CONSTANTS
  Names,      (* project names                                             *)
  Contents,   (* abstract contents                                         *)
  Empty,      (* the content of a new project                              *)
  None        (* marks a name that is not in use, and that nothing is loaded *)

VARIABLES
  shelf,      (* the saved content of every name, or None                  *)
  loaded      (* the loaded project: its name and content, or None         *)

shelfVars == <<shelf, loaded>>

Init ==
  /\ shelf = [n \in Names |-> None]
  /\ loaded = None

(* A name that is free gets an empty content, or a copy of another one.     *)
Add(n) ==
  /\ shelf[n] = None
  /\ \E c \in {Empty} \cup {shelf[m] : m \in Names} :
       c # None /\ shelf' = [shelf EXCEPT ![n] = c]
  /\ UNCHANGED loaded

(* Any content may be removed but the loaded one.                           *)
Remove(n) ==
  /\ shelf[n] # None
  /\ loaded = None \/ loaded.name # n
  /\ shelf' = [shelf EXCEPT ![n] = None]
  /\ UNCHANGED loaded

Load(n) ==
  /\ shelf[n] # None
  /\ loaded' = [name |-> n, mem |-> shelf[n]]
  /\ UNCHANGED shelf

Unload ==
  /\ loaded # None
  /\ loaded' = None
  /\ UNCHANGED shelf

(* An edit changes the loaded content; some projects save it at once.       *)
Edit(c) ==
  /\ loaded # None
  /\ loaded' = [loaded EXCEPT !.mem = c]
  /\ shelf' \in {shelf, [shelf EXCEPT ![loaded.name] = c]}

Save ==
  /\ loaded # None
  /\ shelf' = [shelf EXCEPT ![loaded.name] = loaded.mem]
  /\ UNCHANGED loaded

Next ==
  \/ \E n \in Names : Add(n) \/ Remove(n) \/ Load(n)
  \/ Unload \/ Save
  \/ \E c \in Contents : Edit(c)

Spec == Init /\ [][Next]_shelfVars
=============================================================================
