-------------------------------- MODULE Tabs --------------------------------
(***************************************************************************)
(* The property tab of the sidebar and the SPARQL tab of the browser next  *)
(* to each other: both know of the project from the events projectOpened   *)
(* and projectClosed only, and nothing else connects them.                 *)
(***************************************************************************)
EXTENDS PropertyPanel, QueryTab

CONSTANT PrefixCounts   (* how many prefixes a project may have               *)

TabsInit == Init /\ QueryInit

(* The menu is disabled without a project; a tab may be restored before    *)
(* the extension is started.  The prefixes are those of the server.        *)
OpenTab ==
  /\ current \/ ~started
  /\ \E n \in PrefixCounts \cup {0} :
       /\ (n = 0) <=> (model = NoModel)
       /\ OpenQueryTab(current, n)
  /\ UNCHANGED vars

(* StartST fires projectOpened, for the project the server has loaded.     *)
Started == StartST /\ IF current' THEN EnableSubmit ELSE UNCHANGED queryVars

(* projectClosed, and then projectOpened if a project is opened; cloning   *)
(* the open project closes and opens it again without the second event.    *)
Announced == IF current' THEN EnableSubmit \/ (model' = model /\ DisableSubmit) ELSE DisableSubmit

Switch == OpenProject /\ Announced

TabsNext ==
  \/ Started \/ Switch \/ OpenTab
  \/ Commands /\ UNCHANGED queryVars
  \/ QueryStep /\ UNCHANGED vars

TabsSpec == TabsInit /\ [][TabsNext]_<<vars, queryVars>>

(* A query can be submitted only while a project is open, and its results  *)
(* are those of the last answer: the tab hears of projects from two events *)
(* and is never told who fired them (enableSPARQLSubmitQuery,              *)
(* disableSPARQLSubmitQuery and the handlers that fire the events).        *)
QueryTabIsSound == (tab = "enabled" => current) /\ RowsShowTheBindings
=============================================================================
