------------------------------ MODULE Bookmarks ------------------------------
(***************************************************************************)
(* The bookmarks of pages (bookmark.js, bookmark-dialog.js, the drop       *)
(* listeners of browser-overlay.js, and the Annotation service): a concept *)
(* dropped on a page becomes a topic of it; an icon in the status bar of a *)
(* browser window tells that the page shown has topics, and opens a dialog *)
(* that lists them and removes them one by one.  A dialog is modal for its *)
(* own browser window only; events reach the dialogs of all windows.       *)
(***************************************************************************)
EXTENDS FiniteSets

CONSTANTS
  Window,   \* browser windows
  Page,     \* the pages they show
  Topic,    \* the concepts that may be dropped on a page
  NoPage    \* no dialog is open

ASSUME NoPageAssumption == NoPage \notin Page

VARIABLES
  topics,   \* [Page -> SUBSET Topic]: the topics the server has of each page
  browser,  \* [Window -> record]: the page shown, the icon, the dialog
  working   \* is a project open?

bookmarkVars == <<topics, browser, working>>

NoDialog == [page |-> NoPage, items |-> {}]

BookmarksInit ==
  /\ topics = [p \in Page |-> {}]
  /\ browser \in [Window -> {[page |-> p, icon |-> FALSE, dialog |-> NoDialog] :
                               p \in Page}]
  /\ working = FALSE

Idle(w) == browser[w].dialog = NoDialog

-----------------------------------------------------------------------------
(* chkBookmarks: at the loading of a page and the selection of a tab, and  *)
(* only while a project is open; else the icon stays as it is.             *)
Checked(icon, p) == IF working THEN topics[p] # {} ELSE icon

(* Another page, or the same again, is shown.                              *)
Show(w, p) ==
  /\ Idle(w)
  /\ browser' = [browser EXCEPT ![w].page = p, ![w].icon = Checked(@, p)]
  /\ UNCHANGED <<topics, working>>

(* enableDropOnBrowser and disableDropOnBrowser, on the opening and the    *)
(* closing of a project.                                                   *)
SwitchProject ==
  /\ working' = ~working
  /\ UNCHANGED <<topics, browser>>

(* dropOnBrowser: bookmarkPage adds the topic.  No window is told.         *)
DropOnBrowser(w, t) ==
  /\ working
  /\ Idle(w)
  /\ topics' = [topics EXCEPT ![browser[w].page] = @ \cup {t}]
  /\ UNCHANGED <<browser, working>>

(* openBookmarksDialog, from the icon, and init of the dialog.             *)
Listed(p) == [page |-> p, items |-> IF working THEN topics[p] ELSE {}]

OpenBookmarksDialog(w) ==
  /\ Idle(w)
  /\ browser[w].icon
  /\ browser' = [browser EXCEPT ![w].dialog = Listed(browser[w].page)]
  /\ UNCHANGED <<topics, working>>

MutHandleBookmarkRemoved(dialog, p, t) ==
  IF dialog.page = p THEN dialog ELSE [dialog EXCEPT !.items = @ \ {t}]

(* handleBookmarkRemoved, in every open dialog: the item of that topic     *)
(* goes, whatever page the event is about.                                 *)
HandleBookmarkRemoved(dialog, p, t) == [dialog EXCEPT !.items = @ \ {t}]

(* doRemoveTopic and removeBookmark: the event follows only a removal that *)
(* did not fail; without a project the request fails with an alert.        *)
DoRemoveTopic(w, t) ==
  LET p == browser[w].dialog.page
  IN /\ t \in browser[w].dialog.items
     /\ IF working
        THEN /\ topics' = [topics EXCEPT ![p] = @ \ {t}]
             /\ browser' = [v \in Window |-> [browser[v] EXCEPT
                              !.dialog = HandleBookmarkRemoved(@, p, t)]]
        ELSE UNCHANGED <<topics, browser>>
     /\ UNCHANGED working

(* clean: the listener of the dialog goes with its window.                 *)
CloseBookmarksDialog(w) ==
  /\ ~Idle(w)
  /\ browser' = [browser EXCEPT ![w].dialog = NoDialog]
  /\ UNCHANGED <<topics, working>>

BookmarksNext ==
  \/ \E w \in Window :
       \/ \E p \in Page : Show(w, p)
       \/ \E t \in Topic : DropOnBrowser(w, t) \/ DoRemoveTopic(w, t)
       \/ OpenBookmarksDialog(w) \/ CloseBookmarksDialog(w)
  \/ SwitchProject

-----------------------------------------------------------------------------
(* A dialog never lists a topic its page has no more, even when the topic  *)
(* was removed from a dialog of another window (handleBookmarkRemoved of   *)
(* bookmark-dialog.js and removeBookmark of SERVICE_Annotation.jsm).       *)
RemovedTopicsAreGone ==
  \A w \in Window : ~Idle(w) => browser[w].dialog.items \subseteq
                                  topics[browser[w].dialog.page]
=============================================================================
