----------------------------- MODULE PanelLayout -----------------------------
(***************************************************************************)
(* saveLayout() and restoreLayout() of layout.cpp: the tree of panels as a *)
(* document, and the tree that a document becomes.                         *)
(***************************************************************************)
EXTENDS PanelTree

CONSTANTS
    Documents,  \* what may be stored as a layout
    Default,    \* the layout that a DataViewer begins with
    MaxPending  \* bound: a click is handled with at most as many deletions to come

ASSUME LayoutAssumption == MaxPending \in Nat

VARIABLE restored   \* the document that the user sees, None once it was changed

vars == <<tree, stranded, restored>>

-----------------------------------------------------------------------------
(* Documents                                                                *)

EmptyDoc == [type |-> "empty", id |-> Empty, splitter |-> None, children |-> <<>>]
PanelDoc(p) == [type |-> "panel", id |-> p, splitter |-> None, children |-> <<>>]
LayoutDoc(o, cs) == [type |-> "layout", id |-> Empty, splitter |-> o, children |-> cs]

\* A value that is no object, that has no type or an unknown one, a panel without an id
\* or with data that it does not accept.  A nested layout whose children are no array
\* comes to the same as one whose first child is this: it is made, and fails.
Unreadable == [type |-> "unreadable", id |-> Empty, splitter |-> None, children |-> <<>>]

RECURSIVE SaveLayout(_, _)
SaveLayout(t, x) ==
    IF x \in Layouts
    THEN LayoutDoc(t.orientation[x],
                   [i \in DOMAIN t.widgets[x] |-> SaveLayout(t, t.widgets[x][i])])
    ELSE IF t.panel[x] = Empty THEN EmptyDoc ELSE PanelDoc(t.panel[x])

\* What a document becomes: unknown ids are empty panels, as is a root without any.
RECURSIVE Understood(_)
Understood(doc) ==
    IF doc.type = "panel" /\ doc.id \notin Panels THEN EmptyDoc
    ELSE [doc EXCEPT !.children = [i \in DOMAIN @ |-> Understood(@[i])]]

\* restorePanel(): an unknown id gives an empty panel.
RestorePanel(t, l, p) == AddWidget(t, l, IF p \in Panels THEN p ELSE Empty)

\* Faulty variant: what was there stays.
RestoreKeepsOld(t, l) == t

\* deleteLater() for all the children there are.
DeleteChildren(t, l) == FoldLeft(DeleteLater, t, t.widgets[l])

\* restoreLayout() of a layout that has begun to; the result is the tree and what
\* is returned.  What was added before a failure stays.  A nested layout that fails is
\* neither added nor deleted, and stays as it is.  The sizes of the splitter are left out.
RECURSIVE RestoreLayout(_, _, _)
RestoreLayout(t, l, doc) ==
    LET RestoreChild(r, child) ==
            IF ~r.ok THEN r
            ELSE CASE child.type = "layout" ->
                        LET n == New(r.tree, Layouts)
                            s == RestoreLayout(NewLayout(r.tree, n, l, None), n, child)
                        IN  IF s.ok THEN [s EXCEPT !.tree.widgets[l] = Append(@, n)] ELSE s
                   [] child.type = "panel" -> [r EXCEPT !.tree = RestorePanel(@, l, child.id)]
                   [] child.type = "empty" -> [r EXCEPT !.tree = AddWidget(@, l, Empty)]
                   [] child.type = "unreadable" -> [r EXCEPT !.ok = FALSE]
        start == [tree |-> DeleteChildren(t, l), ok |-> TRUE]
        r == FoldLeft(RestoreChild, start, doc.children)
    IN  IF r.ok /\ doc.splitter # None
        THEN [r EXCEPT !.tree.orientation[l] = doc.splitter]
        ELSE [r EXCEPT !.ok = FALSE]

-----------------------------------------------------------------------------
(* What the user does                                                       *)

RECURSIVE Count(_, _)
Count(doc, type) ==
    (IF doc.type = type THEN 1 ELSE 0)
        + FoldLeft(LAMBDA n, c : n + Count(c, type), 0, doc.children)

\* What differs from the document by now.
Changed == restored' = None

\* restoreState() of the root.
RestoreState(doc) ==
    LET r == RestoreLayout(tree, Root, doc)
    IN  /\ RoomFor(Count(doc, "panel") + Count(doc, "empty"), Count(doc, "layout") - 1)
        /\ doc.type = "layout"
        /\ tree' = r.tree
        /\ stranded' = stranded \cup Stray(tree, r.tree)
        /\ IF r.ok /\ tree.doomed = <<>> THEN restored' = Understood(doc) ELSE Changed

-----------------------------------------------------------------------------

\* A DataViewer whose layout selector has restored its first layout.
LayoutInit ==
    /\ tree = RestoreLayout(Bare, Root, Default).tree
    /\ stranded = Stray(Bare, tree)
    /\ restored = Default

UserStep ==
    /\ Len(tree.doomed) <= MaxPending
    /\ \/ \E w \in Shown, p \in Panels : SelectPanel(w, p) /\ Changed
       \/ \E w \in Shown, o \in Orientations : Split(w, o) /\ Changed
       \/ \E w \in Shown : Close(w) /\ Changed
       \/ \E doc \in Documents : RestoreState(doc)

LayoutNext == UserStep \/ (DeleteNext /\ UNCHANGED restored)

LayoutSpec == LayoutInit /\ [][LayoutNext]_vars

-----------------------------------------------------------------------------
(* Properties                                                               *)

\* A layout that was restored, with nothing else done since, is what would be saved.
RestoreIsExact ==
    AtRest /\ restored # None => SaveLayout(tree, Root) = restored

\* PanelTree says of a restored layout what comes of it for the tree: restoreLayout()
\* does that, with whatever it is called for and wherever it stops.
ImplementsTree == TreeSpec

=============================================================================
