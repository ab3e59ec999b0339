------------------------------ MODULE PanelTree ------------------------------
(***************************************************************************)
(* layout.cpp: the panels of a DataViewer as a tree of splitters.  A panel *)
(* sits in a PanelWrapper; a PanelLayout is a splitter whose widgets are   *)
(* wrappers and other layouts.  What deleteLater() is called for stays     *)
(* where it is until the event loop deletes it, and a click that was       *)
(* queued before may be handled first.  The tree is restructured from      *)
(* inside the child events of those deletions.                             *)
(*                                                                         *)
(* Of a layout that is restored this module says only what comes of it for *)
(* the tree, whatever is read; PanelLayout has restoreLayout() itself.     *)
(***************************************************************************)
EXTENDS Naturals, Sequences, FiniteSets, SequencesExt

CONSTANTS
    Layouts,    \* the identities of PanelLayouts
    Root,       \* the layout of the DataViewer
    Wrappers,   \* the identities of PanelWrappers
    Panels,     \* the ids in panels::all
    None        \* nullptr

ASSUME TreeAssumption ==
    /\ IsFiniteSet(Layouts)
    /\ IsFiniteSet(Wrappers)
    /\ Root \in Layouts
    /\ Layouts \cap Wrappers = {}
    /\ None \notin Layouts \cup Wrappers

Empty == "empty"
Orientations == {"Horizontal", "Vertical"}

VARIABLES
    tree,       \* the objects, see TreeType
    stranded    \* history, for the properties: what restores that failed have left

treeVars == <<tree, stranded>>

TreeType ==
    [alive : SUBSET (Layouts \cup Wrappers),            \* the objects there are
     widgets : [Layouts -> Seq(Layouts \cup Wrappers)], \* QSplitter::widget(i)
     parentLayout : [Layouts -> Layouts \cup {None}],   \* m_parent_layout
     orientation : [Layouts -> Orientations \cup {None}],
     panel : [Wrappers -> Panels \cup {Empty}],         \* m_widget
     splitBy : [Wrappers -> Layouts \cup {None}],       \* who handles requestedSplit
     doomed : Seq(Layouts \cup Wrappers)]               \* deleteLater(), in order

-----------------------------------------------------------------------------
(* The tree                                                                 *)

New(t, kind) == CHOOSE x \in kind \ t.alive : TRUE

PositionIn(s, x) == CHOOSE i \in DOMAIN s : s[i] = x

Widgets(t, l) == ToSet(t.widgets[l])

\* The layouts that x is or has in it: no set that has x and, with a layout, the
\* layouts in that is without one of them.
LayoutsIn(t, x) ==
    {l \in Layouts :
        \A S \in SUBSET Layouts :
            /\ x \in Layouts => x \in S
            /\ \A m \in S : Widgets(t, m) \cap Layouts \subseteq S
            => l \in S}

Below(t, x) == {x} \cup UNION {Widgets(t, l) : l \in LayoutsIn(t, x)}

InTree(t) == Below(t, Root)

\* What is in the tree and is not about to be deleted with something above it.
Staying(t) == InTree(t) \ UNION {Below(t, x) : x \in ToSet(t.doomed)}

Holders(t, x) == {l \in t.alive \cap Layouts : x \in Widgets(t, l)}

DeleteLater(t, x) ==
    IF x \in ToSet(t.doomed) THEN t ELSE [t EXCEPT !.doomed = Append(@, x)]

\* PanelWrapper::PanelWrapper and its connection in wrapPanel
WrapPanel(t, w, l, p) ==
    [t EXCEPT !.alive = @ \cup {w}, !.panel[w] = p, !.splitBy[w] = l]

NewLayout(t, l, parent, o) ==
    [t EXCEPT !.alive = @ \cup {l}, !.parentLayout[l] = parent, !.orientation[l] = o]

InsertWidget(t, l, i, p) ==
    LET w == New(t, Wrappers)
    IN  [WrapPanel(t, w, l, p) EXCEPT !.widgets[l] = InsertAt(@, i, w)]

AddWidget(t, l, p) == InsertWidget(t, l, Len(t.widgets[l]) + 1, p)

\* The events that are left once those posted to the objects gone are removed.
Outlasting(queue, gone) ==
    LET left[n \in 0..Len(queue)] ==
            IF n = 0 THEN <<>>
            ELSE IF queue[n] \in gone THEN left[n - 1] ELSE Append(left[n - 1], queue[n])
    IN  left[Len(queue)]

\* An object goes with everything in it, and with the events posted to those.
Destroy(t, x) ==
    LET gone == Below(t, x)
    IN  [alive |-> t.alive \ gone,
         widgets |-> [l \in Layouts |->
                         IF l \in gone THEN <<>>
                         ELSE IF x \in Widgets(t, l)
                         THEN RemoveAt(t.widgets[l], PositionIn(t.widgets[l], x))
                         ELSE t.widgets[l]],
         parentLayout |-> [l \in Layouts |-> IF l \in gone THEN None ELSE t.parentLayout[l]],
         orientation |-> [l \in Layouts |-> IF l \in gone THEN None ELSE t.orientation[l]],
         panel |-> [w \in Wrappers |-> IF w \in gone THEN Empty ELSE t.panel[w]],
         splitBy |-> [w \in Wrappers |-> IF w \in gone THEN None ELSE t.splitBy[w]],
         doomed |-> Outlasting(t.doomed, gone)]

-----------------------------------------------------------------------------
(* Child events                                                             *)

\* Faulty variant: a layout that moves up keeps its m_parent_layout.
MergeForgetsParent(t, l) ==
    LET p == t.parentLayout[l]
        x == t.widgets[l][1]
        w == New(t, Wrappers)
        moved ==
            IF x \in Wrappers
            THEN [WrapPanel(t, w, p, t.panel[x]) EXCEPT !.panel[x] = Empty]
            ELSE [t EXCEPT !.widgets[l] = <<>>]
    IN  DeleteLater([moved EXCEPT !.widgets[p] = [@ EXCEPT ![PositionIn(@, l)] = IF x \in Wrappers THEN w ELSE x],
                                  !.parentLayout[l] = None], l)

\* Faulty variant: the panel that is left is not taken out of its wrapper.
MergeLosesPanel(t, l) ==
    LET p == t.parentLayout[l]
        x == t.widgets[l][1]
        w == New(t, Wrappers)
        moved ==
            IF x \in Wrappers
            THEN WrapPanel(t, w, p, Empty)
            ELSE [t EXCEPT !.parentLayout[x] = p, !.widgets[l] = <<>>]
    IN  DeleteLater([moved EXCEPT !.widgets[p] = [@ EXCEPT ![PositionIn(@, l)] = IF x \in Wrappers THEN w ELSE x],
                                  !.parentLayout[l] = None], l)

\* The last widget of a layout takes its place in the parent layout: a panel in a
\* new wrapper, a layout as it is.  The emptied layout is deleted later.
Merge(t, l) ==
    LET p == t.parentLayout[l]
        x == t.widgets[l][1]
        w == New(t, Wrappers)
        moved ==
            IF x \in Wrappers
            THEN [WrapPanel(t, w, p, t.panel[x]) EXCEPT !.panel[x] = Empty]
            ELSE [t EXCEPT !.parentLayout[x] = p, !.widgets[l] = <<>>]
    IN  DeleteLater([moved EXCEPT !.widgets[p] = [@ EXCEPT ![PositionIn(@, l)] = IF x \in Wrappers THEN w ELSE x],
                                  !.parentLayout[l] = None], l)

\* Faulty variant: the root may become empty.
ChildRemovedLeavesRootEmpty(t, l) ==
    LET n == Len(t.widgets[l])
    IN  CASE n = 0 /\ t.parentLayout[l] # None -> DeleteLater(t, l)
          [] n = 1 /\ t.parentLayout[l] # None -> Merge(t, l)
          [] OTHER                             -> t

\* childEvent() after a widget of l was removed.
ChildRemoved(t, l) ==
    LET n == Len(t.widgets[l])
    IN  CASE n = 0 /\ t.parentLayout[l] = None -> AddWidget(t, l, Empty)
          [] n = 0 /\ t.parentLayout[l] # None -> DeleteLater(t, l)
          [] n = 1 /\ t.parentLayout[l] # None -> Merge(t, l)
          [] OTHER                             -> t

-----------------------------------------------------------------------------
(* What happens to the tree                                                 *)

\* What can be clicked at; what was replaced is hidden at once.
Shown == InTree(tree) \cap Wrappers

\* The bound of the instance: there are as many objects as that.
RoomFor(wrappers, layouts) ==
    /\ Cardinality(Wrappers \ tree.alive) >= wrappers
    /\ Cardinality(Layouts \ tree.alive) >= layouts

\* The panel selector makes a new panel and deletes the old one later.
SelectPanel(w, p) ==
    /\ p # tree.panel[w]
    /\ tree' = [tree EXCEPT !.panel[w] = p]
    /\ UNCHANGED stranded

\* split(): next to the wrapper, or in a layout of its own that takes its place.
Split(w, o) ==
    LET l == tree.splitBy[w]
        i == PositionIn(tree.widgets[l], w)
        n == New(tree, Layouts)
        placed == [NewLayout(tree, n, l, o) EXCEPT
                      !.widgets[l] = [@ EXCEPT ![i] = n], !.panel[w] = Empty]
    IN  /\ RoomFor(2, 1)
        /\ tree' = IF o = tree.orientation[l]
                   THEN InsertWidget(tree, l, i + 1, Empty)
                   ELSE DeleteLater(AddWidget(AddWidget(placed, n, tree.panel[w]), n, Empty), w)
        /\ UNCHANGED stranded

Close(w) ==
    /\ tree' = DeleteLater(tree, w)
    /\ UNCHANGED stranded

\* The event loop deletes the next object.
DeleteNext ==
    /\ tree.doomed # <<>>
    /\ LET x == Head(tree.doomed)
           t == Destroy(tree, x)
       IN  tree' = IF Holders(tree, x) = {} THEN t
                   ELSE ChildRemoved(t, CHOOSE l \in Holders(tree, x) : TRUE)
    /\ UNCHANGED stranded

\* A root without a widget.
Bare ==
    [alive |-> {Root},
     widgets |-> [l \in Layouts |-> <<>>],
     parentLayout |-> [l \in Layouts |-> None],
     orientation |-> [l \in Layouts |-> IF l = Root THEN "Horizontal" ELSE None],
     panel |-> [w \in Wrappers |-> Empty],
     splitBy |-> [w \in Wrappers |-> None],
     doomed |-> <<>>]

\* restoreLayout() of the root has made u of t, whether it came to its end or not: what
\* was in the root is deleted later and stays until then, behind it are new objects, each
\* in one place.  A nested layout that fails is not added, nor is it deleted: no object
\* owns it, and it stays with what it holds.  One that is added was saved with two
\* widgets or more.
Restored(t, u) ==
    LET new == u.alive \ t.alive
        Added(l) == Widgets(u, l) \ (IF l = Root THEN Widgets(t, l) ELSE {})
    IN  /\ u \in TreeType
        /\ t.alive \subseteq u.alive
        /\ IsPrefix(t.widgets[Root], u.widgets[Root]) /\ u.widgets[Root] # <<>>
        /\ \A l \in Layouts \ (new \cup {Root}) : u.widgets[l] = t.widgets[l]
        /\ \A l \in (new \cap Layouts) \cup {Root} :
              /\ IsInjective(u.widgets[l]) /\ Added(l) \subseteq new
              /\ \A x \in Added(l) :
                    /\ Holders(u, x) = {l}
                    /\ IF x \in Layouts THEN u.parentLayout[x] = l ELSE u.splitBy[x] = l
        /\ \A l \in new \cap InTree(u) \cap Layouts :
              Len(u.widgets[l]) >= 2 /\ Below(u, l) \cap Wrappers # {}
        /\ \A l \in Layouts \ new : u.parentLayout[l] = t.parentLayout[l]
        /\ \A w \in Wrappers \ new : u.panel[w] = t.panel[w] /\ u.splitBy[w] = t.splitBy[w]
        /\ IsPrefix(t.doomed, u.doomed) /\ IsInjective(u.doomed)
        /\ ToSet(u.doomed) = ToSet(t.doomed) \cup Widgets(t, Root)

\* What is new in u and not in its tree.
Stray(t, u) == (u.alive \ t.alive) \ InTree(u)

Restore ==
    /\ Restored(tree, tree')
    /\ stranded' = stranded \cup Stray(tree, tree')

-----------------------------------------------------------------------------

TreeInit ==
    /\ Restored(Bare, tree)
    /\ stranded = Stray(Bare, tree)

TreeNext ==
    \/ \E w \in Shown, p \in Panels : SelectPanel(w, p)
    \/ \E w \in Shown, o \in Orientations : Split(w, o)
    \/ \E w \in Shown : Close(w)
    \/ Restore
    \/ DeleteNext

TreeSpec == TreeInit /\ [][TreeNext]_treeVars

-----------------------------------------------------------------------------
(* Properties                                                               *)

AtRest == tree.doomed = <<>>

\* What is in the tree has not been deleted, every object of it is in one place,
\* m_parent_layout is the layout that holds it, and the layout that holds a wrapper is
\* the one that splits it: the assertions of split() and childEvent() on indexOf() are
\* about this.
TreeIsSound ==
    /\ InTree(tree) \cup ToSet(tree.doomed) \subseteq tree.alive
    /\ \A l \in InTree(tree) \cap Layouts :
          /\ IsInjective(tree.widgets[l])
          /\ \A x \in ToSet(tree.widgets[l]) :
                /\ Holders(tree, x) = {l}
                /\ IF x \in Layouts THEN tree.parentLayout[x] = l ELSE tree.splitBy[x] = l

\* Once the event loop has caught up, the root shows something, a nested layout
\* has two widgets or more, and there is nothing outside of the tree but what restores
\* that failed have left, all of which is still there: merging from inside the child
\* events comes to this end in every order.
NoIdleLayout ==
    AtRest =>
        /\ tree.widgets[Root] # <<>>
        /\ \A l \in InTree(tree) \cap Layouts : l # Root => Len(tree.widgets[l]) >= 2
        /\ tree.alive = InTree(tree) \cup stranded
        /\ InTree(tree) \cap stranded = {}

Held(t, p) == Cardinality({w \in Staying(t) \cap Wrappers : t.panel[w] = p})

\* No panel is lost to a split, nor to the deletion of anything else: it is taken
\* out of its wrapper and put into another one before its own goes.
PanelsSurvive ==
    [][DeleteNext \/ (\E w \in Shown, o \in Orientations : Split(w, o))
          => \A p \in Panels : Held(tree', p) >= Held(tree, p)]_tree

=============================================================================
