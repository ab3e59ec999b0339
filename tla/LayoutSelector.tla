---------------------------- MODULE LayoutSelector ----------------------------
(***************************************************************************)
(* The layout selectors of several DataViewers over one storage: a         *)
(* QComboBox, its LayoutSelectorModel and the buttons next to it.  The     *)
(* rows are "Default", the stored layouts, and "<Save Layout>".  A signal  *)
(* of the storage calls the models of all viewers at once, and a combo box *)
(* may answer by selecting another row, which restores another layout.     *)
(***************************************************************************)
EXTENDS Integers, Sequences, FiniteSets

CONSTANTS
    Viewers,    \* the DataViewers
    MaxLayouts  \* bound: the greatest id of a layout

ASSUME SelectorAssumption == MaxLayouts \in Nat

Ids == 1..MaxLayouts

\* What a viewer shows: the default layout, or the stored one with that id.
Default == 0

NoRow == -1

Selectors ==
    [rows : Seq(Ids),               \* m_layouts
     current : Int,                 \* the current row of the combo box
     old : Int,                     \* m_old_layout_index
     saving : BOOLEAN,              \* the name of a layout is being asked for
     shown : Ids \cup {Default}]    \* the layout that was restored or saved last

Closed == [rows |-> <<>>, current |-> NoRow, old |-> NoRow, saving |-> FALSE, shown |-> Default]

VARIABLES
    stored,     \* the layouts of the group, in the order of getAllLayouts
    open,       \* the viewers there are
    selector    \* the selector of each viewer

vars == <<stored, open, selector>>

-----------------------------------------------------------------------------
(* Rows                                                                     *)

RowCount(s) == Len(s.rows) + 2
SaveRow(s) == Len(s.rows) + 1

\* LayoutRole, and what restoreState() makes of a row without a layout: nothing.
LayoutAt(s, row) ==
    CASE row = 0                  -> Default
      [] row \in DOMAIN s.rows    -> s.rows[row]
      [] OTHER                    -> s.shown

PositionOf(q, id) == CHOOSE i \in DOMAIN q : q[i] = id

Without(q, i) == [j \in 1 .. Len(q) - 1 |-> IF j < i THEN q[j] ELSE q[j + 1]]

\* Faulty variant: the default layout in front is forgotten, as in addLayout(id).
RowIndexFromZero(s, id) ==
    IF \E i \in DOMAIN s.rows : s.rows[i] = id THEN PositionOf(s.rows, id) - 1 ELSE NoRow

\* rowIndex()
RowIndex(s, id) ==
    IF \E i \in DOMAIN s.rows : s.rows[i] = id THEN PositionOf(s.rows, id) ELSE NoRow

-----------------------------------------------------------------------------
(* The combo box                                                            *)

\* Faulty variant: m_old_layout_index is not kept.
OnIndexChangedForgets(s) ==
    IF s.current = SaveRow(s) THEN [s EXCEPT !.saving = TRUE]
    ELSE IF s.current = s.old THEN s
    ELSE [s EXCEPT !.shown = LayoutAt(s, s.current)]

\* The slot of currentIndexChanged: the last row asks for a name, another row than
\* before restores its layout.
OnIndexChanged(s) ==
    IF s.current = SaveRow(s) THEN [s EXCEPT !.saving = TRUE]
    ELSE IF s.current = s.old THEN s
    ELSE [s EXCEPT !.shown = LayoutAt(s, s.current), !.old = s.current]

\* setCurrentIndex(): a row that the model does not have is no row.
SetCurrentIndex(s, row) ==
    LET r == IF row \in 0 .. SaveRow(s) THEN row ELSE NoRow
    IN  IF r = s.current THEN s ELSE OnIndexChanged([s EXCEPT !.current = r])

\* A row was inserted at "at" as the model says: the current row moves on if it
\* is that row or a later one, and the combo box takes it for a change.
RowsInserted(s, at) ==
    IF s.current >= at THEN OnIndexChanged([s EXCEPT !.current = @ + 1]) ELSE s

\* A row was removed: another one becomes current in its place.
RowsRemoved(s, at) ==
    CASE s.current = at -> OnIndexChanged(
                               [s EXCEPT !.current = IF at < RowCount(s) THEN at ELSE SaveRow(s)])
      [] s.current > at -> OnIndexChanged([s EXCEPT !.current = @ - 1])
      [] OTHER          -> s

-----------------------------------------------------------------------------
(* The model                                                                *)

\* addLayout(StorageId): the row that is announced is the one before the new one.
ModelAdds(s, id) ==
    RowsInserted([s EXCEPT !.rows = Append(@, id)], Len(s.rows))

\* Faulty variant: deleteLayout() is called first, so that the slot removes the
\* row, and then the row that has taken its place is erased.
ModelRemovesTwice(s, row) ==
    IF row \in DOMAIN s.rows
    THEN LET t == [s EXCEPT !.rows = Without(@, row)]
         IN  RowsRemoved([t EXCEPT !.rows = IF row \in DOMAIN @ THEN Without(@, row) ELSE @], row)
    ELSE s

\* removeRows(), whose call of deleteLayout() finds the row erased already when it
\* comes back to onLayoutChanged().
ModelRemoves(s, row) ==
    IF row \in DOMAIN s.rows THEN RowsRemoved([s EXCEPT !.rows = Without(@, row)], row) ELSE s

\* onLayoutChanged() in every viewer there is.
AllAdd(id) ==
    [v \in Viewers |-> IF v \in open THEN ModelAdds(selector[v], id) ELSE selector[v]]

AllRemove(id) ==
    [v \in Viewers |->
        IF v \in open THEN ModelRemoves(selector[v], RowIndex(selector[v], id)) ELSE selector[v]]

-----------------------------------------------------------------------------
(* What the user does                                                       *)

\* The id that SQLite gives to the next row.
NextId == IF stored = <<>> THEN 1 ELSE stored[Len(stored)] + 1

\* buildLayoutSelector(): setModel() makes the first row current.
Open(v) ==
    /\ v \notin open
    /\ open' = open \cup {v}
    /\ selector' = [selector EXCEPT ![v] = SetCurrentIndex([Closed EXCEPT !.rows = stored], 0)]
    /\ UNCHANGED stored

Close(v) ==
    /\ v \in open
    /\ open' = open \ {v}
    /\ selector' = [selector EXCEPT ![v] = Closed]
    /\ UNCHANGED stored

Select(v, row) ==
    /\ v \in open
    /\ ~selector[v].saving
    /\ row \in 0 .. SaveRow(selector[v])
    /\ selector' = [selector EXCEPT ![v] = SetCurrentIndex(@, row)]
    /\ UNCHANGED <<stored, open>>

\* The Save button.  The layout that is stored is the one that is shown.
Save(v) ==
    /\ v \in open
    /\ selector[v].saving
    /\ NextId \in Ids
    /\ stored' = Append(stored, NextId)
    /\ LET s == AllAdd(NextId)[v]
           row == RowIndex(s, NextId)
           done == [s EXCEPT !.saving = FALSE, !.old = row, !.shown = NextId]
       IN  selector' = [AllAdd(NextId) EXCEPT ![v] = SetCurrentIndex(done, row)]
    /\ UNCHANGED open

\* The Abort button.
Abort(v) ==
    /\ v \in open
    /\ selector[v].saving
    /\ selector' = [selector EXCEPT
                       ![v] = SetCurrentIndex([@ EXCEPT !.saving = FALSE], selector[v].old)]
    /\ UNCHANGED <<stored, open>>

\* Faulty variant: what comes after the last layout may be selected.
BeforeRemovalUnguarded(s) == s

\* The last layout is left before it is removed, for what follows it is the row
\* to save.
BeforeRemoval(s) ==
    IF s.current = RowCount(s) - 2 THEN SetCurrentIndex(s, s.current - 1) ELSE s

\* The Remove button, which is enabled for stored layouts.
Delete(v) ==
    LET row == selector[v].current
        id == selector[v].rows[row]
    IN  /\ v \in open
        /\ ~selector[v].saving
        /\ row \in DOMAIN selector[v].rows
        /\ stored' = Without(stored, PositionOf(stored, id))
        /\ selector' = [AllRemove(id) EXCEPT ![v] = ModelRemoves(BeforeRemoval(selector[v]), row)]
        /\ UNCHANGED open

-----------------------------------------------------------------------------

SelectorInit ==
    /\ stored = <<>>
    /\ open = {}
    /\ selector = [v \in Viewers |-> Closed]

SelectorNext ==
    \E v \in Viewers :
        \/ Open(v) \/ Close(v) \/ Save(v) \/ Abort(v) \/ Delete(v)
        \/ \E row \in 0 .. MaxLayouts + 1 : Select(v, row)

SelectorSpec == SelectorInit /\ [][SelectorNext]_vars

-----------------------------------------------------------------------------
(* Properties                                                               *)

SelectorTypeOK ==
    /\ stored \in Seq(Ids)
    /\ open \subseteq Viewers
    /\ selector \in [Viewers -> Selectors]
    /\ \A v \in open : selector[v].current \in NoRow .. SaveRow(selector[v])

\* Every selector offers the layouts that are stored, in their order, although the
\* removal of a row comes back to the model that asked for it.
RowsFollowStorage ==
    \A v \in open : selector[v].rows = stored

\* Whoever selects another row gets its layout.  The slot restores nothing for the row
\* m_old_layout_index, which rows that come and go, here and in other viewers, must
\* therefore not leave behind.  (The row that is selected is only a row: when a layout is
\* removed, the one that follows takes its row, and nothing restores it.)
SelectionIsRestored ==
    [][\A v \in Viewers, row \in 0 .. MaxLayouts + 1 :
          Select(v, row) /\ row \notin {selector[v].current, SaveRow(selector[v])} =>
              /\ selector'[v].current = row
              /\ selector'[v].shown = LayoutAt(selector[v], row)]_vars

\* Who saves has the new layout selected, with the panels as they were.
SavedIsSelected ==
    [][\A v \in Viewers : Save(v) =>
          /\ ~selector'[v].saving
          /\ selector'[v].current = SaveRow(selector'[v]) - 1
          /\ selector'[v].shown = stored'[Len(stored')]]_vars

\* DataViewer.cpp says that removing the current layout does not select the row to
\* save.  It holds in the viewer that removes it.
RemoverDoesNotSave ==
    [][\A v \in Viewers : Delete(v) => ~selector'[v].saving]_vars

=============================================================================
