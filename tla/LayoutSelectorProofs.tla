------------------------- MODULE LayoutSelectorProofs -------------------------
(***************************************************************************)
(* The rows and the selection of the layout selectors, for any number of   *)
(* viewers and layouts.                                                     *)
(***************************************************************************)
EXTENDS LayoutSelector, TLAPS

Ascending(q) == \A i, j \in 1 .. Len(q) : i < j => q[i] < q[j]

\* A selector between two requests: its row is one of the combo box or none, a
\* name is asked for in the last row only, and the old index is the row otherwise.
Settled(s) ==
    /\ s \in Selectors
    /\ s.current \in NoRow .. SaveRow(s)
    /\ s.saving => s.current = SaveRow(s)
    /\ ~s.saving => s.old = s.current

SelectorInv ==
    /\ stored \in Seq(Ids)
    /\ Ascending(stored)
    /\ open \subseteq Viewers
    /\ selector \in [Viewers -> Selectors]
    /\ \A v \in open : Settled(selector[v]) /\ selector[v].rows = stored

-----------------------------------------------------------------------------
(* Sequences of layouts                                                     *)

\* A row of a selector is the row of one layout only.
LEMMA PositionIsUnique ==
    ASSUME NEW q \in Seq(Ids), Ascending(q), NEW i \in 1 .. Len(q)
    PROVE  PositionOf(q, q[i]) = i
<1> DEFINE id == q[i]
<1>1. \A j \in 1 .. Len(q) : q[j] \in Int
  BY SelectorAssumption DEF Ids
<1>2. \A j \in 1 .. Len(q) : q[j] = id => j = i
  BY <1>1 DEF Ascending
<1>3. PositionOf(q, id) \in 1 .. Len(q) /\ q[PositionOf(q, id)] = id
  BY DEF PositionOf
<1> QED
  BY <1>2, <1>3

\* Erasing a row leaves the others in their order.
LEMMA WithoutIsAscending ==
    ASSUME NEW q \in Seq(Ids), Ascending(q), NEW i \in 1 .. Len(q)
    PROVE  /\ Without(q, i) \in Seq(Ids)
           /\ Len(Without(q, i)) = Len(q) - 1
           /\ Ascending(Without(q, i))
<1> DEFINE n == Len(q) - 1
           w == Without(q, i)
<1>1. n \in Nat /\ Len(q) \in Nat
  OBVIOUS
<1>2. w \in [1 .. n -> Ids]
  BY <1>1 DEF Without
<1>3. w \in Seq(Ids) /\ Len(w) = n
  BY <1>1, <1>2
<1>4. \A j \in 1 .. Len(q) : q[j] \in Int
  BY SelectorAssumption DEF Ids
<1>5. \A j \in 1 .. n : w[j] = IF j < i THEN q[j] ELSE q[j + 1]
  BY DEF Without
<1>6. ASSUME NEW j \in 1 .. n, NEW k \in 1 .. n, j < k PROVE w[j] < w[k]
  BY <1>1, <1>4, <1>5, <1>6 DEF Ascending
<1> QED
  BY <1>3, <1>6 DEF Ascending

\* The id that SQLite gives is greater than all that are stored.
LEMMA NextIsAscending ==
    ASSUME NEW q \in Seq(Ids), Ascending(q), NEW id \in Ids,
           q # <<>> => id = q[Len(q)] + 1
    PROVE  Append(q, id) \in Seq(Ids) /\ Ascending(Append(q, id))
<1>1. \A j \in 1 .. Len(q) : q[j] \in Int
  BY SelectorAssumption DEF Ids
<1>2. \A j \in 1 .. Len(q) : q[j] < id
  <2> SUFFICES ASSUME NEW j \in 1 .. Len(q) PROVE q[j] < id
    OBVIOUS
  <2>1. q # <<>> /\ id = q[Len(q)] + 1 /\ Len(q) \in 1 .. Len(q)
    OBVIOUS
  <2>2. j < Len(q) => q[j] < q[Len(q)]
    BY <2>1 DEF Ascending
  <2> QED
    BY <1>1, <2>1, <2>2
<1> QED
  BY <1>1, <1>2 DEF Ascending

-----------------------------------------------------------------------------
(* The combo box                                                            *)

\* What is restored is the default layout or a stored one.
LEMMA LayoutIsOne ==
    ASSUME NEW s \in Selectors, NEW row \in Int
    PROVE  LayoutAt(s, row) \in Ids \cup {Default}
BY DEF LayoutAt, Selectors

\* Another row changes nothing else of a selector.
LEMMA OnlyCurrent ==
    ASSUME NEW s \in Selectors, NEW row \in Int
    PROVE  LET t == [s EXCEPT !.current = row]
           IN  /\ t \in Selectors /\ t.current = row
               /\ t.rows = s.rows /\ t.old = s.old /\ t.saving = s.saving /\ t.shown = s.shown
BY DEF Selectors

\* Whatever row has become current, the slot settles the selector.
LEMMA ChangeSettles ==
    ASSUME NEW s \in Selectors, s.current \in NoRow .. SaveRow(s),
           s.saving => s.current = SaveRow(s)
    PROVE  /\ Settled(OnIndexChanged(s))
           /\ OnIndexChanged(s).rows = s.rows
           /\ OnIndexChanged(s).current = s.current
           /\ OnIndexChanged(s).saving => s.saving \/ s.current = SaveRow(s)
<1> DEFINE t == [s EXCEPT !.saving = TRUE]
           u == [s EXCEPT !.shown = LayoutAt(s, s.current), !.old = s.current]
<1>1. Len(s.rows) \in Nat /\ s.current \in Int
  BY DEF Selectors, SaveRow, NoRow
<1>2. CASE s.current = SaveRow(s)
  <2>1. OnIndexChanged(s) = t
    BY <1>2 DEF OnIndexChanged
  <2>2. t \in Selectors /\ t.rows = s.rows /\ t.current = s.current /\ t.saving = TRUE
    BY DEF Selectors
  <2> QED
    BY <1>2, <2>1, <2>2 DEF Settled, SaveRow
<1>3. CASE s.current # SaveRow(s) /\ s.current = s.old
  BY <1>3 DEF OnIndexChanged, Settled
<1>4. CASE s.current # SaveRow(s) /\ s.current # s.old
  <2>1. OnIndexChanged(s) = u
    BY <1>4 DEF OnIndexChanged
  <2>2. /\ u \in Selectors /\ u.rows = s.rows /\ u.current = s.current
        /\ u.old = s.current /\ u.saving = s.saving
    BY <1>1, LayoutIsOne DEF Selectors
  <2> QED
    BY <1>4, <2>1, <2>2 DEF Settled, SaveRow
<1> QED
  BY <1>2, <1>3, <1>4

\* Selecting a row, when no name is asked for any more.
LEMMA SelectSettles ==
    ASSUME NEW s \in Selectors, NEW row \in Int, ~s.saving,
           s.current \in NoRow .. SaveRow(s),
           s.old = s.current \/ row \in 0 .. SaveRow(s) \ {s.current}
    PROVE  /\ Settled(SetCurrentIndex(s, row))
           /\ SetCurrentIndex(s, row).rows = s.rows
           /\ row \in 0 .. SaveRow(s) => SetCurrentIndex(s, row).current = row
           /\ SetCurrentIndex(s, row).saving => row = SaveRow(s)
<1> DEFINE r == IF row \in 0 .. SaveRow(s) THEN row ELSE NoRow
           t == [s EXCEPT !.current = r]
<1>1. Len(s.rows) \in Nat /\ SaveRow(s) \in Nat
  BY DEF Selectors, SaveRow
<1>2. r \in NoRow .. SaveRow(s) /\ r \in Int
  BY <1>1 DEF NoRow
<1>3. CASE r = s.current
  <2>1. s.old = s.current
    BY <1>3
  <2> QED
    BY <1>3, <2>1 DEF SetCurrentIndex, Settled
<1>4. CASE r # s.current
  <2>1. t \in Selectors /\ t.rows = s.rows /\ t.current = r /\ t.saving = s.saving
    BY <1>2 DEF Selectors
  <2>2. t.current \in NoRow .. SaveRow(t) /\ (t.saving => t.current = SaveRow(t))
    BY <1>2, <2>1 DEF SaveRow
  <2>3. SetCurrentIndex(s, row) = OnIndexChanged(t)
    BY <1>4 DEF SetCurrentIndex
  <2>4. /\ Settled(OnIndexChanged(t)) /\ OnIndexChanged(t).rows = t.rows
        /\ OnIndexChanged(t).current = t.current
        /\ OnIndexChanged(t).saving => t.saving \/ t.current = SaveRow(t)
    BY <2>1, <2>2, ChangeSettles
  <2>5. r = SaveRow(s) => row = SaveRow(s)
    BY <1>1 DEF NoRow
  <2> QED
    BY <2>1, <2>3, <2>4, <2>5 DEF SaveRow
<1> QED
  BY <1>3, <1>4

-----------------------------------------------------------------------------
(* The model                                                                *)

\* A layout that comes, in this viewer or in another.
LEMMA AddSettles ==
    ASSUME NEW s, Settled(s), NEW id \in Ids
    PROVE  /\ Settled(ModelAdds(s, id))
           /\ ModelAdds(s, id).rows = Append(s.rows, id)
           /\ s.saving => ModelAdds(s, id).current = SaveRow(ModelAdds(s, id))
<1> DEFINE at == Len(s.rows)
           t == [s EXCEPT !.rows = Append(@, id)]
           u == [t EXCEPT !.current = t.current + 1]
<1>1. s \in Selectors /\ at \in Nat /\ s.current \in Int
  BY DEF Settled, Selectors
<1>2. t \in Selectors /\ t.rows = Append(s.rows, id) /\ Len(t.rows) = at + 1
  BY <1>1 DEF Selectors
<1>3. t.current = s.current /\ t.old = s.old /\ t.saving = s.saving
  BY <1>1 DEF Selectors
<1>4. ModelAdds(s, id) = IF t.current >= at THEN OnIndexChanged(u) ELSE t
  BY DEF ModelAdds, RowsInserted
<1> HIDE DEF t
<1>5. CASE t.current >= at
  <2>0. t \in Selectors /\ t.current + 1 \in Int
    BY <1>1, <1>2, <1>3
  <2>1. u \in Selectors /\ u.rows = t.rows /\ u.current = s.current + 1 /\ u.saving = s.saving
    BY <1>3, <2>0, OnlyCurrent
  <2>2. u.current \in NoRow .. SaveRow(u) /\ (u.saving => u.current = SaveRow(u))
    BY <1>1, <1>2, <1>3, <1>5, <2>1 DEF Settled, SaveRow, NoRow
  <2>3. /\ Settled(OnIndexChanged(u)) /\ OnIndexChanged(u).rows = u.rows
        /\ OnIndexChanged(u).current = u.current
    BY <2>1, <2>2, ChangeSettles
  <2> QED
    BY <1>2, <1>4, <1>5, <2>1, <2>2, <2>3 DEF SaveRow
<1>6. CASE ~(t.current >= at)
  <2>1. ~s.saving
    BY <1>1, <1>3, <1>6 DEF Settled, SaveRow
  <2>2. Settled(t)
    BY <1>1, <1>2, <1>3, <1>6, <2>1 DEF Settled, SaveRow, NoRow
  <2> QED
    BY <1>2, <1>4, <1>6, <2>1, <2>2
<1> QED
  BY <1>5, <1>6

\* A layout that goes.  The save row becomes current only where the last layout was.
LEMMA RemoveSettles ==
    ASSUME NEW s, Settled(s), Ascending(s.rows), NEW row \in 1 .. Len(s.rows)
    PROVE  /\ Settled(ModelRemoves(s, row))
           /\ ModelRemoves(s, row).rows = Without(s.rows, row)
           /\ ~s.saving /\ s.current <= row /\ s.current < Len(s.rows)
                 => ~ModelRemoves(s, row).saving
<1> DEFINE n == Len(s.rows)
           t == [s EXCEPT !.rows = Without(@, row)]
           u == [t EXCEPT !.current = IF row < RowCount(t) THEN row ELSE SaveRow(t)]
           w == [t EXCEPT !.current = t.current - 1]
<1>1. s \in Selectors /\ s.rows \in Seq(Ids) /\ n \in Nat /\ s.current \in Int
  BY DEF Settled, Selectors
<1>2. Without(s.rows, row) \in Seq(Ids) /\ Len(Without(s.rows, row)) = n - 1
  BY <1>1, WithoutIsAscending
<1>3. t \in Selectors /\ t.rows = Without(s.rows, row) /\ SaveRow(t) = n /\ RowCount(t) = n + 1
  BY <1>1, <1>2 DEF Selectors, SaveRow, RowCount
<1>4. t.current = s.current /\ t.old = s.old /\ t.saving = s.saving
  BY <1>1 DEF Selectors
<1>5. row \in DOMAIN s.rows
  BY <1>1
<1>6. ModelRemoves(s, row) = RowsRemoved(t, row)
  BY <1>5 DEF ModelRemoves
<1> HIDE DEF t
<1>7. CASE s.current = row
  <2>1. row < RowCount(t) /\ row \in Int
    BY <1>1, <1>3
  <2>2. u \in Selectors /\ u.rows = t.rows /\ u.current = row /\ u.saving = s.saving
    BY <1>3, <1>4, <2>1, OnlyCurrent
  <2>3. ~s.saving
    BY <1>1, <1>7 DEF Settled, SaveRow
  <2>4. u.current \in NoRow .. SaveRow(u) /\ SaveRow(u) = n
    BY <1>1, <1>3, <2>2 DEF SaveRow, NoRow
  <2>5. /\ Settled(OnIndexChanged(u)) /\ OnIndexChanged(u).rows = u.rows
        /\ OnIndexChanged(u).saving => u.saving \/ u.current = SaveRow(u)
    BY <2>2, <2>3, <2>4, ChangeSettles
  <2>6. ModelRemoves(s, row) = OnIndexChanged(u)
    BY <1>4, <1>6, <1>7 DEF RowsRemoved
  <2> QED
    BY <1>1, <1>3, <1>7, <2>2, <2>3, <2>4, <2>5, <2>6
<1>8. CASE s.current > row
  <2>1. w \in Selectors /\ w.rows = t.rows /\ w.current = s.current - 1 /\ w.saving = s.saving
    BY <1>1, <1>3, <1>4, OnlyCurrent
  <2>2. w.current \in NoRow .. SaveRow(w) /\ (w.saving => w.current = SaveRow(w))
    BY <1>1, <1>3, <1>8, <2>1, SMTT(30) DEF Settled, SaveRow, NoRow
  <2>3. Settled(OnIndexChanged(w)) /\ OnIndexChanged(w).rows = w.rows
    BY <2>1, <2>2, ChangeSettles
  <2>4. ModelRemoves(s, row) = OnIndexChanged(w)
    BY <1>1, <1>4, <1>6, <1>8 DEF RowsRemoved
  <2> QED
    BY <1>1, <1>3, <1>8, <2>1, <2>3, <2>4
<1>9. CASE s.current < row
  <2>1. ~s.saving
    BY <1>1, <1>9 DEF Settled, SaveRow
  <2>2. Settled(t)
    BY <1>1, <1>3, <1>4, <1>9, <2>1 DEF Settled, SaveRow, NoRow
  <2>3. ModelRemoves(s, row) = t
    BY <1>1, <1>4, <1>6, <1>9 DEF RowsRemoved
  <2> QED
    BY <1>3, <1>4, <2>1, <2>2, <2>3
<1> QED
  BY <1>1, <1>7, <1>8, <1>9

-----------------------------------------------------------------------------
(* The viewers                                                              *)

\* Where a stored layout is in every selector.
LEMMA RowIsFound ==
    ASSUME NEW s \in Selectors, Ascending(s.rows), NEW i \in 1 .. Len(s.rows)
    PROVE  RowIndex(s, s.rows[i]) = i
<1>1. s.rows \in Seq(Ids) /\ DOMAIN s.rows = 1 .. Len(s.rows)
  BY DEF Selectors
<1>2. PositionOf(s.rows, s.rows[i]) = i
  BY <1>1, PositionIsUnique
<1> QED
  BY <1>1, <1>2 DEF RowIndex

\* What every other viewer does when a layout is stored.
LEMMA AllAddSettles ==
    ASSUME SelectorInv, NEW id \in Ids
    PROVE  /\ AllAdd(id) \in [Viewers -> Selectors]
           /\ \A v \in open : /\ Settled(AllAdd(id)[v])
                             /\ AllAdd(id)[v].rows = Append(stored, id)
<1>1. \A v \in open : /\ Settled(ModelAdds(selector[v], id))
                      /\ ModelAdds(selector[v], id).rows = Append(stored, id)
  BY AddSettles DEF SelectorInv
<1> QED
  BY <1>1 DEF AllAdd, SelectorInv, Settled

\* And when the layout in a row is removed.
LEMMA AllRemoveSettles ==
    ASSUME SelectorInv, NEW row \in 1 .. Len(stored)
    PROVE  LET all == AllRemove(stored[row])
           IN  /\ all \in [Viewers -> Selectors]
               /\ \A v \in open : Settled(all[v]) /\ all[v].rows = Without(stored, row)
<1>1. ASSUME NEW v \in open
      PROVE  /\ RowIndex(selector[v], stored[row]) = row
             /\ Settled(ModelRemoves(selector[v], row))
             /\ ModelRemoves(selector[v], row).rows = Without(stored, row)
  <2>1. Settled(selector[v]) /\ selector[v].rows = stored /\ selector[v] \in Selectors
    BY DEF SelectorInv, Settled
  <2>2. Ascending(stored)
    BY DEF SelectorInv
  <2>3. RowIndex(selector[v], stored[row]) = row
    BY <2>1, <2>2, RowIsFound
  <2> QED
    BY <2>1, <2>2, <2>3, RemoveSettles
<1> QED
  BY <1>1 DEF AllRemove, SelectorInv, Settled

\* A viewer that opens has its first row current.
LEMMA OpenKeeps ==
    ASSUME SelectorInv, NEW v \in Viewers, Open(v)
    PROVE  SelectorInv'
<1> DEFINE s == [Closed EXCEPT !.rows = stored]
<1>1. stored \in Seq(Ids)
  BY DEF SelectorInv
<1>2. s \in Selectors /\ s.rows = stored /\ s.current = NoRow /\ s.old = NoRow /\ ~s.saving
  <2>1. Closed \in Selectors
    BY DEF Closed, Selectors, NoRow
  <2>2. Closed.current = NoRow /\ Closed.old = NoRow /\ ~Closed.saving
    BY DEF Closed
  <2> QED
    BY <1>1, <2>1, <2>2 DEF Selectors
<1>3. s.current \in NoRow .. SaveRow(s)
  BY <1>1, <1>2 DEF SaveRow, NoRow
<1> HIDE DEF s
<1>4. Settled(SetCurrentIndex(s, 0)) /\ SetCurrentIndex(s, 0).rows = stored
  BY <1>2, <1>3, SelectSettles
<1>5. selector' = [selector EXCEPT ![v] = SetCurrentIndex(s, 0)] /\ open' = open \cup {v}
  BY DEF Open, s
<1>6. stored' = stored
  BY DEF Open
<1> QED
  BY <1>4, <1>5, <1>6 DEF SelectorInv, Settled

LEMMA CloseKeeps ==
    ASSUME SelectorInv, NEW v \in Viewers, Close(v)
    PROVE  SelectorInv'
<1>1. Closed \in Selectors
  BY DEF Closed, Selectors, NoRow
<1>2. stored' = stored /\ open' = open \ {v} /\ selector' = [selector EXCEPT ![v] = Closed]
  BY DEF Close
<1> QED
  BY <1>1, <1>2 DEF SelectorInv

LEMMA SelectKeeps ==
    ASSUME SelectorInv, NEW v \in Viewers, NEW row \in Int, Select(v, row)
    PROVE  SelectorInv'
<1>1. v \in open /\ ~selector[v].saving /\ Settled(selector[v]) /\ selector[v].rows = stored
  BY DEF Select, SelectorInv
<1>2. /\ Settled(SetCurrentIndex(selector[v], row))
      /\ SetCurrentIndex(selector[v], row).rows = stored
  BY <1>1, SelectSettles DEF Settled
<1>3. /\ stored' = stored /\ open' = open
      /\ selector' = [selector EXCEPT ![v] = SetCurrentIndex(selector[v], row)]
  BY DEF Select
<1> QED
  BY <1>2, <1>3 DEF SelectorInv, Settled

\* Another row of a layout than the current one is not the old index.
LEMMA OtherIsRestored ==
    ASSUME SelectorInv, NEW v \in Viewers, NEW row \in Int, Select(v, row),
           row \notin {selector[v].current, SaveRow(selector[v])}
    PROVE  /\ selector'[v].current = row
           /\ selector'[v].shown = LayoutAt(selector[v], row)
<1> DEFINE s == selector[v]
           t == [s EXCEPT !.current = row]
<1>1. /\ v \in open /\ ~s.saving /\ Settled(s) /\ row \in 0 .. SaveRow(s)
      /\ selector' = [selector EXCEPT ![v] = SetCurrentIndex(s, row)]
      /\ selector \in [Viewers -> Selectors]
  BY DEF Select, SelectorInv
<1>2. s.old = s.current /\ s \in Selectors /\ row # s.current /\ row # SaveRow(s)
  BY <1>1 DEF Settled
<1>3. selector'[v] = SetCurrentIndex(s, row)
  BY <1>1
<1> HIDE DEF s
<1>4. /\ t \in Selectors /\ t.current = row /\ t.rows = s.rows /\ t.old = s.old /\ t.shown = s.shown
  BY <1>2, OnlyCurrent
<1>5. SetCurrentIndex(s, row) = OnIndexChanged(t)
  BY <1>1, <1>2 DEF SetCurrentIndex
<1> HIDE DEF t
<1>6. LayoutAt(t, row) = LayoutAt(s, row) /\ SaveRow(t) = SaveRow(s)
  BY <1>4 DEF LayoutAt, SaveRow
<1>7. OnIndexChanged(t) = [t EXCEPT !.shown = LayoutAt(t, row), !.old = row]
  BY <1>2, <1>4, <1>6 DEF OnIndexChanged
<1>8. OnIndexChanged(t).current = row /\ OnIndexChanged(t).shown = LayoutAt(t, row)
  BY <1>4, <1>7 DEF Selectors
<1> QED
  BY <1>3, <1>5, <1>6, <1>8 DEF s

\* Abort goes back to the old index if there is such a row; if that is the last
\* row, it stays where it is.
LEMMA AbortKeeps ==
    ASSUME SelectorInv, NEW v \in Viewers, Abort(v)
    PROVE  SelectorInv'
<1> DEFINE s == selector[v]
           t == [s EXCEPT !.saving = FALSE]
<1>1. v \in open /\ s.saving /\ Settled(s) /\ s.rows = stored
  BY DEF Abort, SelectorInv
<1>2. /\ t \in Selectors /\ t.rows = stored /\ t.current = s.current /\ t.old = s.old /\ ~t.saving
      /\ s.old \in Int
  BY <1>1 DEF Settled, Selectors
<1>3. t.current = SaveRow(t) /\ SaveRow(t) \in Nat
  BY <1>1, <1>2 DEF Settled, SaveRow, Selectors
<1>4. /\ stored' = stored /\ open' = open
      /\ selector' = [selector EXCEPT ![v] = SetCurrentIndex(t, s.old)]
  BY DEF Abort
<1> HIDE DEF t
<1>5. Settled(SetCurrentIndex(t, s.old)) /\ SetCurrentIndex(t, s.old).rows = stored
  <2>1. CASE s.old \in 0 .. SaveRow(t)
    BY <1>2, <1>3, <2>1, SelectSettles DEF NoRow
  <2>2. CASE s.old \notin 0 .. SaveRow(t)
    <3> DEFINE u == [t EXCEPT !.current = NoRow]
    <3>1. u \in Selectors /\ u.rows = stored /\ u.current = NoRow /\ ~u.saving
      BY <1>2, OnlyCurrent DEF NoRow
    <3>2. u.current \in NoRow .. SaveRow(u)
      BY <1>2, <1>3, <3>1 DEF SaveRow, NoRow
    <3>3. SetCurrentIndex(t, s.old) = OnIndexChanged(u)
      BY <1>3, <2>2 DEF SetCurrentIndex, NoRow
    <3> QED
      BY <3>1, <3>2, <3>3, ChangeSettles
  <2> QED
    BY <2>1, <2>2
<1> QED
  BY <1>4, <1>5 DEF SelectorInv, Settled

\* What is done in the viewer that saves: its combo box goes to the new layout.
LEMMA SaverSettles ==
    ASSUME SelectorInv, NEW v \in Viewers, Save(v)
    PROVE  /\ Settled(selector'[v]) /\ selector'[v].rows = stored'
           /\ ~selector'[v].saving
           /\ selector'[v].current = SaveRow(selector'[v]) - 1
           /\ selector'[v].shown = stored'[Len(stored')]
<1> DEFINE s == AllAdd(NextId)[v]
           row == RowIndex(s, NextId)
           done == [s EXCEPT !.saving = FALSE, !.old = row, !.shown = NextId]
           u == [done EXCEPT !.current = row]
           n == Len(stored) + 1
<1>1. /\ v \in open /\ selector[v].saving /\ NextId \in Ids
      /\ stored' = Append(stored, NextId)
      /\ selector' = [AllAdd(NextId) EXCEPT ![v] = SetCurrentIndex(done, row)]
  BY DEF Save
<1>2. stored \in Seq(Ids) /\ Ascending(stored)
  BY DEF SelectorInv
<1>3. stored' \in Seq(Ids) /\ Ascending(stored') /\ Len(stored') = n /\ stored'[n] = NextId
  <2>1. stored # <<>> => NextId = stored[Len(stored)] + 1
    BY DEF NextId
  <2> QED
    BY <1>1, <1>2, <2>1, NextIsAscending
<1>4. Settled(s) /\ s.rows = stored' /\ AllAdd(NextId) \in [Viewers -> Selectors]
  BY <1>1, AllAddSettles
<1>5. s.current = SaveRow(s)
  BY <1>1, AddSettles DEF AllAdd, SelectorInv
<1> HIDE DEF s
<1>6. SaveRow(s) = n + 1 /\ n \in Nat
  BY <1>2, <1>3, <1>4 DEF SaveRow
<1>7. row = n
  <2>1. s \in Selectors
    BY <1>4 DEF Settled
  <2>2. n \in 1 .. Len(s.rows) /\ s.rows[n] = NextId
    BY <1>3, <1>4, <1>6, <1>2
  <2> QED
    BY <1>3, <1>4, <2>1, <2>2, RowIsFound
<1> HIDE DEF row
<1>8. /\ done \in Selectors /\ done.rows = stored' /\ done.current = n + 1
      /\ done.old = n /\ ~done.saving /\ done.shown = NextId
  <2>1. s \in Selectors /\ s.current = n + 1 /\ row \in Int
    BY <1>4, <1>5, <1>6, <1>7 DEF Settled
  <2> QED
    BY <1>1, <1>4, <1>7, <2>1 DEF Selectors
<1> HIDE DEF done
<1>9. /\ u \in Selectors /\ u.rows = stored' /\ u.current = n
      /\ u.old = n /\ ~u.saving /\ u.shown = NextId
  BY <1>6, <1>7, <1>8, OnlyCurrent
<1> HIDE DEF u
<1>10. SaveRow(u) = n + 1 /\ SaveRow(done) = n + 1
  BY <1>3, <1>8, <1>9 DEF SaveRow
<1>11. OnIndexChanged(u) = u
  BY <1>6, <1>9, <1>10 DEF OnIndexChanged
<1>12. SetCurrentIndex(done, row) = u
  BY <1>6, <1>7, <1>8, <1>10, <1>11 DEF SetCurrentIndex, u
<1>13. selector'[v] = u
  BY <1>1, <1>4, <1>12
<1> QED
  BY <1>3, <1>6, <1>9, <1>10, <1>13 DEF Settled, NoRow

LEMMA SaveKeeps ==
    ASSUME SelectorInv, NEW v \in Viewers, Save(v)
    PROVE  SelectorInv'
<1>1. /\ NextId \in Ids /\ stored' = Append(stored, NextId) /\ open' = open
      /\ \A w \in Viewers : w # v => selector'[w] = AllAdd(NextId)[w]
  BY AllAddSettles DEF Save
<1>2. stored' \in Seq(Ids) /\ Ascending(stored')
  <2>1. stored # <<>> => NextId = stored[Len(stored)] + 1
    BY DEF NextId
  <2>2. stored \in Seq(Ids) /\ Ascending(stored)
    BY DEF SelectorInv
  <2> QED
    BY <1>1, <2>1, <2>2, NextIsAscending
<1>3. Settled(selector'[v]) /\ selector'[v].rows = stored'
  BY SaverSettles
<1>4. \A w \in open : Settled(selector'[w]) /\ selector'[w].rows = stored'
  BY <1>1, <1>3, AllAddSettles DEF SelectorInv
<1>5. selector' \in [Viewers -> Selectors]
  BY <1>1, <1>3, AllAddSettles DEF Save, Settled
<1> QED
  BY <1>1, <1>2, <1>4, <1>5 DEF SelectorInv

\* The viewer whose Remove button was pressed: it leaves the last layout before it
\* goes, and so never comes to the row behind it.
LEMMA RemoverSettles ==
    ASSUME SelectorInv, NEW v \in Viewers, Delete(v)
    PROVE  /\ Settled(selector'[v]) /\ selector'[v].rows = stored'
           /\ ~selector'[v].saving
<1> DEFINE s == selector[v]
           row == s.current
           b == BeforeRemoval(s)
           n == Len(stored)
<1>1. /\ v \in open /\ ~s.saving /\ row \in DOMAIN s.rows
      /\ stored' = Without(stored, PositionOf(stored, s.rows[row]))
      /\ selector' = [AllRemove(s.rows[row]) EXCEPT ![v] = ModelRemoves(b, row)]
  BY DEF Delete
<1>2. stored \in Seq(Ids) /\ Ascending(stored) /\ Settled(s) /\ s.rows = stored
  BY <1>1 DEF SelectorInv
<1>3. row \in 1 .. n /\ n \in Nat /\ SaveRow(s) = n + 1 /\ RowCount(s) = n + 2
  BY <1>1, <1>2 DEF SaveRow, RowCount
<1>4. stored' = Without(stored, row)
  BY <1>1, <1>2, <1>3, PositionIsUnique
<1>5. AllRemove(s.rows[row]) \in [Viewers -> Selectors]
  BY <1>2, <1>3, AllRemoveSettles
<1>6. Settled(b) /\ b.rows = stored /\ ~b.saving /\ b.current <= row /\ b.current < n
  <2>1. CASE row = n
    <3>1. b = SetCurrentIndex(s, row - 1)
      BY <1>3, <2>1 DEF BeforeRemoval
    <3>2. s \in Selectors /\ s.old = s.current /\ s.current \in NoRow .. SaveRow(s)
      BY <1>1, <1>2 DEF Settled
    <3>3. row - 1 \in Int /\ row - 1 \in 0 .. SaveRow(s) /\ row - 1 # SaveRow(s)
      BY <1>3
    <3>4. /\ Settled(SetCurrentIndex(s, row - 1)) /\ SetCurrentIndex(s, row - 1).rows = s.rows
          /\ SetCurrentIndex(s, row - 1).current = row - 1
          /\ ~SetCurrentIndex(s, row - 1).saving
      BY <1>1, <3>2, <3>3, SelectSettles
    <3> QED
      BY <1>2, <1>3, <2>1, <3>1, <3>4
  <2>2. CASE row # n
    <3>1. b = s
      BY <1>3, <2>2 DEF BeforeRemoval
    <3> QED
      BY <1>1, <1>2, <1>3, <2>2, <3>1
  <2> QED
    BY <2>1, <2>2
<1> HIDE DEF b
<1>7. /\ Settled(ModelRemoves(b, row)) /\ ModelRemoves(b, row).rows = Without(stored, row)
      /\ ~ModelRemoves(b, row).saving
  BY <1>2, <1>3, <1>6, RemoveSettles
<1>8. selector'[v] = ModelRemoves(b, row)
  BY <1>1, <1>5
<1> QED
  BY <1>4, <1>7, <1>8

LEMMA DeleteKeeps ==
    ASSUME SelectorInv, NEW v \in Viewers, Delete(v)
    PROVE  SelectorInv'
<1> DEFINE row == selector[v].current
           all == AllRemove(stored[row])
<1>1. stored \in Seq(Ids) /\ Ascending(stored) /\ v \in open /\ selector[v].rows = stored
  BY DEF Delete, SelectorInv
<1>2. row \in 1 .. Len(stored)
  BY <1>1 DEF Delete
<1>3. stored' = Without(stored, row) /\ open' = open
  BY <1>1, <1>2, PositionIsUnique DEF Delete
<1>4. stored' \in Seq(Ids) /\ Ascending(stored')
  BY <1>1, <1>2, <1>3, WithoutIsAscending
<1>5. /\ all \in [Viewers -> Selectors]
      /\ \A w \in open : Settled(all[w]) /\ all[w].rows = Without(stored, row)
  BY <1>2, AllRemoveSettles
<1>6. Settled(selector'[v]) /\ selector'[v].rows = stored'
  BY RemoverSettles
<1>7. selector' = [all EXCEPT ![v] = ModelRemoves(BeforeRemoval(selector[v]), row)]
  BY <1>1 DEF Delete
<1> HIDE DEF all, row
<1>8. \A w \in open : Settled(selector'[w]) /\ selector'[w].rows = stored'
  BY <1>3, <1>5, <1>6, <1>7 DEF SelectorInv
<1>9. selector' \in [Viewers -> Selectors]
  BY <1>5, <1>6, <1>7 DEF Settled
<1> QED
  BY <1>3, <1>4, <1>8, <1>9 DEF SelectorInv

-----------------------------------------------------------------------------
(* The theorems                                                             *)

LEMMA SelectorBegins == SelectorInit => SelectorInv
<1> SUFFICES ASSUME SelectorInit PROVE SelectorInv
  OBVIOUS
<1>1. Closed \in Selectors
  BY DEF Closed, Selectors, NoRow
<1> QED
  BY <1>1 DEF SelectorInit, SelectorInv, Ascending

LEMMA SelectorGoesOn ==
    ASSUME SelectorInv, [SelectorNext]_vars
    PROVE  SelectorInv'
<1>1. CASE SelectorNext
  <2>1. PICK v \in Viewers :
            \/ Open(v) \/ Close(v) \/ Save(v) \/ Abort(v) \/ Delete(v)
            \/ \E row \in 0 .. MaxLayouts + 1 : Select(v, row)
    BY <1>1 DEF SelectorNext
  <2>2. 0 .. MaxLayouts + 1 \subseteq Int
    BY SelectorAssumption
  <2> QED
    BY <2>1, <2>2, OpenKeeps, CloseKeeps, SaveKeeps, AbortKeeps, DeleteKeeps, SelectKeeps
<1>2. CASE UNCHANGED vars
  BY <1>2 DEF vars, SelectorInv, Settled
<1> QED
  BY <1>1, <1>2

THEOREM SelectorIsSound == SelectorSpec => []SelectorInv
<1>1. SelectorInv /\ [SelectorNext]_vars => SelectorInv'
  BY SelectorGoesOn
<1> QED
  BY SelectorBegins, <1>1, PTL DEF SelectorSpec

\* The state of the selectors is what SelectorTypeOK says.
THEOREM SelectorTyped == SelectorSpec => []SelectorTypeOK
<1>1. SelectorInv => SelectorTypeOK
  BY DEF SelectorInv, Settled, SelectorTypeOK
<1> QED
  BY SelectorIsSound, <1>1, PTL

\* The combo box of every viewer offers what is stored, in its order, however many
\* viewers save and remove layouts.
THEOREM RowsAreStored == SelectorSpec => []RowsFollowStorage
<1>1. SelectorInv => RowsFollowStorage
  BY DEF SelectorInv, RowsFollowStorage
<1> QED
  BY SelectorIsSound, <1>1, PTL

\* Selecting another row restores its layout: m_old_layout_index is the current row,
\* whatever rows came and went above it and below it, unless a name is asked for.
THEOREM SelectorRestores == SelectorSpec => SelectionIsRestored
<1> DEFINE Restores ==
        \A v \in Viewers, row \in 0 .. MaxLayouts + 1 :
           Select(v, row) /\ row \notin {selector[v].current, SaveRow(selector[v])} =>
               /\ selector'[v].current = row
               /\ selector'[v].shown = LayoutAt(selector[v], row)
<1>1. SelectorInv /\ [SelectorNext]_vars => [Restores]_vars
  <2>1. \A row \in 0 .. MaxLayouts + 1 : row \in Int
    BY SelectorAssumption
  <2> QED
    BY <2>1, OtherIsRestored
<1> QED
  BY SelectorIsSound, <1>1, PTL DEF SelectorSpec, SelectionIsRestored

\* Saving ends with the new layout selected and nothing restored in its place.
THEOREM SaverSeesItsLayout == SelectorSpec => SavedIsSelected
<1> DEFINE Selected ==
        \A v \in Viewers : Save(v) =>
           /\ ~selector'[v].saving
           /\ selector'[v].current = SaveRow(selector'[v]) - 1
           /\ selector'[v].shown = stored'[Len(stored')]
<1>1. SelectorInv /\ [SelectorNext]_vars => [Selected]_vars
  BY SaverSettles
<1> QED
  BY SelectorIsSound, <1>1, PTL DEF SelectorSpec, SavedIsSelected

\* Who removes the current layout is not asked for the name of a new one.
THEOREM RemoverGoesOn == SelectorSpec => RemoverDoesNotSave
<1> DEFINE Quiet == \A v \in Viewers : Delete(v) => ~selector'[v].saving
<1>1. SelectorInv /\ [SelectorNext]_vars => [Quiet]_vars
  BY RemoverSettles
<1> QED
  BY SelectorIsSound, <1>1, PTL DEF SelectorSpec, RemoverDoesNotSave

=============================================================================
