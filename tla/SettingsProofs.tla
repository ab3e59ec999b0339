---------------------------- MODULE SettingsProofs ----------------------------
(***************************************************************************)
(* The Settings activity shows what is stored, for all keys, values, rows  *)
(* and definitions.                                                         *)
(***************************************************************************)
EXTENDS SettingsPage, WellFoundedInduction, TLAPS

\* The value of a setting and what its widget shows, of its definition, its tuple
\* and the rows there are.
ValueOf(d, t) ==
    IF d.kind \in PlainKinds
    THEN (IF t.kind = d.kind THEN t.value ELSE d.default)
    ELSE (IF d.kind \in ReferenceKinds /\ t.kind = d.kind THEN t.value ELSE d.default)

WidgetOf(d, t, R) ==
    LET v == ValueOf(d, t)
    IN  CASE d.kind \in {"Boolean", "String"} -> v
          [] d.kind \in {"Int", "Double"}     -> InSpinBox(d, v)
          [] d.kind = "Enum"                  -> InEnumBox(d, v)
          [] d.kind \in ReferenceKinds        -> IF [kind |-> d.kind, id |-> v] \in R THEN v ELSE None

\* What the code of the page relies on between two requests.
Kept ==
    /\ defs \in [Keys -> Definitions \cup {Undefined}]
    /\ stored \in [Keys -> StoredTuples \cup {NotStored}]
    /\ rows \subseteq Rows
    /\ told = [k \in Keys |-> told[k]]

\* A tuple that refers to a row has it.
RowsAreThere ==
    \A k \in Keys : stored[k].kind \in ReferenceKinds =>
        [kind |-> stored[k].kind, id |-> stored[k].value] \in rows

Mirrors ==
    /\ shown = [k \in {i \in Keys : defs[i] # Undefined} |-> WidgetOf(defs[k], stored[k], rows)]
    /\ offered = rows
    /\ listed = {r \in rows : r.kind \in {"Certificate", "Key"}}

Knows == \A k \in Keys : told[k] = ValueOf(defs[k], stored[k])

SettingsInv ==
    /\ Kept
    /\ running = TRUE
    /\ RowsAreThere
    /\ Mirrors
    /\ Knows

-----------------------------------------------------------------------------
(* Values and widgets                                                       *)

LEMMA KindsDiffer ==
    /\ PlainKinds \cap ReferenceKinds = {}
    /\ "none" \notin PlainKinds \cup ReferenceKinds
BY DEF PlainKinds, ReferenceKinds

\* The fields of definitions and tuples.
LEMMA DefinitionIs ==
    ASSUME NEW d \in Definitions \cup {Undefined}
    PROVE  \/ /\ d.kind \in PlainKinds /\ d.valid \subseteq Values
              /\ d.default \in d.valid /\ d.default \in Values /\ d # Undefined
              /\ d.kind = "String" => d.valid = Values
              /\ d.kind \in {"Int", "Double"} =>
                    \E least, greatest \in Values :
                        d.valid = {v \in Values : least <= v /\ v <= greatest}
           \/ d.kind \in ReferenceKinds /\ d.default = None /\ d # Undefined
           \/ d = Undefined /\ d.kind = "none" /\ d.default = None
<1>1. CASE d \in PlainDefinitions
  BY <1>1 DEF PlainDefinitions, Undefined, PlainKinds
<1>2. CASE d \in ReferenceDefinitions
  BY <1>2 DEF ReferenceDefinitions, Undefined, ReferenceKinds
<1>3. CASE d = Undefined
  BY <1>3 DEF Undefined
<1> QED
  BY <1>1, <1>2, <1>3 DEF Definitions

LEMMA NumbersAre == Values \subseteq Nat /\ Ids \subseteq Nat
BY SettingsAssumption

LEMMA TupleIs ==
    ASSUME NEW t \in StoredTuples \cup {NotStored}
    PROVE  \/ t.kind \in PlainKinds /\ t.value \in Values /\ t.value \in Nat
           \/ t.kind \in ReferenceKinds /\ t.value \in Ids /\ t.value \in Nat
           \/ t.kind = "none" /\ t.value = None
<1>1. CASE t \in [kind : PlainKinds, value : Values]
  BY <1>1, NumbersAre
<1>2. CASE t \in [kind : ReferenceKinds, value : Ids]
  BY <1>2, NumbersAre
<1>3. CASE t = NotStored
  BY <1>3 DEF NotStored
<1> QED
  BY <1>1, <1>2, <1>3 DEF StoredTuples

\* The getters, in terms of the definition and the tuple.
LEMMA ValueIs ==
    ASSUME Kept, NEW k \in Keys
    PROVE  Value(k) = ValueOf(defs[k], stored[k])
<1> DEFINE d == defs[k]
           t == stored[k]
<1>1. d \in Definitions \cup {Undefined} /\ t \in StoredTuples \cup {NotStored}
  BY DEF Kept
<1>2. t.kind \in PlainKinds \cup ReferenceKinds => t.value # None
  <2>1. CASE t.value \in Nat
    BY <2>1 DEF None
  <2>2. CASE t.value \notin Nat
    BY <1>1, <2>2, TupleIs, KindsDiffer
  <2> QED
    BY <2>1, <2>2
<1>3. CASE d.kind \in PlainKinds
  <2>1. Value(k) = IF StoredValue(k, d.kind) = None THEN d.default ELSE StoredValue(k, d.kind)
    BY <1>3 DEF Value, FindDefinition
  <2>2. StoredValue(k, d.kind) = IF t.kind = d.kind THEN t.value ELSE None
    BY <1>3 DEF StoredValue
  <2> QED
    BY <1>2, <1>3, <2>1, <2>2 DEF ValueOf
<1>4. CASE d.kind \notin PlainKinds
  <2>1. Value(k) = IF StoredId(k, d.kind) = None THEN d.default ELSE StoredId(k, d.kind)
    BY <1>4 DEF Value, FindDefinition
  <2>2. StoredId(k, d.kind) =
            IF t.kind = d.kind /\ d.kind \in ReferenceKinds THEN t.value ELSE None
    BY DEF StoredId
  <2> QED
    BY <1>2, <1>4, <2>1, <2>2 DEF ValueOf
<1> QED
  BY <1>3, <1>4

LEMMA WidgetIs ==
    ASSUME Kept, NEW k \in Keys
    PROVE  Widget(k) = WidgetOf(defs[k], stored[k], rows)
BY ValueIs DEF Widget, WidgetOf, InReferenceBox

\* A widget that a valid value is given shows it.
LEMMA ShowsValid ==
    ASSUME NEW d \in Definitions, NEW v, NEW R,
           d.kind \in PlainKinds, v \in d.valid
    PROVE  WidgetOf(d, [kind |-> d.kind, value |-> v], R) = v
<1>1. ValueOf(d, [kind |-> d.kind, value |-> v]) = v
  BY DEF ValueOf
<1>2. CASE d.kind \in {"Boolean", "String"}
  BY <1>1, <1>2 DEF WidgetOf, ReferenceKinds
<1>3. CASE d.kind \in {"Int", "Double"}
  <2>1. PICK least \in Values, greatest \in Values :
            d.valid = {i \in Values : least <= i /\ i <= greatest}
    BY <1>3, DefinitionIs, KindsDiffer
  <2>2. v \in Nat /\ least \in Nat /\ greatest \in Nat /\ least <= v /\ v <= greatest
    BY <2>1, NumbersAre
  <2>3. InSpinBox(d, v) = v
    <3> DEFINE valid == {i \in Values : least <= i /\ i <= greatest}
    <3>1. \A i \in valid : i \in Nat /\ least <= i /\ i <= greatest
      BY NumbersAre
    <3>2. least \in valid /\ greatest \in valid
      BY <2>2
    <3> HIDE DEF valid
    <3>3. Least(valid) = least
      <4>1. Least(valid) \in valid /\ \A y \in valid : Least(valid) <= y
        BY <3>1, <3>2 DEF Least
      <4> QED
        BY <3>1, <3>2, <4>1
    <3>4. Greatest(valid) = greatest
      <4>1. Greatest(valid) \in valid /\ \A y \in valid : Greatest(valid) >= y
        BY <3>1, <3>2 DEF Greatest
      <4> QED
        BY <3>1, <3>2, <4>1
    <3>5. d.valid = valid
      BY <2>1 DEF valid
    <3> QED
      BY <2>2, <3>3, <3>4, <3>5 DEF InSpinBox
  <2> QED
    BY <1>1, <1>3, <2>3 DEF WidgetOf, ReferenceKinds
<1>4. CASE d.kind = "Enum"
  BY <1>1, <1>4 DEF WidgetOf, InEnumBox, ReferenceKinds
<1> QED
  BY <1>2, <1>3, <1>4 DEF PlainKinds

-----------------------------------------------------------------------------
(* Steps of the manager                                                     *)

LEMMA ReadingIs ==
    Kept => Reading = [k \in Keys |-> ValueOf(defs[k], stored[k])]
BY ValueIs DEF Reading

LEMMA ReadingIsNext ==
    (Kept => Reading = [k \in Keys |-> ValueOf(defs[k], stored[k])])'
BY ReadingIs, PTL

LEMMA WidgetsAre ==
    Kept => Widgets = [k \in {i \in Keys : defs[i] # Undefined} |-> WidgetOf(defs[k], stored[k], rows)]
BY WidgetIs DEF Widgets

LEMMA WidgetsAreNext ==
    (Kept => Widgets = [k \in {i \in Keys : defs[i] # Undefined} |->
                            WidgetOf(defs[k], stored[k], rows)])'
BY WidgetsAre, PTL

\* What a step that changes the tuples of some settings, and tells the listeners of
\* those, leaves behind.
LEMMA TellingKnows ==
    ASSUME Kept, Knows, Kept', NEW K, Tell(K),
           \A k \in Keys : k \notin K => defs'[k] = defs[k] /\ stored'[k] = stored[k]
    PROVE  Knows'
<1> SUFFICES ASSUME NEW k \in Keys PROVE told'[k] = ValueOf(defs'[k], stored'[k])
  BY DEF Knows
<1>1. told'[k] = IF k \in K THEN Reading'[k] ELSE told[k]
  BY DEF Tell
<1>2. Reading'[k] = ValueOf(defs'[k], stored'[k])
  BY ReadingIsNext
<1> QED
  BY <1>1, <1>2 DEF Knows

\* set...Setting with a value of the type, and the id of a row if it is an id.
LEMMA SettingKeeps ==
    ASSUME SettingsInv, NEW k \in Keys, NEW kind, NEW v,
           \/ kind \in PlainKinds /\ v \in Values
           \/ kind \in ReferenceKinds /\ v \in Ids,
           RowIsThere(kind, v),
           SetSetting(k, kind, v)
    PROVE  /\ Kept' /\ running' = TRUE /\ RowsAreThere' /\ Knows'
           /\ UNCHANGED <<defs, rows>>
           /\ stored' = IF Accepts(k, kind, v)
                        THEN [stored EXCEPT ![k] = [kind |-> kind, value |-> v]] ELSE stored
<1> DEFINE new == [kind |-> kind, value |-> v]
<1>1. new \in StoredTuples
  BY DEF StoredTuples
<1>2. CASE Accepts(k, kind, v)
  <2>1. /\ running' = TRUE /\ UNCHANGED <<defs, rows>>
        /\ stored' = [stored EXCEPT ![k] = new]
        /\ Tell({k})
    <3>1. /\ running' = RowIsThere(kind, v) /\ UNCHANGED <<defs, rows>>
          /\ stored' = [stored EXCEPT ![k] = IF running' THEN new ELSE @]
          /\ Tell(IF running' THEN {k} ELSE {})
      BY <1>2, Zenon DEF SetSetting
    <3>2. running' = TRUE
      BY <3>1
    <3> QED
      BY <3>1, <3>2
  <2>2. Kept'
    <3>1. stored' \in [Keys -> StoredTuples \cup {NotStored}]
      <4> HIDE DEF new
      <4> QED
        BY <1>1, <2>1 DEF SettingsInv, Kept
    <3> QED
      BY <2>1, <3>1 DEF SettingsInv, Kept, Tell
  <2>3. \A i \in Keys : i \notin {k} => defs'[i] = defs[i] /\ stored'[i] = stored[i]
    BY <2>1 DEF SettingsInv, Kept
  <2>4. Knows'
    BY <2>1, <2>2, <2>3, TellingKnows DEF SettingsInv
  <2>5. RowsAreThere'
    <3>1. stored'[k] = new
      BY <2>1 DEF SettingsInv, Kept
    <3> SUFFICES ASSUME NEW i \in Keys, stored'[i].kind \in ReferenceKinds
                 PROVE  [kind |-> stored'[i].kind, id |-> stored'[i].value] \in rows'
      BY DEF RowsAreThere
    <3>2. CASE i = k
      BY <2>1, <3>1, <3>2 DEF RowIsThere
    <3>3. CASE i # k
      BY <2>1, <2>3, <3>3 DEF SettingsInv, RowsAreThere
    <3> QED
      BY <3>2, <3>3
  <2> QED
    BY <1>2, <2>1, <2>2, <2>4, <2>5
<1>3. CASE ~Accepts(k, kind, v)
  <2>1. UNCHANGED managerVars
    BY <1>3, Zenon DEF SetSetting
  <2> QED
    BY <1>3, <2>1 DEF managerVars, SettingsInv, Kept, RowsAreThere, Knows
<1> QED
  BY <1>2, <1>3

\* resetSetting()
LEMMA ResettingKeeps ==
    ASSUME SettingsInv, NEW k \in Keys, ResetSetting(k)
    PROVE  /\ Kept' /\ running' = TRUE /\ RowsAreThere' /\ Knows'
           /\ UNCHANGED <<defs, rows>>
           /\ stored' = [stored EXCEPT ![k] = IF defs[k] # Undefined THEN NotStored ELSE stored[k]]
<1>1. /\ running' = TRUE /\ UNCHANGED <<defs, rows>>
      /\ stored' = [stored EXCEPT ![k] = IF defs[k] # Undefined THEN NotStored ELSE stored[k]]
  BY DEF ResetSetting, FindDefinition, SettingsInv
<1>2. Tell({i \in {k} : stored'[i] # stored[i]})
  BY DEF ResetSetting, OnSettingDeleted
<1>3. Kept'
  BY <1>1, <1>2 DEF SettingsInv, Kept, Tell
<1>4. Knows'
  <2> DEFINE K == {i \in {k} : stored'[i] # stored[i]}
  <2>1. \A i \in Keys : i \notin K => defs'[i] = defs[i] /\ stored'[i] = stored[i]
    BY <1>1 DEF SettingsInv, Kept
  <2> HIDE DEF K
  <2>2. Tell(K)
    BY <1>2 DEF K
  <2> QED
    BY <1>3, <2>1, <2>2, TellingKnows DEF SettingsInv
<1>5. RowsAreThere'
  <2> SUFFICES ASSUME NEW i \in Keys, stored'[i].kind \in ReferenceKinds
               PROVE  [kind |-> stored'[i].kind, id |-> stored'[i].value] \in rows'
    BY DEF RowsAreThere
  <2>1. stored'[i] = stored[i] \/ stored'[i] = NotStored
    BY <1>1 DEF SettingsInv, Kept
  <2>2. stored'[i] # NotStored
    BY KindsDiffer DEF NotStored
  <2> QED
    BY <1>1, <2>1, <2>2 DEF SettingsInv, RowsAreThere
<1> QED
  BY <1>1, <1>3, <1>4, <1>5

-----------------------------------------------------------------------------
(* Steps of the page                                                        *)

\* A build shows what is stored.
LEMMA BuildingMirrors ==
    ASSUME Kept', ReCreateSettings, listed' = Listed'
    PROVE  Mirrors'
BY WidgetsAreNext DEF ReCreateSettings, Mirrors, Listed

\* So does the one widget that was used, when it shows what was stored through it.
LEMMA UsingMirrors ==
    ASSUME SettingsInv, Kept', UNCHANGED <<defs, rows>>, NEW k \in DOMAIN shown,
           \A i \in Keys : i # k => stored'[i] = stored[i],
           NEW w, w = WidgetOf(defs[k], stored'[k], rows),
           OnSettingChanged([shown EXCEPT ![k] = w])
    PROVE  Mirrors'
<1> DEFINE K == {i \in Keys : defs[i] # Undefined}
<1>1. /\ shown = [i \in K |-> WidgetOf(defs[i], stored[i], rows)]
      /\ offered = rows /\ listed = Listed
  BY DEF SettingsInv, Mirrors, Listed
<1>2. UNCHANGED listed /\ listed' = Listed'
  BY <1>1 DEF OnSettingChanged, Listed
<1>3. CASE visible
  <2>1. shown' = [shown EXCEPT ![k] = w] /\ UNCHANGED offered
    BY <1>3 DEF OnSettingChanged
  <2>2. shown' = [i \in K |-> WidgetOf(defs[i], stored'[i], rows)]
    BY <1>1, <2>1
  <2> QED
    BY <1>1, <1>2, <2>1, <2>2 DEF Mirrors, Listed
<1>4. CASE ~visible
  BY <1>2, <1>4, BuildingMirrors DEF OnSettingChanged
<1> QED
  BY <1>3, <1>4

LEMMA HiddenMirrors ==
    ASSUME SettingsInv, Kept', UNCHANGED rows, ~visible, OnSettingChanged(shown)
    PROVE  Mirrors'
<1>1. listed' = Listed'
  BY DEF OnSettingChanged, SettingsInv, Mirrors, Listed
<1> QED
  BY <1>1, BuildingMirrors DEF OnSettingChanged

LEMMA UserSetsKeeps ==
    ASSUME SettingsInv, NEW k \in Keys, NEW v \in Values, UserSets(k, v)
    PROVE  SettingsInv'
<1> DEFINE d == defs[k]
           new == [kind |-> d.kind, value |-> v]
<1>1. /\ k \in DOMAIN shown /\ d.kind \in PlainKinds /\ v \in d.valid
      /\ SetSetting(k, d.kind, v)
      /\ OnSettingChanged([shown EXCEPT ![k] = v])
  BY DEF UserSets, UsesWidget
<1>2. RowIsThere(d.kind, v) /\ Accepts(k, d.kind, v)
  BY <1>1, KindsDiffer DEF RowIsThere, Accepts, IsValid, FindDefinition
<1>3. /\ Kept' /\ running' = TRUE /\ RowsAreThere' /\ Knows'
      /\ UNCHANGED <<defs, rows>>
      /\ stored' = [stored EXCEPT ![k] = new]
  <2> HIDE DEF d
  <2>1. d.kind \in PlainKinds /\ v \in Values
    BY <1>1
  <2> QED
    BY <1>1, <1>2, <2>1, SettingKeeps
<1>4. d \in Definitions
  BY <1>1 DEF SettingsInv, Kept, Mirrors
<1>5. stored'[k] = new /\ \A i \in Keys : i # k => stored'[i] = stored[i]
  BY <1>3 DEF SettingsInv, Kept
<1>6. v = WidgetOf(d, stored'[k], rows)
  <2> HIDE DEF d
  <2> QED
    BY <1>1, <1>4, <1>5, ShowsValid
<1>7. Mirrors'
  BY <1>1, <1>3, <1>5, <1>6, UsingMirrors
<1> QED
  BY <1>3, <1>7 DEF SettingsInv

LEMMA UserPicksKeeps ==
    ASSUME SettingsInv, NEW k \in Keys, NEW r \in Rows, UserPicks(k, r)
    PROVE  SettingsInv'
<1> DEFINE new == [kind |-> r.kind, value |-> r.id]
<1>1. /\ k \in DOMAIN shown /\ defs[k].kind = r.kind /\ r \in rows
      /\ SetSetting(k, r.kind, r.id)
      /\ OnSettingChanged([shown EXCEPT ![k] = r.id])
  BY DEF UserPicks, UsesWidget, SettingsInv, Mirrors
<1>2. r.kind \in ReferenceKinds /\ r.id \in Ids /\ r = [kind |-> r.kind, id |-> r.id]
  BY SettingsAssumption DEF Rows
<1>3. RowIsThere(r.kind, r.id) /\ Accepts(k, r.kind, r.id)
  BY <1>1, <1>2 DEF RowIsThere, Accepts, IsValid, FindDefinition
<1>4. /\ Kept' /\ running' = TRUE /\ RowsAreThere' /\ Knows'
      /\ UNCHANGED <<defs, rows>>
      /\ stored' = [stored EXCEPT ![k] = new]
  BY <1>1, <1>2, <1>3, SettingKeeps
<1>5. stored'[k] = new /\ \A i \in Keys : i # k => stored'[i] = stored[i]
  BY <1>4 DEF SettingsInv, Kept
<1>6. r.id = WidgetOf(defs[k], stored'[k], rows)
  <2>1. ValueOf(defs[k], new) = r.id
    BY <1>1, <1>2, KindsDiffer DEF ValueOf
  <2> QED
    BY <1>1, <1>2, <1>5, <2>1 DEF WidgetOf, ReferenceKinds
<1>7. Mirrors'
  BY <1>1, <1>4, <1>5, <1>6, UsingMirrors
<1> QED
  BY <1>4, <1>7 DEF SettingsInv

LEMMA UserPicksNoneKeeps ==
    ASSUME SettingsInv, NEW k \in Keys, UserPicksNone(k)
    PROVE  SettingsInv'
<1>1. /\ k \in DOMAIN shown /\ defs[k].kind \in ReferenceKinds
      /\ ResetSetting(k)
      /\ OnSettingChanged([shown EXCEPT ![k] = None])
  BY DEF UserPicksNone, UsesWidget
<1>2. /\ Kept' /\ running' = TRUE /\ RowsAreThere' /\ Knows'
      /\ UNCHANGED <<defs, rows>>
      /\ stored' = [stored EXCEPT ![k] = IF defs[k] # Undefined THEN NotStored ELSE stored[k]]
  BY <1>1, ResettingKeeps
<1>3. defs[k] # Undefined /\ defs[k] \in Definitions
  BY <1>1 DEF SettingsInv, Kept, Mirrors
<1>4. stored'[k] = NotStored /\ \A i \in Keys : i # k => stored'[i] = stored[i]
  BY <1>2, <1>3 DEF SettingsInv, Kept
<1>5. None = WidgetOf(defs[k], stored'[k], rows)
  <2>1. ValueOf(defs[k], NotStored) = None
    BY <1>1, <1>3, DefinitionIs, KindsDiffer DEF ValueOf, NotStored
  <2> QED
    BY <1>1, <1>4, <2>1 DEF WidgetOf, ReferenceKinds
<1>6. Mirrors'
  BY <1>1, <1>2, <1>4, <1>5, UsingMirrors
<1> QED
  BY <1>2, <1>6 DEF SettingsInv

LEMMA UserResetsKeeps ==
    ASSUME SettingsInv, NEW k \in Keys, UserResets(k)
    PROVE  SettingsInv'
<1> DEFINE d == defs[k]
           v == d.default
           new == [kind |-> d.kind, value |-> v]
<1>1. /\ k \in DOMAIN shown /\ d.kind \in PlainKinds
      /\ OnSettingChanged([shown EXCEPT ![k] = v])
  BY DEF UserResets, UsesWidget
<1>2. SetSetting(k, d.kind, v) \/ ResetSetting(k)
  BY DEF UserResets
<1>3. d \in Definitions /\ d # Undefined /\ v \in Values /\ v \in d.valid
  <2>1. d \in Definitions /\ d # Undefined
    BY <1>1 DEF SettingsInv, Kept, Mirrors
  <2> HIDE DEF d
  <2> QED
    BY <1>1, <2>1, DefinitionIs, KindsDiffer
<1>4. WidgetOf(d, new, rows) = v
  <2> HIDE DEF d
  <2> QED
    BY <1>1, <1>3, ShowsValid
<1>5. WidgetOf(d, NotStored, rows) = v
  <2>1. ValueOf(d, NotStored) = v /\ ValueOf(d, new) = v
    BY <1>1, <1>3, KindsDiffer DEF ValueOf, NotStored
  <2> HIDE DEF d
  <2> QED
    BY <1>4, <2>1 DEF WidgetOf
<1>6. CASE SetSetting(k, d.kind, v)
  <2>1. RowIsThere(d.kind, v) /\ Accepts(k, d.kind, v)
    BY <1>1, <1>3, KindsDiffer DEF RowIsThere, Accepts, IsValid, FindDefinition
  <2>2. /\ Kept' /\ running' = TRUE /\ RowsAreThere' /\ Knows'
        /\ UNCHANGED <<defs, rows>>
        /\ stored' = [stored EXCEPT ![k] = new]
    <3> HIDE DEF d
    <3> QED
      BY <1>1, <1>3, <1>6, <2>1, SettingKeeps
  <2>3. stored'[k] = new /\ \A i \in Keys : i # k => stored'[i] = stored[i]
    BY <2>2 DEF SettingsInv, Kept
  <2>4. Mirrors'
    BY <1>1, <1>4, <2>2, <2>3, UsingMirrors
  <2> QED
    BY <2>2, <2>4 DEF SettingsInv
<1>7. CASE ResetSetting(k)
  <2>1. /\ Kept' /\ running' = TRUE /\ RowsAreThere' /\ Knows'
        /\ UNCHANGED <<defs, rows>>
        /\ stored' = [stored EXCEPT ![k] = IF d # Undefined THEN NotStored ELSE stored[k]]
    BY <1>7, ResettingKeeps
  <2>2. stored'[k] = NotStored /\ \A i \in Keys : i # k => stored'[i] = stored[i]
    BY <1>3, <2>1 DEF SettingsInv, Kept
  <2>3. Mirrors'
    BY <1>1, <1>5, <2>1, <2>2, UsingMirrors
  <2> QED
    BY <2>1, <2>3 DEF SettingsInv
<1> QED
  BY <1>2, <1>6, <1>7

LEMMA SetElsewhereKeeps ==
    ASSUME SettingsInv, NEW k \in Keys, NEW kind, NEW v,
           \/ kind \in PlainKinds /\ v \in Values
           \/ kind \in ReferenceKinds /\ v \in Ids,
           SetElsewhere(k, kind, v)
    PROVE  SettingsInv'
<1>1. /\ RowIsThere(kind, v) /\ SetSetting(k, kind, v)
      /\ ~visible /\ OnSettingChanged(shown)
  BY DEF SetElsewhere
<1>2. Kept' /\ running' = TRUE /\ RowsAreThere' /\ Knows' /\ UNCHANGED <<defs, rows>>
  BY <1>1, SettingKeeps
<1> QED
  BY <1>1, <1>2, HiddenMirrors DEF SettingsInv

LEMMA ResetElsewhereKeeps ==
    ASSUME SettingsInv, NEW k \in Keys, ResetElsewhere(k)
    PROVE  SettingsInv'
<1>1. ResetSetting(k) /\ ~visible /\ OnSettingChanged(shown)
  BY DEF ResetElsewhere
<1>2. Kept' /\ running' = TRUE /\ RowsAreThere' /\ Knows' /\ UNCHANGED <<defs, rows>>
  BY <1>1, ResettingKeeps
<1> QED
  BY <1>1, <1>2, HiddenMirrors DEF SettingsInv

\* The lists built for the kinds of the rows that came or went are complete, as the
\* rows of the other kinds are the same.
LEMMA ListsAreBuilt ==
    ASSUME SettingsInv, NEW kinds, OnRowsChange(kinds),
           \A r : r.kind \notin kinds => (r \in rows' <=> r \in rows)
    PROVE  listed' = Listed'
BY DEF OnRowsChange, ReCreateLists, Listed, SettingsInv, Mirrors

LEMMA RowsGoKeeps ==
    ASSUME SettingsInv, NEW gone \in SUBSET rows, RowsGo(gone)
    PROVE  SettingsInv'
<1>1. /\ rows' = rows \ gone
      /\ stored' = [k \in Keys |-> IF k \in Lost(gone) THEN NotStored ELSE stored[k]]
      /\ UNCHANGED <<defs, running>>
      /\ Tell(Lost(gone))
      /\ OnRowsChange(KindsOf(gone))
  BY DEF RowsGo, DeleteRows, OnSettingDeleted
<1>2. Kept'
  BY <1>1 DEF SettingsInv, Kept, Tell
<1>3. Knows'
  <2>1. \A k \in Keys : k \notin Lost(gone) => defs'[k] = defs[k] /\ stored'[k] = stored[k]
    BY <1>1
  <2> QED
    BY <1>1, <1>2, <2>1, TellingKnows DEF SettingsInv
<1>4. RowsAreThere'
  <2> SUFFICES ASSUME NEW k \in Keys, stored'[k].kind \in ReferenceKinds
               PROVE  [kind |-> stored'[k].kind, id |-> stored'[k].value] \in rows'
    BY DEF RowsAreThere
  <2> DEFINE t == stored[k]
             row == [kind |-> t.kind, id |-> t.value]
  <2>1. k \notin Lost(gone) /\ stored'[k] = t
    BY <1>1, KindsDiffer DEF NotStored
  <2>2. row \in rows
    BY <2>1 DEF SettingsInv, RowsAreThere
  <2>3. row \notin gone
    <3>1. t \in StoredTuples \cup {NotStored} /\ t.kind \in ReferenceKinds
      BY <2>1 DEF SettingsInv, Kept
    <3>2. t = [kind |-> t.kind, value |-> t.value]
      BY <3>1 DEF StoredTuples, NotStored
    <3>3. row.kind = t.kind /\ row.id = t.value
      OBVIOUS
    <3> HIDE DEF row
    <3> QED
      BY <2>1, <3>2, <3>3 DEF Lost
  <2> QED
    BY <1>1, <2>1, <2>2, <2>3
<1>5. Mirrors'
  <2>1. \A r : r.kind \notin KindsOf(gone) => (r \in rows' <=> r \in rows)
    BY <1>1 DEF KindsOf
  <2> QED
    BY <1>1, <1>2, <2>1, ListsAreBuilt, BuildingMirrors DEF OnRowsChange
<1> QED
  BY <1>1, <1>2, <1>3, <1>4, <1>5 DEF SettingsInv

LEMMA RowComesKeeps ==
    ASSUME SettingsInv, NEW row \in Rows, RowComes(row)
    PROVE  SettingsInv'
<1>1. /\ rows' = rows \cup {row} /\ UNCHANGED <<defs, stored, told, running>>
      /\ OnRowsChange({row.kind})
  BY DEF RowComes, StoreRow
<1>2. Kept' /\ Knows' /\ RowsAreThere'
  BY <1>1 DEF SettingsInv, Kept, Knows, RowsAreThere
<1>3. Mirrors'
  <2>1. \A r : r.kind \notin {row.kind} => (r \in rows' <=> r \in rows)
    BY <1>1
  <2> QED
    BY <1>1, <1>2, <2>1, ListsAreBuilt, BuildingMirrors DEF OnRowsChange
<1> QED
  BY <1>1, <1>2, <1>3 DEF SettingsInv

LEMMA DefineKeeps ==
    ASSUME SettingsInv, NEW plan \in Plans, Define(plan)
    PROVE  SettingsInv'
<1>1. /\ defs' = [k \in Keys |-> IF k \in DOMAIN plan.settings THEN plan.settings[k]
                                 ELSE IF DomainOf[k] = plan.domain THEN Undefined
                                 ELSE defs[k]]
      /\ UNCHANGED <<stored, rows, running, listed>>
      /\ Tell(KeysOf(plan.domain))
      /\ ReCreateSettings
  BY DEF Define, DefineSettingDomain
<1>2. PICK dom \in Domains : \E K \in SUBSET KeysOf(dom) :
          plan.domain = dom /\ plan.settings \in [K -> Definitions]
  BY SettingsAssumption
<1>3. PICK K \in SUBSET KeysOf(dom) : plan.domain = dom /\ plan.settings \in [K -> Definitions]
  BY <1>2
<1>4. Kept'
  <2>1. \A k \in Keys : defs'[k] \in Definitions \cup {Undefined}
    BY <1>1, <1>3 DEF SettingsInv, Kept
  <2> QED
    BY <1>1, <2>1 DEF SettingsInv, Kept, Tell
<1>5. Knows'
  <2>1. \A k \in Keys : k \notin KeysOf(plan.domain) =>
            defs'[k] = defs[k] /\ stored'[k] = stored[k]
    BY <1>1, <1>3 DEF KeysOf
  <2> QED
    BY <1>1, <1>4, <2>1, TellingKnows DEF SettingsInv
<1>6. Mirrors'
  BY <1>1, <1>4, BuildingMirrors DEF SettingsInv, Mirrors, Listed
<1> QED
  BY <1>1, <1>4, <1>5, <1>6 DEF SettingsInv, RowsAreThere

LEMMA InitKeeps ==
    PageInit => SettingsInv
<1> SUFFICES ASSUME PageInit PROVE SettingsInv
  OBVIOUS
<1>1. Kept
  BY DEF PageInit, ManagerInit, Kept
<1>2. Mirrors
  BY <1>1, WidgetsAre DEF PageInit, Mirrors, Listed
<1>3. RowsAreThere
  BY KindsDiffer DEF PageInit, ManagerInit, RowsAreThere, NotStored
<1>4. Knows
  BY KindsDiffer DEF PageInit, ManagerInit, Knows, ValueOf, Undefined
<1> QED
  BY <1>1, <1>2, <1>3, <1>4 DEF SettingsInv, PageInit, ManagerInit

LEMMA StepKeeps ==
    SettingsInv /\ [PageNext]_vars => SettingsInv'
<1> SUFFICES ASSUME SettingsInv, [PageNext]_vars PROVE SettingsInv'
  OBVIOUS
<1>1. ASSUME NEW k \in Keys, UserStep(k) PROVE SettingsInv'
  BY <1>1, UserSetsKeeps, UserPicksKeeps, UserPicksNoneKeeps, UserResetsKeeps DEF UserStep
<1>2. ASSUME NEW k \in Keys, StepElsewhere(k) PROVE SettingsInv'
  BY <1>2, SetElsewhereKeeps, ResetElsewhereKeeps DEF StepElsewhere
<1>3. CASE SwitchTab
  BY <1>3 DEF SwitchTab, managerVars, SettingsInv, Kept, RowsAreThere, Mirrors, Knows
<1>4. CASE UNCHANGED vars
  BY <1>4 DEF vars, pageVars, managerVars, SettingsInv, Kept, RowsAreThere, Mirrors, Knows
<1> QED
  BY <1>1, <1>2, <1>3, <1>4, RowsGoKeeps, RowComesKeeps, DefineKeeps DEF PageNext

-----------------------------------------------------------------------------
(* Results                                                                  *)

\* The invariant of the page: what is stored has its row, and the widgets, the lists
\* and the listeners follow from the definitions, the tuples and the rows.
THEOREM SettingsAreSound == PageSpec => []SettingsInv
BY InitKeeps, StepKeeps, PTL DEF PageSpec

\* The page shows of every setting what a build of it would show, and lists the
\* certificates and keys there are.
THEOREM PageShowsWhatIsStored == PageSpec => []PageIsUpToDate
<1>1. SettingsInv => PageIsUpToDate
  BY WidgetsAre DEF SettingsInv, Mirrors, PageIsUpToDate, Listed
<1> QED
  BY <1>1, SettingsAreSound, PTL

\* Nothing that the page offers is refused by a foreign key, which would end the
\* program.
THEOREM PageNeverEndsTheProgram == PageSpec => []NoRequestIsRefused
<1>1. SettingsInv => NoRequestIsRefused
  BY DEF SettingsInv, NoRequestIsRefused
<1> QED
  BY <1>1, SettingsAreSound, PTL

\* A listener of settingChanged and settingDomainDefined has read the value every
\* setting has.
THEOREM ListenersFollow == PageSpec => []ListenersKnowValues
<1>1. SettingsInv => ListenersKnowValues
  <2> SUFFICES ASSUME SettingsInv PROVE told = Reading
    BY DEF ListenersKnowValues
  <2> QED
    BY ReadingIs DEF SettingsInv, Knows, Kept
<1> QED
  BY <1>1, SettingsAreSound, PTL

-----------------------------------------------------------------------------
(* Types                                                                    *)

\* A value that is read is a value, an id or nothing.
LEMMA ValuesAreTyped ==
    ASSUME NEW d \in Definitions \cup {Undefined}, NEW t \in StoredTuples \cup {NotStored}
    PROVE  /\ ValueOf(d, t) \in Values \cup Ids \cup {None}
           /\ d.kind \in PlainKinds => ValueOf(d, t) \in Values
<1>1. \/ d.kind \in PlainKinds /\ d.default \in Values
      \/ d.kind \in ReferenceKinds /\ d.default = None
      \/ d.kind = "none" /\ d.default = None
  BY DefinitionIs
<1>2. \/ t.kind \in PlainKinds /\ t.value \in Values
      \/ t.kind \in ReferenceKinds /\ t.value \in Ids
      \/ t.kind = "none"
  BY TupleIs
<1> DEFINE dk == d.kind
           tk == t.kind
           dv == d.default
           tv == t.value
<1>3. ValueOf(d, t) = IF dk \in PlainKinds THEN (IF tk = dk THEN tv ELSE dv)
                      ELSE (IF dk \in ReferenceKinds /\ tk = dk THEN tv ELSE dv)
  BY DEF ValueOf
<1>4. \/ dk \in PlainKinds /\ dv \in Values
      \/ dk \in ReferenceKinds /\ dv = None
      \/ dk = "none" /\ dv = None
  BY <1>1
<1>5. \/ tk \in PlainKinds /\ tv \in Values
      \/ tk \in ReferenceKinds /\ tv \in Ids
      \/ tk = "none"
  BY <1>2
<1> HIDE DEF dk, tk, dv, tv
<1>6. CASE dk \in PlainKinds
  <2>1. ValueOf(d, t) \in Values
    BY <1>3, <1>4, <1>5, <1>6, KindsDiffer
  <2> QED
    BY <2>1
<1>7. CASE dk \notin PlainKinds
  <2>1. ValueOf(d, t) \in Values \cup Ids \cup {None}
    BY <1>3, <1>4, <1>5, <1>7, KindsDiffer
  <2> QED
    BY <2>1, <1>7 DEF dk
<1> QED
  BY <1>6, <1>7

\* A set of natural numbers that has a member has a least one.
LEMMA LeastIsThere ==
    ASSUME NEW S \in SUBSET Nat, S # {}
    PROVE  \E n \in S : \A m \in S : n <= m
<1>1. PICK n \in S : \A m \in S : ~ (<<m, n>> \in OpToRel(<, Nat))
  BY NatLessThanWellFounded, WFMin
<1>2. ASSUME NEW m \in S PROVE n <= m
  <2>1. ~ (m < n)
    BY <1>1 DEF OpToRel
  <2> QED
    BY <2>1
<1> QED
  BY <1>2

\* What a widget shows is a value, an id or nothing, also when what is stored is
\* outside the limits of the definition and is shown clamped.
LEMMA WidgetsShowValues ==
    ASSUME NEW d \in Definitions, NEW t \in StoredTuples \cup {NotStored}, NEW R
    PROVE  WidgetOf(d, t, R) \in Values \cup Ids \cup {None}
<1> DEFINE v == ValueOf(d, t)
<1>1. v \in Values \cup Ids \cup {None} /\ (d.kind \in PlainKinds => v \in Values)
  BY ValuesAreTyped
<1> HIDE DEF v
<1>2. CASE d.kind \in {"Boolean", "String"}
  <2>1. WidgetOf(d, t, R) = v
    BY <1>2 DEF WidgetOf, ReferenceKinds, v
  <2> QED
    BY <1>1, <2>1
<1>3. CASE d.kind \in {"Int", "Double"}
  <2>1. WidgetOf(d, t, R) = InSpinBox(d, v)
    BY <1>3 DEF WidgetOf, ReferenceKinds, v
  <2>2. d.kind \in PlainKinds
    BY <1>3 DEF PlainKinds
  <2>3. PICK least \in Values, greatest \in Values :
            d.valid = {i \in Values : least <= i /\ i <= greatest}
    BY <1>3, <2>2, DefinitionIs, KindsDiffer
  <2>4. d.default \in d.valid
    BY <2>2, DefinitionIs, KindsDiffer
  <2>5. \A i \in d.valid : i \in Nat /\ i \in Values /\ least <= i /\ i <= greatest
    BY <2>3, NumbersAre
  <2>6. least \in d.valid /\ greatest \in d.valid
    BY <2>3, <2>4, <2>5, NumbersAre
  <2>7. Least(d.valid) \in d.valid /\ Greatest(d.valid) \in d.valid
    <3>1. \A i \in d.valid : least <= i /\ greatest >= i
      BY <2>5, <2>6
    <3>2. Least(d.valid) \in d.valid
      BY <2>6, <3>1 DEF Least
    <3>3. Greatest(d.valid) \in d.valid
      BY <2>6, <3>1 DEF Greatest
    <3> QED
      BY <3>2, <3>3
  <2> QED
    BY <1>1, <2>1, <2>2, <2>5, <2>7 DEF InSpinBox
<1>4. CASE d.kind = "Enum"
  <2>1. WidgetOf(d, t, R) = InEnumBox(d, v)
    BY <1>4 DEF WidgetOf, ReferenceKinds, v
  <2>2. d.kind \in PlainKinds
    BY <1>4 DEF PlainKinds
  <2>3. d.valid \subseteq Values /\ d.valid # {} /\ d.valid \in SUBSET Nat
    BY <2>2, DefinitionIs, KindsDiffer, NumbersAre
  <2>4. PICK n \in d.valid : \A m \in d.valid : n <= m
    BY <2>3, LeastIsThere
  <2>5. Least(d.valid) \in d.valid
    BY <2>4 DEF Least
  <2> QED
    BY <2>1, <2>3, <2>5 DEF InEnumBox
<1>5. CASE d.kind \in ReferenceKinds
  <2>1. WidgetOf(d, t, R) \in {v, None}
    BY <1>5 DEF WidgetOf, ReferenceKinds, v
  <2> QED
    BY <1>1, <2>1
<1>6. d.kind \in PlainKinds \cup ReferenceKinds
  BY DEF Definitions, PlainDefinitions, ReferenceDefinitions
<1> QED
  BY <1>2, <1>3, <1>4, <1>5, <1>6 DEF PlainKinds

TabIsTyped == visible \in BOOLEAN

\* Nothing but switching the tab shows or hides the page.
LEMMA VisibleIsBoolean == PageSpec => []TabIsTyped
<1>1. TabIsTyped /\ [PageNext]_vars => TabIsTyped'
  <2> SUFFICES ASSUME visible \in BOOLEAN, [PageNext]_vars PROVE visible' \in BOOLEAN
    BY DEF TabIsTyped
  <2>1. ASSUME NEW k \in Keys, UserStep(k) \/ StepElsewhere(k) PROVE visible' = visible
    BY <2>1 DEF UserStep, UserSets, UserPicks, UserPicksNone, UserResets, StepElsewhere,
               SetElsewhere, ResetElsewhere
  <2>2. ASSUME NEW gone \in SUBSET rows, RowsGo(gone) PROVE visible' = visible
    BY <2>2 DEF RowsGo
  <2>3. ASSUME NEW row \in Rows, RowComes(row) PROVE visible' = visible
    BY <2>3 DEF RowComes
  <2>4. ASSUME NEW plan \in Plans, Define(plan) PROVE visible' = visible
    BY <2>4 DEF Define
  <2>5. CASE SwitchTab
    BY <2>5 DEF SwitchTab
  <2>6. CASE UNCHANGED vars
    BY <2>6 DEF vars, pageVars
  <2> QED
    BY <2>1, <2>2, <2>3, <2>4, <2>5, <2>6 DEF PageNext
<1>2. PageInit => TabIsTyped
  BY DEF PageInit, TabIsTyped
<1> QED
  BY <1>1, <1>2, PTL DEF PageSpec

\* The state of the SettingsManager and of the page is what SettingsTypeOK says: no
\* widget shows anything but a value, an id or nothing, also of a setting whose
\* definition has changed under its value (createSettingWidget).
THEOREM SettingsTyped == PageSpec => []SettingsTypeOK
<1>1. SettingsInv /\ TabIsTyped => SettingsTypeOK
  <2> SUFFICES ASSUME SettingsInv, visible \in BOOLEAN PROVE SettingsTypeOK
    BY DEF TabIsTyped
  <2>1. Kept /\ Knows /\ Mirrors /\ running = TRUE
    BY DEF SettingsInv
  <2>2. ASSUME NEW k \in Keys PROVE told[k] \in Values \cup Ids \cup {None}
    <3>1. defs[k] \in Definitions \cup {Undefined} /\ stored[k] \in StoredTuples \cup {NotStored}
      BY <2>1 DEF Kept
    <3>2. told[k] = ValueOf(defs[k], stored[k])
      BY <2>1 DEF Knows
    <3> QED
      BY <3>1, <3>2, ValuesAreTyped
  <2>3. told \in [Keys -> Values \cup Ids \cup {None}]
    BY <2>1, <2>2 DEF Kept
  <2>4. shown \in [{k \in Keys : defs[k] # Undefined} -> Values \cup Ids \cup {None}]
    <3>1. ASSUME NEW k \in Keys, defs[k] # Undefined
          PROVE  WidgetOf(defs[k], stored[k], rows) \in Values \cup Ids \cup {None}
      <4>1. defs[k] \in Definitions /\ stored[k] \in StoredTuples \cup {NotStored}
        BY <2>1, <3>1 DEF Kept
      <4> QED
        BY <4>1, WidgetsShowValues
    <3> QED
      BY <2>1, <3>1 DEF Mirrors
  <2> QED
    BY <2>1, <2>3, <2>4 DEF SettingsTypeOK, Kept, Mirrors
<1> QED
  BY <1>1, SettingsAreSound, VisibleIsBoolean, PTL

=============================================================================
