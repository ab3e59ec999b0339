----------------------------- MODULE SettingsPage -----------------------------
(***************************************************************************)
(* The Settings activity over the SettingsManager: the widgets it builds   *)
(* for the settings and for the certificates and keys, when it builds them *)
(* anew, and what their own signals do.  Every call is synchronous and no  *)
(* slot of this page calls back, so a request with all that follows from   *)
(* it is one step.                                                          *)
(***************************************************************************)
EXTENDS SettingsManager

VARIABLES
    visible,    \* whether the tab of the page is the current one
    shown,      \* what the widget of each setting shows
    offered,    \* the rows that the combo boxes offer
    listed      \* the certificates and keys in the lists below the settings

pageVars == <<visible, shown, offered, listed>>
vars == <<managerVars, pageVars>>

Listed == {r \in rows : r.kind \in {"Certificate", "Key"}}

SettingsTypeOK ==
    /\ defs \in [Keys -> Definitions \cup {Undefined}]
    /\ stored \in [Keys -> StoredTuples \cup {NotStored}]
    /\ rows \subseteq Rows
    /\ told \in [Keys -> Values \cup Ids \cup {None}]
    /\ running \in BOOLEAN
    /\ visible \in BOOLEAN
    /\ shown \in [{k \in Keys : defs[k] # Undefined} -> Values \cup Ids \cup {None}]
    /\ offered \subseteq Rows
    /\ listed \subseteq {r \in Rows : r.kind \in {"Certificate", "Key"}}

-----------------------------------------------------------------------------
(* Building the page                                                        *)

Least(S) == CHOOSE x \in S : \A y \in S : x <= y
Greatest(S) == CHOOSE x \in S : \A y \in S : x >= y

\* A spin box stays within its limits.
InSpinBox(d, v) ==
    IF v < Least(d.valid) THEN Least(d.valid)
    ELSE IF v > Greatest(d.valid) THEN Greatest(d.valid)
    ELSE v

\* A combo box that is asked for a text it does not have stays at its first.
InEnumBox(d, v) == IF v \in d.valid THEN v ELSE Least(d.valid)

\* A combo box of rows stays at None for an id that is not among them.
InReferenceBox(d, v) == IF [kind |-> d.kind, id |-> v] \in rows THEN v ELSE None

\* What createSettingWidget shows for a setting.
Widget(k) ==
    LET d == defs[k] v == Value(k)
    IN  CASE d.kind \in {"Boolean", "String"} -> v
          [] d.kind \in {"Int", "Double"}     -> InSpinBox(d, v)
          [] d.kind = "Enum"                  -> InEnumBox(d, v)
          [] d.kind \in ReferenceKinds        -> InReferenceBox(d, v)

Widgets == [k \in {k \in Keys : defs[k] # Undefined} |-> Widget(k)]

\* reCreateSettings().  The signals of the widgets are connected after they
\* show their values, so that building stores nothing.
ReCreateSettings ==
    /\ shown' = Widgets'
    /\ offered' = rows'

ReCreateLists(kinds) ==
    listed' = {r \in Listed' : r.kind \in kinds} \cup {r \in listed : r.kind \notin kinds}

\* Faulty variant: the slot for layouts is missing.
OnRowsChangeIgnoresLayouts(kinds) ==
    /\ IF kinds \subseteq {"Layout"} THEN UNCHANGED <<shown, offered>> ELSE ReCreateSettings
    /\ ReCreateLists(kinds)

\* The slots for the changes of rows: all build the settings anew, two of them
\* the list of certificates or of keys as well.
OnRowsChange(kinds) ==
    /\ ReCreateSettings
    /\ ReCreateLists(kinds)

\* Faulty variant: the page trusts its widgets also while it is hidden.
OnSettingChangedAlwaysTrusts(sets) == shown' = sets /\ UNCHANGED <<offered, listed>>

\* onSettingChanged(): the widgets are taken to show the change already when the
\* page is visible; sets is what the widget that was used shows then.
OnSettingChanged(sets) ==
    /\ IF visible THEN shown' = sets /\ UNCHANGED offered ELSE ReCreateSettings
    /\ UNCHANGED listed

-----------------------------------------------------------------------------
(* What the user does on the page                                           *)

UsesWidget(k) == running /\ visible /\ k \in DOMAIN shown

\* Click, type, spin or choose.  Only a line edit reports a value it had before.
UserSets(k, v) ==
    /\ UsesWidget(k)
    /\ defs[k].kind \in PlainKinds
    /\ v \in defs[k].valid
    /\ v # shown[k] \/ defs[k].kind = "String"
    /\ SetSetting(k, defs[k].kind, v)
    /\ OnSettingChanged([shown EXCEPT ![k] = v])
    /\ UNCHANGED visible

UserPicks(k, r) ==
    /\ UsesWidget(k)
    /\ defs[k].kind = r.kind
    /\ r \in offered
    /\ r.id # shown[k]
    /\ SetSetting(k, r.kind, r.id)
    /\ OnSettingChanged([shown EXCEPT ![k] = r.id])
    /\ UNCHANGED visible

UserPicksNone(k) ==
    /\ UsesWidget(k)
    /\ defs[k].kind \in ReferenceKinds
    /\ shown[k] # None
    /\ ResetSetting(k)
    /\ OnSettingChanged([shown EXCEPT ![k] = None])
    /\ UNCHANGED visible

\* The widgets that report a change of their value also when the program makes it.
ReportsOwnChanges == {"Int", "Double", "Enum"}

\* The Reset button.  First the value is removed, then the widget is given the
\* default, and if that changes what it shows, its signal stores the default.
UserResets(k) ==
    /\ UsesWidget(k)
    /\ defs[k].kind \in PlainKinds
    /\ IF defs[k].kind \in ReportsOwnChanges /\ shown[k] # defs[k].default
       THEN SetSetting(k, defs[k].kind, defs[k].default)
       ELSE ResetSetting(k)
    /\ OnSettingChanged([shown EXCEPT ![k] = defs[k].default])
    /\ UNCHANGED visible

-----------------------------------------------------------------------------
(* What happens elsewhere                                                   *)

KindsOf(R) == {r.kind : r \in R}

\* A DELETE takes rows along.  The user may have asked for it on this page, with
\* the Delete button of a certificate or key, or in another tab.
RowsGo(gone) ==
    /\ running
    /\ gone # {}
    /\ DeleteRows(gone)
    /\ OnRowsChange(KindsOf(gone))
    /\ UNCHANGED visible

RowComes(row) ==
    /\ running
    /\ row \notin rows
    /\ StoreRow(row)
    /\ OnRowsChange({row.kind})
    /\ UNCHANGED visible

\* Another activity sets or resets a setting, while its tab is the current one.
SetElsewhere(k, kind, v) ==
    /\ running /\ ~visible
    /\ RowIsThere(kind, v)
    /\ SetSetting(k, kind, v)
    /\ OnSettingChanged(shown)
    /\ UNCHANGED visible

ResetElsewhere(k) ==
    /\ running /\ ~visible
    /\ ResetSetting(k)
    /\ OnSettingChanged(shown)
    /\ UNCHANGED visible

\* Faulty variant: the page is not connected to settingDomainDefined.
DefineUnseen(plan) ==
    /\ running
    /\ DefineSettingDomain(plan)
    /\ UNCHANGED pageVars

\* onSettingDomainDefined()
Define(plan) ==
    /\ running
    /\ DefineSettingDomain(plan)
    /\ ReCreateSettings
    /\ UNCHANGED <<listed, visible>>

SwitchTab ==
    /\ running
    /\ visible' = ~visible
    /\ UNCHANGED <<managerVars, shown, offered, listed>>

-----------------------------------------------------------------------------

PageInit ==
    /\ ManagerInit
    /\ visible = FALSE
    /\ shown = Widgets
    /\ offered = rows
    /\ listed = Listed

UserStep(k) ==
    \/ \E v \in Values : UserSets(k, v)
    \/ \E r \in Rows : UserPicks(k, r)
    \/ UserPicksNone(k)
    \/ UserResets(k)

StepElsewhere(k) ==
    \/ \E kind \in PlainKinds, v \in Values : SetElsewhere(k, kind, v)
    \/ \E kind \in ReferenceKinds, v \in Ids : SetElsewhere(k, kind, v)
    \/ ResetElsewhere(k)

PageNext ==
    \/ \E k \in Keys : UserStep(k) \/ StepElsewhere(k)
    \/ \E gone \in SUBSET rows : RowsGo(gone)
    \/ \E row \in Rows : RowComes(row)
    \/ \E plan \in Plans : Define(plan)
    \/ SwitchTab

PageSpec == PageInit /\ [][PageNext]_vars

-----------------------------------------------------------------------------
(* Properties                                                               *)

\* The page shows of every setting what a build of it would show, and lists the
\* certificates and keys there are: not building it anew while it is visible
\* never leaves it behind, whatever is set, reset, redefined or deleted.
PageIsUpToDate ==
    running => shown = Widgets /\ listed = Listed

\* Nothing that the page offers ends the program: whatever is picked is still a
\* row, although rows go while the page is hidden, and while it is visible.
NoRequestIsRefused == running

\* Whoever listens to settingChanged and settingDomainDefined knows the value of
\* every setting, also when the row it referred to was deleted.
ListenersKnowValues == running => told = Reading

=============================================================================
