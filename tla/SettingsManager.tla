--------------------------- MODULE SettingsManager ---------------------------
(***************************************************************************)
(* SettingsManager.cpp and settings.cpp: the definitions of settings, the  *)
(* values that are stored for them, and what a listener of                 *)
(* SettingsManager::settingChanged has read.  The relations that settings  *)
(* refer to are sets of rows here; what a DELETE takes along is the        *)
(* business of Storage, and so any set of rows may go at once.             *)
(***************************************************************************)
EXTENDS Integers, FiniteSets

CONSTANTS
    Keys,       \* the SettingKeys
    DomainOf,   \* the domain of a key
    Values,     \* the values of settings that are not ids
    Ids,        \* the StorageIds
    Tables,     \* the relations with rows that settings refer to
    Plans       \* what defineSettingDomain may be called with: [domain, settings]

PlainKinds == {"Boolean", "String", "Int", "Double", "Enum"}

ReferenceKinds ==
    {"Certificate", "Key", "ApplicationCertificate", "HistoricServerConnection", "Layout"}

\* nullopt
None == -1

\* A definition of a plain setting.  The constructors end the program when the
\* default is not valid; a number has a least and a greatest value.
PlainDefinitions ==
    {d \in [kind : PlainKinds, valid : SUBSET Values, default : Values] :
        /\ d.default \in d.valid
        /\ d.kind = "String" => d.valid = Values
        /\ d.kind \in {"Int", "Double"} =>
              \E least, greatest \in Values :
                  d.valid = {v \in Values : least <= v /\ v <= greatest}}

\* A setting that refers to a row has no default.
ReferenceDefinitions == [kind : ReferenceKinds, valid : {Ids}, default : {None}]

Undefined == [kind |-> "none", valid |-> {}, default |-> None]

Definitions == PlainDefinitions \cup ReferenceDefinitions

Domains == {DomainOf[k] : k \in Keys}

KeysOf(domain) == {k \in Keys : DomainOf[k] = domain}

ASSUME SettingsAssumption ==
    /\ Values \subseteq Nat
    /\ Ids \subseteq Nat
    /\ Tables \subseteq ReferenceKinds
    /\ Plans \subseteq
         UNION {[domain : {d}, settings : UNION {[K -> Definitions] : K \in SUBSET KeysOf(d)}] :
                    d \in Domains}

Rows == [kind : Tables, id : Ids]

NotStored == [kind |-> "none", value |-> None]

StoredTuples == [kind : PlainKinds, value : Values] \cup [kind : ReferenceKinds, value : Ids]

VARIABLES
    defs,       \* SettingsManager::m_settings
    stored,     \* the Setting tuple of each key with its value
    rows,       \* the rows in the tables that settings refer to
    told,       \* what a listener of settingChanged has read of each setting
    running     \* whether the program runs: a refused foreign key ends it

managerVars == <<defs, stored, rows, told, running>>

-----------------------------------------------------------------------------
(* Reading                                                                  *)

FindDefinition(k) == defs[k]

\* What the getter of a kind in SQLStorageManager reads for a plain setting.
StoredValue(k, kind) ==
    IF stored[k].kind = kind /\ kind \in PlainKinds THEN stored[k].value ELSE None

\* The id getters read the tuple of the setting.
StoredId(k, kind) ==
    IF stored[k].kind = kind /\ kind \in ReferenceKinds THEN stored[k].value ELSE None

\* The getters of SettingsManager, when asked for the type of the definition.
Value(k) ==
    LET d == FindDefinition(k)
        v == IF d.kind \in PlainKinds THEN StoredValue(k, d.kind) ELSE StoredId(k, d.kind)
    IN  IF v = None THEN d.default ELSE v

\* What there is to be read through the public getters.
Reading == [k \in Keys |-> Value(k)]

-----------------------------------------------------------------------------
(* Changing                                                                 *)

\* A slot connected to settingChanged or settingDomainDefined reads again the
\* settings it is told about.
Tell(K) == told' = [k \in Keys |-> IF k \in K THEN Reading'[k] ELSE told[k]]

IsValid(d, v) == d.kind \in ReferenceKinds \/ v \in d.valid

\* validate(): the setting has to be defined, of that type, and the value valid.
Accepts(k, kind, v) ==
    LET d == FindDefinition(k)
    IN  d.kind = kind /\ IsValid(d, v)

\* The foreign key of the tuple of a setting.
RowIsThere(kind, v) == kind \in ReferenceKinds => [kind |-> kind, id |-> v] \in rows

\* set...Setting: nothing happens if the value is not accepted, and the program
\* ends if it is the id of no row.
SetSetting(k, kind, v) ==
    IF Accepts(k, kind, v)
    THEN /\ running' = RowIsThere(kind, v)
         /\ stored' = [stored EXCEPT ![k] = IF running' THEN [kind |-> kind, value |-> v] ELSE @]
         /\ UNCHANGED <<defs, rows>>
         /\ Tell(IF running' THEN {k} ELSE {})
    ELSE UNCHANGED managerVars

\* Faulty variant: the two signals are not connected.
OnSettingDeletedIsLost(K) == Tell({})

\* StorageManager::settingDeleted is passed on as settingChanged.
OnSettingDeleted(K) == Tell(K)

\* resetSetting().  The signal comes from the storage, when there was a tuple.
ResetSetting(k) ==
    /\ stored' = [stored EXCEPT ![k] = IF FindDefinition(k) # Undefined THEN NotStored ELSE @]
    /\ UNCHANGED <<defs, rows, running>>
    /\ OnSettingDeleted({i \in {k} : stored'[i] # stored[i]})

\* The settings whose row goes: their tuples go with it.
Lost(gone) ==
    {k \in Keys : \E r \in gone : stored[k] = [kind |-> r.kind, value |-> r.id]}

DeleteRows(gone) ==
    /\ rows' = rows \ gone
    /\ stored' = [k \in Keys |-> IF k \in Lost(gone) THEN NotStored ELSE stored[k]]
    /\ UNCHANGED <<defs, running>>
    /\ OnSettingDeleted(Lost(gone))

StoreRow(row) ==
    /\ rows' = rows \cup {row}
    /\ UNCHANGED <<defs, stored, told, running>>

\* defineSettingDomain() replaces all the definitions of a domain.
DefineSettingDomain(plan) ==
    /\ defs' = [k \in Keys |-> IF k \in DOMAIN plan.settings THEN plan.settings[k]
                               ELSE IF DomainOf[k] = plan.domain THEN Undefined
                               ELSE defs[k]]
    /\ UNCHANGED <<stored, rows, running>>
    /\ Tell(KeysOf(plan.domain))

\* A database as an earlier run of the program left it, before any definition.
ManagerInit ==
    /\ rows \in SUBSET Rows
    /\ stored = [k \in Keys |-> NotStored]
    /\ defs = [k \in Keys |-> Undefined]
    /\ told = [k \in Keys |-> None]
    /\ running = TRUE

=============================================================================
