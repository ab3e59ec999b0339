------------------------------- MODULE Storage -------------------------------
(***************************************************************************)
(* SQLStorageManager (SQLStorageManager.cpp): the SQLite database of       *)
(* magnesia and the calls that change it.                                  *)
(*                                                                         *)
(* Every SQL statement commits on its own, so a call is a sequence of      *)
(* steps, one per statement, and the process can end between two of them.  *)
(* A signal is delivered inside the call that emits it: while its slots    *)
(* run they may call the storage again, so the calls in progress form a    *)
(* stack, `todo', whose head is the next thing the program does.           *)
(*                                                                         *)
(* The tuples of the seven relations with a deletion trigger are the       *)
(* objects of the model.  `refs' holds the foreign keys between them,      *)
(* `typed' the tuples of the ten XSetting relations, `listed' the trust    *)
(* and revocation lists, `monitor' the tuples of TupleDeleteMonitor.       *)
(***************************************************************************)
EXTENDS Integers, Sequences

CONSTANTS
    SettingNames,   \* names of settings
    KvNames,        \* keys of key-value pairs
    Scopes,         \* domains; for a layout, a layout group and its domain
    NoScope,        \* the scope of an object that is identified by its id alone
    NoRef,          \* the value of a setting that is not the id of an object
    Kinds,          \* the setting types in use, a subset of SettingKinds
    MaxRowid,       \* bound: the highest id of each relation that has ids
    MaxCrashes,     \* bound: how often the process is killed
    MaxDepth,       \* bound: how many frames the call stack may hold
    StaleIds        \* whether callers may pass the id of a row that is gone

IdRelations == {"Certificate", "Key", "ApplicationCertificate",
                "HistoricServerConnection", "Layout"}

PlainKinds == {"Boolean", "String", "Int", "Double", "Enum"}
SettingKinds == PlainKinds \cup IdRelations   \* a reference kind is named after its relation

-----------------------------------------------------------------------------
(* Objects: the tuples of the relations that have a deletion trigger.      *)

Row(r, i)          == [rel |-> r, id |-> i, scope |-> NoScope]
Layout(i, s)       == [rel |-> "Layout", id |-> i, scope |-> s]
Setting(n, s)      == [rel |-> "Setting", id |-> n, scope |-> s]
KeyValue(n, s)     == [rel |-> "KeyValue", id |-> n, scope |-> s]

Certificates == {Row("Certificate", i) : i \in 1..MaxRowid["Certificate"]}
Keys         == {Row("Key", i) : i \in 1..MaxRowid["Key"]}
AppCerts     == {Row("ApplicationCertificate", i) : i \in 1..MaxRowid["ApplicationCertificate"]}
Connections  == {Row("HistoricServerConnection", i) : i \in 1..MaxRowid["HistoricServerConnection"]}
Layouts      == {Layout(i, s) : i \in 1..MaxRowid["Layout"], s \in Scopes}
Settings     == {Setting(n, s) : n \in SettingNames, s \in Scopes}
KeyValues    == {KeyValue(n, s) : n \in KvNames, s \in Scopes}

IdObjects == Certificates \cup Keys \cup AppCerts \cup Connections \cup Layouts
Objects   == IdObjects \cup Settings \cup KeyValues

ASSUME StorageAssumption ==
    /\ Kinds \subseteq SettingKinds
    /\ MaxRowid \in [IdRelations -> Nat]
    /\ MaxCrashes \in Nat
    /\ MaxDepth \in Nat
    /\ StaleIds \in BOOLEAN
    /\ NoScope \notin Scopes
    /\ NoRef \notin Objects

TypedTuples  == [key : Settings, kind : SettingKinds, ref : IdObjects \cup {NoRef}]
ListedTuples == [list : {"trust", "revoked"}, connection : Connections, certificate : Certificates]
Bags         == [Objects -> Nat]
NoTuples     == [o \in Objects |-> 0]

VARIABLES
    rows,     \* the objects in the database
    refs,     \* foreign keys between objects: pairs <<referrer, referenced>>
    typed,    \* tuples of the BooleanSetting, ..., LayoutSetting relations
    listed,   \* tuples of the trust list and revoked list relations
    monitor,  \* TupleDeleteMonitor: how many tuples name each object
    todo,     \* the stack of calls in progress, head first
    up,       \* whether the process runs
    crashes,  \* how often it has been killed
    known     \* what the signals, and a fresh read at start, told the listeners

database == <<rows, refs, typed, listed, monitor>>
vars     == <<rows, refs, typed, listed, monitor, todo, up, crashes, known>>

-----------------------------------------------------------------------------
(* Frames of the call stack.                                               *)

Drain                 == [op |-> "drain"]
DeliverAll(bag)       == [op |-> "deliver", gone |-> bag]
Slots(o, change)      == [op |-> "slots", object |-> o, change |-> change]
InsertKey(c)          == [op |-> "insertKey", certificate |-> c]
InsertAppCert(c, k)   == [op |-> "insertAppCert", certificate |-> c, key |-> k]
ClearRevoked(h)       == [op |-> "clearRevoked", connection |-> h]
InsertListed(l, h, C) == [op |-> "insertListed", list |-> l, connection |-> h, certificates |-> C]
Announce(h, T, R)     == [op |-> "announce", connection |-> h, trust |-> T, revoked |-> R]
InsertTyped(t)        == [op |-> "insertTyped", tuple |-> t]

Frames ==
    {Drain}
    \cup [op : {"deliver"}, gone : Bags]
    \cup [op : {"slots"}, object : Objects, change : {"Created", "Modified", "Deleted"}]
    \cup [op : {"insertKey"}, certificate : Certificates]
    \cup [op : {"insertAppCert"}, certificate : Certificates, key : Keys]
    \cup [op : {"clearRevoked"}, connection : Connections]
    \cup [op : {"insertListed"}, list : {"trust", "revoked"},
          connection : Connections, certificates : SUBSET Certificates]
    \cup [op : {"announce"}, connection : Connections,
          trust : SUBSET Certificates, revoked : SUBSET Certificates]
    \cup [op : {"insertTyped"}, tuple : TypedTuples]

Idle      == up /\ todo = <<>>
Pending(op) == up /\ todo # <<>> /\ Head(todo).op = op

\* The slots that call the storage back only do so on a deletion.
SlotMayCall == Pending("slots") /\ Head(todo).change = "Deleted" /\ Len(todo) < MaxDepth

-----------------------------------------------------------------------------
(* SQL statements.                                                         *)

IdsOf(r) == {o.id : o \in {p \in rows : p.rel = r}}

\* The id of a new row, `INTEGER PRIMARY KEY' without AUTOINCREMENT: one more
\* than the highest id in use, so the highest id is given again once its row is gone.
IsNextRowid(r, i) ==
    /\ i \in 1..MaxRowid[r]
    /\ \A j \in IdsOf(r) : j < i
    /\ i = 1 \/ i - 1 \in IdsOf(r)

\* The bound: a call of several statements only begins if none of them runs
\* out of ids.
IdsAreLeft(r) == \E i \in 1..MaxRowid[r] : IsNextRowid(r, i)

\* The objects with a foreign key on one of S.
Referrers(S) ==
    {e[1] : e \in {f \in refs : f[2] \in S}} \cup {t.key : t \in {u \in typed : u.ref \in S}}

\* Faulty variant: a CASCADE clause is missing in the middle of the chain.
DoomedOneStep(S) == S \cup Referrers(S)

\* What `ON DELETE CASCADE' and the triggers of the setting relations take
\* along when the rows S are deleted.  The longest chain of foreign keys has
\* three links: Certificate, ApplicationCertificate, HistoricServerConnection,
\* Setting.
Doomed(S) ==
    LET once  == S \cup Referrers(S)
        twice == once \cup Referrers(once)
    IN  twice \cup Referrers(twice)

Count(bag, S) == [o \in Objects |-> IF o \in S THEN bag[o] + 1 ELSE bag[o]]

\* Faulty variant: only the outermost DELETE fires its trigger.
DeleteRowsTellsOnlyFirst(S) ==
    LET gone == Doomed(S) IN
    /\ rows'    = rows \ gone
    /\ refs'    = {e \in refs : e[1] \notin gone}
    /\ typed'   = {t \in typed : t.key \notin gone}
    /\ listed'  = {l \in listed : {l.connection, l.certificate} \cap gone = {}}
    /\ monitor' = Count(monitor, S)

\* Faulty variant: the XSetting relations have no trigger that deletes the Setting.
DeleteRowsLeavesSettings(S) ==
    LET gone == Doomed(S) IN
    /\ rows'    = rows \ (gone \ (Settings \ S))
    /\ refs'    = {e \in refs : e[1] \notin gone}
    /\ typed'   = {t \in typed : t.key \notin gone}
    /\ listed'  = {l \in listed : {l.connection, l.certificate} \cap gone = {}}
    /\ monitor' = Count(monitor, gone)

\* DELETE of the rows S, with its cascade; the delete triggers fill the monitor.
DeleteRows(S) ==
    LET gone == Doomed(S) IN
    /\ rows'    = rows \ gone
    /\ refs'    = {e \in refs : e[1] \notin gone}
    /\ typed'   = {t \in typed : t.key \notin gone}
    /\ listed'  = {l \in listed : {l.connection, l.certificate} \cap gone = {}}
    /\ monitor' = Count(monitor, gone)

\* INSERT of an object with foreign keys on the objects T.
InsertRow(o, T) ==
    /\ rows' = rows \cup {o}
    /\ refs' = refs \cup {<<o, p>> : p \in T}
    /\ UNCHANGED <<typed, listed, monitor>>

\* Control reaches the emission of a signal: the listeners are told.
Tell(o, change, rest) ==
    /\ todo'  = <<Slots(o, change)>> \o rest
    /\ known' = IF change = "Deleted" THEN known \ {o} ELSE known \cup {o}

\* terminate(), or the process is killed: the memory is lost, the database is not.
Stop == up' = FALSE /\ todo' = <<>> /\ known' = {}

-----------------------------------------------------------------------------
(* The store calls.                                                        *)

\* storeCertificate, called alone or as the first step of storeApplicationCertificate.
StoreCertificate ==
    /\ Idle
    /\ \E i \in 1..MaxRowid["Certificate"], rest \in {"none", "key"} :
        LET c == Row("Certificate", i) IN
        /\ IsNextRowid("Certificate", i)
        /\ rest = "key" => IdsAreLeft("Key") /\ IdsAreLeft("ApplicationCertificate")
        /\ InsertRow(c, {})
        /\ Tell(c, "Created", IF rest = "key" THEN <<InsertKey(c)>> ELSE <<>>)
    /\ UNCHANGED <<up, crashes>>

StoreKey ==
    /\ Idle
    /\ \E i \in 1..MaxRowid["Key"] :
        /\ IsNextRowid("Key", i)
        /\ InsertRow(Row("Key", i), {})
        /\ Tell(Row("Key", i), "Created", <<>>)
    /\ UNCHANGED <<up, crashes>>

\* storeApplicationCertificate, second statement: its key.
StoreAppCertKey ==
    /\ Pending("insertKey")
    /\ \E i \in 1..MaxRowid["Key"] :
        LET k == Row("Key", i) IN
        /\ IsNextRowid("Key", i)
        /\ InsertRow(k, {})
        /\ Tell(k, "Created", <<InsertAppCert(Head(todo).certificate, k)>> \o Tail(todo))
    /\ UNCHANGED <<up, crashes>>

\* storeApplicationCertificate, third statement.
StoreAppCert ==
    /\ Pending("insertAppCert")
    /\ \E i \in 1..MaxRowid["ApplicationCertificate"] :
        LET a == Row("ApplicationCertificate", i)
            needed == {Head(todo).certificate, Head(todo).key} IN
        /\ IsNextRowid("ApplicationCertificate", i)
        /\ needed \subseteq rows
        /\ InsertRow(a, needed)
        /\ Tell(a, "Created", Tail(todo))
    /\ UNCHANGED <<up, crashes>>

StoreLayout ==
    /\ Idle
    /\ \E i \in 1..MaxRowid["Layout"], s \in Scopes :
        /\ IsNextRowid("Layout", i)
        /\ InsertRow(Layout(i, s), {})
        /\ Tell(Layout(i, s), "Created", <<>>)
    /\ UNCHANGED <<up, crashes>>

\* The certificates a caller may name in the lists.
Choosable == IF StaleIds THEN Certificates ELSE Certificates \cap rows

\* Faulty variant: the lists are stored in the other order, and storing the
\* trust list empties the revoked list.
StoreConnectionRevokedFirst ==
    /\ Idle
    /\ \E i \in 1..MaxRowid["HistoricServerConnection"],
          a \in SUBSET (AppCerts \cap rows), T \in SUBSET Choosable, R \in SUBSET Choosable :
        LET h == Row("HistoricServerConnection", i) IN
        /\ IsNextRowid("HistoricServerConnection", i)
        /\ \A x, y \in a : x = y
        /\ InsertRow(h, a)
        /\ todo' = <<ClearRevoked(h), InsertListed("revoked", h, R),
                     ClearRevoked(h), InsertListed("trust", h, T), Announce(h, T, R)>>
    /\ UNCHANGED <<up, crashes, known>>

\* storeHistoricServerConnection: the row, then the two lists, then the signal.
StoreConnection ==
    /\ Idle
    /\ \E i \in 1..MaxRowid["HistoricServerConnection"],
          a \in SUBSET (AppCerts \cap rows), l \in SUBSET (Layouts \cap rows),
          T \in SUBSET Choosable, R \in SUBSET Choosable :
        LET h == Row("HistoricServerConnection", i) IN
        /\ IsNextRowid("HistoricServerConnection", i)
        /\ \A x, y \in a : x = y          \* at most one, both are optional
        /\ \A x, y \in l : x = y
        /\ InsertRow(h, a \cup l)
        /\ todo' = <<ClearRevoked(h), InsertListed("trust", h, T),
                     ClearRevoked(h), InsertListed("revoked", h, R), Announce(h, T, R)>>
    /\ UNCHANGED <<up, crashes, known>>

\* Both setHistoricServerConnectionTrustList and ...RevokedList start by
\* deleting the revoked list.
ClearRevokedList ==
    /\ Pending("clearRevoked")
    /\ listed' = {l \in listed : ~(l.list = "revoked" /\ l.connection = Head(todo).connection)}
    /\ todo' = Tail(todo)
    /\ UNCHANGED <<rows, refs, typed, monitor, up, crashes, known>>

\* One turn of the loop over the certificates of a list, or its end.
StoreListed ==
    /\ Pending("insertListed")
    /\ LET f == Head(todo) IN
        \/ /\ f.certificates = {}
           /\ todo' = Tail(todo)
           /\ UNCHANGED listed
        \/ \E c \in f.certificates \cap rows :
           /\ listed' = listed \cup {[list |-> f.list, connection |-> f.connection, certificate |-> c]}
           /\ todo' = <<InsertListed(f.list, f.connection, f.certificates \ {c})>> \o Tail(todo)
    /\ UNCHANGED <<rows, refs, typed, monitor, up, crashes, known>>

AnnounceConnection ==
    /\ Pending("announce")
    /\ Tell(Head(todo).connection, "Created", Tail(todo))
    /\ UNCHANGED <<rows, refs, typed, listed, monitor, up, crashes>>

\* A foreign key names no row: SQLite refuses the statement and the program
\* calls terminate().
ForeignKeyFails ==
    /\ \/ /\ Pending("insertAppCert")
          /\ ~({Head(todo).certificate, Head(todo).key} \subseteq rows)
       \/ /\ Pending("insertListed")
          /\ ~(Head(todo).certificates \subseteq rows)
       \/ /\ Pending("insertTyped")
          /\ Head(todo).tuple.ref \notin rows \cup {NoRef}
    /\ Stop
    /\ UNCHANGED <<rows, refs, typed, listed, monitor, crashes>>

\* storeHistoricServerConnection with the id of an application certificate or
\* of a layout that is gone: its first statement fails.
StoreConnectionRefused ==
    /\ Idle /\ StaleIds
    /\ ~(AppCerts \cup Layouts \subseteq rows)
    /\ Stop
    /\ UNCHANGED <<rows, refs, typed, listed, monitor, crashes>>

-----------------------------------------------------------------------------
(* Key-value pairs and settings.                                           *)

\* setKV: REPLACE fires no delete trigger, so the monitor is not involved.
SetKV ==
    /\ Idle
    /\ \E o \in KeyValues :
        /\ InsertRow(o, {})
        /\ Tell(o, "Modified", <<>>)
    /\ UNCHANGED <<up, crashes>>

\* Faulty variant: an upsert instead of a REPLACE, which leaves the old value.
SetSettingKeepsOldValue ==
    /\ Idle
    /\ \E k \in Settings, kind \in Kinds, r \in IdObjects \cup {NoRef} :
        /\ IF kind \in PlainKinds THEN r = NoRef ELSE r \in rows /\ r.rel = kind
        /\ kind = "Layout" => r.scope = k.scope
        /\ rows' = rows \cup {k}
        /\ todo' = <<InsertTyped([key |-> k, kind |-> kind, ref |-> r])>>
    /\ UNCHANGED <<refs, typed, listed, monitor, up, crashes, known>>

\* setGenericSetting, the first statement of each setXSetting: the REPLACE
\* cascades to the tuple that held the old value, whatever its type.
SetSetting ==
    /\ Idle
    /\ \E k \in Settings, kind \in Kinds, r \in IdObjects \cup {NoRef} :
        /\ IF kind \in PlainKinds THEN r = NoRef
           ELSE r # NoRef /\ r.rel = kind /\ (StaleIds \/ r \in rows)
        /\ kind = "Layout" => r.scope = k.scope
        /\ rows'  = rows \cup {k}
        /\ typed' = {t \in typed : t.key # k}
        /\ todo'  = <<InsertTyped([key |-> k, kind |-> kind, ref |-> r])>>
    /\ UNCHANGED <<refs, listed, monitor, up, crashes, known>>

\* The second statement, and the settingChanged signal of the SettingsManager.
StoreTyped ==
    /\ Pending("insertTyped")
    /\ LET t == Head(todo).tuple IN
        /\ t.ref \in rows \cup {NoRef}
        /\ typed' = {u \in typed : u.key # t.key \/ u.kind # t.kind} \cup {t}
        /\ Tell(t.key, "Modified", Tail(todo))
    /\ UNCHANGED <<rows, refs, listed, monitor, up, crashes>>

-----------------------------------------------------------------------------
(* Deletion.                                                               *)

\* deleteCertificate, ..., deleteKV, resetSetting: the DELETE statement, which
\* matches nothing if the row is already gone.
Delete(o) ==
    /\ \/ Idle
       \/ SlotMayCall /\ o \in IdObjects
    /\ DeleteRows({o} \cap rows)
    /\ todo' = <<Drain>> \o todo
    /\ UNCHANGED <<up, crashes, known>>

\* Faulty variant: a SELECT, which leaves the events in the monitor.
DrainMonitorKeepsEvents ==
    /\ Pending("drain")
    /\ todo' = <<DeliverAll(monitor)>> \o Tail(todo)
    /\ UNCHANGED <<rows, refs, typed, listed, monitor, up, crashes, known>>

\* handleDeleteMonitor: DELETE FROM TupleDeleteMonitor RETURNING, copied to
\* memory before the first signal.
DrainMonitor ==
    /\ Pending("drain")
    /\ monitor' = NoTuples
    /\ todo' = <<DeliverAll(monitor)>> \o Tail(todo)
    /\ UNCHANGED <<rows, refs, typed, listed, up, crashes, known>>

\* Faulty variant: one turn too many.
DeliverOnceMore ==
    /\ Pending("deliver")
    /\ \E o \in Objects :
        Tell(o, "Deleted", <<DeliverAll([Head(todo).gone EXCEPT ![o] = @ - 1])>> \o Tail(todo))
    /\ UNCHANGED <<rows, refs, typed, listed, monitor, up, crashes>>

\* One turn of the loop over deleted_tuples (SQLite returns them in an
\* arbitrary order), or its end.
Deliver ==
    /\ Pending("deliver")
    /\ LET gone == Head(todo).gone IN
        \/ /\ gone = NoTuples
           /\ todo' = Tail(todo)
           /\ UNCHANGED known
        \/ \E o \in Objects :
           /\ gone[o] > 0
           /\ Tell(o, "Deleted", <<DeliverAll([gone EXCEPT ![o] = @ - 1])>> \o Tail(todo))
    /\ UNCHANGED <<rows, refs, typed, listed, monitor, up, crashes>>

\* The slots of a signal have run, the emission returns.
SlotsReturn ==
    /\ Pending("slots")
    /\ todo' = Tail(todo)
    /\ UNCHANGED <<rows, refs, typed, listed, monitor, up, crashes, known>>

-----------------------------------------------------------------------------
Crash ==
    /\ up /\ crashes < MaxCrashes
    /\ crashes' = crashes + 1
    /\ Stop
    /\ UNCHANGED database

\* Faulty variant: the listeners start empty.
RestartEmpty ==
    /\ ~up
    /\ up' = TRUE
    /\ UNCHANGED <<rows, refs, typed, listed, monitor, todo, crashes, known>>

\* The constructor on an existing database.  It does not look at the monitor;
\* the listeners are created later and read the tables.
Restart ==
    /\ ~up
    /\ up' = TRUE
    /\ known' = rows
    /\ UNCHANGED <<rows, refs, typed, listed, monitor, todo, crashes>>

Init ==
    /\ rows = {} /\ refs = {} /\ typed = {} /\ listed = {}
    /\ monitor = NoTuples
    /\ todo = <<>>
    /\ up = TRUE
    /\ crashes = 0
    /\ known = {}

\* What the program does by itself, without a new call from outside.
Progress ==
    \/ StoreAppCertKey \/ StoreAppCert
    \/ ClearRevokedList \/ StoreListed \/ AnnounceConnection
    \/ StoreTyped \/ ForeignKeyFails
    \/ DrainMonitor \/ Deliver \/ SlotsReturn

Call ==
    \/ StoreCertificate \/ StoreKey \/ StoreLayout
    \/ StoreConnection \/ StoreConnectionRefused
    \/ SetKV \/ SetSetting
    \/ \E o \in Objects : Delete(o)

Next == Progress \/ Call \/ Crash \/ Restart

Spec == Init /\ [][Next]_vars

\* The calls are synchronous code: once begun they run until they return (weak
\* fairness).  A signal has finitely many slots and each calls the storage at
\* most once, so its emission does not call back forever (strong fairness of
\* its return).  No fairness on new calls, on a kill or on a restart.
FairSpec == Spec /\ WF_vars(Progress) /\ SF_vars(SlotsReturn)

-----------------------------------------------------------------------------
(* Properties.                                                             *)

TypeOK ==
    /\ rows \subseteq Objects
    /\ refs \subseteq Objects \X Objects
    /\ typed \subseteq TypedTuples
    /\ listed \subseteq ListedTuples
    /\ monitor \in Bags
    /\ todo \in Seq(Frames)
    /\ up \in BOOLEAN
    /\ crashes \in Nat
    /\ known \subseteq Objects

\* No tuple refers to a row that is not there, in any state, after any crash:
\* the three-step cascade reaches everything (CREATE TABLE ... ON DELETE CASCADE).
ReferentialIntegrity ==
    /\ \A e \in refs : e[1] \in rows /\ e[2] \in rows
    /\ \A t \in typed : t.key \in rows /\ t.ref \in rows \cup {NoRef}
    /\ \A l \in listed : l.connection \in rows /\ l.certificate \in rows

\* A setting never has values of two types, whatever types it was set with
\* before (StorageManager.hpp:323-328 fears `two settings with the same name
\* and domain for different types').
OneTypePerSetting == \A t, u \in typed : t.key = u.key => t = u

\* Which relation refers to which (the FOREIGN KEY clauses): chains of foreign
\* keys have at most three links.
Layered ==
    \A e \in refs : \/ e[1] \in AppCerts /\ e[2] \in Certificates \cup Keys
                    \/ e[1] \in Connections /\ e[2] \in AppCerts \cup Layouts

\* A call of several statements is not disturbed between them: the row a later
\* statement refers to is still there, a setting has lost its old value before
\* it gets the new one, and no slot runs, so nothing is deleted meanwhile
\* (setXSetting, setHistoricServerConnectionTrustList).
InsertsAreSafe ==
    \A i \in DOMAIN todo :
        /\ todo[i].op = "insertTyped" =>
               /\ Len(todo) = 1
               /\ todo[i].tuple.key \in rows
               /\ \A t \in typed : t.key # todo[i].tuple.key
        /\ todo[i].op = "insertListed" =>
               /\ todo[i].connection \in rows
               /\ \A j \in DOMAIN todo :
                     /\ todo[j].op \in {"clearRevoked", "insertListed", "announce"}
                     /\ todo[j].op = "announce" => j = Len(todo)

\* The invariant that the steps preserve.
Integrity ==
    /\ TypeOK
    /\ Layered
    /\ ReferentialIntegrity
    /\ OneTypePerSetting
    /\ InsertsAreSafe

\* `Settings are implemented as a total partition': between calls every Setting
\* tuple has a tuple in one of the typed relations.
TotalPartition ==
    Idle => \A k \in rows \cap Settings : \E t \in typed : t.key = k

\* Between calls the listeners were told of exactly the objects that exist,
\* cascaded deletions included (handleDeleteMonitor).
ListenersCaughtUp == Idle => known = rows

\* While the slots of a Deleted signal run, the object is gone.
DeletedMeansGone ==
    \A i \in DOMAIN todo :
        todo[i].op = "slots" /\ todo[i].change = "Deleted" => todo[i].object \notin rows

\* When a new connection is announced its two lists are the ones that were
\* passed: nothing is missing, and nothing is inherited from a deleted
\* connection that had the same id.
ListsOf(h, l) == {m.certificate : m \in {n \in listed : n.connection = h /\ n.list = l}}

AnnouncedWithItsLists ==
    Pending("announce") =>
        LET f == Head(todo) IN
        /\ ListsOf(f.connection, "trust") = f.trust
        /\ ListsOf(f.connection, "revoked") = f.revoked

\* A call returns, and the deletions it caused are told by then.
DeletionsAreTold ==
    \A o \in Objects : (up /\ o \in known /\ o \notin rows) ~> (~up \/ o \notin known)
=============================================================================
