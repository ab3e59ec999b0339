------------------------------- MODULE Clients -------------------------------
(***************************************************************************)
(* The storage and the Qt item models that mirror it: the CertificateModel *)
(* and the HistoricServerConnectionModel of the ConfigWidget               *)
(* (ConfigWidget.cpp), the LayoutSelectorModel of every DataViewer         *)
(* (DataViewer.cpp), and what the user does with them.  The ConfigWidget   *)
(* is there from start to end: its tab, AddActivity, cannot be closed.     *)
(*                                                                         *)
(* A model reads the tables when it is created and from then on only hears *)
(* signals.  It answers a Deleted signal with removeRow, the very function *)
(* the user's removal calls, so it deletes the row from the storage again, *)
(* in the middle of the emission.  Storage leaves the slots of a signal    *)
(* open; here they are the slots of the open models, and Storage's steps   *)
(* are reused.  Models are called in any order: Qt calls them in the order *)
(* they were created, which is any order too.                              *)
(***************************************************************************)
EXTENDS Storage

CONSTANTS
    ConfigWidget,   \* the configuration widget
    DataViewers,    \* bound: the DataViewers that may be open at once
    ViewScope       \* s_layout_group and s_storage_domain of the DataViewer

ASSUME ClientsAssumption == ViewScope \in Scopes /\ ConfigWidget \notin DataViewers

Views ==
    [owner : {ConfigWidget}, rel : {"ApplicationCertificate", "HistoricServerConnection"}]
    \cup [owner : DataViewers, rel : {"Layout"}]

VARIABLES
    open,     \* the widgets that exist while the program runs
    model,    \* the objects each item model holds
    waiting,  \* for each Slots frame of todo, the models that have not been called yet
    handler   \* what is left of the user's request after the storage call in progress

clients    == <<open, model, waiting, handler>>
clientVars == <<vars, clients>>

Done        == [step |-> "none", old |-> NoRef]
OpensViewer == [step |-> "open", old |-> NoRef]
Replaces(h) == [step |-> "delete", old |-> h]

Shows(v, o) == o.rel = v.rel /\ o.scope \in {NoScope, ViewScope}
Listeners(o) == {v \in Views : v.owner \in open /\ Shows(v, o)}

-----------------------------------------------------------------------------
(* Signals.                                                                *)

\* A storage step that begins an emission puts a Slots frame on the stack.
Hear ==
    waiting' = IF todo' # <<>> /\ Head(todo').op = "slots" /\ Len(todo') >= Len(todo)
               THEN <<Listeners(Head(todo').object)>> \o waiting
               ELSE waiting

CallProceeds ==
    /\ \/ StoreAppCertKey \/ StoreAppCert
       \/ ClearRevokedList \/ StoreListed \/ AnnounceConnection
       \/ DrainMonitor \/ Deliver
    /\ Hear
    /\ UNCHANGED <<open, model, handler>>

SlotDone(v) == waiting' = <<Head(waiting) \ {v}>> \o Tail(waiting)

\* Faulty variant: the entry is erased before its id is read.
RemoveRowsDeletesNext(o) == [o EXCEPT !.id = @ + 1]

\* What removeRows of a model passes to the storage; CertificateModel::removeRows
\* hands the id of its certificate to deleteHistoricServerConnection.
RemoveRowsDeletes(o) ==
    IF o.rel = "ApplicationCertificate" THEN Row("HistoricServerConnection", o.id) ELSE o

\* The on...Changed slot of one model.
SlotAdds(v) ==
    /\ Pending("slots") /\ v \in Head(waiting)
    /\ Head(todo).change = "Created"
    /\ model' = [model EXCEPT ![v] = @ \cup {Head(todo).object}]
    /\ SlotDone(v)
    /\ UNCHANGED <<vars, open, handler>>

\* Faulty variant: the slot does not cope with an object it no longer holds.
SlotIgnoresOnlyLive(v) ==
    /\ Pending("slots") /\ v \in Head(waiting)
    /\ Head(todo).change = "Deleted" /\ Head(todo).object \in rows \ model[v]
    /\ SlotDone(v)
    /\ UNCHANGED <<vars, open, model, handler>>

\* removeRow(-1): the model does not hold the object, for instance because the
\* user has just removed it there.
SlotIgnores(v) ==
    /\ Pending("slots") /\ v \in Head(waiting)
    /\ Head(todo).change = "Deleted" /\ Head(todo).object \notin model[v]
    /\ SlotDone(v)
    /\ UNCHANGED <<vars, open, model, handler>>

\* Faulty variant: the storage is called but the entry stays.
SlotRemovesFromStorageOnly(v) ==
    /\ SlotMayCall /\ v \in Head(waiting)
    /\ Head(todo).object \in model[v]
    /\ Delete(RemoveRowsDeletes(Head(todo).object))
    /\ SlotDone(v)
    /\ UNCHANGED <<open, model, handler>>

\* removeRow: the entry is erased, then the storage is called.
SlotRemoves(v) ==
    /\ SlotMayCall /\ v \in Head(waiting)
    /\ Head(todo).object \in model[v]
    /\ model' = [model EXCEPT ![v] = @ \ {Head(todo).object}]
    /\ Delete(RemoveRowsDeletes(Head(todo).object))
    /\ SlotDone(v)
    /\ UNCHANGED <<open, handler>>

EmissionEnds ==
    /\ SlotsReturn
    /\ Head(waiting) = {}
    /\ waiting' = Tail(waiting)
    /\ UNCHANGED <<open, model, handler>>

-----------------------------------------------------------------------------
(* The user.                                                               *)

AtRest == Idle /\ handler = Done

\* The model reads the tables in its constructor.
ReadTables(w) ==
    /\ open'  = open \cup {w}
    /\ model' = [v \in Views |-> IF v.owner = w THEN {o \in rows : Shows(v, o)} ELSE model[v]]

\* The tab of a DataViewer is closed.
Close(w) ==
    /\ AtRest /\ w \in open \ {ConfigWidget}
    /\ open'  = open \ {w}
    /\ model' = [v \in Views |-> IF v.owner = w THEN {} ELSE model[v]]
    /\ UNCHANGED <<vars, waiting, handler>>

\* Certificate::saveCertificate.
CreateCertificate ==
    /\ AtRest
    /\ StoreCertificate /\ Len(todo') = 2     \* the key follows
    /\ Hear
    /\ UNCHANGED <<open, model, handler>>

\* The Delete buttons of the Settings activity, whose lists are rebuilt on every signal.
DeleteInSettings(o) ==
    /\ AtRest
    /\ o \in rows \cap (Certificates \cup Keys)
    /\ Delete(o)
    /\ UNCHANGED clients

\* `Remove selected' in the table of recent connections, `Remove Layout'.
RemoveRow(v, o) ==
    /\ AtRest
    /\ v.rel # "ApplicationCertificate" /\ o \in model[v]
    /\ model' = [model EXCEPT ![v] = @ \ {o}]
    /\ Delete(RemoveRowsDeletes(o))
    /\ UNCHANGED <<open, waiting, handler>>

SaveLayout(v) ==
    /\ AtRest
    /\ v.rel = "Layout" /\ v.owner \in open
    /\ StoreLayout /\ \A o \in rows' \ rows : o.scope = ViewScope
    /\ Hear
    /\ UNCHANGED <<open, model, handler>>

\* record_recent_connection: the certificate in use, no layout, and no lists,
\* for the widget has no way to enter one.
Record(certificates, next) ==
    /\ certificates \subseteq rows            \* build() has loaded it
    /\ StoreConnection
    /\ refs' = refs \cup (rows' \ rows) \X certificates
    /\ \A i \in DOMAIN todo' : todo'[i].op = "insertListed" => todo'[i].certificates = {}
    /\ handler' = next
    /\ UNCHANGED <<open, model, waiting>>

\* ConfigWidget::onConnect, when the server accepts: the combo box has no current
\* item when it is empty or when its first, current item was removed.
Connect(v) ==
    /\ AtRest
    /\ v.rel = "ApplicationCertificate" /\ v.owner \in open
    /\ \/ Record({}, OpensViewer)
       \/ \E a \in model[v] : Record({a}, OpensViewer)

CertificateOf(h) == {a \in AppCerts : <<h, a>> \in refs}

\* Faulty variant: the application certificate is not passed on to the builder.
ActivateWithoutCertificate(v, h) ==
    /\ AtRest
    /\ v.rel = "HistoricServerConnection" /\ h \in model[v]
    /\ Record({}, Replaces(h))

\* Activation of a recent connection: stored anew under a new id, then the old
\* row is deleted, then a DataViewer is opened.
Activate(v, h) ==
    /\ AtRest
    /\ v.rel = "HistoricServerConnection" /\ h \in model[v]
    /\ Record(CertificateOf(h), Replaces(h))

DeleteOld ==
    /\ Idle /\ handler.step = "delete"
    /\ Delete(handler.old)
    /\ handler' = OpensViewer
    /\ UNCHANGED <<open, model, waiting>>

OpenViewer ==
    /\ Idle /\ handler = OpensViewer
    /\ handler' = Done
    /\ \/ \E w \in DataViewers \ open : ReadTables(w)
       \/ DataViewers \subseteq open /\ UNCHANGED <<open, model>>   \* the bound
    /\ UNCHANGED <<vars, waiting>>

-----------------------------------------------------------------------------
NoModels == [v \in Views |-> {}]

ClientInit ==
    /\ Init
    /\ open = {ConfigWidget} /\ model = NoModels /\ waiting = <<>> /\ handler = Done

ClientProgress ==
    \/ CallProceeds
    \/ \E v \in Views : SlotAdds(v) \/ SlotIgnores(v) \/ SlotRemoves(v)
    \/ EmissionEnds
    \/ DeleteOld \/ OpenViewer

UserRequest ==
    \/ \E w \in DataViewers : Close(w)
    \/ CreateCertificate
    \/ \E o \in Objects : DeleteInSettings(o)
    \/ \E v \in Views : \/ SaveLayout(v) \/ Connect(v)
                        \/ \E o \in model[v] : RemoveRow(v, o) \/ Activate(v, o)

ClientNext == ClientProgress \/ UserRequest

\* All of ClientProgress is the same thread running on: weak fairness.
ClientSpec == ClientInit /\ [][ClientNext]_clientVars /\ WF_clientVars(ClientProgress)

-----------------------------------------------------------------------------
(* Properties.                                                             *)

ClientTypeOK ==
    /\ TypeOK
    /\ open \subseteq {ConfigWidget} \cup DataViewers
    /\ model \in [Views -> SUBSET Objects]
    /\ waiting \in Seq(SUBSET Views)
    /\ handler \in {Done, OpensViewer} \cup {Replaces(h) : h \in Connections}

\* Between requests every open view shows exactly the rows of its table,
\* whatever was deleted under it by a cascade, by another view or by itself
\* (onApplicationCertificateChanged, onHistoricServerConnectionChanged, onLayoutChanged).
ModelsInSync ==
    AtRest => \A v \in Views : v.owner \in open => model[v] = {o \in rows : Shows(v, o)}

\* The views delete inside the emission that tells them of a deletion, and that
\* deletion emits again; the nesting ends after two levels however many views
\* are open (handleDeleteMonitor empties the monitor before it emits).
NestingIsBounded == Len(todo) <= 5

\* The storage's assumption on its listeners holds for these: every emission
\* returns, and every call (FairSpec of Storage).
SlotsKeepTheContract == FairSpec

\* A model that hears of the removal of a recent connection or of a layout
\* takes nothing else out of the storage.
RemovesNothingElse ==
    [][Pending("slots") /\ Head(todo).object.rel # "ApplicationCertificate"
          => rows \subseteq rows']_clientVars

\* deleteHistoricServerConnection is passed `The id of the HistoricServerConnection'
\* (StorageManager.hpp:225-228), so hearing of the removal of a certificate
\* takes no recent connection out of the storage.
KeepsOtherConnections ==
    [][Pending("slots") /\ Head(todo).object.rel = "ApplicationCertificate"
          => rows \cap Connections \subseteq rows']_clientVars

\* A recent connection that is activated is never lost: until the old row is
\* deleted there is a new one with the same certificate beside it, so that a
\* kill in between leaves two and never none (record_recent_connection).
ReplacedBeforeDeleted ==
    handler.old \in rows =>
        \E h \in (rows \cap Connections) \ {handler.old} :
            CertificateOf(h) = CertificateOf(handler.old)
=============================================================================
