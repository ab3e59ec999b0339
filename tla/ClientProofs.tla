----------------------------- MODULE ClientProofs -----------------------------
(***************************************************************************)
(* Theorems about Clients, for every number of rows, viewers and views:    *)
(* the item models that delete in the storage while it tells them of a     *)
(* deletion stay in sync with it, and their calls nest at most twice.      *)
(***************************************************************************)
EXTENDS Clients, StorageProofs

-----------------------------------------------------------------------------
(* The invariant.                                                          *)

\* The emissions in progress, innermost first: where the k-th of them is on the stack.
Place(k)    == IF Head(todo).op = "slots" THEN 2 * k - 1 ELSE 2 * k
Emission(k) == todo[Place(k)]

\* What a view that is told of the end of p deletes while it is told: nothing, but for
\* CertificateModel, which deletes the connection with the id of the certificate.
DeletedFor(p, o) == p.rel = "ApplicationCertificate" /\ o.rel = "HistoricServerConnection"

\* The stack of a request that stores: no slot calls back.
StoringStack ==
    /\ Len(todo) <= 5
    /\ Len(waiting) = IF todo # <<>> /\ Head(todo).op = "slots" THEN 1 ELSE 0
    /\ \A i \in DOMAIN todo :
          /\ ~Deleting(todo[i])
          /\ todo[i].op = "slots" =>
                 i = 1 /\ todo[i].change = "Created" /\ todo[i].object \in rows
          /\ todo[i].op = "insertKey" => i = Len(todo) /\ i <= 2

\* The stack of a deletion: emissions in handleDeleteMonitor in emissions.
DeletionStack ==
    /\ todo # <<>>
    /\ Len(todo) = Place(Len(waiting)) + 1
    /\ \A i \in DOMAIN todo : Deleting(todo[i]) /\ (todo[i].op = "drain" => i = 1)
    /\ \A k \in DOMAIN waiting : Emission(k).op = "slots" /\ todo[Place(k) + 1].op = "deliver"

\* An emission inside another one tells of something its slots have deleted.
NestingInv ==
    \A i \in DOMAIN todo :
        /\ todo[i].op = "drain" /\ i + 1 \in DOMAIN todo =>
               \A o \in Objects : monitor[o] > 0 => DeletedFor(todo[i + 1].object, o)
        /\ todo[i].op = "deliver" /\ i + 1 \in DOMAIN todo =>
               \A o \in Objects : todo[i].gone[o] > 0 => DeletedFor(todo[i + 1].object, o)
        /\ todo[i].op = "slots" /\ i + 2 \in DOMAIN todo =>
               DeletedFor(todo[i + 2].object, todo[i].object)

\* Only views that are open and show the object are called.
EmissionsInv == \A k \in DOMAIN waiting : waiting[k] \subseteq Listeners(Emission(k).object)

\* A view is still to be told that an object is gone, or that it is there.
OwedDeletion(v, o) ==
    \/ monitor[o] > 0 \/ ToBeDelivered(o)
    \/ \E k \in DOMAIN waiting :
          Emission(k).change = "Deleted" /\ Emission(k).object = o /\ v \in waiting[k]
OwedCreation(v, o) ==
    \/ \E f \in Range(todo) : f.op = "announce" /\ f.connection = o
    \/ \E k \in DOMAIN waiting :
          Emission(k).change = "Created" /\ Emission(k).object = o /\ v \in waiting[k]

\* The models show the tables, but for what they are still to be told.
SyncInv ==
    \A v \in Views :
        /\ v.owner \notin open => model[v] = {}
        /\ \A o \in model[v] : Shows(v, o) /\ (o \in rows \/ OwedDeletion(v, o))
        /\ v.owner \in open =>
               \A o \in rows : Shows(v, o) => o \in model[v] \/ OwedCreation(v, o)

\* A connection that is being replaced is there, and so is its successor.
HandlerInv ==
    handler.step = "delete" =>
        /\ \A f \in Range(todo) : ~Deleting(f)
        /\ handler.old \in rows
        /\ \E h \in (rows \cap Connections) \ {handler.old} :
              CertificateOf(h) = CertificateOf(handler.old)

StackShape     == StoringStack \/ (DeletionStack /\ NestingInv)
StackOfClients == StackShape /\ EmissionsInv

\* The invariant of the clients.
ClientInv ==
    /\ FeedInv /\ crashes = 0 /\ typed = {}
    /\ ClientTypeOK
    /\ StackOfClients
    /\ SyncInv
    /\ HandlerInv

-----------------------------------------------------------------------------
(* Objects, views and frames.                                              *)

\* An object is of the kind that its relation names.
LEMMA KindsOfObjects ==
    ASSUME NEW o \in Objects
    PROVE  /\ o.rel = "HistoricServerConnection" => o \in Connections
           /\ o.rel = "ApplicationCertificate" => o \in AppCerts
           /\ o.rel = "Layout" => o \in Layouts
  BY DEF Objects, IdObjects, Certificates, Keys, AppCerts, Connections, Layouts, Settings,
         KeyValues, Row, Layout, Setting, KeyValue

\* A view shows one relation.
LEMMA ViewsShow ==
    ASSUME NEW v \in Views
    PROVE  /\ v.rel \in {"ApplicationCertificate", "HistoricServerConnection", "Layout"}
           /\ \A o : Shows(v, o) => o.rel = v.rel
  BY DEF Views, Shows

\* The steps of clients are steps of the storage, and none of them is a kill.
LEMMA ClientStepsAreStorageSteps ==
    ASSUME ClientInv, ClientNext
    PROVE  [Next]_vars /\ crashes' = crashes /\ typed' = {}
<1>0. TypeOK /\ ClientTypeOK /\ typed = {} /\ SyncInv
  BY DEF ClientInv, ClientTypeOK
<1>1. CASE UNCHANGED vars
  BY <1>0, <1>1 DEF vars
<1>2. ASSUME NEW o, Delete(o), o \in Objects
      PROVE  Next /\ crashes' = crashes /\ typed' = {}
  BY <1>0, <1>2 DEF Delete, DeleteRows, Next, Call
<1>3. CASE StoreAppCertKey \/ StoreAppCert \/ ClearRevokedList \/ StoreListed
           \/ AnnounceConnection \/ DrainMonitor \/ Deliver \/ SlotsReturn
  BY <1>0, <1>3
  DEF StoreAppCertKey, StoreAppCert, ClearRevokedList, StoreListed, AnnounceConnection,
      DrainMonitor, Deliver, SlotsReturn, InsertRow, Next, Progress
<1>4. CASE StoreCertificate \/ StoreLayout \/ StoreConnection
  BY <1>0, <1>4 DEF StoreCertificate, StoreLayout, StoreConnection, InsertRow, Next, Call
<1>5. ASSUME NEW v \in Views, SlotRemoves(v)
      PROVE  Next /\ crashes' = crashes /\ typed' = {}
  <2>1. Delete(RemoveRowsDeletes(Head(todo).object)) /\ SlotMayCall
    BY <1>5 DEF SlotRemoves
  <2>2. RemoveRowsDeletes(Head(todo).object) \in IdObjects
    BY <2>1 DEF Delete, Idle, SlotMayCall, Pending
  <2>. QED
    BY <1>2, <2>1, <2>2, RowsAreObjects
<1>6. ASSUME NEW v \in Views, NEW o \in model[v], RemoveRow(v, o)
      PROVE  Next /\ crashes' = crashes /\ typed' = {}
  <2>1. o.rel = v.rel /\ v.rel # "ApplicationCertificate" /\ o \in Objects
    BY <1>0, <1>6, ViewsShow DEF RemoveRow, SyncInv, ClientTypeOK
  <2>. QED
    BY <1>2, <1>6, <2>1 DEF RemoveRow, RemoveRowsDeletes
<1>7. CASE DeleteOld
  <2>1. handler.old \in Connections
    BY <1>0, <1>7 DEF DeleteOld, ClientTypeOK, Done, OpensViewer, Replaces
  <2>. QED
    BY <1>2, <1>7, <2>1, RowsAreObjects DEF DeleteOld
<1>8. ASSUME NEW o \in Objects, DeleteInSettings(o)
      PROVE  Next /\ crashes' = crashes /\ typed' = {}
  BY <1>2, <1>8 DEF DeleteInSettings
<1>9. CASE CallProceeds \/ EmissionEnds
  BY <1>3, <1>9 DEF CallProceeds, EmissionEnds
<1>10. CASE CreateCertificate \/ (\E v \in Views : SaveLayout(v) \/ Connect(v) \/ \E o : Activate(v, o))
  BY <1>4, <1>10 DEF CreateCertificate, SaveLayout, Connect, Activate, Record
<1>11. CASE OpenViewer \/ (\E w \in DataViewers : Close(w)) \/ (\E v \in Views : SlotAdds(v) \/ SlotIgnores(v))
  <2>1. UNCHANGED vars
    BY <1>11 DEF OpenViewer, Close, SlotAdds, SlotIgnores
  <2>. QED
    BY <1>1, <2>1
<1>. QED
  BY <1>5, <1>6, <1>7, <1>8, <1>9, <1>10, <1>11 DEF ClientNext, ClientProgress, UserRequest

-----------------------------------------------------------------------------
(* What a step does to the emissions in progress.                          *)

\* A signal is emitted inside the emissions in progress, ...
Begins(o, change) ==
    /\ waiting' = <<Listeners(o)>> \o waiting
    /\ Emission(1)' = Slots(o, change)
    /\ \A k \in DOMAIN waiting : Emission(k + 1)' = Emission(k)

\* ... they go on, ...
GoOn == \A k \in DOMAIN waiting : Emission(k)' = Emission(k)

\* ... or the innermost of them ends.
Ends ==
    /\ waiting # <<>> /\ waiting' = Tail(waiting) /\ Head(waiting) = {}
    /\ \A k \in DOMAIN waiting' : Emission(k)' = Emission(k + 1)

\* At rest nothing is being told.
LEMMA RestIsQuiet ==
    ASSUME ClientTypeOK, StackOfClients, todo = <<>>
    PROVE  StoringStack /\ waiting = <<>>
  BY DEF ClientTypeOK, StackOfClients, StackShape, StoringStack, DeletionStack

\* While the head of the stack stores, nothing is being told either.
LEMMA StoringIsQuiet ==
    ASSUME ClientTypeOK, StackOfClients, todo # <<>>,
           ~Deleting(Head(todo)), Head(todo).op # "slots"
    PROVE  StoringStack /\ waiting = <<>>
<1>1. todo \in Seq(Frames) /\ waiting \in Seq(SUBSET Views)
  BY DEF ClientTypeOK, TypeOK
<1>2. 1 \in DOMAIN todo /\ todo[1] = Head(todo)
  BY <1>1
<1>. QED
  BY <1>1, <1>2 DEF StackOfClients, StackShape, StoringStack, DeletionStack

\* A request that stores tells of a row.
LEMMA TellingKeepsStack ==
    ASSUME ClientTypeOK, StoringStack, waiting = <<>>, Hear,
           NEW o \in Objects, o \in rows', NEW rest \in Seq(Frames), Tell(o, "Created", rest),
           Len(rest) <= 4, Len(todo) <= Len(rest) + 1,
           \A i \in DOMAIN rest : /\ ~Deleting(rest[i]) /\ rest[i].op # "slots"
                                  /\ rest[i].op = "insertKey" => i = Len(rest) /\ i <= 1
    PROVE  StoringStack' /\ Begins(o, "Created")
<1>. DEFINE f == Slots(o, "Created")
<1>1. f \in Frames /\ f.op = "slots" /\ f.change = "Created" /\ f.object = o /\ ~Deleting(f)
  BY DEF Slots, Frames, Deleting
<1>2. todo' = <<f>> \o rest
  BY DEF Tell
<1>. HIDE DEF f
<1>3. /\ todo' \in Seq(Frames) /\ Len(todo') = Len(rest) + 1 /\ todo'[1] = f
      /\ \A i \in DOMAIN rest : todo'[i + 1] = rest[i]
  BY <1>1, <1>2, PushIsStack
<1>4. todo' # <<>> /\ Head(todo') = f
  BY <1>3
<1>5. waiting' = <<Listeners(o)>> \o waiting /\ Len(waiting') = 1
  BY <1>1, <1>3, <1>4 DEF Hear
<1>6. \A i \in DOMAIN todo' : i = 1 \/ (i - 1 \in DOMAIN rest /\ todo'[i] = rest[i - 1])
  <2>1. \A i \in DOMAIN todo' : i \in 1..Len(rest) + 1
    BY <1>3
  <2>2. \A i \in 1..Len(rest) + 1 : i # 1 => i - 1 \in DOMAIN rest /\ (i - 1) + 1 = i
    OBVIOUS
  <2>. QED
    BY <1>3, <2>1, <2>2
<1>7. StoringStack'
  <2>1. Len(todo') <= 5
    BY <1>3
  <2>2. Len(waiting') = IF todo' # <<>> /\ Head(todo').op = "slots" THEN 1 ELSE 0
    BY <1>1, <1>4, <1>5
  <2>3. \A i \in DOMAIN todo' :
           /\ ~Deleting(todo'[i])
           /\ todo'[i].op = "slots" => i = 1 /\ todo'[i].change = "Created" /\ todo'[i].object \in rows'
           /\ todo'[i].op = "insertKey" => i = Len(todo') /\ i <= 2
    BY <1>1, <1>3, <1>6
  <2>. QED
    BY <2>1, <2>2, <2>3 DEF StoringStack, Deleting
<1>8. Emission(1)' = f
  BY <1>1, <1>3, <1>4 DEF Emission, Place
<1>. QED
  BY <1>5, <1>7, <1>8 DEF Begins, f

\* What a stack that only stores is after its head.
LEMMA StoringTail ==
    ASSUME todo \in Seq(Frames), todo # <<>>, StoringStack
    PROVE  /\ Tail(todo) \in Seq(Frames) /\ Len(Tail(todo)) = Len(todo) - 1 /\ Len(todo) \in 1..5
           /\ \A i \in DOMAIN Tail(todo) :
                 /\ ~Deleting(Tail(todo)[i]) /\ Tail(todo)[i].op # "slots"
                 /\ Tail(todo)[i].op = "insertKey" => i = Len(Tail(todo)) /\ i <= 1
<1>1. /\ Tail(todo) \in Seq(Frames) /\ Len(Tail(todo)) = Len(todo) - 1
      /\ \A i \in DOMAIN Tail(todo) : i + 1 \in DOMAIN todo /\ Tail(todo)[i] = todo[i + 1]
  BY PopIsStack
<1>. DEFINE rest == Tail(todo)
<1>. HIDE DEF rest
<1>3. rest \in Seq(Frames) /\ Len(rest) = Len(todo) - 1 /\ \A i \in DOMAIN rest : i \in Nat \ {0}
  BY <1>1 DEF rest
<1>2. Len(todo) \in 1..5
  <2>1. Len(rest) \in Nat /\ Len(todo) \in Nat /\ Len(todo) <= 5
    BY <1>3 DEF StoringStack
  <2>. QED
    BY <1>3, <2>1, SMTT(30)
<1>4. \A i \in DOMAIN rest : /\ ~Deleting(rest[i]) /\ rest[i].op # "slots"
                             /\ rest[i].op = "insertKey" => i = Len(rest) /\ i <= 1
  <2>. SUFFICES ASSUME NEW i \in DOMAIN rest
                PROVE  /\ ~Deleting(rest[i]) /\ rest[i].op # "slots"
                       /\ rest[i].op = "insertKey" => i = Len(rest) /\ i <= 1
    OBVIOUS
  <2>1. i + 1 \in DOMAIN todo /\ rest[i] = todo[i + 1] /\ i \in Nat /\ i # 0
    BY <1>1, <1>3 DEF rest
  <2>2. i + 1 # 1
    BY <2>1
  <2>3. ~Deleting(rest[i]) /\ rest[i].op # "slots"
    BY <2>1, <2>2 DEF StoringStack
  <2>4. rest[i].op = "insertKey" => i + 1 = Len(todo) /\ i + 1 <= 2
    BY <2>1 DEF StoringStack
  <2>. QED
    BY <1>2, <1>3, <2>1, <2>3, <2>4
<1>. QED
  BY <1>1, <1>2, <1>4 DEF rest

-----------------------------------------------------------------------------
(* Requests that store.                                                    *)

\* A row is there, and the views that are open are being told.
RowIsTold(o) ==
    /\ o \in Objects /\ rows' = rows \cup {o}
    /\ StoringStack /\ StoringStack' /\ waiting = <<>>
    /\ Begins(o, "Created")
    /\ \A f \in Range(todo) : f.op = "announce" => f \in Range(todo') \/ f.connection = o

\* The first statement of a request that stores.
LEMMA RequestsTell ==
    ASSUME ClientInv, CreateCertificate \/ \E v \in Views : SaveLayout(v)
    PROVE  \E o : RowIsTold(o)
<1>0. ClientTypeOK /\ StackOfClients /\ waiting \in Seq(SUBSET Views)
  BY DEF ClientInv, ClientTypeOK
<1>1. todo = <<>> /\ Hear /\ (StoreCertificate \/ StoreLayout)
  BY DEF CreateCertificate, SaveLayout, AtRest, Idle
<1>2. StoringStack /\ waiting = <<>>
  BY <1>0, <1>1, RestIsQuiet
<1>3. \A f \in Range(todo) : f.op # "announce"
  BY <1>1, NoFrames
<1>4. ASSUME NEW o \in Objects, NEW rest \in Seq(Frames), rows' = rows \cup {o},
             Tell(o, "Created", rest), Len(rest) <= 1,
             \A i \in DOMAIN rest : ~Deleting(rest[i]) /\ rest[i].op # "slots"
      PROVE  \E p : RowIsTold(p)
  <2>1. \A i \in DOMAIN rest : i = Len(rest) /\ i <= 1
    BY <1>4
  <2>2. Len(rest) <= 4 /\ Len(todo) <= Len(rest) + 1
    BY <1>1, <1>4
  <2>3. StoringStack' /\ Begins(o, "Created")
    BY <1>0, <1>1, <1>2, <1>4, <2>1, <2>2, TellingKeepsStack
  <2>. QED
    BY <1>2, <1>3, <1>4, <2>3 DEF RowIsTold
<1>5. CASE StoreCertificate
  <2>1. PICK i \in 1..MaxRowid["Certificate"], rest \in {"none", "key"} :
          /\ rows' = rows \cup {Row("Certificate", i)}
          /\ Tell(Row("Certificate", i), "Created",
                  IF rest = "key" THEN <<InsertKey(Row("Certificate", i))>> ELSE <<>>)
    BY <1>5 DEF StoreCertificate, InsertRow
  <2>. DEFINE c == Row("Certificate", i)
              f == InsertKey(c)
              s == IF rest = "key" THEN <<f>> ELSE <<>>
  <2>2. c \in Certificates /\ c \in Objects
    BY RowsAreObjects
  <2>3. f \in Frames /\ f.op = "insertKey" /\ ~Deleting(f)
    BY <2>2 DEF InsertKey, Frames, Deleting
  <2>4. rows' = rows \cup {c} /\ Tell(c, "Created", s)
    BY <2>1
  <2>. HIDE DEF c, f
  <2>5. /\ s \in Seq(Frames) /\ Len(s) <= 1
        /\ \A j \in DOMAIN s : ~Deleting(s[j]) /\ s[j].op # "slots"
    <3>1. <<f>> \in Seq(Frames) /\ Len(<<f>>) = 1 /\ \A j \in DOMAIN <<f>> : <<f>>[j] = f
      BY <2>3
    <3>2. <<>> \in Seq(Frames) /\ Len(<<>>) = 0 /\ DOMAIN <<>> = {}
      OBVIOUS
    <3>. QED
      BY <2>3, <3>1, <3>2
  <2>. HIDE DEF s
  <2>. QED
    BY <1>4, <2>2, <2>4, <2>5
<1>6. CASE StoreLayout
  <2>1. PICK i \in 1..MaxRowid["Layout"], s \in Scopes :
          rows' = rows \cup {Layout(i, s)} /\ Tell(Layout(i, s), "Created", <<>>)
    BY <1>6 DEF StoreLayout, InsertRow
  <2>. DEFINE o    == Layout(i, s)
              rest == <<>>
  <2>2. o \in Objects /\ rows' = rows \cup {o} /\ Tell(o, "Created", rest)
    BY <2>1, RowsAreObjects
  <2>3. rest \in Seq(Frames) /\ Len(rest) <= 1 /\ DOMAIN rest = {}
    OBVIOUS
  <2>. HIDE DEF o, rest
  <2>4. \A j \in DOMAIN rest : ~Deleting(rest[j]) /\ rest[j].op # "slots"
    BY <2>3
  <2>. QED
    BY <1>4, <2>2, <2>3, <2>4
<1>. QED
  BY <1>1, <1>5, <1>6

\* The later statements of a request that stores, and the signal of a new connection.
LEMMA ProceedingTells ==
    ASSUME ClientInv, ClientTypeOK', Hear, StoreAppCertKey \/ StoreAppCert \/ AnnounceConnection
    PROVE  \E o : RowIsTold(o)
<1>0. ClientTypeOK /\ StackOfClients /\ waiting \in Seq(SUBSET Views) /\ TypeOK /\ StackInv
  BY DEF ClientInv, ClientTypeOK, FeedInv
<1>1. todo \in Seq(Frames) /\ todo # <<>>
      /\ Head(todo).op \in {"insertKey", "insertAppCert", "announce"}
  BY <1>0 DEF StoreAppCertKey, StoreAppCert, AnnounceConnection, Pending, TypeOK
<1>2. StoringStack /\ waiting = <<>>
  BY <1>0, <1>1, StoringIsQuiet DEF Deleting
<1>3. /\ Tail(todo) \in Seq(Frames) /\ Len(Tail(todo)) = Len(todo) - 1 /\ Len(todo) \in 1..5
      /\ \A i \in DOMAIN Tail(todo) :
            /\ ~Deleting(Tail(todo)[i]) /\ Tail(todo)[i].op # "slots"
            /\ Tail(todo)[i].op = "insertKey" => i = Len(Tail(todo)) /\ i <= 1
  BY <1>1, <1>2, StoringTail
<1>4. Range(todo) = {Head(todo)} \cup Range(Tail(todo)) /\ Head(todo) \in Frames
  BY <1>1, PoppedFrames
<1>5. CASE StoreAppCertKey
  <2>1. PICK i \in 1..MaxRowid["Key"] :
          /\ rows' = rows \cup {Row("Key", i)}
          /\ Tell(Row("Key", i), "Created",
                  <<InsertAppCert(Head(todo).certificate, Row("Key", i))>> \o Tail(todo))
    BY <1>5 DEF StoreAppCertKey, InsertRow
  <2>. DEFINE o == Row("Key", i)
              f == InsertAppCert(Head(todo).certificate, o)
              rest == <<f>> \o Tail(todo)
  <2>2. o \in Keys /\ o \in Objects
    BY RowsAreObjects
  <2>3. Head(todo).op = "insertKey" /\ Head(todo).certificate \in Certificates
    BY <1>4, <1>5, FrameFields DEF StoreAppCertKey, Pending
  <2>4. f \in Frames /\ f.op = "insertAppCert" /\ ~Deleting(f)
    BY <2>2, <2>3 DEF InsertAppCert, Frames, Deleting
  <2>5. rows' = rows \cup {o} /\ Tell(o, "Created", rest)
    BY <2>1
  <2>6. Len(todo) = 1
    <3>1. 1 \in DOMAIN todo /\ todo[1] = Head(todo)
      BY <1>1
    <3>. QED
      BY <1>2, <2>3, <3>1 DEF StoringStack
  <2>. HIDE DEF o, f
  <2>7. rest \in Seq(Frames) /\ Len(rest) = 1 /\ rest[1] = f
    BY <1>3, <2>4, <2>6, PushIsStack
  <2>. HIDE DEF rest
  <2>8. \A j \in DOMAIN rest : rest[j] = f
    BY <2>7
  <2>9. StoringStack' /\ Begins(o, "Created")
    <3>1. Len(rest) <= 4 /\ Len(todo) <= Len(rest) + 1 /\ o \in rows'
      BY <2>5, <2>6, <2>7
    <3>2. \A j \in DOMAIN rest : /\ ~Deleting(rest[j]) /\ rest[j].op # "slots"
                                 /\ rest[j].op = "insertKey" => j = Len(rest) /\ j <= 1
      BY <2>4, <2>8
    <3>. QED
      BY <1>0, <1>2, <2>2, <2>5, <2>7, <3>1, <3>2, TellingKeepsStack
  <2>10. \A g \in Range(todo) : g.op # "announce"
    <3>1. \A g \in Range(todo) : g = Head(todo)
      BY <1>1, <2>6 DEF Range
    <3>. QED
      BY <2>3, <3>1
  <2>. QED
    BY <1>2, <2>2, <2>5, <2>9, <2>10 DEF RowIsTold
<1>6. ASSUME NEW o \in Objects, o \in rows', Tell(o, "Created", Tail(todo))
      PROVE  /\ StoringStack' /\ Begins(o, "Created")
             /\ Range(todo') = {Slots(o, "Created")} \cup Range(Tail(todo))
  <2>1. Len(Tail(todo)) <= 4 /\ Len(todo) <= Len(Tail(todo)) + 1
    BY <1>3, SMTT(30)
  <2>. DEFINE rest == Tail(todo)
  <2>2. /\ rest \in Seq(Frames) /\ Tell(o, "Created", rest) /\ Len(rest) <= 4 /\ Len(todo) <= Len(rest) + 1
        /\ \A j \in DOMAIN rest : /\ ~Deleting(rest[j]) /\ rest[j].op # "slots"
                                  /\ rest[j].op = "insertKey" => j = Len(rest) /\ j <= 1
    BY <1>3, <1>6, <2>1
  <2>3. StoringStack' /\ Begins(o, "Created")
    <3>. HIDE DEF rest
    <3>. QED
      BY <1>0, <1>2, <1>6, <2>2, TellingKeepsStack
  <2>4. Range(todo') = {Slots(o, "Created")} \cup Range(rest)
    <3>. HIDE DEF rest
    <3>. QED
      BY <2>2, ToldFrames
  <2>. QED
    BY <2>3, <2>4
<1>7. CASE StoreAppCert
  <2>1. PICK i \in 1..MaxRowid["ApplicationCertificate"] :
          /\ rows' = rows \cup {Row("ApplicationCertificate", i)}
          /\ Tell(Row("ApplicationCertificate", i), "Created", Tail(todo))
    BY <1>7 DEF StoreAppCert, InsertRow
  <2>. DEFINE o == Row("ApplicationCertificate", i)
  <2>2. o \in Objects /\ rows' = rows \cup {o} /\ Tell(o, "Created", Tail(todo))
    BY <2>1, RowsAreObjects
  <2>. HIDE DEF o
  <2>3. /\ StoringStack' /\ Begins(o, "Created")
        /\ Range(todo') = {Slots(o, "Created")} \cup Range(Tail(todo))
    BY <1>6, <2>2
  <2>4. Head(todo).op # "announce"
    BY <1>7 DEF StoreAppCert, Pending
  <2>. QED
    BY <1>2, <1>4, <2>2, <2>3, <2>4 DEF RowIsTold
<1>8. CASE AnnounceConnection
  <2>. DEFINE o == Head(todo).connection
  <2>1. Head(todo).op = "announce" /\ rows' = rows /\ Tell(o, "Created", Tail(todo))
    BY <1>8 DEF AnnounceConnection, Pending
  <2>2. o \in Objects /\ o \in rows
    BY <1>0, <1>4, <2>1, FrameFields, RowsAreObjects DEF StackInv, AnnouncedIsThere
  <2>3. /\ StoringStack' /\ Begins(o, "Created")
        /\ Range(todo') = {Slots(o, "Created")} \cup Range(Tail(todo))
    BY <1>6, <2>1, <2>2
  <2>4. rows' = rows \cup {o}
    BY <2>1, <2>2
  <2>. QED
    BY <1>2, <1>4, <2>2, <2>3, <2>4 DEF RowIsTold
<1>. QED
  BY <1>5, <1>7, <1>8

\* Nothing is told yet: what is new will be announced.
NothingIsTold ==
    /\ StoringStack /\ StoringStack' /\ waiting = <<>> /\ waiting' = <<>>
    /\ rows \subseteq rows'
    /\ \A o \in rows' \ rows : \E f \in Range(todo') : f.op = "announce" /\ f.connection = o
    /\ \A f \in Range(todo) : f.op = "announce" => f \in Range(todo')

\* The statements on the lists of a connection.
LEMMA ListsAreQuiet ==
    ASSUME ClientInv, Hear, ClearRevokedList \/ StoreListed
    PROVE  NothingIsTold
<1>0. ClientTypeOK /\ StackOfClients /\ waiting \in Seq(SUBSET Views) /\ TypeOK
  BY DEF ClientInv, ClientTypeOK
<1>1. /\ todo \in Seq(Frames) /\ todo # <<>> /\ rows' = rows
      /\ Head(todo).op \in {"clearRevoked", "insertListed"}
  BY <1>0 DEF ClearRevokedList, StoreListed, Pending, TypeOK
<1>2. StoringStack /\ waiting = <<>>
  BY <1>0, <1>1, StoringIsQuiet DEF Deleting
<1>. DEFINE rest == Tail(todo)
<1>3. Range(todo) = {Head(todo)} \cup Range(rest) /\ Head(todo) \in Frames
  BY <1>1, PoppedFrames
<1>4. /\ rest \in Seq(Frames) /\ Len(rest) = Len(todo) - 1 /\ Len(todo) \in 1..5
      /\ \A i \in DOMAIN rest : /\ ~Deleting(rest[i]) /\ rest[i].op # "slots"
                                /\ rest[i].op = "insertKey" => i = Len(rest) /\ i <= 1
  BY <1>1, <1>2, StoringTail
<1>5. \/ todo' = rest
      \/ \E f \in Frames : f.op = "insertListed" /\ todo' = <<f>> \o rest
  <2>1. ASSUME NEW C \in SUBSET Head(todo).certificates, Head(todo).op = "insertListed"
        PROVE  InsertListed(Head(todo).list, Head(todo).connection, C) \in Frames
    BY <1>3, <2>1, FrameFields DEF InsertListed, Frames
  <2>2. CASE ClearRevokedList
    BY <2>2 DEF ClearRevokedList
  <2>3. CASE StoreListed
    <3>1. Head(todo).op = "insertListed"
      BY <2>3 DEF StoreListed, Pending
    <3>2. CASE todo' = rest
      BY <3>2
    <3>3. ASSUME NEW c, todo' = <<InsertListed(Head(todo).list, Head(todo).connection,
                                               Head(todo).certificates \ {c})>> \o Tail(todo)
          PROVE  \E f \in Frames : f.op = "insertListed" /\ todo' = <<f>> \o rest
      <4>. DEFINE f == InsertListed(Head(todo).list, Head(todo).connection, Head(todo).certificates \ {c})
      <4>1. f.op = "insertListed" /\ todo' = <<f>> \o rest
        BY <3>3, ListFrames
      <4>2. f \in Frames
        BY <2>1, <3>1
      <4>. HIDE DEF f, rest
      <4>. QED
        BY <4>1, <4>2
    <3>. QED
      BY <2>3, <3>2, <3>3 DEF StoreListed
  <2>. QED
    BY <1>1, <2>2, <2>3, ListFrames
<1>. HIDE DEF rest
<1>. DEFINE Fine(s) ==
              /\ s \in Seq(Frames) /\ Len(s) <= 5 /\ Range(rest) \subseteq Range(s)
              /\ \A i \in DOMAIN s : /\ ~Deleting(s[i]) /\ s[i].op # "slots"
                                     /\ s[i].op = "insertKey" => i = Len(s) /\ i <= 2
<1>6. Fine(todo')
  <2>0. Len(rest) <= 4 /\ Len(rest) \in Nat /\ \A i \in DOMAIN rest : i \in Nat
    <3>1. Len(rest) \in Nat /\ DOMAIN rest = 1..Len(rest)
      BY <1>4
    <3>. QED
      BY <1>4, <3>1
  <2>1. CASE todo' = rest
    <3>1. \A i \in DOMAIN rest : rest[i].op = "insertKey" => i = Len(rest) /\ i <= 2
      BY <1>4, <2>0
    <3>2. Fine(rest)
      BY <1>4, <2>0, <3>1
    <3>. HIDE DEF Fine
    <3>. QED
      BY <2>1, <3>2
  <2>2. ASSUME NEW f \in Frames, f.op = "insertListed", todo' = <<f>> \o rest
        PROVE  Fine(todo')
    <3>1. /\ todo' \in Seq(Frames) /\ Len(todo') = Len(rest) + 1 /\ todo'[1] = f
          /\ \A i \in DOMAIN rest : todo'[i + 1] = rest[i]
      BY <1>4, <2>2, PushIsStack
    <3>2. \A i \in DOMAIN todo' : i = 1 \/ (i - 1 \in DOMAIN rest /\ todo'[i] = rest[i - 1])
      <4>1. \A i \in DOMAIN todo' : i \in 1..Len(rest) + 1
        BY <3>1
      <4>2. \A i \in 1..Len(rest) + 1 : i # 1 => i - 1 \in DOMAIN rest /\ (i - 1) + 1 = i
        BY <1>4
      <4>. QED
        BY <3>1, <4>1, <4>2
    <3>3. ~Deleting(f)
      BY <2>2 DEF Deleting
    <3>4. Range(todo') = {f} \cup Range(rest)
      BY <1>4, <2>2, PushedFrames
    <3>5. \A i \in DOMAIN todo' : /\ ~Deleting(todo'[i]) /\ todo'[i].op # "slots"
                                  /\ todo'[i].op = "insertKey" => i = Len(todo') /\ i <= 2
      <4>. TAKE i \in DOMAIN todo'
      <4>1. CASE i = 1
        BY <2>2, <3>1, <3>3, <4>1
      <4>2. CASE i # 1
        <5>1. i - 1 \in DOMAIN rest /\ todo'[i] = rest[i - 1] /\ i \in Nat
          BY <3>1, <3>2, <4>2
        <5>2. rest[i - 1].op = "insertKey" => i - 1 = Len(rest) /\ i - 1 <= 1
          BY <1>4, <5>1
        <5>. QED
          BY <1>4, <2>0, <3>1, <5>1, <5>2
      <4>. QED
        BY <4>1, <4>2
    <3>. QED
      BY <2>0, <3>1, <3>4, <3>5
  <2>. QED
    BY <1>5, <2>1, <2>2
<1>7. todo' # <<>> => Head(todo').op # "slots"
  <2>1. todo' # <<>> => 1 \in DOMAIN todo' /\ Head(todo') = todo'[1]
    BY <1>6
  <2>. QED
    BY <1>6, <2>1
<1>8. waiting' = <<>>
  BY <1>2, <1>7 DEF Hear
<1>9. StoringStack'
  BY <1>6, <1>7, <1>8 DEF StoringStack, Deleting
<1>10. Head(todo).op # "announce"
  BY <1>1
<1>. QED
  BY <1>1, <1>2, <1>3, <1>6, <1>8, <1>9, <1>10 DEF NothingIsTold

\* record_recent_connection begins: the row, which is announced after its lists.
LEMMA RecordIsQuiet ==
    ASSUME ClientInv, NEW C, NEW next, Idle, Record(C, next)
    PROVE  /\ NothingIsTold
           /\ \E h \in Connections \ rows : rows' = rows \cup {h}
           /\ refs' = refs \cup (rows' \ rows) \X C
<1>0. ClientTypeOK /\ StackOfClients /\ todo = <<>> /\ StoreConnection /\ waiting' = waiting
  BY DEF ClientInv, Record, Idle
<1>1. StoringStack /\ waiting = <<>>
  BY <1>0, RestIsQuiet
<1>2. PICK i \in 1..MaxRowid["HistoricServerConnection"],
           T \in SUBSET Choosable, R \in SUBSET Choosable :
        /\ IsNextRowid("HistoricServerConnection", i)
        /\ rows' = rows \cup {Row("HistoricServerConnection", i)}
        /\ todo' = <<ClearRevoked(Row("HistoricServerConnection", i)),
                     InsertListed("trust", Row("HistoricServerConnection", i), T),
                     ClearRevoked(Row("HistoricServerConnection", i)),
                     InsertListed("revoked", Row("HistoricServerConnection", i), R),
                     Announce(Row("HistoricServerConnection", i), T, R)>>
  BY <1>0 DEF StoreConnection, InsertRow
<1>. DEFINE h == Row("HistoricServerConnection", i)
            f1 == ClearRevoked(h)
            f2 == InsertListed("trust", h, T)
            f3 == InsertListed("revoked", h, R)
            f4 == Announce(h, T, R)
<1>3. h \in Connections /\ h.rel = "HistoricServerConnection" /\ h.id = i /\ i \in Int
  BY RowsAreObjects DEF Row
<1>4. h \notin rows
  <2>. HIDE DEF h
  <2>1. \A j \in IdsOf("HistoricServerConnection") : j < i
    BY <1>2 DEF IsNextRowid
  <2>2. i \notin IdsOf("HistoricServerConnection")
    BY <1>3, <2>1
  <2>. QED
    BY <1>3, <2>2 DEF IdsOf
<1>5. rows' = rows \cup {h} /\ todo' = <<f1, f2, f1, f3, f4>>
  BY <1>2
<1>6. /\ f1.op = "clearRevoked" /\ f2.op = "insertListed" /\ f3.op = "insertListed"
      /\ f4.op = "announce" /\ f4.connection = h
  BY ListFrames
<1>. HIDE DEF h, f1, f2, f3, f4
<1>7. /\ Len(todo') = 5 /\ Head(todo') = f1 /\ todo'[5] = f4 /\ 5 \in DOMAIN todo'
      /\ \A j \in DOMAIN todo' : todo'[j] \in {f1, f2, f3, f4}
  BY <1>5
<1>8. \A f \in {f1, f2, f3, f4} : ~Deleting(f) /\ f.op # "slots" /\ f.op # "insertKey"
  BY <1>6 DEF Deleting
<1>9. StoringStack'
  BY <1>0, <1>1, <1>6, <1>7, <1>8 DEF StoringStack, Deleting
<1>10. f4 \in Range(todo')
  BY <1>7 DEF Range
<1>11. \A f \in Range(todo) : f.op # "announce"
  BY <1>0, NoFrames
<1>. QED
  BY <1>0, <1>1, <1>3, <1>4, <1>5, <1>6, <1>9, <1>10, <1>11 DEF NothingIsTold, Record

-----------------------------------------------------------------------------
(* Stacks by position.                                                     *)

\* A frame on top of a stack.
LEMMA PushedFrame ==
    ASSUME NEW s \in Seq(Frames), NEW f \in Frames, NEW t, t = <<f>> \o s
    PROVE  /\ t \in Seq(Frames) /\ t # <<>> /\ Len(t) = Len(s) + 1
           /\ Head(t) = f /\ t[1] = f /\ DOMAIN t = 1..Len(s) + 1
           /\ \A i \in 1..Len(s) : t[i + 1] = s[i]
<1>1. /\ t \in Seq(Frames) /\ Len(t) = Len(s) + 1 /\ t[1] = f
      /\ \A i \in DOMAIN s : t[i + 1] = s[i]
  BY PushIsStack
<1>2. t # <<>> /\ Head(t) = t[1] /\ DOMAIN s = 1..Len(s) /\ DOMAIN t = 1..Len(t)
  BY <1>1
<1>. QED
  BY <1>1, <1>2

\* A stack without its head.
LEMMA PoppedFrame ==
    ASSUME NEW s \in Seq(Frames), s # <<>>, NEW t, t = Tail(s)
    PROVE  /\ t \in Seq(Frames) /\ Len(t) = Len(s) - 1 /\ DOMAIN t = 1..Len(s) - 1
           /\ Len(s) \in Nat /\ Len(s) >= 1 /\ s[1] = Head(s) /\ DOMAIN s = 1..Len(s)
           /\ \A i \in 1..Len(s) - 1 : t[i] = s[i + 1]
           /\ t # <<>> => Head(t) = s[2]
<1>1. /\ t \in Seq(Frames) /\ Len(t) = Len(s) - 1
      /\ \A i \in DOMAIN t : i + 1 \in DOMAIN s /\ t[i] = s[i + 1]
  BY PopIsStack
<1>2. Len(s) \in Nat /\ Len(s) >= 1 /\ s[1] = Head(s) /\ DOMAIN s = 1..Len(s) /\ DOMAIN t = 1..Len(t)
  BY <1>1
<1>3. t # <<>> => 1 \in DOMAIN t /\ Head(t) = t[1]
  BY <1>1
<1>4. t # <<>> => Head(t) = s[2]
  BY <1>1, <1>3
<1>. QED
  BY <1>1, <1>2, <1>4

\* A stack with another head.
LEMMA ReplacedFrame ==
    ASSUME NEW s \in Seq(Frames), s # <<>>, NEW f \in Frames, NEW t, t = <<f>> \o Tail(s)
    PROVE  /\ t \in Seq(Frames) /\ t # <<>> /\ Len(t) = Len(s) /\ Len(s) \in Nat /\ Len(s) >= 1
           /\ Head(t) = f /\ t[1] = f /\ DOMAIN t = 1..Len(s)
           /\ \A i \in 2..Len(s) : t[i] = s[i]
<1>. DEFINE rest == Tail(s)
<1>1. /\ rest \in Seq(Frames) /\ Len(rest) = Len(s) - 1 /\ Len(s) \in Nat /\ Len(s) >= 1
      /\ \A i \in 1..Len(s) - 1 : rest[i] = s[i + 1]
  BY PoppedFrame
<1>. HIDE DEF rest
<1>2. t = <<f>> \o rest
  BY DEF rest
<1>3. /\ t \in Seq(Frames) /\ t # <<>> /\ Len(t) = Len(rest) + 1
      /\ Head(t) = f /\ t[1] = f /\ DOMAIN t = 1..Len(rest) + 1
      /\ \A i \in 1..Len(rest) : t[i + 1] = rest[i]
  BY <1>1, <1>2, PushedFrame
<1>4. \A i \in 2..Len(s) : i - 1 \in 1..Len(rest) /\ i - 1 \in 1..Len(s) - 1 /\ (i - 1) + 1 = i
  BY <1>1
<1>5. \A i \in 2..Len(s) : t[i] = s[i]
  BY <1>1, <1>3, <1>4
<1>. QED
  BY <1>1, <1>3, <1>5

\* The views to be called are a sequence with as many elements as there are emissions.
LEMMA CalledViews ==
    ASSUME NEW s \in Seq(SUBSET Views)
    PROVE  /\ Len(s) \in Nat /\ DOMAIN s = 1..Len(s)
           /\ \A W \in SUBSET Views : /\ <<W>> \o s \in Seq(SUBSET Views) /\ Len(<<W>> \o s) = Len(s) + 1
                                      /\ (<<W>> \o s)[1] = W
                                      /\ \A k \in 1..Len(s) : (<<W>> \o s)[k + 1] = s[k]
           /\ s # <<>> => /\ Tail(s) \in Seq(SUBSET Views) /\ Len(Tail(s)) = Len(s) - 1 /\ Len(s) >= 1
                          /\ Head(s) = s[1] /\ s[1] \in SUBSET Views
                          /\ \A k \in 1..Len(s) - 1 : Tail(s)[k] = s[k + 1]
  OBVIOUS

\* The slot of one view has been called.
LEMMA OneIsCalled ==
    ASSUME waiting \in Seq(SUBSET Views), waiting # <<>>, NEW v, SlotDone(v)
    PROVE  /\ waiting' \in Seq(SUBSET Views) /\ Len(waiting') = Len(waiting)
           /\ DOMAIN waiting' = DOMAIN waiting /\ waiting'[1] = waiting[1] \ {v}
           /\ \A k \in DOMAIN waiting : k # 1 => waiting'[k] = waiting[k]
<1>. DEFINE rest == Tail(waiting)
            W == Head(waiting) \ {v}
<1>1. /\ rest \in Seq(SUBSET Views) /\ Len(rest) = Len(waiting) - 1 /\ Len(waiting) >= 1
      /\ Head(waiting) = waiting[1] /\ waiting[1] \in SUBSET Views
      /\ \A k \in 1..Len(waiting) - 1 : rest[k] = waiting[k + 1]
      /\ Len(waiting) \in Nat /\ DOMAIN waiting = 1..Len(waiting)
  BY CalledViews
<1>2. W \in SUBSET Views /\ W = waiting[1] \ {v} /\ waiting' = <<W>> \o rest
  BY <1>1 DEF SlotDone
<1>. HIDE DEF rest, W
<1>3. /\ waiting' \in Seq(SUBSET Views) /\ Len(waiting') = Len(rest) + 1 /\ waiting'[1] = W
      /\ \A k \in 1..Len(rest) : waiting'[k + 1] = rest[k]
  BY <1>1, <1>2, CalledViews
<1>4. DOMAIN waiting' = 1..Len(waiting')
  BY <1>3, CalledViews
<1>5. \A k \in 2..Len(waiting) : k - 1 \in 1..Len(rest) /\ k - 1 \in 1..Len(waiting) - 1 /\ (k - 1) + 1 = k
  BY <1>1
<1>6. \A k \in DOMAIN waiting : k # 1 => k \in 2..Len(waiting)
  BY <1>1
<1>. QED
  BY <1>1, <1>2, <1>3, <1>4, <1>5, <1>6

-----------------------------------------------------------------------------
(* Requests that delete.                                                   *)

\* A stack whose head deletes is one of deletions.
LEMMA DeletionMode ==
    ASSUME ClientInv, todo # <<>>, Deleting(Head(todo))
    PROVE  DeletionStack /\ NestingInv
<1>1. todo \in Seq(Frames)
  BY DEF ClientInv, ClientTypeOK, TypeOK
<1>2. 1 \in DOMAIN todo /\ todo[1] = Head(todo)
  BY <1>1
<1>. QED
  BY <1>2 DEF ClientInv, StackOfClients, StackShape, StoringStack

\* Where the emissions are on such a stack, and the deletions that emit.
LEMMA DeletionShape ==
    ASSUME ClientTypeOK, DeletionStack
    PROVE  /\ todo \in Seq(Frames) /\ todo # <<>> /\ Len(todo) \in Nat /\ DOMAIN todo = 1..Len(todo)
           /\ waiting \in Seq(SUBSET Views) /\ Len(waiting) \in Nat /\ DOMAIN waiting = 1..Len(waiting)
           /\ todo[1] = Head(todo) /\ Len(todo) >= 1
           /\ Head(todo).op = "slots" =>
                 /\ Len(todo) = 2 * Len(waiting) /\ Len(waiting) >= 1 /\ waiting # <<>>
                 /\ \A k \in 1..Len(waiting) : /\ Place(k) = 2 * k - 1 /\ Emission(k) = todo[2 * k - 1]
                                               /\ todo[2 * k - 1].op = "slots" /\ todo[2 * k].op = "deliver"
           /\ Head(todo).op # "slots" =>
                 /\ Len(todo) = 2 * Len(waiting) + 1
                 /\ \A k \in 1..Len(waiting) : /\ Place(k) = 2 * k /\ Emission(k) = todo[2 * k]
                                               /\ todo[2 * k].op = "slots" /\ todo[2 * k + 1].op = "deliver"
<1>1. /\ todo \in Seq(Frames) /\ todo # <<>> /\ waiting \in Seq(SUBSET Views)
      /\ Len(todo) \in Nat /\ Len(waiting) \in Nat /\ Len(todo) >= 1 /\ todo[1] = Head(todo)
      /\ DOMAIN todo = 1..Len(todo) /\ DOMAIN waiting = 1..Len(waiting)
  BY DEF ClientTypeOK, TypeOK, DeletionStack
<1>2. /\ Len(todo) = Place(Len(waiting)) + 1
      /\ \A k \in 1..Len(waiting) : Emission(k).op = "slots" /\ todo[Place(k) + 1].op = "deliver"
  BY <1>1 DEF DeletionStack
<1>3. ASSUME Head(todo).op = "slots"
      PROVE  /\ Len(todo) = 2 * Len(waiting) /\ Len(waiting) >= 1 /\ waiting # <<>>
             /\ \A k \in 1..Len(waiting) : /\ Place(k) = 2 * k - 1 /\ Emission(k) = todo[2 * k - 1]
                                           /\ todo[2 * k - 1].op = "slots" /\ todo[2 * k].op = "deliver"
  <2>1. Len(todo) = 2 * Len(waiting)
    BY <1>1, <1>2, <1>3 DEF Place
  <2>2. Len(waiting) >= 1
    BY <1>1, <2>1
  <2>3. ASSUME NEW k \in 1..Len(waiting)
        PROVE  /\ Place(k) = 2 * k - 1 /\ Emission(k) = todo[2 * k - 1]
               /\ todo[2 * k - 1].op = "slots" /\ todo[2 * k].op = "deliver"
    <3>1. Place(k) = 2 * k - 1 /\ Emission(k) = todo[Place(k)]
      BY <1>3 DEF Place, Emission
    <3>2. Place(k) + 1 = 2 * k
      BY <3>1
    <3>3. Emission(k).op = "slots" /\ todo[Place(k) + 1].op = "deliver"
      BY <1>2
    <3>. QED
      BY <3>1, <3>2, <3>3
  <2>. QED
    BY <1>1, <2>1, <2>2, <2>3
<1>4. ASSUME Head(todo).op # "slots"
      PROVE  /\ Len(todo) = 2 * Len(waiting) + 1
             /\ \A k \in 1..Len(waiting) : /\ Place(k) = 2 * k /\ Emission(k) = todo[2 * k]
                                           /\ todo[2 * k].op = "slots" /\ todo[2 * k + 1].op = "deliver"
  BY <1>1, <1>2, <1>4 DEF Place, Emission
<1>. QED
  BY <1>1, <1>3, <1>4

\* A request that deletes begins.
LEMMA DeletionBegins ==
    ASSUME ClientInv, Idle, NEW o, Delete(o), UNCHANGED waiting
    PROVE  DeletionStack' /\ NestingInv' /\ waiting = <<>>
<1>0. ClientTypeOK /\ StackOfClients /\ todo = <<>>
  BY DEF ClientInv, Idle
<1>1. waiting = <<>>
  BY <1>0, RestIsQuiet
<1>2. todo' = <<Drain>> \o todo /\ Drain \in Frames /\ Drain.op = "drain"
  BY DEF Delete, Drain, Frames
<1>3. todo \in Seq(Frames) /\ Len(todo) = 0 /\ Len(waiting) = 0 /\ DOMAIN waiting = {}
  BY <1>0, <1>1
<1>4. /\ todo' # <<>> /\ Len(todo') = 1 /\ Head(todo') = Drain /\ DOMAIN todo' = 1..1
      /\ \A i \in DOMAIN todo' : i = 1 /\ todo'[i] = Drain
  <2>1. /\ todo' # <<>> /\ Len(todo') = 0 + 1 /\ Head(todo') = Drain /\ todo'[1] = Drain
        /\ DOMAIN todo' = 1..0 + 1
    BY <1>2, <1>3, PushedFrame
  <2>2. \A i \in 1..0 + 1 : i = 1
    OBVIOUS
  <2>. QED
    BY <2>1, <2>2
<1>5. DeletionStack'
  <2>1. Place(Len(waiting))' = 0
    BY <1>2, <1>3, <1>4 DEF Place
  <2>. QED
    BY <1>1, <1>2, <1>3, <1>4, <2>1, FramesOfDeletions DEF DeletionStack, Deleting, Place, Emission
<1>6. NestingInv'
  <2>1. \A i \in DOMAIN todo' : i + 1 \notin DOMAIN todo' /\ i + 2 \notin DOMAIN todo'
    BY <1>4
  <2>. QED
    BY <2>1 DEF NestingInv
<1>. QED
  BY <1>1, <1>5, <1>6

\* What a view deletes while it is told that an object is gone, if anything: one
\* connection, and no more, for no setting names it.
LEMMA SlotsDeleteConnections ==
    ASSUME ClientInv, NEW v \in Views, SlotRemoves(v)
    PROVE  /\ monitor = NoTuples /\ Head(todo).object \notin rows
           /\ \A o \in Objects : monitor'[o] > 0 => DeletedFor(Head(todo).object, o)
           /\ Head(todo).object.rel # "ApplicationCertificate" => rows' = rows
<1>. DEFINE p == Head(todo).object
            S == {RemoveRowsDeletes(p)} \cap rows
<1>0. /\ TypeOK /\ Layered /\ typed = {} /\ SignalsInv /\ todo \in Seq(Frames) /\ todo # <<>>
      /\ Pending("slots") /\ Head(todo).op = "slots" /\ Head(todo).change = "Deleted"
  BY DEF ClientInv, FeedInv, Integrity, TypeOK, SlotRemoves, SlotMayCall, Pending
<1>1. monitor = NoTuples
  BY <1>0 DEF SignalsInv, MonitorIsRead, Pending
<1>2. p \notin rows
  <2>1. Head(todo) \in Range(todo)
    BY <1>0, PoppedFrames
  <2>. QED
    BY <1>0, <2>1 DEF SignalsInv, ToldIsGone, Deleting
<1>3. /\ monitor' = Count(monitor, Doomed(S)) /\ rows' = rows \ Doomed(S)
  BY DEF SlotRemoves, Delete, DeleteRows
<1>4. \A d \in S : p.rel = "ApplicationCertificate" /\ d.rel = "HistoricServerConnection"
  BY <1>2 DEF RemoveRowsDeletes, Row
<1>5. S \in SUBSET Objects
  BY <1>0 DEF TypeOK
<1>. HIDE DEF S, p
<1>6. Referrers(S) = {}
  <2>. SUFFICES ASSUME NEW x \in Referrers(S) PROVE FALSE
    OBVIOUS
  <2>1. PICK d \in S : \/ d.rel \in {"Certificate", "Key"}
                       \/ d.rel \in {"ApplicationCertificate", "Layout"}
                       \/ x.rel = "Setting"
    BY <1>0, <1>5, ReferrersAre
  <2>2. x.rel # "Setting"
    BY <1>0, Relations DEF Referrers, Layered
  <2>. QED
    BY <1>4, <2>1, <2>2
<1>7. Doomed(S) = S
  BY <1>6 DEF Doomed
<1>8. \A o \in Objects : monitor'[o] > 0 => o \in S
  BY <1>1, <1>3, <1>7 DEF Count, NoTuples
<1>9. p.rel # "ApplicationCertificate" => S = {}
  BY <1>4
<1>. QED
  BY <1>1, <1>2, <1>3, <1>4, <1>7, <1>8, <1>9 DEF p, DeletedFor

\* A slot deletes in the middle of the emission.
LEMMA SlotsNest ==
    ASSUME ClientInv, NEW v \in Views, SlotRemoves(v)
    PROVE  DeletionStack' /\ NestingInv' /\ GoOn
<1>. DEFINE n == Len(todo)
            m == Len(waiting)
<1>0. /\ ClientTypeOK /\ todo # <<>> /\ Head(todo).op = "slots" /\ Deleting(Head(todo))
      /\ todo' = <<Drain>> \o todo /\ Drain \in Frames /\ Drain.op = "drain" /\ SlotDone(v)
  BY DEF ClientInv, SlotRemoves, SlotMayCall, Pending, Delete, Deleting, Drain, Frames
<1>1. DeletionStack /\ NestingInv
  BY <1>0, DeletionMode
<1>2. /\ todo \in Seq(Frames) /\ DOMAIN todo = 1..n /\ n \in Nat /\ m \in Nat /\ n = 2 * m /\ m >= 1
      /\ waiting \in Seq(SUBSET Views) /\ DOMAIN waiting = 1..m /\ waiting # <<>> /\ todo[1] = Head(todo)
      /\ \A k \in 1..m : /\ Emission(k) = todo[2 * k - 1]
                         /\ todo[2 * k - 1].op = "slots" /\ todo[2 * k].op = "deliver"
  BY <1>0, <1>1, DeletionShape
<1>3. /\ todo' # <<>> /\ Len(todo') = n + 1 /\ Head(todo') = Drain /\ todo'[1] = Drain
      /\ DOMAIN todo' = 1..n + 1 /\ \A i \in 1..n : todo'[i + 1] = todo[i]
  <2>1. todo \in Seq(Frames) /\ Drain \in Frames
    BY <1>0, <1>2
  <2>. QED
    BY <1>0, <2>1, PushedFrame
<1>4. Len(waiting') = m /\ DOMAIN waiting' = 1..m
  BY <1>0, <1>2, OneIsCalled
<1>. HIDE DEF n, m
<1>5. ASSUME NEW k \in 1..m
      PROVE  /\ Place(k)' = 2 * k /\ Emission(k)' = Emission(k)
             /\ Emission(k)'.op = "slots" /\ todo'[2 * k + 1].op = "deliver"
  <2>1. Place(k)' = 2 * k
    BY <1>0, <1>3 DEF Place
  <2>2. 2 * k - 1 \in 1..n /\ 2 * k \in 1..n /\ (2 * k - 1) + 1 = 2 * k
    BY <1>2
  <2>3. todo'[2 * k] = todo[2 * k - 1] /\ todo'[2 * k + 1] = todo[2 * k]
    BY <1>3, <2>2
  <2>. QED
    BY <1>2, <2>1, <2>3 DEF Emission
<1>6. \A i \in 2..n + 1 : i - 1 \in 1..n /\ todo'[i] = todo[i - 1]
  <2>1. \A i \in 2..n + 1 : i - 1 \in 1..n /\ (i - 1) + 1 = i
    BY <1>2
  <2>. QED
    BY <1>3, <2>1
<1>7. DeletionStack'
  <2>1. Place(Len(waiting))' = 2 * m
    BY <1>0, <1>3, <1>4 DEF Place
  <2>2. Len(todo') = Place(Len(waiting))' + 1
    BY <1>2, <1>3, <2>1
  <2>3. \A i \in DOMAIN todo' : Deleting(todo'[i]) /\ (todo'[i].op = "drain" => i = 1)
    <3>. TAKE i \in DOMAIN todo'
    <3>1. CASE i = 1
      BY <1>3, <3>1, FramesOfDeletions
    <3>2. CASE i # 1
      <4>1. i \in 2..n + 1
        BY <1>2, <1>3, <3>2
      <4>2. i - 1 \in DOMAIN todo /\ todo'[i] = todo[i - 1]
        BY <1>2, <1>6, <4>1
      <4>3. Deleting(todo[i - 1]) /\ (todo[i - 1].op = "drain" => i - 1 = 1)
        BY <1>1, <4>2 DEF DeletionStack
      <4>4. todo[i - 1].op # "drain"
        BY <1>0, <1>2, <4>3
      <4>. QED
        BY <4>2, <4>3, <4>4
    <3>. QED
      BY <3>1, <3>2
  <2>4. \A k \in DOMAIN waiting' : Emission(k)'.op = "slots" /\ todo'[Place(k)' + 1].op = "deliver"
    BY <1>4, <1>5
  <2>. QED
    BY <1>3, <2>2, <2>3, <2>4 DEF DeletionStack, Deleting, Place, Emission
<1>9. \A o \in Objects : monitor'[o] > 0 => DeletedFor(Head(todo).object, o)
  BY SlotsDeleteConnections
<1>8. NestingInv'
  <2>. DEFINE Nests(i) ==
          /\ todo'[i].op = "drain" /\ i + 1 \in DOMAIN todo' =>
                 \A o \in Objects : monitor'[o] > 0 => DeletedFor(todo'[i + 1].object, o)
          /\ todo'[i].op = "deliver" /\ i + 1 \in DOMAIN todo' =>
                 \A o \in Objects : todo'[i].gone[o] > 0 => DeletedFor(todo'[i + 1].object, o)
          /\ todo'[i].op = "slots" /\ i + 2 \in DOMAIN todo' =>
                 DeletedFor(todo'[i + 2].object, todo'[i].object)
  <2>1. Nests(1)
    <3>1. todo'[1 + 1] = Head(todo)
      <4>1. 1 \in 1..n /\ todo[1] = Head(todo)
        BY <1>2
      <4>. QED
        BY <1>3, <4>1
    <3>. QED
      BY <1>0, <1>3, <1>9, <3>1
  <2>2. ASSUME NEW i \in 2..n + 1 PROVE Nests(i)
    <3>1. /\ i - 1 \in DOMAIN todo /\ todo'[i] = todo[i - 1] /\ todo[i - 1].op # "drain"
      <4>1. i - 1 \in DOMAIN todo /\ todo'[i] = todo[i - 1]
        BY <1>2, <1>6
      <4>2. todo[i - 1].op = "drain" => i - 1 = 1
        BY <1>1, <4>1 DEF DeletionStack
      <4>. QED
        BY <1>0, <1>2, <4>1, <4>2
    <3>2. i + 1 \in DOMAIN todo' => /\ (i - 1) + 1 \in DOMAIN todo
                                    /\ todo'[i + 1] = todo[(i - 1) + 1]
      BY <1>2, <1>3
    <3>3. i + 2 \in DOMAIN todo' => /\ (i - 1) + 2 \in DOMAIN todo
                                    /\ todo'[i + 2] = todo[(i - 1) + 2]
      <4>1. i + 2 \in 1..n + 1 => i + 1 \in 1..n /\ (i - 1) + 2 = i + 1 /\ (i + 1) + 1 = i + 2
        BY <1>2
      <4>. QED
        BY <1>2, <1>3, <4>1
    <3>. QED
      BY <1>1, <3>1, <3>2, <3>3 DEF NestingInv
  <2>3. \A i \in DOMAIN todo' : i = 1 \/ i \in 2..n + 1
    BY <1>2, <1>3
  <2>4. \A i \in DOMAIN todo' : Nests(i)
    BY <2>1, <2>2, <2>3
  <2>. QED
    BY <2>4 DEF NestingInv, DeletedFor
<1>. QED
  BY <1>2, <1>5, <1>7, <1>8 DEF GoOn

\* handleDeleteMonitor reads the events: nobody is told yet.
LEMMA DrainNests ==
    ASSUME ClientInv, DrainMonitor, Hear
    PROVE  DeletionStack' /\ NestingInv' /\ GoOn /\ waiting' = waiting
<1>. DEFINE n == Len(todo)
            m == Len(waiting)
            f == DeliverAll(monitor)
<1>0. /\ ClientTypeOK /\ todo # <<>> /\ Head(todo).op = "drain" /\ Deleting(Head(todo))
      /\ monitor \in Bags /\ todo' = <<f>> \o Tail(todo)
  BY DEF ClientInv, ClientTypeOK, TypeOK, DrainMonitor, Pending, Deleting
<1>1. DeletionStack /\ NestingInv
  BY <1>0, DeletionMode
<1>2. /\ todo \in Seq(Frames) /\ DOMAIN todo = 1..n /\ n \in Nat /\ m \in Nat /\ n = 2 * m + 1
      /\ DOMAIN waiting = 1..m /\ todo[1] = Head(todo)
      /\ \A k \in 1..m : /\ Emission(k) = todo[2 * k]
                         /\ todo[2 * k].op = "slots" /\ todo[2 * k + 1].op = "deliver"
  BY <1>0, <1>1, DeletionShape
<1>3. f \in Frames /\ f.op = "deliver" /\ f.gone = monitor
  BY <1>0 DEF DeliverAll, Frames
<1>. HIDE DEF f
<1>4. /\ todo' # <<>> /\ Len(todo') = n /\ Head(todo') = f /\ todo'[1] = f
      /\ DOMAIN todo' = 1..n /\ \A i \in 2..n : todo'[i] = todo[i]
  <2>1. todo \in Seq(Frames)
    BY <1>2
  <2>. QED
    BY <1>0, <1>3, <2>1, ReplacedFrame
<1>5. waiting' = waiting
  BY <1>3, <1>4 DEF Hear
<1>. HIDE DEF n, m
<1>6. ASSUME NEW k \in 1..m
      PROVE  /\ Place(k)' = 2 * k /\ Emission(k)' = Emission(k)
             /\ Emission(k)'.op = "slots" /\ todo'[2 * k + 1].op = "deliver"
  <2>1. Place(k)' = 2 * k
    BY <1>3, <1>4 DEF Place
  <2>2. 2 * k \in 2..n /\ 2 * k + 1 \in 2..n
    BY <1>2
  <2>3. todo'[2 * k] = todo[2 * k] /\ todo'[2 * k + 1] = todo[2 * k + 1]
    BY <1>4, <2>2
  <2>. QED
    BY <1>2, <2>1, <2>3 DEF Emission
<1>7. \A i \in DOMAIN todo' : i = 1 \/ (i \in 2..n /\ i \in DOMAIN todo /\ todo'[i] = todo[i])
  BY <1>2, <1>4
<1>8. DeletionStack'
  <2>1. Place(Len(waiting))' = 2 * m
    BY <1>3, <1>4, <1>5 DEF Place, m
  <2>2. \A i \in DOMAIN todo' : Deleting(todo'[i]) /\ (todo'[i].op = "drain" => i = 1)
    BY <1>1, <1>3, <1>4, <1>7 DEF DeletionStack, Deleting
  <2>3. \A k \in DOMAIN waiting' : Emission(k)'.op = "slots" /\ todo'[Place(k)' + 1].op = "deliver"
    BY <1>2, <1>5, <1>6
  <2>. QED
    BY <1>2, <1>4, <2>1, <2>2, <2>3 DEF DeletionStack, Deleting, Place, Emission
<1>9. NestingInv'
  <2>1. 1 + 1 \in DOMAIN todo' => \A o \in Objects : f.gone[o] > 0 => DeletedFor(todo'[1 + 1].object, o)
    <3>1. 1 + 1 \in DOMAIN todo' => 1 + 1 \in 2..n /\ 1 \in DOMAIN todo /\ 1 + 1 \in DOMAIN todo
      BY <1>2, <1>4
    <3>2. 1 + 1 \in DOMAIN todo => \A o \in Objects : monitor[o] > 0 => DeletedFor(todo[1 + 1].object, o)
      <4>1. 1 \in DOMAIN todo /\ todo[1].op = "drain"
        BY <1>0, <1>2
      <4>. QED
        BY <1>1, <4>1 DEF NestingInv
    <3>. QED
      BY <1>3, <1>4, <3>1, <3>2
  <2>2. ASSUME NEW i \in 2..n, i \in DOMAIN todo
        PROVE  /\ todo[i].op # "drain"
               /\ todo[i].op = "deliver" /\ i + 1 \in DOMAIN todo' =>
                      \A o \in Objects : todo[i].gone[o] > 0 => DeletedFor(todo'[i + 1].object, o)
               /\ todo[i].op = "slots" /\ i + 2 \in DOMAIN todo' =>
                      DeletedFor(todo'[i + 2].object, todo[i].object)
    <3>1. todo[i].op # "drain"
      BY <1>1, <2>2 DEF DeletionStack
    <3>2. i + 1 \in DOMAIN todo' => i + 1 \in DOMAIN todo /\ todo'[i + 1] = todo[i + 1]
      BY <1>2, <1>4
    <3>3. i + 2 \in DOMAIN todo' => i + 2 \in DOMAIN todo /\ todo'[i + 2] = todo[i + 2]
      BY <1>2, <1>4
    <3>. QED
      BY <1>1, <2>2, <3>1, <3>2, <3>3 DEF NestingInv
  <2>. QED
    BY <1>3, <1>4, <1>7, <2>1, <2>2 DEF NestingInv, DeletedFor
<1>. QED
  BY <1>2, <1>5, <1>6, <1>8, <1>9 DEF GoOn

\* Returning leaves the frames below as they were.
LEMMA TailNests ==
    ASSUME ClientTypeOK, DeletionStack, NestingInv, todo' = Tail(todo)
    PROVE  /\ NestingInv'
           /\ \A i \in DOMAIN todo' : Deleting(todo'[i]) /\ todo'[i].op # "drain"
<1>. DEFINE n == Len(todo)
<1>1. todo \in Seq(Frames) /\ todo # <<>>
  BY DEF ClientTypeOK, TypeOK, DeletionStack
<1>2. /\ n \in Nat /\ DOMAIN todo = 1..n /\ DOMAIN todo' = 1..n - 1
      /\ \A i \in 1..n - 1 : todo'[i] = todo[i + 1]
  BY <1>1, PoppedFrame
<1>. HIDE DEF n
<1>3. ASSUME NEW i \in DOMAIN todo'
      PROVE  /\ Deleting(todo'[i]) /\ todo'[i].op # "drain"
             /\ todo'[i].op = "deliver" /\ i + 1 \in DOMAIN todo' =>
                    \A o \in Objects : todo'[i].gone[o] > 0 => DeletedFor(todo'[i + 1].object, o)
             /\ todo'[i].op = "slots" /\ i + 2 \in DOMAIN todo' =>
                    DeletedFor(todo'[i + 2].object, todo'[i].object)
  <2>1. i + 1 \in DOMAIN todo /\ todo'[i] = todo[i + 1] /\ i + 1 # 1
    BY <1>2
  <2>2. Deleting(todo'[i]) /\ todo'[i].op # "drain"
    BY <2>1 DEF DeletionStack
  <2>3. i + 1 \in DOMAIN todo' => (i + 1) + 1 \in DOMAIN todo /\ todo'[i + 1] = todo[(i + 1) + 1]
    BY <1>2
  <2>4. i + 2 \in DOMAIN todo' => (i + 1) + 2 \in DOMAIN todo /\ todo'[i + 2] = todo[(i + 1) + 2]
    <3>1. i + 2 \in 1..n - 1 => (i + 2) + 1 \in 1..n /\ (i + 2) + 1 = (i + 1) + 2
      BY <1>2
    <3>. QED
      BY <1>2, <3>1
  <2>. QED
    BY <2>1, <2>2, <2>3, <2>4 DEF NestingInv
<1>. QED
  BY <1>3 DEF NestingInv, DeletedFor

\* The loop over the events ends.
LEMMA DeliveryEnds ==
    ASSUME ClientInv, Pending("deliver"), todo' = Tail(todo), Hear
    PROVE  StackShape' /\ GoOn /\ waiting' = waiting
<1>. DEFINE n == Len(todo)
            m == Len(waiting)
<1>0. ClientTypeOK /\ todo # <<>> /\ Head(todo).op = "deliver" /\ Deleting(Head(todo))
  BY DEF ClientInv, Pending, Deleting
<1>1. DeletionStack /\ NestingInv
  BY <1>0, DeletionMode
<1>2. /\ todo \in Seq(Frames) /\ DOMAIN todo = 1..n /\ n \in Nat /\ m \in Nat /\ n = 2 * m + 1
      /\ waiting \in Seq(SUBSET Views) /\ DOMAIN waiting = 1..m
      /\ \A k \in 1..m : /\ Emission(k) = todo[2 * k]
                         /\ todo[2 * k].op = "slots" /\ todo[2 * k + 1].op = "deliver"
  BY <1>0, <1>1, DeletionShape
<1>3. /\ todo' \in Seq(Frames) /\ Len(todo') = n - 1 /\ DOMAIN todo' = 1..n - 1
      /\ \A i \in 1..n - 1 : todo'[i] = todo[i + 1]
      /\ todo' # <<>> => Head(todo') = todo[2]
  <2>1. todo \in Seq(Frames)
    BY <1>2
  <2>. QED
    BY <1>0, <2>1, PoppedFrame
<1>4. waiting' = waiting
  <2>1. ~(Len(todo') >= Len(todo))
    BY <1>2, <1>3
  <2>. QED
    BY <2>1 DEF Hear
<1>5. /\ NestingInv'
      /\ \A i \in DOMAIN todo' : Deleting(todo'[i]) /\ todo'[i].op # "drain"
  BY <1>0, <1>1, TailNests
<1>. HIDE DEF n, m
<1>6. CASE m = 0
  <2>1. Len(todo') = 0 /\ DOMAIN todo' = {} /\ todo' = <<>> /\ Len(waiting') = 0
    <3>1. Len(todo') = 0 /\ DOMAIN todo' = {} /\ todo' \in Seq(Frames)
      BY <1>2, <1>3, <1>6
    <3>2. Len(waiting') = 0
      BY <1>4, <1>6 DEF m
    <3>. QED
      BY <3>1, <3>2
  <2>2. StoringStack'
    BY <2>1 DEF StoringStack, Deleting
  <2>3. DOMAIN waiting = {}
    BY <1>2, <1>6
  <2>. QED
    BY <1>4, <2>2, <2>3 DEF StackShape, GoOn
<1>7. CASE m # 0
  <2>1. todo' # <<>> /\ 2 * 1 = 2 /\ 1 \in 1..m /\ Head(todo') = todo[2]
    <3>1. 1 \in 1..n - 1 /\ 1 \in 1..m
      BY <1>2, <1>7
    <3>2. todo' # <<>>
      BY <1>3, <3>1
    <3>. QED
      BY <1>3, <3>1, <3>2
  <2>2. Head(todo').op = "slots"
    BY <1>2, <2>1
  <2>3. ASSUME NEW k \in 1..m
        PROVE  /\ Place(k)' = 2 * k - 1 /\ Emission(k)' = Emission(k)
               /\ Emission(k)'.op = "slots" /\ todo'[Place(k)' + 1].op = "deliver"
    <3>1. Place(k)' = 2 * k - 1
      BY <2>2 DEF Place
    <3>2. 2 * k - 1 \in 1..n - 1 /\ 2 * k \in 1..n - 1 /\ (2 * k - 1) + 1 = 2 * k
      BY <1>2
    <3>3. todo'[2 * k - 1] = todo[2 * k] /\ todo'[2 * k] = todo[2 * k + 1]
      BY <1>3, <3>2
    <3>. QED
      BY <1>2, <3>1, <3>2, <3>3 DEF Emission
  <2>4. Len(todo') = Place(Len(waiting))' + 1
    BY <1>2, <1>3, <1>4, <2>2 DEF Place, m
  <2>5. DeletionStack'
    BY <1>2, <1>4, <1>5, <2>1, <2>3, <2>4 DEF DeletionStack, Deleting, Place, Emission
  <2>. QED
    BY <1>2, <1>4, <1>5, <2>3, <2>5 DEF StackShape, GoOn
<1>. QED
  BY <1>6, <1>7

\* One turn of the loop: an object is told of.
LEMMA DeliveryTells ==
    ASSUME ClientInv, Pending("deliver"), Hear, NEW o \in Objects, Head(todo).gone[o] > 0,
           NEW g \in Bags, \A p \in Objects : g[p] > 0 => Head(todo).gone[p] > 0,
           Tell(o, "Deleted", <<DeliverAll(g)>> \o Tail(todo)), UNCHANGED open
    PROVE  DeletionStack' /\ NestingInv' /\ Begins(o, "Deleted")
<1>. DEFINE n  == Len(todo)
            m  == Len(waiting)
            f1 == Slots(o, "Deleted")
            f2 == DeliverAll(g)
            rest == <<f2>> \o Tail(todo)
<1>0. ClientTypeOK /\ todo # <<>> /\ Head(todo).op = "deliver" /\ Deleting(Head(todo))
  BY DEF ClientInv, Pending, Deleting
<1>1. DeletionStack /\ NestingInv
  BY <1>0, DeletionMode
<1>2. /\ todo \in Seq(Frames) /\ DOMAIN todo = 1..n /\ n \in Nat /\ m \in Nat /\ n = 2 * m + 1
      /\ waiting \in Seq(SUBSET Views) /\ DOMAIN waiting = 1..m /\ todo[1] = Head(todo)
      /\ \A k \in 1..m : /\ Emission(k) = todo[2 * k]
                         /\ todo[2 * k].op = "slots" /\ todo[2 * k + 1].op = "deliver"
  BY <1>0, <1>1, DeletionShape
<1>3. /\ f1 \in Frames /\ f1.op = "slots" /\ f1.object = o /\ Deleting(f1)
      /\ f2 \in Frames /\ f2.op = "deliver" /\ f2.gone = g /\ Deleting(f2)
  BY FramesOfDeletions DEF Slots, DeliverAll, Frames
<1>4. todo' = <<f1>> \o rest
  BY DEF Tell
<1>. HIDE DEF f1, f2
<1>5. rest \in Seq(Frames) /\ Len(rest) = n /\ rest[1] = f2 /\ \A i \in 2..n : rest[i] = todo[i]
  <2>1. todo \in Seq(Frames)
    BY <1>2
  <2>. QED
    BY <1>0, <1>3, <2>1, ReplacedFrame
<1>. HIDE DEF rest
<1>6. /\ todo' # <<>> /\ Len(todo') = n + 1 /\ Head(todo') = f1 /\ todo'[1] = f1
      /\ DOMAIN todo' = 1..n + 1 /\ \A i \in 1..n : todo'[i + 1] = rest[i]
  <2>1. rest \in Seq(Frames) /\ Len(rest) = n
    BY <1>5
  <2>. QED
    BY <1>3, <1>4, <2>1, PushedFrame
<1>7. waiting' = <<Listeners(o)>> \o waiting
  BY <1>2, <1>3, <1>6 DEF Hear
<1>8. Len(waiting') = m + 1 /\ DOMAIN waiting' = 1..m + 1
  <2>1. Listeners(o) \in SUBSET Views
    BY DEF Listeners
  <2>. QED
    BY <1>2, <1>7, <2>1
<1>. HIDE DEF n, m
<1>9. todo'[2] = f2 /\ \A i \in 3..n + 1 : i - 1 \in DOMAIN todo /\ i - 1 # 1 /\ todo'[i] = todo[i - 1]
  <2>1. 1 \in 1..n
    BY <1>2
  <2>2. \A i \in 3..n + 1 : i - 1 \in 2..n /\ i - 1 \in 1..n /\ (i - 1) + 1 = i /\ i - 1 # 1
    BY <1>2
  <2>3. todo'[1 + 1] = f2
    BY <1>5, <1>6, <2>1
  <2>. QED
    BY <1>2, <1>5, <1>6, <2>2, <2>3
<1>10. \A k \in 1..m + 1 : Place(k)' = 2 * k - 1
  BY <1>3, <1>6 DEF Place
<1>11. Emission(1)' = f1
  <2>1. Place(1)' = 1
    BY <1>2, <1>10
  <2>. QED
    BY <1>6, <2>1 DEF Emission
<1>12. ASSUME NEW k \in 1..m
       PROVE  /\ Emission(k + 1)' = Emission(k)
              /\ Emission(k + 1)'.op = "slots" /\ todo'[Place(k + 1)' + 1].op = "deliver"
  <2>1. Place(k + 1)' = 2 * k + 1
    BY <1>2, <1>10
  <2>2. 2 * k + 1 \in 3..n + 1 /\ 2 * k + 2 \in 3..n + 1 /\ (2 * k + 1) - 1 = 2 * k
        /\ (2 * k + 2) - 1 = 2 * k + 1 /\ (2 * k + 1) + 1 = 2 * k + 2
    BY <1>2
  <2>3. todo'[2 * k + 1] = todo[2 * k] /\ todo'[2 * k + 2] = todo[2 * k + 1]
    BY <1>9, <2>2
  <2>. QED
    BY <1>2, <2>1, <2>2, <2>3 DEF Emission
<1>13. \A i \in DOMAIN todo' : i = 1 \/ i = 2 \/ i \in 3..n + 1
  BY <1>2, <1>6
<1>14. DeletionStack'
  <2>1. Len(todo') = Place(Len(waiting))' + 1
    <3>1. Place(Len(waiting))' = 2 * Len(waiting') - 1
      BY <1>3, <1>6 DEF Place
    <3>. QED
      BY <1>2, <1>6, <1>8, <3>1
  <2>2. \A i \in DOMAIN todo' : Deleting(todo'[i]) /\ (todo'[i].op = "drain" => i = 1)
    <3>. TAKE i \in DOMAIN todo'
    <3>1. CASE i \in 3..n + 1
      BY <1>1, <1>9, <3>1 DEF DeletionStack
    <3>. QED
      BY <1>3, <1>6, <1>9, <1>13, <3>1
  <2>3. \A k \in DOMAIN waiting' : Emission(k)'.op = "slots" /\ todo'[Place(k)' + 1].op = "deliver"
    <3>. TAKE k \in DOMAIN waiting'
    <3>1. CASE k = 1
      <4>1. Place(1)' + 1 = 2
        BY <1>2, <1>10
      <4>. QED
        BY <1>3, <1>9, <1>11, <3>1, <4>1
    <3>2. CASE k # 1
      <4>1. k - 1 \in 1..m /\ (k - 1) + 1 = k
        BY <1>2, <1>8, <3>2
      <4>. QED
        BY <1>12, <4>1
    <3>. QED
      BY <3>1, <3>2
  <2>. QED
    BY <1>6, <2>1, <2>2, <2>3 DEF DeletionStack, Deleting, Place, Emission
<1>15. NestingInv'
  <2>1. 2 \in DOMAIN todo => \A p \in Objects : Head(todo).gone[p] > 0 => DeletedFor(todo[2].object, p)
    <3>1. 1 \in DOMAIN todo /\ 1 + 1 = 2
      BY <1>2
    <3>. QED
      BY <1>0, <1>1, <1>2, <3>1 DEF NestingInv
  <2>2. 3 \in DOMAIN todo' => 2 \in DOMAIN todo /\ todo'[3] = todo[2]
    <3>1. 3 \in 1..n + 1 => 3 \in 3..n + 1 /\ 3 - 1 = 2
      BY <1>2
    <3>. QED
      BY <1>6, <1>9, <3>1
  <2>3. 1 + 2 \in DOMAIN todo' => DeletedFor(todo'[1 + 2].object, o)
    BY <2>1, <2>2
  <2>4. 2 + 1 \in DOMAIN todo' => \A p \in Objects : g[p] > 0 => DeletedFor(todo'[2 + 1].object, p)
    BY <2>1, <2>2
  <2>5. ASSUME NEW i \in 3..n + 1
        PROVE  /\ todo'[i].op # "drain"
               /\ todo'[i].op = "deliver" /\ i + 1 \in DOMAIN todo' =>
                      \A p \in Objects : todo'[i].gone[p] > 0 => DeletedFor(todo'[i + 1].object, p)
               /\ todo'[i].op = "slots" /\ i + 2 \in DOMAIN todo' =>
                      DeletedFor(todo'[i + 2].object, todo'[i].object)
    <3>1. i - 1 \in DOMAIN todo /\ i - 1 # 1 /\ todo'[i] = todo[i - 1]
      BY <1>9
    <3>2. todo[i - 1].op # "drain"
      BY <1>1, <3>1 DEF DeletionStack
    <3>3. \A j \in {i + 1, i + 2} : j \in 1..n + 1 => j \in 3..n + 1
      BY <1>2
    <3>4. i + 1 \in DOMAIN todo' => (i - 1) + 1 \in DOMAIN todo /\ todo'[i + 1] = todo[(i - 1) + 1]
      <4>1. (i + 1) - 1 = (i - 1) + 1
        BY <1>2
      <4>. QED
        BY <1>6, <1>9, <3>3, <4>1
    <3>5. i + 2 \in DOMAIN todo' => (i - 1) + 2 \in DOMAIN todo /\ todo'[i + 2] = todo[(i - 1) + 2]
      <4>1. (i + 2) - 1 = (i - 1) + 2
        BY <1>2
      <4>. QED
        BY <1>6, <1>9, <3>3, <4>1
    <3>. QED
      BY <1>1, <3>1, <3>2, <3>4, <3>5 DEF NestingInv
  <2>. QED
    BY <1>3, <1>6, <1>9, <1>13, <2>3, <2>4, <2>5 DEF NestingInv, DeletedFor
<1>. QED
  BY <1>2, <1>7, <1>11, <1>12, <1>14, <1>15 DEF Begins, f1

\* Whoever is being called is in an emission.
LEMMA SomeEmission ==
    ASSUME ClientInv, Pending("slots")
    PROVE  /\ todo \in Seq(Frames) /\ todo # <<>> /\ Head(todo).op = "slots" /\ todo[1] = Head(todo)
           /\ waiting \in Seq(SUBSET Views) /\ waiting # <<>> /\ 1 \in DOMAIN waiting
           /\ Head(waiting) = waiting[1]
           /\ Place(1) = 1 /\ Emission(1) = Head(todo)
<1>0. /\ ClientTypeOK /\ todo # <<>> /\ Head(todo).op = "slots"
      /\ StackShape /\ todo \in Seq(Frames) /\ waiting \in Seq(SUBSET Views)
  BY DEF ClientInv, StackOfClients, ClientTypeOK, TypeOK, Pending
<1>1. waiting # <<>>
  <2>1. CASE StoringStack
    BY <1>0, <2>1 DEF StoringStack
  <2>2. CASE DeletionStack
    BY <1>0, <2>2, DeletionShape
  <2>. QED
    BY <1>0, <2>1, <2>2 DEF StackShape
<1>2. Place(1) = 1 /\ todo[1] = Head(todo) /\ 1 \in DOMAIN waiting /\ Head(waiting) = waiting[1]
  BY <1>0, <1>1 DEF Place
<1>. QED
  BY <1>0, <1>1, <1>2 DEF Emission

\* One slot is called and calls nothing back.
LEMMA CalledStack ==
    ASSUME ClientInv, NEW v, Pending("slots"), SlotDone(v), UNCHANGED <<todo, rows, monitor>>
    PROVE  StackShape' /\ GoOn
<1>1. Len(waiting') = Len(waiting) /\ DOMAIN waiting' = DOMAIN waiting
  BY SomeEmission, OneIsCalled
<1>2. StackShape
  BY DEF ClientInv, StackOfClients
<1>3. todo' = todo /\ rows' = rows /\ monitor' = monitor
  OBVIOUS
<1>4. StoringStack => StoringStack'
  BY <1>1, <1>3 DEF StoringStack, Deleting
<1>5. DeletionStack => DeletionStack'
  BY <1>1, <1>3 DEF DeletionStack, Deleting, Place, Emission
<1>6. NestingInv => NestingInv'
  BY <1>3 DEF NestingInv, DeletedFor
<1>. QED
  BY <1>2, <1>3, <1>4, <1>5, <1>6 DEF StackShape, GoOn, Emission, Place

\* All slots have been called.
LEMMA EndingStack ==
    ASSUME ClientInv, EmissionEnds
    PROVE  StackShape' /\ Ends
<1>. DEFINE n == Len(todo)
            m == Len(waiting)
<1>0. /\ ClientTypeOK /\ Pending("slots") /\ todo' = Tail(todo) /\ UNCHANGED rows
      /\ StackShape /\ waiting' = Tail(waiting) /\ Head(waiting) = {}
  BY DEF ClientInv, StackOfClients, EmissionEnds, SlotsReturn
<1>1. /\ todo \in Seq(Frames) /\ todo # <<>> /\ Head(todo).op = "slots"
      /\ waiting \in Seq(SUBSET Views) /\ waiting # <<>>
  BY <1>0, SomeEmission
<1>2. /\ todo' \in Seq(Frames) /\ Len(todo') = n - 1 /\ DOMAIN todo' = 1..n - 1
      /\ \A i \in 1..n - 1 : todo'[i] = todo[i + 1]
      /\ todo' # <<>> => Head(todo') = todo[2]
  BY <1>0, <1>1, PoppedFrame
<1>3. /\ waiting' \in Seq(SUBSET Views) /\ Len(waiting') = m - 1 /\ DOMAIN waiting' = 1..m - 1
      /\ m \in Nat
  <2>1. waiting' \in Seq(SUBSET Views) /\ Len(waiting') = m - 1 /\ m \in Nat
    BY <1>0, <1>1, CalledViews
  <2>. QED
    BY <2>1, CalledViews
<1>4. CASE StoringStack
  <2>1. m = 1
    BY <1>1, <1>4 DEF StoringStack
  <2>2. /\ Len(todo') = Len(todo) - 1 /\ Len(todo) \in 1..5
        /\ \A i \in DOMAIN todo' : /\ ~Deleting(todo'[i]) /\ todo'[i].op # "slots"
                                   /\ todo'[i].op = "insertKey" => i = Len(todo') /\ i <= 1
    BY <1>0, <1>1, <1>4, StoringTail
  <2>3. todo' # <<>> => Head(todo').op # "slots"
    <3>1. todo' # <<>> => 1 \in DOMAIN todo' /\ Head(todo') = todo'[1]
      BY <1>2
    <3>. QED
      BY <2>2, <3>1
  <2>4. Len(waiting') = 0 /\ DOMAIN waiting' = {} /\ Len(todo') <= 5
    <3>1. Len(waiting') = 0
      BY <1>3, <2>1
    <3>2. DOMAIN waiting' = 1..0
      BY <1>3, <2>1
    <3>3. Len(todo') <= 5
      <4>1. \A x \in 1..5 : x - 1 <= 5
        OBVIOUS
      <4>. QED
        BY <2>2, <4>1
    <3>. QED
      BY <3>1, <3>2, <3>3
  <2>5. \A i \in DOMAIN todo' : todo'[i].op = "insertKey" => i = Len(todo') /\ i <= 2
    <3>1. \A i \in DOMAIN todo' : i \in Nat
      BY <1>2
    <3>. QED
      BY <2>2, <3>1
  <2>6. StoringStack'
    BY <2>2, <2>3, <2>4, <2>5 DEF StoringStack, Deleting
  <2>. QED
    <3>1. \A k \in DOMAIN waiting' : Emission(k)' = Emission(k + 1)
      BY <2>4
    <3>. QED
      BY <1>0, <1>1, <2>6, <3>1 DEF StackShape, Ends
<1>5. CASE DeletionStack /\ NestingInv
  <2>1. /\ n \in Nat /\ n = 2 * m /\ m >= 1
        /\ \A k \in 1..m : /\ Emission(k) = todo[2 * k - 1]
                           /\ todo[2 * k - 1].op = "slots" /\ todo[2 * k].op = "deliver"
    BY <1>0, <1>1, <1>5, DeletionShape
  <2>2. NestingInv' /\ \A i \in DOMAIN todo' : Deleting(todo'[i]) /\ todo'[i].op # "drain"
    BY <1>0, <1>5, TailNests
  <2>. HIDE DEF n, m
  <2>3. todo' # <<>> /\ Head(todo') = todo[2] /\ todo[2].op = "deliver"
    <3>1. 1 \in 1..n - 1 /\ 1 \in 1..m /\ 2 * 1 = 2
      <4>1. m \in Nat /\ m >= 1 /\ n = 2 * m
        BY <1>3, <2>1
      <4>. QED
        BY <4>1
    <3>2. todo' # <<>>
      <4>1. 1 \in DOMAIN todo'
        BY <1>2, <3>1
      <4>2. DOMAIN <<>> = {}
        OBVIOUS
      <4>. QED
        BY <4>1, <4>2, Zenon
    <3>3. todo[2 * 1].op = "deliver"
      BY <2>1, <3>1
    <3>. QED
      BY <1>2, <3>1, <3>2, <3>3
  <2>4. ASSUME NEW k \in 1..m - 1
        PROVE  /\ Place(k)' = 2 * k /\ Emission(k)' = Emission(k + 1)
               /\ Emission(k)'.op = "slots" /\ todo'[Place(k)' + 1].op = "deliver"
    <3>1. Place(k)' = 2 * k
      BY <2>3 DEF Place
    <3>2. /\ k + 1 \in 1..m /\ 2 * k \in 1..n - 1 /\ 2 * k + 1 \in 1..n - 1
          /\ 2 * (k + 1) - 1 = 2 * k + 1 /\ 2 * (k + 1) = (2 * k + 1) + 1
      BY <1>3, <2>1
    <3>3. todo'[2 * k] = todo[2 * (k + 1) - 1] /\ todo'[2 * k + 1] = todo[2 * (k + 1)]
      BY <1>2, <3>2
    <3>4. /\ Emission(k + 1) = todo[2 * (k + 1) - 1]
          /\ todo[2 * (k + 1) - 1].op = "slots" /\ todo[2 * (k + 1)].op = "deliver"
      BY <2>1, <3>2
    <3>5. Emission(k)' = todo'[2 * k]
      BY <3>1 DEF Emission
    <3>. QED
      BY <3>1, <3>3, <3>4, <3>5
  <2>5. Len(todo') = Place(Len(waiting))' + 1
    <3>1. Place(Len(waiting))' = 2 * Len(waiting')
      BY <2>3 DEF Place
    <3>. QED
      BY <1>2, <1>3, <2>1, <3>1
  <2>6. DeletionStack'
    BY <1>3, <2>2, <2>3, <2>4, <2>5 DEF DeletionStack, Deleting, Place, Emission
  <2>. QED
    BY <1>0, <1>1, <1>3, <2>2, <2>4, <2>6 DEF StackShape, Ends
<1>. QED
  BY <1>0, <1>4, <1>5 DEF StackShape

-----------------------------------------------------------------------------
(* Who is called.                                                          *)

\* When an emission begins.
LEMMA EmissionsBegin ==
    ASSUME EmissionsInv, waiting \in Seq(SUBSET Views), open' = open,
           NEW o, NEW change, Begins(o, change)
    PROVE  EmissionsInv'
<1>1. Listeners(o) \in SUBSET Views /\ \A p : Listeners(p)' = Listeners(p)
  BY DEF Listeners
<1>2. /\ Len(waiting) \in Nat /\ DOMAIN waiting = 1..Len(waiting)
      /\ waiting' \in Seq(SUBSET Views) /\ Len(waiting') = Len(waiting) + 1
      /\ waiting'[1] = Listeners(o) /\ \A k \in 1..Len(waiting) : waiting'[k + 1] = waiting[k]
  BY <1>1, CalledViews DEF Begins
<1>3. DOMAIN waiting' = 1..Len(waiting')
  BY <1>2, CalledViews
<1>4. waiting'[1] \subseteq Listeners(Emission(1)'.object)
  BY <1>1, <1>2 DEF Begins, Slots
<1>5. ASSUME NEW k \in 1..Len(waiting)
      PROVE  waiting'[k + 1] \subseteq Listeners(Emission(k + 1)'.object)
  BY <1>1, <1>2, <1>5 DEF Begins, EmissionsInv
<1>6. ASSUME NEW k \in DOMAIN waiting'
      PROVE  waiting'[k] \subseteq Listeners(Emission(k)'.object)
  <2>1. CASE k = 1
    BY <1>4, <2>1
  <2>2. CASE k # 1
    <3>1. k - 1 \in 1..Len(waiting) /\ (k - 1) + 1 = k
      BY <1>2, <1>3, <1>6, <2>2
    <3>. QED
      BY <1>5, <3>1
  <2>. QED
    BY <2>1, <2>2
<1>. QED
  BY <1>6 DEF EmissionsInv, Listeners, Emission, Place

\* While emissions go on.
LEMMA EmissionsGoOn ==
    ASSUME EmissionsInv, open' = open, GoOn, DOMAIN waiting' = DOMAIN waiting,
           \A k \in DOMAIN waiting : waiting'[k] \subseteq waiting[k]
    PROVE  EmissionsInv'
<1>1. \A p : Listeners(p)' = Listeners(p)
  BY DEF Listeners
<1>2. ASSUME NEW k \in DOMAIN waiting'
      PROVE  waiting'[k] \subseteq Listeners(Emission(k)'.object)
  BY <1>1, <1>2 DEF GoOn, EmissionsInv
<1>. QED
  BY <1>2 DEF EmissionsInv, Listeners, Emission, Place

\* When the innermost emission ends.
LEMMA EmissionsEnd ==
    ASSUME EmissionsInv, waiting \in Seq(SUBSET Views), open' = open, Ends
    PROVE  EmissionsInv'
<1>1. \A p : Listeners(p)' = Listeners(p)
  BY DEF Listeners
<1>2. /\ Len(waiting) \in Nat /\ DOMAIN waiting = 1..Len(waiting)
      /\ Len(waiting') = Len(waiting) - 1 /\ waiting' \in Seq(SUBSET Views)
      /\ \A k \in 1..Len(waiting) - 1 : waiting'[k] = waiting[k + 1]
  BY CalledViews DEF Ends
<1>3. DOMAIN waiting' = 1..Len(waiting')
  BY <1>2, CalledViews
<1>4. ASSUME NEW k \in DOMAIN waiting'
      PROVE  waiting'[k] \subseteq Listeners(Emission(k)'.object)
  <2>1. k + 1 \in DOMAIN waiting /\ waiting'[k] = waiting[k + 1]
    BY <1>2, <1>3
  <2>. QED
    BY <1>1, <1>4, <2>1 DEF Ends, EmissionsInv
<1>. QED
  BY <1>4 DEF EmissionsInv, Listeners, Emission, Place

-----------------------------------------------------------------------------
(* What the models show.                                                   *)

\* While rows are stored, no model shows an object that is gone.
LEMMA StoringModels ==
    ASSUME ClientInv, StoringStack
    PROVE  monitor = NoTuples /\ \A v \in Views : model[v] \subseteq rows
<1>0. /\ todo \in Seq(Frames) /\ waiting \in Seq(SUBSET Views) /\ SyncInv /\ SignalsInv
      /\ model \in [Views -> SUBSET Objects]
  BY DEF ClientInv, ClientTypeOK, TypeOK, FeedInv
<1>1. ~Pending("drain")
  <2>1. todo # <<>> => 1 \in DOMAIN todo /\ todo[1] = Head(todo)
    BY <1>0
  <2>. QED
    BY <2>1 DEF StoringStack, Pending, Deleting
<1>2. monitor = NoTuples
  BY <1>0, <1>1 DEF SignalsInv, MonitorIsRead
<1>3. \A o \in Objects : ~(monitor[o] > 0)
  BY <1>2 DEF NoTuples
<1>4. \A o : ~ToBeDelivered(o)
  BY DEF ToBeDelivered, StoringStack, Deleting, Range
<1>5. \A k \in DOMAIN waiting : Emission(k).change # "Deleted"
  <2>. SUFFICES ASSUME NEW k \in DOMAIN waiting PROVE Emission(k).change = "Created"
    OBVIOUS
  <2>1. todo # <<>> /\ Head(todo).op = "slots" /\ Len(waiting) = 1
    BY <1>0 DEF StoringStack
  <2>2. k = 1 /\ Place(k) = 1 /\ 1 \in DOMAIN todo /\ todo[1] = Head(todo)
    <3>1. k = 1
      BY <1>0, <2>1
    <3>. QED
      BY <1>0, <2>1, <3>1 DEF Place
  <2>. QED
    BY <2>1, <2>2 DEF StoringStack, Emission
<1>6. \A v \in Views, o \in Objects : ~OwedDeletion(v, o)
  BY <1>3, <1>4, <1>5 DEF OwedDeletion
<1>. QED
  BY <1>0, <1>2, <1>6 DEF SyncInv

\* A row is stored and told of.
LEMMA TellingKeepsSync ==
    ASSUME ClientInv, NEW o, RowIsTold(o), UNCHANGED <<open, model>>
    PROVE  SyncInv'
<1>0. SyncInv /\ waiting = <<>> /\ rows' = rows \cup {o} /\ Begins(o, "Created") /\ DOMAIN waiting = {}
  BY DEF ClientInv, RowIsTold
<1>1. \A v \in Views : model[v] \subseteq rows
  BY StoringModels DEF RowIsTold
<1>2. waiting' = <<Listeners(o)>> \o waiting
  BY <1>0 DEF Begins
<1>3. 1 \in DOMAIN waiting' /\ waiting'[1] = Listeners(o)
  BY <1>0, <1>2
<1>4. Emission(1)'.change = "Created" /\ Emission(1)'.object = o
  BY <1>0 DEF Begins, Slots
<1>5. ASSUME NEW v \in Views, v.owner \in open, NEW q \in rows', Shows(v, q)
      PROVE  q \in model[v] \/ OwedCreation(v, q)'
  <2>1. CASE q = o
    <3>1. v \in waiting'[1]
      BY <1>3, <1>5, <2>1 DEF Listeners
    <3>. QED
      BY <1>3, <1>4, <2>1, <3>1 DEF OwedCreation
  <2>2. CASE q # o
    <3>1. q \in rows
      BY <1>0, <2>2
    <3>2. q \in model[v] \/ OwedCreation(v, q)
      BY <1>0, <1>5, <3>1 DEF SyncInv
    <3>3. OwedCreation(v, q) => \E f \in Range(todo) : f.op = "announce" /\ f.connection = q
      BY <1>0 DEF OwedCreation
    <3>4. OwedCreation(v, q) => \E f \in Range(todo') : f.op = "announce" /\ f.connection = q
      BY <2>2, <3>3 DEF RowIsTold
    <3>. QED
      BY <3>2, <3>4 DEF OwedCreation
  <2>. QED
    BY <2>1, <2>2
<1>6. \A v \in Views : v.owner \notin open => model[v] = {}
  BY <1>0 DEF SyncInv
<1>7. \A v \in Views : \A q \in model[v] : Shows(v, q) /\ q \in rows'
  BY <1>0, <1>1 DEF SyncInv
<1>. QED
  BY <1>5, <1>6, <1>7 DEF SyncInv, Shows

\* Nothing is told yet.
LEMMA StoringKeepsSync ==
    ASSUME ClientInv, NothingIsTold, UNCHANGED <<open, model>>
    PROVE  SyncInv'
<1>0. SyncInv /\ DOMAIN waiting = {} /\ rows \subseteq rows'
  BY DEF ClientInv, NothingIsTold
<1>1. \A v \in Views : model[v] \subseteq rows
  BY StoringModels DEF NothingIsTold
<1>2. ASSUME NEW v \in Views, v.owner \in open, NEW q \in rows', Shows(v, q)
      PROVE  q \in model[v] \/ OwedCreation(v, q)'
  <2>1. CASE q \in rows
    <3>1. q \in model[v] \/ OwedCreation(v, q)
      BY <1>0, <1>2, <2>1 DEF SyncInv
    <3>2. OwedCreation(v, q) => \E f \in Range(todo) : f.op = "announce" /\ f.connection = q
      BY <1>0 DEF OwedCreation
    <3>3. OwedCreation(v, q) => \E f \in Range(todo') : f.op = "announce" /\ f.connection = q
      BY <3>2 DEF NothingIsTold
    <3>. QED
      BY <3>1, <3>3 DEF OwedCreation
  <2>2. CASE q \notin rows
    BY <2>2 DEF NothingIsTold, OwedCreation
  <2>. QED
    BY <2>1, <2>2
<1>3. \A v \in Views : v.owner \notin open => model[v] = {}
  BY <1>0 DEF SyncInv
<1>4. \A v \in Views : \A q \in model[v] : Shows(v, q) /\ q \in rows'
  BY <1>0, <1>1 DEF SyncInv
<1>. QED
  BY <1>2, <1>3, <1>4 DEF SyncInv, Shows

\* While the tables stay, nobody may forget what is still to be told.
LEMMA OwedKeepsSync ==
    ASSUME ClientInv, UNCHANGED <<rows, open, model>>,
           \A v \in Views : \A o \in model[v] : OwedDeletion(v, o) => OwedDeletion(v, o)',
           \A v \in Views : \A o \in rows : OwedCreation(v, o) => o \in model[v] \/ OwedCreation(v, o)'
    PROVE  SyncInv'
<1>0. SyncInv
  BY DEF ClientInv
<1>1. \A v \in Views : v.owner \notin open => model[v] = {}
  BY <1>0 DEF SyncInv
<1>2. \A v \in Views : \A o \in model[v] : Shows(v, o) /\ (o \in rows \/ OwedDeletion(v, o)')
  BY <1>0 DEF SyncInv
<1>3. ASSUME NEW v \in Views, v.owner \in open, NEW o \in rows, Shows(v, o)
      PROVE  o \in model[v] \/ OwedCreation(v, o)'
  BY <1>0, <1>3 DEF SyncInv
<1>. QED
  BY <1>1, <1>2, <1>3 DEF SyncInv, Shows

\* Where nothing happens nothing changes.
LEMMA NothingHappens ==
    ASSUME ClientInv, UNCHANGED <<rows, todo, monitor, waiting, open, model>>
    PROVE  StackOfClients' /\ SyncInv'
<1>1. /\ rows' = rows /\ todo' = todo /\ monitor' = monitor /\ waiting' = waiting
      /\ open' = open /\ model' = model
  OBVIOUS
<1>2. StackOfClients /\ StackShape /\ EmissionsInv
  BY DEF ClientInv, StackOfClients
<1>3. StackShape'
  BY <1>1, <1>2 DEF StackShape, StoringStack, DeletionStack, NestingInv, DeletedFor, Deleting,
                    Place, Emission
<1>4. EmissionsInv'
  BY <1>1, <1>2, EmissionsGoOn DEF GoOn, Emission, Place
<1>5. SyncInv'
  BY <1>1, OwedKeepsSync DEF OwedDeletion, OwedCreation, ToBeDelivered, Emission, Place
<1>. QED
  BY <1>3, <1>4, <1>5 DEF StackOfClients

\* A view hears of a new row.
LEMMA AddingKeepsSync ==
    ASSUME ClientInv, NEW v \in Views, SlotAdds(v)
    PROVE  SyncInv'
<1>. DEFINE p == Head(todo).object
<1>0. /\ SyncInv /\ StackShape /\ EmissionsInv /\ Pending("slots") /\ SlotDone(v)
      /\ v \in Head(waiting) /\ Head(todo).change = "Created"
      /\ model \in [Views -> SUBSET Objects] /\ model' = [model EXCEPT ![v] = @ \cup {p}]
      /\ rows' = rows /\ todo' = todo /\ monitor' = monitor /\ open' = open
  BY DEF ClientInv, StackOfClients, ClientTypeOK, SlotAdds, vars
<1>1. /\ todo \in Seq(Frames) /\ todo # <<>> /\ Head(todo).op = "slots" /\ todo[1] = Head(todo)
      /\ waiting \in Seq(SUBSET Views) /\ waiting # <<>> /\ 1 \in DOMAIN waiting
      /\ Head(waiting) = waiting[1] /\ Emission(1) = Head(todo)
  BY <1>0, SomeEmission
<1>2. StoringStack
  <2>1. 1 \in DOMAIN todo /\ ~Deleting(todo[1])
    BY <1>0, <1>1 DEF Deleting
  <2>. QED
    BY <1>0, <2>1 DEF StackShape, DeletionStack
<1>3. p \in rows /\ Len(waiting) = 1
  <2>1. 1 \in DOMAIN todo
    BY <1>1
  <2>. QED
    BY <1>1, <1>2, <2>1 DEF StoringStack
<1>4. v.owner \in open /\ Shows(v, p)
  BY <1>0, <1>1 DEF EmissionsInv, Listeners
<1>5. \A u \in Views : model[u] \subseteq rows
  BY <1>2, StoringModels
<1>6. /\ DOMAIN waiting' = DOMAIN waiting /\ waiting'[1] = waiting[1] \ {v}
      /\ \A k \in DOMAIN waiting : k = 1
  <2>1. \A k \in DOMAIN waiting : k = 1
    BY <1>1, <1>3
  <2>. QED
    BY <1>0, <1>1, <2>1, OneIsCalled
<1>7. \A k : Emission(k)' = Emission(k)
  BY <1>0 DEF Emission, Place
<1>. HIDE DEF p
<1>8. \A u \in Views : model'[u] = IF u = v THEN model[u] \cup {p} ELSE model[u]
  BY <1>0
<1>9. \A u \in Views : u.owner \notin open => model'[u] = {}
  BY <1>0, <1>4, <1>8 DEF SyncInv
<1>10. \A u \in Views : \A o \in model'[u] : Shows(u, o) /\ o \in rows
  BY <1>0, <1>3, <1>4, <1>5, <1>8 DEF SyncInv
<1>11. ASSUME NEW u \in Views, u.owner \in open, NEW o \in rows, Shows(u, o)
       PROVE  o \in model'[u] \/ OwedCreation(u, o)'
  <2>1. o \in model[u] \/ OwedCreation(u, o)
    BY <1>0, <1>11 DEF SyncInv
  <2>2. CASE \E f \in Range(todo) : f.op = "announce" /\ f.connection = o
    BY <1>0, <2>2 DEF OwedCreation
  <2>3. ASSUME NEW k \in DOMAIN waiting, Emission(k).change = "Created", Emission(k).object = o,
               u \in waiting[k]
        PROVE  o \in model'[u] \/ OwedCreation(u, o)'
    <3>1. k = 1 /\ o = p
      BY <1>1, <1>6, <2>3 DEF p
    <3>2. CASE u = v
      BY <1>8, <3>1, <3>2
    <3>3. CASE u # v
      <4>1. k \in DOMAIN waiting' /\ u \in waiting'[k] /\ Emission(k)'.change = "Created" /\ Emission(k)'.object = o
        BY <1>6, <1>7, <2>3, <3>1, <3>3
      <4>. QED
        BY <4>1 DEF OwedCreation
    <3>. QED
      BY <3>2, <3>3
  <2>. QED
    BY <1>8, <2>1, <2>2, <2>3 DEF OwedCreation
<1>. QED
  BY <1>0, <1>9, <1>10, <1>11 DEF SyncInv, Shows

\* A view hears that an object is gone that it does not show.
LEMMA IgnoringKeepsSync ==
    ASSUME ClientInv, NEW v \in Views, SlotIgnores(v)
    PROVE  SyncInv'
<1>0. /\ Pending("slots") /\ SlotDone(v) /\ Head(todo).change = "Deleted"
      /\ Head(todo).object \notin model[v]
      /\ UNCHANGED <<rows, open, model>> /\ todo' = todo /\ monitor' = monitor
  BY DEF SlotIgnores, vars
<1>1. waiting \in Seq(SUBSET Views) /\ waiting # <<>> /\ Emission(1) = Head(todo)
  BY <1>0, SomeEmission
<1>2. /\ DOMAIN waiting' = DOMAIN waiting /\ waiting'[1] = waiting[1] \ {v}
      /\ \A k \in DOMAIN waiting : k # 1 => waiting'[k] = waiting[k]
  BY <1>0, <1>1, OneIsCalled
<1>3. \A k : Emission(k)' = Emission(k)
  BY <1>0 DEF Emission, Place
<1>4. ASSUME NEW u \in Views, NEW o, NEW k \in DOMAIN waiting, u \in waiting[k],
             Emission(k).object = o, ~(k = 1 /\ u = v)
      PROVE  k \in DOMAIN waiting' /\ u \in waiting'[k] /\ Emission(k)'.object = o
  BY <1>2, <1>3, <1>4
<1>5. ASSUME NEW u \in Views, NEW o \in model[u], OwedDeletion(u, o)
      PROVE  OwedDeletion(u, o)'
  <2>1. CASE monitor[o] > 0 \/ ToBeDelivered(o)
    BY <1>0, <2>1 DEF OwedDeletion, ToBeDelivered
  <2>2. ASSUME NEW k \in DOMAIN waiting, Emission(k).change = "Deleted", Emission(k).object = o,
               u \in waiting[k]
        PROVE  OwedDeletion(u, o)'
    <3>1. ~(k = 1 /\ u = v)
      BY <1>0, <1>1, <1>5, <2>2
    <3>2. k \in DOMAIN waiting' /\ u \in waiting'[k] /\ Emission(k)'.object = o /\ Emission(k)'.change = "Deleted"
      BY <1>3, <1>4, <2>2, <3>1
    <3>. QED
      BY <3>2 DEF OwedDeletion
  <2>. QED
    BY <1>5, <2>1, <2>2 DEF OwedDeletion
<1>6. ASSUME NEW u \in Views, NEW o \in rows, OwedCreation(u, o)
      PROVE  OwedCreation(u, o)'
  <2>1. CASE \E f \in Range(todo) : f.op = "announce" /\ f.connection = o
    BY <1>0, <2>1 DEF OwedCreation
  <2>2. ASSUME NEW k \in DOMAIN waiting, Emission(k).change = "Created", Emission(k).object = o,
               u \in waiting[k]
        PROVE  OwedCreation(u, o)'
    <3>1. k # 1
      BY <1>0, <1>1, <2>2
    <3>2. k \in DOMAIN waiting' /\ u \in waiting'[k] /\ Emission(k)'.object = o /\ Emission(k)'.change = "Created"
      BY <1>3, <1>4, <2>2, <3>1
    <3>. QED
      BY <3>2 DEF OwedCreation
  <2>. QED
    BY <1>6, <2>1, <2>2 DEF OwedCreation
<1>. QED
  BY <1>0, <1>5, <1>6, OwedKeepsSync

\* Rows are deleted: who shows them will be told, or has erased them.
LEMMA DeletionKeepsSync ==
    ASSUME ClientInv, NEW S \in SUBSET rows, DeleteRows(S), todo' = <<Drain>> \o todo, open' = open,
           \A v \in Views : model'[v] \subseteq model[v] /\ model[v] \cap rows' \subseteq model'[v],
           \A k \in DOMAIN waiting : k \in DOMAIN waiting' /\ Emission(k)' = Emission(k),
           \A k \in DOMAIN waiting : \A v \in waiting[k] :
               \/ v \in waiting'[k]
               \/ Emission(k).change = "Deleted" /\ Emission(k).object \notin model'[v]
    PROVE  SyncInv'
<1>0. /\ SyncInv /\ monitor \in Bags /\ todo \in Seq(Frames) /\ Drain \in Frames
      /\ model \in [Views -> SUBSET Objects]
  BY DEF ClientInv, ClientTypeOK, TypeOK, Frames
<1>1. rows' = rows \ Doomed(S) /\ monitor' = Count(monitor, Doomed(S))
  BY DEF DeleteRows
<1>2. \A f \in Range(todo) : f \in Range(todo')
  BY <1>0, PushedFrames
<1>3. \A o \in Objects : (o \in Doomed(S) \/ monitor[o] > 0) => monitor'[o] > 0
  BY <1>0, <1>1 DEF Count, Bags
<1>4. \A v \in Views : v.owner \notin open => model'[v] = {}
  BY <1>0 DEF SyncInv
<1>5. ASSUME NEW v \in Views, NEW o \in model'[v]
      PROVE  Shows(v, o) /\ (o \in rows' \/ OwedDeletion(v, o)')
  <2>1. o \in model[v] /\ o \in Objects
    BY <1>0
  <2>2. Shows(v, o) /\ (o \in rows \/ OwedDeletion(v, o))
    BY <1>0, <2>1 DEF SyncInv
  <2>3. CASE o \in rows \/ monitor[o] > 0
    BY <1>1, <1>3, <2>1, <2>2, <2>3 DEF OwedDeletion
  <2>4. CASE ToBeDelivered(o)
    BY <1>2, <2>2, <2>4 DEF ToBeDelivered, OwedDeletion
  <2>5. ASSUME NEW k \in DOMAIN waiting, Emission(k).change = "Deleted", Emission(k).object = o,
               v \in waiting[k]
        PROVE  OwedDeletion(v, o)'
    <3>1. k \in DOMAIN waiting' /\ v \in waiting'[k] /\ Emission(k)'.change = "Deleted" /\ Emission(k)'.object = o
      BY <1>5, <2>5
    <3>. QED
      BY <3>1 DEF OwedDeletion
  <2>. QED
    BY <2>2, <2>3, <2>4, <2>5 DEF OwedDeletion
<1>6. ASSUME NEW v \in Views, v.owner \in open, NEW o \in rows', Shows(v, o)
      PROVE  o \in model'[v] \/ OwedCreation(v, o)'
  <2>1. o \in rows
    BY <1>1
  <2>2. o \in model[v] \/ OwedCreation(v, o)
    BY <1>0, <1>6, <2>1 DEF SyncInv
  <2>3. CASE o \in model[v]
    BY <2>3
  <2>4. CASE \E f \in Range(todo) : f.op = "announce" /\ f.connection = o
    BY <1>2, <2>4 DEF OwedCreation
  <2>5. ASSUME NEW k \in DOMAIN waiting, Emission(k).change = "Created", Emission(k).object = o,
               v \in waiting[k]
        PROVE  OwedCreation(v, o)'
    <3>1. k \in DOMAIN waiting' /\ v \in waiting'[k] /\ Emission(k)'.change = "Created" /\ Emission(k)'.object = o
      BY <2>5
    <3>. QED
      BY <3>1 DEF OwedCreation
  <2>. QED
    BY <2>2, <2>3, <2>4, <2>5 DEF OwedCreation
<1>. QED
  BY <1>4, <1>5, <1>6 DEF SyncInv, Shows

\* A slot deletes.
LEMMA RemovingKeepsSync ==
    ASSUME ClientInv, NEW v \in Views, SlotRemoves(v)
    PROVE  SyncInv'
<1>. DEFINE p == Head(todo).object
            S == {RemoveRowsDeletes(p)} \cap rows
<1>0. /\ Pending("slots") /\ Head(todo).change = "Deleted" /\ SlotDone(v) /\ open' = open
      /\ model \in [Views -> SUBSET Objects] /\ model' = [model EXCEPT ![v] = @ \ {p}]
      /\ DeleteRows(S) /\ todo' = <<Drain>> \o todo /\ S \in SUBSET rows /\ rows' \subseteq rows
  BY DEF ClientInv, ClientTypeOK, SlotRemoves, SlotMayCall, Delete, DeleteRows
<1>1. waiting \in Seq(SUBSET Views) /\ waiting # <<>> /\ Emission(1) = Head(todo)
  BY <1>0, SomeEmission
<1>2. /\ DOMAIN waiting' = DOMAIN waiting /\ waiting'[1] = waiting[1] \ {v}
      /\ \A k \in DOMAIN waiting : k # 1 => waiting'[k] = waiting[k]
  BY <1>0, <1>1, OneIsCalled
<1>3. p \notin rows
  BY SlotsDeleteConnections
<1>4. GoOn
  BY SlotsNest
<1>5. \A u \in Views : model'[u] = IF u = v THEN model[u] \ {p} ELSE model[u]
  BY <1>0
<1>6. \A u \in Views : model'[u] \subseteq model[u] /\ model[u] \cap rows' \subseteq model'[u]
  BY <1>0, <1>3, <1>5
<1>7. \A k \in DOMAIN waiting : \A u \in waiting[k] :
          \/ u \in waiting'[k]
          \/ Emission(k).change = "Deleted" /\ Emission(k).object \notin model'[u]
  <2>. SUFFICES ASSUME NEW k \in DOMAIN waiting, NEW u \in waiting[k], u \notin waiting'[k]
                PROVE  Emission(k).change = "Deleted" /\ Emission(k).object \notin model'[u]
    OBVIOUS
  <2>1. k = 1 /\ u = v
    BY <1>2
  <2>. QED
    BY <1>0, <1>1, <1>5, <2>1
<1>8. \A k \in DOMAIN waiting : k \in DOMAIN waiting' /\ Emission(k)' = Emission(k)
  BY <1>2, <1>4 DEF GoOn
<1>. HIDE DEF S, p
<1>. QED
  BY <1>0, <1>6, <1>7, <1>8, DeletionKeepsSync

\* The user deletes.
LEMMA RequestsToDelete ==
    ASSUME ClientInv, Idle, NEW o, Delete(o), UNCHANGED <<open, waiting>>,
           \A v \in Views : model'[v] \subseteq model[v] /\ model[v] \subseteq model'[v] \cup {o}
    PROVE  StackOfClients' /\ SyncInv'
<1>. DEFINE S == {o} \cap rows
<1>1. DeleteRows(S) /\ todo' = <<Drain>> \o todo /\ S \in SUBSET rows
  BY DEF Delete
<1>2. DeletionStack' /\ NestingInv' /\ waiting = <<>>
  BY DeletionBegins
<1>3. waiting' = waiting /\ DOMAIN waiting = {}
  BY <1>2
<1>4. o \notin rows'
  BY <1>1 DEF DeleteRows, Doomed
<1>5. SyncInv'
  <2>1. \A v \in Views : model'[v] \subseteq model[v] /\ model[v] \cap rows' \subseteq model'[v]
    BY <1>4
  <2>. HIDE DEF S
  <2>. QED
    BY <1>1, <1>3, <2>1, DeletionKeepsSync
<1>6. EmissionsInv'
  BY <1>3 DEF EmissionsInv
<1>. QED
  BY <1>2, <1>5, <1>6 DEF StackOfClients, StackShape

\* handleDeleteMonitor has read the events.
LEMMA DrainingKeepsSync ==
    ASSUME ClientInv, DrainMonitor, Hear, UNCHANGED <<open, model>>
    PROVE  SyncInv'
<1>. DEFINE f == DeliverAll(monitor)
            rest == Tail(todo)
<1>0. /\ todo \in Seq(Frames) /\ todo # <<>> /\ Head(todo).op = "drain" /\ monitor \in Bags
      /\ todo' = <<f>> \o rest /\ rows' = rows /\ model \in [Views -> SUBSET Objects]
  BY DEF ClientInv, ClientTypeOK, TypeOK, DrainMonitor, Pending
<1>1. GoOn /\ waiting' = waiting
  BY DrainNests
<1>2. f \in Frames /\ f.op = "deliver" /\ f.gone = monitor
  BY <1>0 DEF DeliverAll, Frames
<1>3. rest \in Seq(Frames) /\ Range(todo) = {Head(todo)} \cup Range(rest)
  BY <1>0, PoppedFrame, PoppedFrames
<1>. HIDE DEF f, rest
<1>4. Range(todo') = {f} \cup Range(rest)
  BY <1>0, <1>2, <1>3, PushedFrames
<1>5. \A g \in Range(todo) : g.op # "drain" => g \in Range(todo')
  BY <1>0, <1>3, <1>4
<1>6. ASSUME NEW v \in Views, NEW o \in model[v], OwedDeletion(v, o)
      PROVE  OwedDeletion(v, o)'
  <2>1. CASE monitor[o] > 0
    BY <1>2, <1>4, <2>1 DEF OwedDeletion, ToBeDelivered
  <2>2. CASE ToBeDelivered(o)
    BY <1>5, <2>2 DEF OwedDeletion, ToBeDelivered
  <2>3. ASSUME NEW k \in DOMAIN waiting, Emission(k).change = "Deleted", Emission(k).object = o,
               v \in waiting[k]
        PROVE  OwedDeletion(v, o)'
    <3>1. k \in DOMAIN waiting' /\ v \in waiting'[k] /\ Emission(k)'.change = "Deleted" /\ Emission(k)'.object = o
      BY <1>1, <2>3 DEF GoOn
    <3>. QED
      BY <3>1 DEF OwedDeletion
  <2>. QED
    BY <1>6, <2>1, <2>2, <2>3 DEF OwedDeletion
<1>7. ASSUME NEW v \in Views, NEW o \in rows, OwedCreation(v, o)
      PROVE  OwedCreation(v, o)'
  <2>1. CASE \E g \in Range(todo) : g.op = "announce" /\ g.connection = o
    BY <1>5, <2>1 DEF OwedCreation
  <2>2. ASSUME NEW k \in DOMAIN waiting, Emission(k).change = "Created", Emission(k).object = o,
               v \in waiting[k]
        PROVE  OwedCreation(v, o)'
    <3>1. k \in DOMAIN waiting' /\ v \in waiting'[k] /\ Emission(k)'.change = "Created" /\ Emission(k)'.object = o
      BY <1>1, <2>2 DEF GoOn
    <3>. QED
      BY <3>1 DEF OwedCreation
  <2>. QED
    BY <1>7, <2>1, <2>2 DEF OwedCreation
<1>. QED
  BY <1>0, <1>6, <1>7, OwedKeepsSync

\* The loop over the events ends.
LEMMA DeliveredKeepsSync ==
    ASSUME ClientInv, Pending("deliver"), Head(todo).gone = NoTuples, todo' = Tail(todo), Hear,
           UNCHANGED <<rows, monitor, open, model>>
    PROVE  SyncInv'
<1>0. /\ todo \in Seq(Frames) /\ todo # <<>> /\ Head(todo).op = "deliver"
      /\ model \in [Views -> SUBSET Objects]
  BY DEF ClientInv, ClientTypeOK, TypeOK, Pending
<1>1. GoOn /\ waiting' = waiting
  BY DeliveryEnds
<1>2. Range(todo) = {Head(todo)} \cup Range(todo')
  BY <1>0, PoppedFrames
<1>3. \A o \in Objects : ~(Head(todo).gone[o] > 0)
  BY DEF NoTuples
<1>4. ASSUME NEW v \in Views, NEW o \in model[v], OwedDeletion(v, o)
      PROVE  OwedDeletion(v, o)'
  <2>1. CASE monitor[o] > 0
    BY <2>1 DEF OwedDeletion
  <2>2. CASE ToBeDelivered(o)
    BY <1>0, <1>2, <1>3, <2>2 DEF OwedDeletion, ToBeDelivered
  <2>3. ASSUME NEW k \in DOMAIN waiting, Emission(k).change = "Deleted", Emission(k).object = o,
               v \in waiting[k]
        PROVE  OwedDeletion(v, o)'
    <3>1. k \in DOMAIN waiting' /\ v \in waiting'[k] /\ Emission(k)'.change = "Deleted" /\ Emission(k)'.object = o
      BY <1>1, <2>3 DEF GoOn
    <3>. QED
      BY <3>1 DEF OwedDeletion
  <2>. QED
    BY <1>4, <2>1, <2>2, <2>3 DEF OwedDeletion
<1>5. ASSUME NEW v \in Views, NEW o \in rows, OwedCreation(v, o)
      PROVE  OwedCreation(v, o)'
  <2>1. CASE \E g \in Range(todo) : g.op = "announce" /\ g.connection = o
    BY <1>0, <1>2, <2>1 DEF OwedCreation
  <2>2. ASSUME NEW k \in DOMAIN waiting, Emission(k).change = "Created", Emission(k).object = o,
               v \in waiting[k]
        PROVE  OwedCreation(v, o)'
    <3>1. k \in DOMAIN waiting' /\ v \in waiting'[k] /\ Emission(k)'.change = "Created" /\ Emission(k)'.object = o
      BY <1>1, <2>2 DEF GoOn
    <3>. QED
      BY <3>1 DEF OwedCreation
  <2>. QED
    BY <1>5, <2>1, <2>2 DEF OwedCreation
<1>. QED
  BY <1>4, <1>5, OwedKeepsSync

\* The two ways of a turn of the loop over the events.
LEMMA DeliverIs ==
    ASSUME ClientInv, Deliver
    PROVE  /\ Pending("deliver") /\ UNCHANGED <<rows, refs, typed, monitor, up, crashes>>
           /\ \/ Head(todo).gone = NoTuples /\ todo' = Tail(todo)
              \/ \E o \in Objects, g \in Bags :
                    /\ Head(todo).gone[o] > 0
                    /\ \A p \in Objects : g[p] > 0 => Head(todo).gone[p] > 0
                    /\ \A p \in Objects : p # o /\ Head(todo).gone[p] > 0 => g[p] > 0
                    /\ Tell(o, "Deleted", <<DeliverAll(g)>> \o Tail(todo))
<1>. DEFINE gone == Head(todo).gone
<1>1. TypeOK /\ Pending("deliver")
  BY DEF ClientInv, ClientTypeOK, Deliver
<1>2. gone \in Bags
  BY <1>1, HeadTyped, FrameFields
<1>3. ASSUME NEW o \in Objects, gone[o] > 0
      PROVE  LET g == [gone EXCEPT ![o] = @ - 1]
             IN  /\ g \in Bags
                 /\ \A p \in Objects : g[p] > 0 => gone[p] > 0
                 /\ \A p \in Objects : p # o /\ gone[p] > 0 => g[p] > 0
  BY <1>2, <1>3 DEF Bags
<1>4. \/ gone = NoTuples /\ todo' = Tail(todo)
      \/ \E o \in Objects : /\ gone[o] > 0
                            /\ Tell(o, "Deleted", <<DeliverAll([gone EXCEPT ![o] = @ - 1])>> \o Tail(todo))
  BY DEF Deliver
<1>5. UNCHANGED <<rows, refs, typed, monitor, up, crashes>>
  BY DEF Deliver
<1>. QED
  BY <1>1, <1>3, <1>4, <1>5

\* The views are told that an object is gone.
LEMMA ToldKeepsSync ==
    ASSUME ClientInv, Pending("deliver"), Hear, NEW o \in Objects, Head(todo).gone[o] > 0,
           NEW g \in Bags, \A p \in Objects : g[p] > 0 => Head(todo).gone[p] > 0,
           \A p \in Objects : p # o /\ Head(todo).gone[p] > 0 => g[p] > 0,
           Tell(o, "Deleted", <<DeliverAll(g)>> \o Tail(todo)),
           UNCHANGED <<rows, monitor, open, model>>
    PROVE  SyncInv'
<1>. DEFINE f1 == Slots(o, "Deleted")
            f2 == DeliverAll(g)
            rest == Tail(todo)
            more == <<f2>> \o rest
<1>0. /\ todo \in Seq(Frames) /\ todo # <<>> /\ Head(todo).op = "deliver"
      /\ model \in [Views -> SUBSET Objects] /\ waiting \in Seq(SUBSET Views) /\ SyncInv
  BY DEF ClientInv, ClientTypeOK, TypeOK, Pending
<1>1. Begins(o, "Deleted")
  BY DeliveryTells
<1>2. f1 \in Frames /\ f2 \in Frames /\ f2.op = "deliver" /\ f2.gone = g
  BY DEF Slots, DeliverAll, Frames
<1>3. rest \in Seq(Frames) /\ Range(todo) = {Head(todo)} \cup Range(rest)
  BY <1>0, PoppedFrame, PoppedFrames
<1>4. todo' = <<f1>> \o more
  BY DEF Tell
<1>. HIDE DEF f1, f2, rest
<1>5. more \in Seq(Frames) /\ Range(more) = {f2} \cup Range(rest)
  BY <1>2, <1>3, PushedFrame, PushedFrames
<1>. HIDE DEF more
<1>6. Range(todo') = {f1} \cup {f2} \cup Range(rest)
  BY <1>2, <1>4, <1>5, PushedFrames
<1>7. /\ 1 \in DOMAIN waiting' /\ waiting'[1] = Listeners(o)
      /\ \A k \in DOMAIN waiting : k + 1 \in DOMAIN waiting' /\ waiting'[k + 1] = waiting[k]
  <2>1. Listeners(o) \in SUBSET Views /\ waiting' = <<Listeners(o)>> \o waiting
    BY <1>1 DEF Listeners, Begins
  <2>2. /\ Len(waiting) \in Nat /\ DOMAIN waiting = 1..Len(waiting)
        /\ waiting' \in Seq(SUBSET Views) /\ Len(waiting') = Len(waiting) + 1
        /\ waiting'[1] = Listeners(o) /\ \A k \in 1..Len(waiting) : waiting'[k + 1] = waiting[k]
    BY <1>0, <2>1, CalledViews
  <2>3. DOMAIN waiting' = 1..Len(waiting')
    BY <2>2, CalledViews
  <2>. QED
    BY <2>2, <2>3
<1>8. /\ Emission(1)'.change = "Deleted" /\ Emission(1)'.object = o
      /\ \A k \in DOMAIN waiting : Emission(k + 1)' = Emission(k)
  BY <1>1 DEF Begins, Slots
<1>9. ASSUME NEW v \in Views, NEW q \in model[v], OwedDeletion(v, q)
      PROVE  OwedDeletion(v, q)'
  <2>1. CASE monitor[q] > 0
    BY <2>1 DEF OwedDeletion
  <2>2. CASE q = o
    <3>1. v.owner \in open /\ Shows(v, q)
      BY <1>0 DEF SyncInv
    <3>2. v \in waiting'[1]
      BY <1>7, <2>2, <3>1 DEF Listeners
    <3>. QED
      BY <1>7, <1>8, <2>2, <3>2 DEF OwedDeletion
  <2>3. CASE ToBeDelivered(q) /\ q # o
    BY <1>0, <1>2, <1>3, <1>6, <2>3 DEF OwedDeletion, ToBeDelivered
  <2>4. ASSUME NEW k \in DOMAIN waiting, Emission(k).change = "Deleted", Emission(k).object = q,
               v \in waiting[k]
        PROVE  OwedDeletion(v, q)'
    <3>1. /\ k + 1 \in DOMAIN waiting' /\ v \in waiting'[k + 1]
          /\ Emission(k + 1)'.change = "Deleted" /\ Emission(k + 1)'.object = q
      BY <1>7, <1>8, <2>4
    <3>. QED
      BY <3>1 DEF OwedDeletion
  <2>. QED
    BY <1>9, <2>1, <2>2, <2>3, <2>4 DEF OwedDeletion
<1>10. ASSUME NEW v \in Views, NEW q \in rows, OwedCreation(v, q)
       PROVE  OwedCreation(v, q)'
  <2>1. CASE \E f \in Range(todo) : f.op = "announce" /\ f.connection = q
    BY <1>0, <1>3, <1>6, <2>1 DEF OwedCreation
  <2>2. ASSUME NEW k \in DOMAIN waiting, Emission(k).change = "Created", Emission(k).object = q,
               v \in waiting[k]
        PROVE  OwedCreation(v, q)'
    <3>1. /\ k + 1 \in DOMAIN waiting' /\ v \in waiting'[k + 1]
          /\ Emission(k + 1)'.change = "Created" /\ Emission(k + 1)'.object = q
      BY <1>7, <1>8, <2>2
    <3>. QED
      BY <3>1 DEF OwedCreation
  <2>. QED
    BY <1>10, <2>1, <2>2 DEF OwedCreation
<1>. QED
  BY <1>9, <1>10, OwedKeepsSync

\* All views have been called.
LEMMA EndingKeepsSync ==
    ASSUME ClientInv, EmissionEnds
    PROVE  SyncInv'
<1>0. /\ Pending("slots") /\ todo' = Tail(todo) /\ UNCHANGED <<rows, monitor, open, model>>
      /\ model \in [Views -> SUBSET Objects] /\ waiting \in Seq(SUBSET Views)
  BY DEF ClientInv, ClientTypeOK, EmissionEnds, SlotsReturn
<1>1. Ends
  BY EndingStack
<1>2. todo \in Seq(Frames) /\ todo # <<>> /\ Head(todo).op = "slots" /\ Head(waiting) = waiting[1]
  BY <1>0, SomeEmission
<1>3. Range(todo) = {Head(todo)} \cup Range(todo')
  BY <1>0, <1>2, PoppedFrames
<1>4. \A v : \A k \in DOMAIN waiting : v \in waiting[k] =>
          /\ k - 1 \in DOMAIN waiting' /\ v \in waiting'[k - 1] /\ Emission(k - 1)' = Emission(k)
  <2>1. /\ Len(waiting) \in Nat /\ DOMAIN waiting = 1..Len(waiting)
        /\ waiting' \in Seq(SUBSET Views) /\ Len(waiting') = Len(waiting) - 1 /\ waiting[1] = {}
        /\ \A k \in 1..Len(waiting) - 1 : waiting'[k] = waiting[k + 1]
    BY <1>0, <1>1, <1>2, CalledViews DEF Ends
  <2>2. DOMAIN waiting' = 1..Len(waiting')
    BY <2>1, CalledViews
  <2>3. \A k \in 2..Len(waiting) : k - 1 \in 1..Len(waiting) - 1 /\ (k - 1) + 1 = k
    BY <2>1
  <2>4. \A v : \A k \in DOMAIN waiting : v \in waiting[k] => k \in 2..Len(waiting)
    BY <2>1
  <2>. QED
    BY <1>1, <2>1, <2>2, <2>3, <2>4 DEF Ends
<1>5. ASSUME NEW v \in Views, NEW o \in model[v], OwedDeletion(v, o)
      PROVE  OwedDeletion(v, o)'
  <2>1. CASE monitor[o] > 0
    BY <1>0, <2>1 DEF OwedDeletion
  <2>2. CASE ToBeDelivered(o)
    BY <1>2, <1>3, <2>2 DEF OwedDeletion, ToBeDelivered
  <2>3. ASSUME NEW k \in DOMAIN waiting, Emission(k).change = "Deleted", Emission(k).object = o,
               v \in waiting[k]
        PROVE  OwedDeletion(v, o)'
    <3>1. /\ k - 1 \in DOMAIN waiting' /\ v \in waiting'[k - 1]
          /\ Emission(k - 1)'.change = "Deleted" /\ Emission(k - 1)'.object = o
      BY <1>4, <2>3
    <3>. QED
      BY <3>1 DEF OwedDeletion
  <2>. QED
    BY <1>5, <2>1, <2>2, <2>3 DEF OwedDeletion
<1>6. ASSUME NEW v \in Views, NEW o \in rows, OwedCreation(v, o)
      PROVE  OwedCreation(v, o)'
  <2>1. CASE \E g \in Range(todo) : g.op = "announce" /\ g.connection = o
    BY <1>2, <1>3, <2>1 DEF OwedCreation
  <2>2. ASSUME NEW k \in DOMAIN waiting, Emission(k).change = "Created", Emission(k).object = o,
               v \in waiting[k]
        PROVE  OwedCreation(v, o)'
    <3>1. /\ k - 1 \in DOMAIN waiting' /\ v \in waiting'[k - 1]
          /\ Emission(k - 1)'.change = "Created" /\ Emission(k - 1)'.object = o
      BY <1>4, <2>2
    <3>. QED
      BY <3>1 DEF OwedCreation
  <2>. QED
    BY <1>6, <2>1, <2>2 DEF OwedCreation
<1>. QED
  BY <1>0, <1>5, <1>6, OwedKeepsSync

\* Between two requests every open view shows its table.
LEMMA RestIsInSync ==
    ASSUME ClientInv, todo = <<>>
    PROVE  /\ waiting = <<>> /\ \A v \in Views : model[v] \subseteq rows
           /\ \A v \in Views : v.owner \in open => model[v] = {o \in rows : Shows(v, o)}
<1>1. ClientTypeOK /\ StackOfClients /\ SyncInv
  BY DEF ClientInv
<1>2. StoringStack /\ waiting = <<>>
  BY <1>1, RestIsQuiet
<1>3. \A v \in Views : model[v] \subseteq rows
  BY <1>2, StoringModels
<1>4. Range(todo) = {} /\ DOMAIN waiting = {}
  BY <1>2, NoFrames
<1>5. \A v, o : ~OwedCreation(v, o)
  BY <1>4 DEF OwedCreation
<1>. QED
  BY <1>1, <1>2, <1>3, <1>5 DEF SyncInv

\* A viewer is opened or closed.
LEMMA ViewersKeepSync ==
    ASSUME ClientInv, todo = <<>>, UNCHANGED <<vars, waiting>>, NEW w,
           \/ ReadTables(w)
           \/ /\ open' = open \ {w}
              /\ model' = [v \in Views |-> IF v.owner = w THEN {} ELSE model[v]]
    PROVE  StackOfClients' /\ SyncInv'
<1>1. /\ waiting = <<>> /\ \A v \in Views : model[v] \subseteq rows
      /\ \A v \in Views : v.owner \in open => model[v] = {o \in rows : Shows(v, o)}
      /\ SyncInv /\ StackOfClients
  BY RestIsInSync DEF ClientInv
<1>2. rows' = rows /\ todo' = todo /\ monitor' = monitor /\ waiting' = waiting /\ DOMAIN waiting = {}
  BY <1>1 DEF vars
<1>3. StackOfClients'
  <2>1. StackShape'
    BY <1>1, <1>2
    DEF StackOfClients, StackShape, StoringStack, DeletionStack, NestingInv, DeletedFor, Deleting,
        Place, Emission
  <2>. QED
    BY <1>2, <2>1 DEF StackOfClients, EmissionsInv
<1>4. \A v \in Views : \/ model'[v] = model[v] /\ (v.owner \in open' <=> v.owner \in open)
                       \/ model'[v] = {o \in rows : Shows(v, o)} /\ v.owner \in open'
                       \/ model'[v] = {} /\ v.owner \notin open'
  BY DEF ReadTables
<1>5. \A v \in Views : v.owner \notin open' => model'[v] = {}
  BY <1>1, <1>4 DEF SyncInv
<1>6. \A v \in Views : \A o \in model'[v] : Shows(v, o) /\ o \in rows'
  BY <1>1, <1>2, <1>4 DEF SyncInv
<1>7. \A v \in Views : v.owner \in open' => \A o \in rows' : Shows(v, o) => o \in model'[v]
  BY <1>1, <1>2, <1>4
<1>. QED
  BY <1>3, <1>5, <1>6, <1>7 DEF SyncInv, Shows

-----------------------------------------------------------------------------
(* What is being replaced.                                                 *)

\* Nothing that exists loses its certificate while rows are stored.
LEMMA HandlerStays ==
    ASSUME ClientInv, handler' = handler,
           handler.step = "delete" =>
               /\ rows \subseteq rows'
               /\ \A h \in rows \cap Connections : CertificateOf(h)' = CertificateOf(h)
               /\ \A f \in Range(todo') : ~Deleting(f)
    PROVE  HandlerInv'
<1>0. HandlerInv /\ ClientTypeOK
  BY DEF ClientInv
<1>. SUFFICES ASSUME handler.step = "delete"
              PROVE  /\ \A f \in Range(todo') : ~Deleting(f)
                     /\ handler.old \in rows'
                     /\ \E h \in (rows' \cap Connections) \ {handler.old} :
                           CertificateOf(h)' = CertificateOf(handler.old)'
  BY DEF HandlerInv, Deleting, CertificateOf
<1>1. handler.old \in Connections
  BY <1>0 DEF ClientTypeOK, Done, OpensViewer, Replaces
<1>2. PICK h \in (rows \cap Connections) \ {handler.old} :
        CertificateOf(h) = CertificateOf(handler.old)
  BY <1>0 DEF HandlerInv
<1>3. handler.old \in rows
  BY <1>0 DEF HandlerInv
<1>4. CertificateOf(h)' = CertificateOf(handler.old)'
  <2>1. CertificateOf(h)' = CertificateOf(h)
    BY <1>2
  <2>2. CertificateOf(handler.old)' = CertificateOf(handler.old)
    BY <1>1, <1>3
  <2>. QED
    BY <1>2, <2>1, <2>2
<1>. QED
  BY <1>2, <1>3, <1>4

\* A stack that stores holds no deletion.
LEMMA StoringFrames ==
    StoringStack => \A f \in Range(todo) : ~Deleting(f)
  BY DEF StoringStack, Range

\* A connection has a successor before it is replaced.
LEMMA ActivatingReplaces ==
    ASSUME ClientInv, NEW v \in Views, NEW h, Activate(v, h)
    PROVE  HandlerInv' /\ h \in Connections
<1>. DEFINE C == CertificateOf(h)
<1>0. /\ v.rel = "HistoricServerConnection" /\ h \in model[v] /\ Record(C, Replaces(h))
      /\ Idle /\ todo = <<>>
  BY DEF Activate, AtRest, Idle
<1>1. h \in rows /\ Shows(v, h) /\ ReferentialIntegrity /\ rows \subseteq Objects
  <2>1. model[v] \subseteq rows
    BY <1>0, RestIsInSync
  <2>. QED
    BY <1>0, <2>1 DEF ClientInv, SyncInv, FeedInv, Integrity, TypeOK
<1>2. h \in Connections
  BY <1>0, <1>1, KindsOfObjects DEF Shows
<1>. HIDE DEF C
<1>3. NothingIsTold /\ (\E n \in Connections \ rows : rows' = rows \cup {n})
      /\ refs' = refs \cup (rows' \ rows) \X C
  BY <1>0, RecordIsQuiet
<1>4. PICK n \in Connections \ rows : rows' = rows \cup {n}
  BY <1>3
<1>5. handler' = Replaces(h)
  BY <1>0 DEF Record
<1>6. rows' \ rows = {n} /\ n # h
  BY <1>1, <1>4
<1>7. refs' = refs \cup {n} \X C
  BY <1>3, <1>6
<1>8. \A a : <<n, a>> \notin refs
  BY <1>1 DEF ReferentialIntegrity
<1>9. C = {a \in AppCerts : <<h, a>> \in refs}
  BY DEF C, CertificateOf
<1>10. CertificateOf(n)' = C
  <2>1. \A a : <<n, a>> \in refs' <=> a \in C
    BY <1>7, <1>8
  <2>. QED
    BY <1>9, <2>1 DEF CertificateOf
<1>11. CertificateOf(h)' = C
  <2>1. \A a : <<h, a>> \in refs' <=> <<h, a>> \in refs
    BY <1>6, <1>7
  <2>. QED
    BY <1>9, <2>1 DEF CertificateOf
<1>12. \A f \in Range(todo') : ~Deleting(f)
  <2>1. StoringStack'
    BY <1>3 DEF NothingIsTold
  <2>2. (\A f \in Range(todo) : ~Deleting(f))'
    BY <2>1, StoringFrames, PTL
  <2>. QED
    BY <2>2 DEF Deleting
<1>13. handler'.old = h
  BY <1>5 DEF Replaces
<1>14. handler'.old \in rows' /\ n \in (rows' \cap Connections) \ {handler'.old}
  BY <1>1, <1>4, <1>6, <1>13
<1>15. CertificateOf(n)' = CertificateOf(handler.old)'
  BY <1>10, <1>11, <1>13 DEF CertificateOf
<1>16. HandlerInv'
  BY <1>12, <1>14, <1>15 DEF HandlerInv, Deleting, CertificateOf
<1>. QED
  BY <1>2, <1>16

\* Every step.
LEMMA NextHandler ==
    ASSUME ClientInv, ClientNext, ClientTypeOK'
    PROVE  HandlerInv'
<1>0. ClientTypeOK /\ HandlerInv /\ todo \in Seq(Frames)
  BY DEF ClientInv, ClientTypeOK, TypeOK
<1>1. CASE handler'.step # "delete"
  BY <1>1 DEF HandlerInv
<1>2. CASE todo # <<>> /\ Deleting(Head(todo)) /\ handler' = handler
  <2>1. Head(todo) \in Range(todo)
    BY <1>0, <1>2, PoppedFrames
  <2>2. handler.step # "delete"
    BY <1>0, <1>2, <2>1 DEF HandlerInv
  <2>. QED
    BY <1>1, <1>2, <2>2
<1>3. CASE UNCHANGED <<vars, handler>>
  <2>1. rows' = rows /\ refs' = refs /\ todo' = todo /\ handler' = handler
    BY <1>3 DEF vars
  <2>. QED
    BY <1>0, <2>1 DEF HandlerInv, CertificateOf, Deleting
<1>4. ASSUME rows' = rows, refs' = refs, handler' = handler, \A f \in Range(todo') : f \in Range(todo) \/ ~Deleting(f)
      PROVE  HandlerInv'
  <2>1. \A h : CertificateOf(h)' = CertificateOf(h)
    BY <1>4 DEF CertificateOf
  <2>2. handler.step = "delete" => \A f \in Range(todo') : ~Deleting(f)
    BY <1>0, <1>4 DEF HandlerInv
  <2>. QED
    BY <1>4, <2>1, <2>2, HandlerStays
<1>5. ASSUME NEW o, RowIsTold(o), handler' = handler,
             refs \subseteq refs', \A e \in refs' \ refs : e[1] \notin Connections
      PROVE  HandlerInv'
  <2>1. \A h \in Connections : \A a : <<h, a>> \in refs' <=> <<h, a>> \in refs
    BY <1>5
  <2>2. \A h \in Connections : CertificateOf(h)' = CertificateOf(h)
    BY <2>1 DEF CertificateOf
  <2>3. rows \subseteq rows' /\ StoringStack'
    BY <1>5 DEF RowIsTold
  <2>4. (\A f \in Range(todo) : ~Deleting(f))'
    BY <2>3, StoringFrames, PTL
  <2>. QED
    BY <1>5, <2>2, <2>3, <2>4, HandlerStays DEF Deleting
<1>6. CASE CallProceeds
  <2>1. Hear /\ handler' = handler
    BY <1>6 DEF CallProceeds
  <2>2. CASE DrainMonitor \/ Deliver
    BY <1>2, <2>1, <2>2 DEF DrainMonitor, Deliver, Pending, Deleting
  <2>3. CASE ClearRevokedList \/ StoreListed
    <3>1. NothingIsTold
      BY <2>1, <2>3, ListsAreQuiet
    <3>2. (\A f \in Range(todo) : ~Deleting(f))'
      BY <3>1, StoringFrames, PTL DEF NothingIsTold
    <3>. QED
      BY <1>4, <2>1, <2>3, <3>2 DEF ClearRevokedList, StoreListed, Deleting
  <2>4. CASE AnnounceConnection
    <3>1. \E o : RowIsTold(o)
      BY <2>1, <2>4, ProceedingTells
    <3>2. StoringStack'
      BY <3>1 DEF RowIsTold
    <3>3. (\A f \in Range(todo) : ~Deleting(f))'
      BY <3>2, StoringFrames, PTL
    <3>4. rows' = rows /\ refs' = refs
      BY <2>4 DEF AnnounceConnection
    <3>. QED
      BY <1>4, <2>1, <3>3, <3>4 DEF Deleting
  <2>5. CASE StoreAppCertKey \/ StoreAppCert
    <3>1. \E o : RowIsTold(o)
      BY <2>1, <2>5, ProceedingTells
    <3>2. refs \subseteq refs' /\ \A e \in refs' \ refs : e[1] \notin Connections
      <4>1. \A i : /\ Row("Key", i) \notin Connections
                   /\ Row("ApplicationCertificate", i) \notin Connections
        BY DEF Row, Connections
      <4>2. CASE StoreAppCertKey
        <5>1. PICK i : refs' = refs \cup {<<Row("Key", i), p>> : p \in {}}
          BY <4>2 DEF StoreAppCertKey, InsertRow
        <5>. QED
          BY <4>1, <5>1
      <4>3. CASE StoreAppCert
        <5>1. PICK i : refs' = refs \cup {<<Row("ApplicationCertificate", i), p>> :
                                             p \in {Head(todo).certificate, Head(todo).key}}
          BY <4>3 DEF StoreAppCert, InsertRow
        <5>2. \A e \in refs' \ refs : e[1] = Row("ApplicationCertificate", i)
          BY <5>1
        <5>. QED
          BY <4>1, <5>1, <5>2
      <4>. QED
        BY <2>5, <4>2, <4>3
    <3>. QED
      BY <1>5, <2>1, <3>1, <3>2
  <2>. QED
    BY <1>6, <2>2, <2>3, <2>4, <2>5 DEF CallProceeds
<1>7. ASSUME NEW v \in Views, SlotAdds(v) \/ SlotIgnores(v)
      PROVE  HandlerInv'
  BY <1>3, <1>7 DEF SlotAdds, SlotIgnores
<1>8. ASSUME NEW v \in Views, SlotRemoves(v)
      PROVE  HandlerInv'
  BY <1>2, <1>8 DEF SlotRemoves, SlotMayCall, Pending, Deleting
<1>9. CASE EmissionEnds
  <2>1. todo # <<>> /\ todo' = Tail(todo) /\ rows' = rows /\ refs' = refs /\ handler' = handler
    BY <1>9 DEF EmissionEnds, SlotsReturn, Pending
  <2>2. Range(todo) = {Head(todo)} \cup Range(todo')
    BY <1>0, <2>1, PoppedFrames
  <2>. QED
    BY <1>4, <2>1, <2>2
<1>10. CASE DeleteOld \/ OpenViewer
  BY <1>1, <1>10 DEF DeleteOld, OpenViewer, OpensViewer, Done
<1>11. ASSUME AtRest, UNCHANGED handler
       PROVE  HandlerInv'
  BY <1>1, <1>11 DEF AtRest, Done
<1>12. CASE CreateCertificate \/ (\E w \in DataViewers : Close(w)) \/ (\E o \in Objects : DeleteInSettings(o))
            \/ (\E v \in Views : SaveLayout(v) \/ \E o \in model[v] : RemoveRow(v, o))
  BY <1>11, <1>12 DEF CreateCertificate, Close, DeleteInSettings, SaveLayout, RemoveRow, clients
<1>13. ASSUME NEW v \in Views, Connect(v)
       PROVE  HandlerInv'
  BY <1>1, <1>13 DEF Connect, Record, OpensViewer
<1>14. ASSUME NEW v \in Views, NEW o \in model[v], Activate(v, o)
       PROVE  HandlerInv'
  BY <1>14, ActivatingReplaces
<1>. QED
  BY <1>6, <1>7, <1>8, <1>9, <1>10, <1>12, <1>13, <1>14 DEF ClientNext, ClientProgress, UserRequest

-----------------------------------------------------------------------------
(* Every step.                                                             *)

\* The state of the clients stays well typed.
LEMMA ClientsTyped ==
    ASSUME ClientInv, ClientNext
    PROVE  ClientTypeOK'
<1>0. /\ ClientTypeOK /\ TypeOK /\ waiting \in Seq(SUBSET Views) /\ rows \subseteq Objects
      /\ model \in [Views -> SUBSET Objects] /\ open \subseteq {ConfigWidget} \cup DataViewers
      /\ handler \in {Done, OpensViewer} \cup {Replaces(h) : h \in Connections}
      /\ StackOfClients
  BY DEF ClientInv, ClientTypeOK, TypeOK
<1>1. TypeOK'
  BY <1>0, ClientStepsAreStorageSteps, NextTyped
<1>2. Hear => waiting' \in Seq(SUBSET Views)
  <2>1. \A p : Listeners(p) \in SUBSET Views
    BY DEF Listeners
  <2>. QED
    BY <1>0, <2>1, CalledViews DEF Hear
<1>3. \A v : Pending("slots") /\ SlotDone(v) => waiting' \in Seq(SUBSET Views)
  BY SomeEmission, OneIsCalled
<1>4. SUFFICES /\ open' \subseteq {ConfigWidget} \cup DataViewers
               /\ model' \in [Views -> SUBSET Objects]
               /\ waiting' \in Seq(SUBSET Views)
               /\ handler' \in {Done, OpensViewer} \cup {Replaces(h) : h \in Connections}
  BY <1>1 DEF ClientTypeOK, Done, OpensViewer, Replaces
<1>5. CASE CallProceeds
  BY <1>0, <1>2, <1>5 DEF CallProceeds
<1>6. ASSUME NEW v \in Views, SlotAdds(v)
      PROVE  waiting' \in Seq(SUBSET Views) /\ model' \in [Views -> SUBSET Objects]
  <2>1. Pending("slots") /\ SlotDone(v) /\ model' = [model EXCEPT ![v] = @ \cup {Head(todo).object}]
    BY <1>6 DEF SlotAdds
  <2>2. Head(todo).object \in Objects
    BY <1>0, <2>1, HeadTyped, FrameFields
  <2>. QED
    BY <1>0, <1>3, <2>1, <2>2
<1>7. ASSUME NEW v \in Views, SlotRemoves(v) \/ SlotIgnores(v)
      PROVE  waiting' \in Seq(SUBSET Views) /\ model' \in [Views -> SUBSET Objects]
  BY <1>0, <1>3, <1>7 DEF SlotRemoves, SlotIgnores, SlotMayCall
<1>8. ASSUME NEW v \in Views, SlotAdds(v) \/ SlotIgnores(v) \/ SlotRemoves(v)
      PROVE  open' = open /\ handler' = handler
  BY <1>8 DEF SlotAdds, SlotIgnores, SlotRemoves
<1>9. CASE EmissionEnds
  <2>1. waiting' \in Seq(SUBSET Views)
    BY <1>0, <1>9, SomeEmission, CalledViews DEF EmissionEnds, SlotsReturn
  <2>. QED
    BY <1>0, <1>9, <2>1 DEF EmissionEnds
<1>10. ASSUME NEW w \in DataViewers, ReadTables(w)
       PROVE  open' \subseteq {ConfigWidget} \cup DataViewers /\ model' \in [Views -> SUBSET Objects]
  <2>1. \A v \in Views : (IF v.owner = w THEN {o \in rows : Shows(v, o)} ELSE model[v]) \in SUBSET Objects
    BY <1>0
  <2>. QED
    BY <1>0, <1>10, <2>1 DEF ReadTables
<1>11. CASE DeleteOld \/ OpenViewer
  <2>1. CASE DeleteOld
    BY <1>0, <2>1 DEF DeleteOld
  <2>2. CASE OpenViewer
    BY <1>0, <1>10, <2>2 DEF OpenViewer
  <2>. QED
    BY <1>11, <2>1, <2>2
<1>12. ASSUME NEW w \in DataViewers, Close(w)
       PROVE  /\ open' \subseteq {ConfigWidget} \cup DataViewers /\ model' \in [Views -> SUBSET Objects]
              /\ waiting' = waiting /\ handler' = handler
  BY <1>0, <1>12 DEF Close
<1>13. CASE CreateCertificate \/ (\E v \in Views : SaveLayout(v))
  BY <1>0, <1>2, <1>13 DEF CreateCertificate, SaveLayout
<1>14. ASSUME NEW o \in Objects, DeleteInSettings(o)
       PROVE  UNCHANGED clients
  BY <1>14 DEF DeleteInSettings
<1>15. ASSUME NEW v \in Views, NEW o \in model[v], RemoveRow(v, o)
       PROVE  /\ model' \in [Views -> SUBSET Objects] /\ UNCHANGED <<open, waiting, handler>>
  BY <1>0, <1>15 DEF RemoveRow
<1>16. ASSUME NEW v \in Views, Connect(v)
       PROVE  UNCHANGED <<open, model, waiting>> /\ handler' = OpensViewer
  BY <1>16 DEF Connect, Record
<1>17. ASSUME NEW v \in Views, NEW o \in model[v], Activate(v, o)
       PROVE  UNCHANGED <<open, model, waiting>> /\ handler' = Replaces(o) /\ o \in Connections
  BY <1>17, ActivatingReplaces DEF Activate, Record
<1>18. CASE ClientProgress
  BY <1>0, <1>5, <1>6, <1>7, <1>8, <1>9, <1>11, <1>18 DEF ClientProgress
<1>19. CASE UserRequest
  <2>1. CASE \E w \in DataViewers : Close(w)
    BY <1>0, <1>12, <2>1
  <2>2. CASE \E o \in Objects : DeleteInSettings(o)
    BY <1>0, <1>14, <2>2 DEF clients
  <2>3. CASE \E v \in Views : Connect(v) \/ \E o \in model[v] : RemoveRow(v, o) \/ Activate(v, o)
    BY <1>0, <1>15, <1>16, <1>17, <2>3
  <2>. QED
    BY <1>13, <1>19, <2>1, <2>2, <2>3 DEF UserRequest
<1>. QED
  BY <1>18, <1>19 DEF ClientNext

\* What is on the stack, who is called and what the models show, after a step
\* of a call that goes on ...
LEMMA CallKeepsSync ==
    ASSUME ClientInv, CallProceeds, ClientTypeOK'
    PROVE  StackOfClients' /\ SyncInv'
<1>0. /\ Hear /\ open' = open /\ model' = model /\ handler' = handler
      /\ EmissionsInv /\ waiting \in Seq(SUBSET Views)
  BY DEF CallProceeds, ClientInv, StackOfClients, ClientTypeOK
<1>1. CASE StoreAppCertKey \/ StoreAppCert \/ AnnounceConnection
  <2>1. PICK o : RowIsTold(o)
    BY <1>0, <1>1, ProceedingTells
  <2>2. EmissionsInv'
    BY <1>0, <2>1, EmissionsBegin DEF RowIsTold
  <2>. QED
    BY <1>0, <2>1, <2>2, TellingKeepsSync DEF RowIsTold, StackOfClients, StackShape
<1>2. CASE ClearRevokedList \/ StoreListed
  <2>1. NothingIsTold
    BY <1>0, <1>2, ListsAreQuiet
  <2>2. EmissionsInv'
    BY <2>1 DEF NothingIsTold, EmissionsInv
  <2>. QED
    BY <1>0, <2>1, <2>2, StoringKeepsSync DEF NothingIsTold, StackOfClients, StackShape
<1>3. CASE DrainMonitor
  <2>1. DeletionStack' /\ NestingInv' /\ GoOn /\ waiting' = waiting
    BY <1>0, <1>3, DrainNests
  <2>2. EmissionsInv'
    BY <1>0, <2>1, EmissionsGoOn
  <2>. QED
    BY <1>0, <1>3, <2>1, <2>2, DrainingKeepsSync DEF StackOfClients, StackShape
<1>4. CASE Deliver
  <2>1. Pending("deliver") /\ rows' = rows /\ monitor' = monitor
    BY <1>4, DeliverIs
  <2>2. CASE Head(todo).gone = NoTuples /\ todo' = Tail(todo)
    <3>1. StackShape' /\ GoOn /\ waiting' = waiting
      BY <1>0, <2>1, <2>2, DeliveryEnds
    <3>2. EmissionsInv'
      BY <1>0, <3>1, EmissionsGoOn
    <3>. QED
      BY <1>0, <2>1, <2>2, <3>1, <3>2, DeliveredKeepsSync DEF StackOfClients
  <2>3. ASSUME NEW o \in Objects, NEW g \in Bags, Head(todo).gone[o] > 0,
               \A p \in Objects : g[p] > 0 => Head(todo).gone[p] > 0,
               \A p \in Objects : p # o /\ Head(todo).gone[p] > 0 => g[p] > 0,
               Tell(o, "Deleted", <<DeliverAll(g)>> \o Tail(todo))
        PROVE  StackOfClients' /\ SyncInv'
    <3>1. DeletionStack' /\ NestingInv' /\ Begins(o, "Deleted")
      BY <1>0, <2>1, <2>3, DeliveryTells
    <3>2. EmissionsInv'
      BY <1>0, <3>1, EmissionsBegin
    <3>3. SyncInv'
      BY <1>0, <2>1, <2>3, ToldKeepsSync
    <3>. QED
      BY <3>1, <3>2, <3>3 DEF StackOfClients, StackShape
  <2>. QED
    BY <1>4, <2>2, <2>3, DeliverIs
<1>. QED
  BY <1>1, <1>2, <1>3, <1>4 DEF CallProceeds

\* ... after a slot has run ...
LEMMA SlotsKeepSync ==
    ASSUME ClientInv, EmissionEnds \/ \E v \in Views : SlotAdds(v) \/ SlotIgnores(v) \/ SlotRemoves(v)
    PROVE  StackOfClients' /\ SyncInv'
<1>0. EmissionsInv /\ waiting \in Seq(SUBSET Views)
  BY DEF ClientInv, StackOfClients, ClientTypeOK
<1>1. CASE EmissionEnds
  <2>1. StackShape' /\ Ends /\ open' = open
    BY <1>1, EndingStack DEF EmissionEnds
  <2>2. EmissionsInv'
    BY <1>0, <2>1, EmissionsEnd
  <2>. QED
    BY <1>1, <2>1, <2>2, EndingKeepsSync DEF StackOfClients
<1>2. ASSUME NEW v, Pending("slots"), SlotDone(v), GoOn, open' = open
      PROVE  EmissionsInv'
  <2>1. /\ DOMAIN waiting' = DOMAIN waiting /\ waiting'[1] = waiting[1] \ {v}
        /\ \A k \in DOMAIN waiting : k # 1 => waiting'[k] = waiting[k]
    BY <1>2, SomeEmission, OneIsCalled
  <2>2. \A k \in DOMAIN waiting : waiting'[k] \subseteq waiting[k]
    BY <2>1
  <2>. QED
    BY <1>0, <1>2, <2>1, <2>2, EmissionsGoOn
<1>3. ASSUME NEW v \in Views, SlotAdds(v) \/ SlotIgnores(v)
      PROVE  StackOfClients' /\ SyncInv'
  <2>1. Pending("slots") /\ SlotDone(v) /\ UNCHANGED <<todo, rows, monitor>> /\ open' = open
    BY <1>3 DEF SlotAdds, SlotIgnores, vars
  <2>2. StackShape' /\ GoOn
    BY <2>1, CalledStack
  <2>3. SyncInv'
    BY <1>3, AddingKeepsSync, IgnoringKeepsSync
  <2>. QED
    BY <1>2, <2>1, <2>2, <2>3 DEF StackOfClients
<1>4. ASSUME NEW v \in Views, SlotRemoves(v)
      PROVE  StackOfClients' /\ SyncInv'
  <2>1. Pending("slots") /\ SlotDone(v) /\ open' = open
    BY <1>4 DEF SlotRemoves, SlotMayCall
  <2>2. DeletionStack' /\ NestingInv' /\ GoOn
    BY <1>4, SlotsNest
  <2>3. SyncInv'
    BY <1>4, RemovingKeepsSync
  <2>. QED
    BY <1>2, <2>1, <2>2, <2>3 DEF StackOfClients, StackShape
<1>. QED
  BY <1>1, <1>3, <1>4

\* ... and after a request of the user, or its next storage call, has begun.
LEMMA RequestsKeepSync ==
    ASSUME ClientInv, DeleteOld \/ OpenViewer \/ UserRequest, ClientTypeOK'
    PROVE  StackOfClients' /\ SyncInv'
<1>0. /\ EmissionsInv /\ waiting \in Seq(SUBSET Views) /\ SyncInv
      /\ model \in [Views -> SUBSET Objects]
  BY DEF ClientInv, StackOfClients, ClientTypeOK
<1>1. CASE CreateCertificate \/ (\E v \in Views : SaveLayout(v))
  <2>1. open' = open /\ model' = model
    BY <1>1 DEF CreateCertificate, SaveLayout
  <2>2. PICK o : RowIsTold(o)
    BY <1>1, RequestsTell
  <2>3. EmissionsInv'
    BY <1>0, <2>1, <2>2, EmissionsBegin DEF RowIsTold
  <2>. QED
    BY <2>1, <2>2, <2>3, TellingKeepsSync DEF RowIsTold, StackOfClients, StackShape
<1>2. ASSUME NEW C, NEW next, Idle, Record(C, next)
      PROVE  StackOfClients' /\ SyncInv'
  <2>1. NothingIsTold
    BY <1>2, RecordIsQuiet
  <2>2. EmissionsInv'
    BY <2>1 DEF NothingIsTold, EmissionsInv
  <2>3. open' = open /\ model' = model
    BY <1>2 DEF Record
  <2>. QED
    BY <2>1, <2>2, <2>3, StoringKeepsSync DEF NothingIsTold, StackOfClients, StackShape
<1>3. ASSUME NEW v \in Views, Connect(v) \/ \E h : Activate(v, h)
      PROVE  StackOfClients' /\ SyncInv'
  BY <1>2, <1>3 DEF Connect, Activate, AtRest
<1>4. ASSUME NEW o \in Objects, DeleteInSettings(o)
      PROVE  StackOfClients' /\ SyncInv'
  BY <1>4, RequestsToDelete DEF DeleteInSettings, AtRest, clients
<1>5. CASE DeleteOld
  BY <1>5, RequestsToDelete DEF DeleteOld
<1>6. ASSUME NEW v \in Views, NEW o \in model[v], RemoveRow(v, o)
      PROVE  StackOfClients' /\ SyncInv'
  <2>1. RemoveRowsDeletes(o) = o
    BY <1>0, <1>6, ViewsShow DEF RemoveRow, RemoveRowsDeletes, SyncInv
  <2>2. /\ Idle /\ Delete(o) /\ UNCHANGED <<open, waiting>>
        /\ model' = [model EXCEPT ![v] = @ \ {o}]
    BY <1>6, <2>1 DEF RemoveRow, AtRest
  <2>3. \A u \in Views : model'[u] \subseteq model[u] /\ model[u] \subseteq model'[u] \cup {o}
    BY <1>0, <2>2
  <2>. QED
    BY <2>2, <2>3, RequestsToDelete
<1>7. CASE OpenViewer
  <2>1. todo = <<>> /\ UNCHANGED <<vars, waiting>>
    BY <1>7 DEF OpenViewer, Idle
  <2>2. CASE \E w \in DataViewers : ReadTables(w)
    BY <2>1, <2>2, ViewersKeepSync
  <2>3. CASE UNCHANGED <<open, model>>
    <3>1. UNCHANGED <<rows, todo, monitor, waiting, open, model>>
      BY <2>1, <2>3 DEF vars
    <3>. QED
      BY <3>1, NothingHappens
  <2>. QED
    BY <1>7, <2>2, <2>3 DEF OpenViewer
<1>8. ASSUME NEW w \in DataViewers, Close(w)
      PROVE  StackOfClients' /\ SyncInv'
  BY <1>8, ViewersKeepSync DEF Close, AtRest, Idle
<1>. QED
  BY <1>1, <1>3, <1>4, <1>5, <1>6, <1>7, <1>8 DEF UserRequest

-----------------------------------------------------------------------------
(* The invariant holds.                                                    *)

\* At first there is the configuration widget, and it shows nothing.
LEMMA InitClients == ClientInit => ClientInv
<1>. SUFFICES ASSUME ClientInit PROVE ClientInv
  OBVIOUS
<1>1. FeedInv
  BY InitFeed DEF ClientInit
<1>2. /\ rows = {} /\ todo = <<>> /\ typed = {} /\ crashes = 0
      /\ open = {ConfigWidget} /\ model = NoModels /\ waiting = <<>> /\ handler = Done
  BY DEF ClientInit, Init
<1>3. ClientTypeOK
  <2>1. TypeOK
    BY <1>1 DEF FeedInv, Integrity
  <2>2. waiting \in Seq(SUBSET Views)
    BY <1>2
  <2>3. model \in [Views -> SUBSET Objects]
    BY <1>2 DEF NoModels
  <2>. QED
    BY <1>2, <2>1, <2>2, <2>3 DEF ClientTypeOK
<1>4. StackOfClients
  <2>1. Len(todo) = 0 /\ DOMAIN todo = {} /\ Len(waiting) = 0 /\ DOMAIN waiting = {}
    BY <1>2
  <2>. QED
    BY <1>2, <2>1 DEF StackOfClients, StackShape, StoringStack, EmissionsInv
<1>5. SyncInv
  BY <1>2 DEF SyncInv, NoModels
<1>6. HandlerInv
  BY <1>2 DEF HandlerInv, Done
<1>. QED
  BY <1>1, <1>2, <1>3, <1>4, <1>5, <1>6 DEF ClientInv

\* Every step preserves the invariant.
LEMMA NextClients == ClientInv /\ [ClientNext]_clientVars => ClientInv'
<1>. SUFFICES ASSUME ClientInv, [ClientNext]_clientVars PROVE ClientInv'
  OBVIOUS
<1>0. FeedInv /\ ClientTypeOK /\ HandlerInv /\ crashes = 0 /\ typed = {}
  BY DEF ClientInv
<1>1. CASE ClientNext
  <2>1. [Next]_vars /\ crashes' = crashes /\ typed' = {}
    BY <1>1, ClientStepsAreStorageSteps
  <2>2. FeedInv'
    BY <1>0, <2>1, NextFeed
  <2>3. ClientTypeOK'
    BY <1>1, ClientsTyped
  <2>4. HandlerInv'
    BY <1>1, <2>3, NextHandler
  <2>5. StackOfClients' /\ SyncInv'
    BY <1>1, <2>3, CallKeepsSync, SlotsKeepSync, RequestsKeepSync DEF ClientNext, ClientProgress
  <2>. QED
    BY <1>0, <2>1, <2>2, <2>3, <2>4, <2>5 DEF ClientInv
<1>2. CASE UNCHANGED clientVars
  <2>1. UNCHANGED vars /\ UNCHANGED <<open, model, waiting, handler>>
    BY <1>2 DEF clientVars, clients
  <2>2. /\ rows' = rows /\ refs' = refs /\ typed' = typed /\ todo' = todo /\ monitor' = monitor
        /\ crashes' = crashes
        /\ open' = open /\ model' = model /\ waiting' = waiting /\ handler' = handler
    BY <2>1 DEF vars
  <2>3. FeedInv'
    BY <1>0, <2>1, NextFeed
  <2>4. ClientTypeOK'
    BY <1>0, <2>2, <2>3 DEF ClientTypeOK, FeedInv, Integrity
  <2>5. StackOfClients' /\ SyncInv'
    BY <2>2, NothingHappens
  <2>6. HandlerInv'
    BY <1>0, <2>2 DEF HandlerInv, CertificateOf, Deleting
  <2>. QED
    BY <1>0, <2>2, <2>3, <2>4, <2>5, <2>6 DEF ClientInv
<1>. QED
  BY <1>1, <1>2

\* The stack, the views that are being called, the models and the tables agree in
\* every state: this is what the theorems below follow from.
THEOREM ClientsAreSound == ClientSpec => []ClientInv
<1>. QED
  BY InitClients, NextClients, PTL DEF ClientSpec

-----------------------------------------------------------------------------
(* What follows.                                                           *)

\* Every variable of the views and of the handler has its type.
THEOREM ClientsTypeCorrect == ClientSpec => []ClientTypeOK
<1>1. ClientInv => ClientTypeOK
  BY DEF ClientInv
<1>. QED
  BY <1>1, ClientsAreSound, PTL

\* Between requests every open view shows exactly the rows of its table
\* (onApplicationCertificateChanged, onHistoricServerConnectionChanged,
\* onLayoutChanged), whatever was deleted by a cascade, by another view or by
\* the slots themselves, for every number of rows and of viewers.
THEOREM ModelsShowTheTables == ClientSpec => []ModelsInSync
<1>1. ClientInv => ModelsInSync
  BY RestIsInSync DEF ModelsInSync, AtRest, Idle
<1>. QED
  BY <1>1, ClientsAreSound, PTL

\* The calls from slots into the storage nest twice and no deeper, however many
\* views are told: a certificate takes at most a connection along, and a connection
\* nothing (CertificateModel::removeRows, HistoricServerConnectionModel::removeRows).
THEOREM CallsNestTwice == ClientSpec => []NestingIsBounded
<1>1. ASSUME ClientInv PROVE NestingIsBounded
  <2>0. ClientTypeOK /\ StackShape /\ todo \in Seq(Frames) /\ Len(todo) \in Nat
    BY <1>1 DEF ClientInv, ClientTypeOK, TypeOK, StackOfClients
  <2>1. CASE StoringStack
    BY <2>1 DEF StoringStack, NestingIsBounded
  <2>2. CASE DeletionStack /\ NestingInv
    <3>. SUFFICES ASSUME Len(todo) >= 6 PROVE FALSE
      BY <2>0 DEF NestingIsBounded
    <3>1. DOMAIN todo = 1..Len(todo) /\ Len(waiting) \in Nat
      BY <2>0, <2>2, DeletionShape
    <3>2. ASSUME NEW i \in 1..2, todo[i].op = "slots", todo[i + 2].op = "slots", i + 4 <= Len(todo)
          PROVE  FALSE
      <4>1. /\ i \in DOMAIN todo /\ i + 2 \in DOMAIN todo /\ (i + 2) + 2 \in DOMAIN todo
        BY <3>1, <3>2
      <4>2. DeletedFor(todo[i + 2].object, todo[i].object)
        BY <2>2, <3>2, <4>1 DEF NestingInv
      <4>3. DeletedFor(todo[(i + 2) + 2].object, todo[i + 2].object)
        BY <2>2, <3>2, <4>1 DEF NestingInv
      <4>. QED
        BY <4>2, <4>3 DEF DeletedFor
    <3>3. CASE Head(todo).op = "slots"
      <4>1. /\ Len(todo) = 2 * Len(waiting)
            /\ \A k \in 1..Len(waiting) : todo[2 * k - 1].op = "slots"
        BY <2>0, <2>2, <3>3, DeletionShape
      <4>2. 1 \in 1..Len(waiting) /\ 2 \in 1..Len(waiting) /\ 2 * 1 - 1 = 1 /\ 2 * 2 - 1 = 1 + 2
        BY <3>1, <4>1
      <4>3. todo[1].op = "slots" /\ todo[1 + 2].op = "slots"
        BY <4>1, <4>2
      <4>. QED
        BY <2>0, <3>2, <4>3
    <3>4. CASE Head(todo).op # "slots"
      <4>1. /\ Len(todo) = 2 * Len(waiting) + 1
            /\ \A k \in 1..Len(waiting) : todo[2 * k].op = "slots"
        BY <2>0, <2>2, <3>4, DeletionShape
      <4>2. 1 \in 1..Len(waiting) /\ 2 \in 1..Len(waiting) /\ 2 * 1 = 2 /\ 2 * 2 = 2 + 2
        BY <3>1, <4>1
      <4>3. todo[2].op = "slots" /\ todo[2 + 2].op = "slots"
        BY <4>1, <4>2
      <4>. QED
        BY <2>0, <3>2, <4>3
    <3>. QED
      BY <3>3, <3>4
  <2>. QED
    BY <2>0, <2>1, <2>2 DEF StackShape
<1>. QED
  BY <1>1, ClientsAreSound, PTL

\* As long as the old row of an activated connection is there while it waits to
\* be deleted, its successor is there too, with the same certificate
\* (record_recent_connection before deleteHistoricServerConnection).
THEOREM ActivationsLoseNothing == ClientSpec => []ReplacedBeforeDeleted
<1>1. ASSUME ClientInv PROVE ReplacedBeforeDeleted
  <2>0. ClientTypeOK /\ HandlerInv /\ rows \subseteq Objects
    BY <1>1 DEF ClientInv, ClientTypeOK, TypeOK
  <2>1. CASE handler.step = "delete"
    BY <2>0, <2>1 DEF HandlerInv, ReplacedBeforeDeleted
  <2>2. CASE handler.step # "delete"
    <3>1. handler.old = NoRef
      BY <2>0, <2>2 DEF ClientTypeOK, Done, OpensViewer, Replaces
    <3>. QED
      BY <2>0, <3>1, StorageAssumption DEF ReplacedBeforeDeleted
  <2>. QED
    BY <2>1, <2>2
<1>. QED
  BY <1>1, ClientsAreSound, PTL

\* A view that hears of the removal of a connection or of a layout takes nothing
\* else out of the storage: its second deletion of that row finds none.
THEOREM HearingRemovesNothing == ClientSpec => RemovesNothingElse
<1>1. ASSUME ClientInv, [ClientNext]_clientVars,
             Pending("slots"), Head(todo).object.rel # "ApplicationCertificate"
      PROVE  rows \subseteq rows'
  <2>1. CASE UNCHANGED clientVars
    BY <2>1 DEF clientVars, vars
  <2>2. ASSUME NEW v \in Views, SlotRemoves(v)
        PROVE  rows' = rows
    BY <1>1, <2>2, SlotsDeleteConnections
  <2>3. ASSUME NEW v \in Views, SlotAdds(v) \/ SlotIgnores(v)
        PROVE  rows' = rows
    BY <2>3 DEF SlotAdds, SlotIgnores, vars
  <2>4. CASE EmissionEnds
    BY <2>4 DEF EmissionEnds, SlotsReturn
  <2>5. ~CallProceeds
    BY <1>1 DEF CallProceeds, StoreAppCertKey, StoreAppCert, ClearRevokedList, StoreListed,
                AnnounceConnection, DrainMonitor, Deliver, Pending
  <2>6. ~Idle
    BY <1>1 DEF Idle, Pending
  <2>7. ~(DeleteOld \/ OpenViewer \/ UserRequest)
    BY <2>6 DEF DeleteOld, OpenViewer, UserRequest, Close, CreateCertificate, DeleteInSettings,
                SaveLayout, Connect, RemoveRow, Activate, AtRest
  <2>. QED
    BY <1>1, <2>1, <2>2, <2>3, <2>4, <2>5, <2>7 DEF ClientNext, ClientProgress
<1>2. ClientInv /\ [ClientNext]_clientVars
        => [Pending("slots") /\ Head(todo).object.rel # "ApplicationCertificate"
               => rows \subseteq rows']_clientVars
  BY <1>1
<1>. QED
  BY <1>2, ClientsAreSound, PTL DEF ClientSpec, RemovesNothingElse

\* The views, and the user through them, use the storage only as Storage lets it
\* be used: whatever is proved of Spec holds with these clients.  The fairness of
\* SlotsKeepTheContract is left to the run.
THEOREM ClientsUseTheStorage == ClientSpec => Spec
<1>1. ClientInit => Init
  BY DEF ClientInit
<1>2. ClientInv /\ [ClientNext]_clientVars => [Next]_vars
  BY ClientStepsAreStorageSteps DEF clientVars, vars
<1>. QED
  BY <1>1, <1>2, ClientsAreSound, PTL DEF ClientSpec, Spec

=============================================================================
