---------------------------- MODULE StorageProofs ----------------------------
(***************************************************************************)
(* Theorems about Storage, for every number of names, scopes, rows, kills  *)
(* and nested calls.  First its types and the integrity of the database,   *)
(* which no call and no kill disturbs: no foreign key dangles and no       *)
(* setting has two values.  Then what the signals tell: until the process  *)
(* is first killed the listeners learn of exactly what happens to the      *)
(* tables, and Storage takes the steps of ChangeFeed.  A connection is     *)
(* announced with its lists whatever is killed.                            *)
(***************************************************************************)
EXTENDS StorageFeed, SequenceTheorems, TLAPS

-----------------------------------------------------------------------------
(* Frames and stacks.                                                      *)

\* Pushing a frame onto a stack.
LEMMA PushIsStack ==
    ASSUME NEW s \in Seq(Frames), NEW f \in Frames
    PROVE  /\ <<f>> \o s \in Seq(Frames)
           /\ Len(<<f>> \o s) = Len(s) + 1
           /\ (<<f>> \o s)[1] = f
           /\ \A i \in DOMAIN s : (<<f>> \o s)[i + 1] = s[i]
  OBVIOUS

\* The empty stack.
LEMMA EmptyIsStack == <<>> \in Seq(Frames)
  OBVIOUS

\* Returning from the frame at the head.
LEMMA PopIsStack ==
    ASSUME NEW s \in Seq(Frames), s # <<>>
    PROVE  /\ Head(s) \in Frames
           /\ Tail(s) \in Seq(Frames)
           /\ Len(Tail(s)) = Len(s) - 1
           /\ \A i \in DOMAIN Tail(s) : i + 1 \in DOMAIN s /\ Tail(s)[i] = s[i + 1]
  OBVIOUS

\* The delete triggers add to a bag.
LEMMA CountIsBag ==
    ASSUME NEW bag \in Bags, NEW S
    PROVE  Count(bag, S) \in Bags
  BY DEF Count, Bags

-----------------------------------------------------------------------------
(* Statements keep the tables well-typed.                                  *)

\* DELETE with its cascade is well typed.
LEMMA DeleteRowsTyped ==
    ASSUME TypeOK, NEW S, DeleteRows(S)
    PROVE  /\ rows' \subseteq rows /\ refs' \subseteq refs
           /\ typed' \subseteq typed /\ listed' \subseteq listed
           /\ monitor' \in Bags
  BY CountIsBag DEF TypeOK, DeleteRows

\* INSERT is well typed.
LEMMA InsertRowTyped ==
    ASSUME TypeOK, NEW o \in Objects, NEW T \in SUBSET Objects, InsertRow(o, T)
    PROVE  /\ rows' \subseteq Objects /\ refs' \subseteq Objects \X Objects
           /\ typed' \subseteq TypedTuples /\ listed' \subseteq ListedTuples
           /\ monitor' \in Bags
  BY DEF TypeOK, InsertRow

\* The emission of a signal is well typed.
LEMMA TellTyped ==
    ASSUME TypeOK, NEW o \in Objects, NEW change \in {"Created", "Modified", "Deleted"},
           NEW rest \in Seq(Frames), Tell(o, change, rest)
    PROVE  todo' \in Seq(Frames) /\ known' \subseteq Objects
<1>1. Slots(o, change) \in Frames
  BY DEF Slots, Frames
<1>2. todo' \in Seq(Frames)
  BY <1>1, PushIsStack DEF Tell
<1>. QED
  BY <1>2 DEF Tell, TypeOK

\* The head of a stack is a frame.
LEMMA HeadTyped ==
    ASSUME TypeOK, NEW op, Pending(op)
    PROVE  Head(todo) \in Frames /\ Head(todo).op = op /\ Tail(todo) \in Seq(Frames)
  BY PopIsStack DEF TypeOK, Pending

\* Which record a frame is follows from its op.
LEMMA FrameFields ==
    ASSUME NEW f \in Frames
    PROVE  /\ f.op = "deliver" => f.gone \in Bags
           /\ f.op = "slots" => f.object \in Objects
           /\ f.op = "insertKey" => f.certificate \in Certificates
           /\ f.op = "insertAppCert" => f.certificate \in Certificates /\ f.key \in Keys
           /\ f.op = "clearRevoked" => f.connection \in Connections
           /\ f.op = "insertListed" => /\ f.list \in {"trust", "revoked"}
                                       /\ f.connection \in Connections
                                       /\ f.certificates \in SUBSET Certificates
           /\ f.op = "announce" => f.connection \in Connections
           /\ f.op = "insertTyped" => f.tuple \in TypedTuples
  BY DEF Frames, Drain

\* The rows that store calls create are objects.
LEMMA RowsAreObjects ==
    /\ Certificates \subseteq Objects /\ Keys \subseteq Objects /\ AppCerts \subseteq Objects
    /\ Connections \subseteq Objects /\ Layouts \subseteq Objects
    /\ Settings \subseteq Objects /\ KeyValues \subseteq Objects /\ IdObjects \subseteq Objects
    /\ \A i \in 1..MaxRowid["Certificate"] : Row("Certificate", i) \in Certificates
    /\ \A i \in 1..MaxRowid["Key"] : Row("Key", i) \in Keys
    /\ \A i \in 1..MaxRowid["ApplicationCertificate"] : Row("ApplicationCertificate", i) \in AppCerts
    /\ \A i \in 1..MaxRowid["HistoricServerConnection"] :
           Row("HistoricServerConnection", i) \in Connections
    /\ \A i \in 1..MaxRowid["Layout"], s \in Scopes : Layout(i, s) \in Layouts
  BY DEF Objects, IdObjects, Certificates, Keys, AppCerts, Connections, Layouts, Settings, KeyValues

-----------------------------------------------------------------------------
(* Type correctness.                                                       *)

\* The initial state is well typed.
LEMMA InitTyped == Init => TypeOK
  BY DEF Init, TypeOK, NoTuples, Bags

\* The end of the process is well typed.
LEMMA StopTyped ==
    ASSUME TypeOK, Stop, UNCHANGED database, crashes' \in Nat
    PROVE  TypeOK'
<1>1. todo' \in Seq(Frames)
  BY EmptyIsStack DEF Stop
<1>2. /\ rows' = rows /\ refs' = refs /\ typed' = typed /\ listed' = listed
      /\ monitor' = monitor
  BY DEF database
<1>. QED
  BY <1>1, <1>2 DEF TypeOK, Stop

\* Storing a row and telling of it.
LEMMA InsertAndTellTyped ==
    ASSUME TypeOK, NEW o \in Objects, NEW T \in SUBSET Objects,
           NEW change \in {"Created", "Modified", "Deleted"}, NEW rest \in Seq(Frames),
           InsertRow(o, T), Tell(o, change, rest), UNCHANGED <<up, crashes>>
    PROVE  TypeOK'
<1>1. todo' \in Seq(Frames) /\ known' \subseteq Objects
  BY TellTyped
<1>2. /\ rows' \subseteq Objects /\ refs' \subseteq Objects \X Objects
      /\ typed' \subseteq TypedTuples /\ listed' \subseteq ListedTuples
      /\ monitor' \in Bags
  BY InsertRowTyped
<1>. QED
  BY <1>1, <1>2 DEF TypeOK

\* The store calls of one statement.
LEMMA StoreTypedOK ==
    ASSUME TypeOK,
           StoreCertificate \/ StoreKey \/ StoreLayout \/ SetKV
    PROVE  TypeOK'
<1>1. CASE StoreCertificate
  <2>1. PICK i \in 1..MaxRowid["Certificate"], rest \in {"none", "key"} :
           /\ InsertRow(Row("Certificate", i), {})
           /\ Tell(Row("Certificate", i), "Created",
                   IF rest = "key" THEN <<InsertKey(Row("Certificate", i))>> ELSE <<>>)
    BY <1>1 DEF StoreCertificate
  <2>2. InsertKey(Row("Certificate", i)) \in Frames
    BY RowsAreObjects DEF InsertKey, Frames
  <2>3. (IF rest = "key" THEN <<InsertKey(Row("Certificate", i))>> ELSE <<>>) \in Seq(Frames)
    BY <2>2
  <2>4. Row("Certificate", i) \in Objects
    BY RowsAreObjects
  <2>5. UNCHANGED <<up, crashes>>
    BY <1>1 DEF StoreCertificate
  <2>. QED
    BY <2>1, <2>3, <2>4, <2>5, InsertAndTellTyped
<1>2. CASE StoreKey
  <2>1. PICK i \in 1..MaxRowid["Key"] :
           InsertRow(Row("Key", i), {}) /\ Tell(Row("Key", i), "Created", <<>>)
    BY <1>2 DEF StoreKey
  <2>2. Row("Key", i) \in Objects /\ UNCHANGED <<up, crashes>>
    BY <1>2, RowsAreObjects DEF StoreKey
  <2>. QED
    BY <2>1, <2>2, EmptyIsStack, InsertAndTellTyped
<1>3. CASE StoreLayout
  <2>1. PICK i \in 1..MaxRowid["Layout"], s \in Scopes :
           InsertRow(Layout(i, s), {}) /\ Tell(Layout(i, s), "Created", <<>>)
    BY <1>3 DEF StoreLayout
  <2>2. Layout(i, s) \in Objects /\ UNCHANGED <<up, crashes>>
    BY <1>3, RowsAreObjects DEF StoreLayout
  <2>. QED
    BY <2>1, <2>2, EmptyIsStack, InsertAndTellTyped
<1>4. CASE SetKV
  <2>1. PICK o \in KeyValues : InsertRow(o, {}) /\ Tell(o, "Modified", <<>>)
    BY <1>4 DEF SetKV
  <2>2. o \in Objects /\ UNCHANGED <<up, crashes>>
    BY <1>4, RowsAreObjects DEF SetKV
  <2>. QED
    BY <2>1, <2>2, EmptyIsStack, InsertAndTellTyped
<1>. QED
  BY <1>1, <1>2, <1>3, <1>4

\* The second and the third statement of storeApplicationCertificate.
LEMMA AppCertStepsOK ==
    ASSUME TypeOK, StoreAppCertKey \/ StoreAppCert
    PROVE  TypeOK'
<1>1. CASE StoreAppCertKey
  <2>0. Pending("insertKey") /\ UNCHANGED <<up, crashes>>
    BY <1>1 DEF StoreAppCertKey
  <2>1. PICK i \in 1..MaxRowid["Key"] :
           /\ InsertRow(Row("Key", i), {})
           /\ Tell(Row("Key", i), "Created",
                   <<InsertAppCert(Head(todo).certificate, Row("Key", i))>> \o Tail(todo))
    BY <1>1 DEF StoreAppCertKey
  <2>2. Head(todo).certificate \in Certificates /\ Tail(todo) \in Seq(Frames)
    BY <2>0, HeadTyped, FrameFields
  <2>3. InsertAppCert(Head(todo).certificate, Row("Key", i)) \in Frames
    BY <2>2, RowsAreObjects DEF InsertAppCert, Frames
  <2>4. <<InsertAppCert(Head(todo).certificate, Row("Key", i))>> \o Tail(todo) \in Seq(Frames)
    BY <2>2, <2>3, PushIsStack
  <2>5. Row("Key", i) \in Objects
    BY RowsAreObjects
  <2>. QED
    BY <2>0, <2>1, <2>4, <2>5, InsertAndTellTyped
<1>2. CASE StoreAppCert
  <2>0. Pending("insertAppCert") /\ UNCHANGED <<up, crashes>>
    BY <1>2 DEF StoreAppCert
  <2>1. PICK i \in 1..MaxRowid["ApplicationCertificate"] :
           /\ InsertRow(Row("ApplicationCertificate", i), {Head(todo).certificate, Head(todo).key})
           /\ Tell(Row("ApplicationCertificate", i), "Created", Tail(todo))
    BY <1>2 DEF StoreAppCert
  <2>2. /\ Head(todo).certificate \in Certificates /\ Head(todo).key \in Keys
        /\ Tail(todo) \in Seq(Frames)
    BY <2>0, HeadTyped, FrameFields
  <2>3. {Head(todo).certificate, Head(todo).key} \in SUBSET Objects
    BY <2>2, RowsAreObjects
  <2>4. Row("ApplicationCertificate", i) \in Objects
    BY RowsAreObjects
  <2>. QED
    BY <2>0, <2>1, <2>2, <2>3, <2>4, InsertAndTellTyped
<1>. QED
  BY <1>1, <1>2

\* The frames storeHistoricServerConnection leaves to do.
LEMMA ConnectionFrames ==
    ASSUME NEW h \in Connections, NEW T \in SUBSET Certificates, NEW R \in SUBSET Certificates
    PROVE  /\ ClearRevoked(h) \in Frames
           /\ InsertListed("trust", h, T) \in Frames
           /\ InsertListed("revoked", h, R) \in Frames
           /\ Announce(h, T, R) \in Frames
           /\ <<ClearRevoked(h), InsertListed("trust", h, T), ClearRevoked(h),
                InsertListed("revoked", h, R), Announce(h, T, R)>> \in Seq(Frames)
<1>1. ClearRevoked(h) \in Frames
  BY DEF ClearRevoked, Frames
<1>2. InsertListed("trust", h, T) \in Frames /\ InsertListed("revoked", h, R) \in Frames
  BY DEF InsertListed, Frames
<1>3. Announce(h, T, R) \in Frames
  BY DEF Announce, Frames
<1>. QED
  BY <1>1, <1>2, <1>3

\* The first statement of storeHistoricServerConnection.
LEMMA StoreConnectionOK ==
    ASSUME TypeOK, StoreConnection
    PROVE  TypeOK'
<1>1. PICK i \in 1..MaxRowid["HistoricServerConnection"],
           a \in SUBSET (AppCerts \cap rows), l \in SUBSET (Layouts \cap rows),
           T \in SUBSET Choosable, R \in SUBSET Choosable :
        LET h == Row("HistoricServerConnection", i) IN
        /\ InsertRow(h, a \cup l)
        /\ todo' = <<ClearRevoked(h), InsertListed("trust", h, T),
                     ClearRevoked(h), InsertListed("revoked", h, R), Announce(h, T, R)>>
  BY DEF StoreConnection
<1>2. Row("HistoricServerConnection", i) \in Connections
  BY RowsAreObjects
<1>3. T \in SUBSET Certificates /\ R \in SUBSET Certificates
  BY DEF Choosable
<1>4. todo' \in Seq(Frames)
  BY <1>1, <1>2, <1>3, ConnectionFrames
<1>5. a \cup l \in SUBSET Objects /\ Row("HistoricServerConnection", i) \in Objects
  BY RowsAreObjects
<1>6. /\ rows' \subseteq Objects /\ refs' \subseteq Objects \X Objects
      /\ typed' \subseteq TypedTuples /\ listed' \subseteq ListedTuples
      /\ monitor' \in Bags
  BY <1>1, <1>5, InsertRowTyped
<1>7. UNCHANGED <<up, crashes, known>>
  BY DEF StoreConnection
<1>. QED
  BY <1>4, <1>6, <1>7 DEF TypeOK

\* The statements on the two lists, and the signal after them.
LEMMA ListStepsOK ==
    ASSUME TypeOK, ClearRevokedList \/ StoreListed \/ AnnounceConnection
    PROVE  TypeOK'
<1>1. CASE ClearRevokedList
  <2>1. Pending("clearRevoked")
    BY <1>1 DEF ClearRevokedList
  <2>2. todo' \in Seq(Frames)
    BY <1>1, <2>1, HeadTyped DEF ClearRevokedList
  <2>. QED
    BY <1>1, <2>2 DEF ClearRevokedList, TypeOK
<1>2. CASE StoreListed
  <2>0. Pending("insertListed")
    BY <1>2 DEF StoreListed
  <2>1. /\ Head(todo).list \in {"trust", "revoked"} /\ Head(todo).connection \in Connections
        /\ Head(todo).certificates \in SUBSET Certificates /\ Tail(todo) \in Seq(Frames)
    BY <2>0, HeadTyped, FrameFields
  <2>2. CASE todo' = Tail(todo) /\ UNCHANGED listed
    BY <1>2, <2>1, <2>2 DEF StoreListed, TypeOK
  <2>3. CASE \E c \in Head(todo).certificates \cap rows :
               /\ listed' = listed \cup {[list |-> Head(todo).list,
                                         connection |-> Head(todo).connection, certificate |-> c]}
               /\ todo' = <<InsertListed(Head(todo).list, Head(todo).connection,
                                        Head(todo).certificates \ {c})>> \o Tail(todo)
    <3>1. PICK c \in Head(todo).certificates \cap rows :
               /\ listed' = listed \cup {[list |-> Head(todo).list,
                                         connection |-> Head(todo).connection, certificate |-> c]}
               /\ todo' = <<InsertListed(Head(todo).list, Head(todo).connection,
                                        Head(todo).certificates \ {c})>> \o Tail(todo)
      BY <2>3
    <3>2. InsertListed(Head(todo).list, Head(todo).connection,
                       Head(todo).certificates \ {c}) \in Frames
      BY <2>1 DEF InsertListed, Frames
    <3>3. todo' \in Seq(Frames)
      BY <2>1, <3>1, <3>2, PushIsStack
    <3>4. listed' \subseteq ListedTuples
      BY <2>1, <3>1 DEF ListedTuples, TypeOK
    <3>. QED
      BY <1>2, <3>3, <3>4 DEF StoreListed, TypeOK
  <2>. QED
    BY <1>2, <2>2, <2>3 DEF StoreListed
<1>3. CASE AnnounceConnection
  <2>0. Pending("announce") /\ Tell(Head(todo).connection, "Created", Tail(todo))
    BY <1>3 DEF AnnounceConnection
  <2>1. Head(todo).connection \in Objects /\ Tail(todo) \in Seq(Frames)
    BY <2>0, HeadTyped, FrameFields, RowsAreObjects
  <2>2. todo' \in Seq(Frames) /\ known' \subseteq Objects
    BY <2>0, <2>1, TellTyped
  <2>. QED
    BY <1>3, <2>2 DEF AnnounceConnection, TypeOK
<1>. QED
  BY <1>1, <1>2, <1>3

\* The two statements of setXSetting.
LEMMA SettingStepsOK ==
    ASSUME TypeOK, SetSetting \/ StoreTyped
    PROVE  TypeOK'
<1>1. CASE SetSetting
  <2>1. PICK k \in Settings, kind \in Kinds, r \in IdObjects \cup {NoRef} :
           /\ rows'  = rows \cup {k}
           /\ typed' = {t \in typed : t.key # k}
           /\ todo'  = <<InsertTyped([key |-> k, kind |-> kind, ref |-> r])>>
    BY <1>1 DEF SetSetting
  <2>2. [key |-> k, kind |-> kind, ref |-> r] \in TypedTuples
    BY StorageAssumption DEF TypedTuples
  <2>3. InsertTyped([key |-> k, kind |-> kind, ref |-> r]) \in Frames
    BY <2>2 DEF InsertTyped, Frames
  <2>4. todo' \in Seq(Frames)
    BY <2>1, <2>3
  <2>5. rows' \subseteq Objects /\ typed' \subseteq TypedTuples
    BY <2>1, RowsAreObjects DEF TypeOK
  <2>6. UNCHANGED <<refs, listed, monitor, up, crashes, known>>
    BY <1>1 DEF SetSetting
  <2>. QED
    BY <2>4, <2>5, <2>6 DEF TypeOK
<1>2. CASE StoreTyped
  <2>0. Pending("insertTyped")
    BY <1>2 DEF StoreTyped
  <2>1. Head(todo).tuple \in TypedTuples /\ Tail(todo) \in Seq(Frames)
    BY <2>0, HeadTyped, FrameFields
  <2>2. Head(todo).tuple.key \in Objects
    BY <2>1, RowsAreObjects DEF TypedTuples
  <2>3. /\ typed' = {u \in typed : u.key # Head(todo).tuple.key \/ u.kind # Head(todo).tuple.kind}
                     \cup {Head(todo).tuple}
        /\ Tell(Head(todo).tuple.key, "Modified", Tail(todo))
    BY <1>2 DEF StoreTyped
  <2>4. todo' \in Seq(Frames) /\ known' \subseteq Objects
    BY <2>1, <2>2, <2>3, TellTyped
  <2>5. typed' \subseteq TypedTuples
    BY <2>1, <2>3 DEF TypeOK
  <2>6. UNCHANGED <<rows, refs, listed, monitor, up, crashes>>
    BY <1>2 DEF StoreTyped
  <2>. QED
    BY <2>4, <2>5, <2>6 DEF TypeOK
<1>. QED
  BY <1>1, <1>2

\* The DELETE, handleDeleteMonitor and the return of an emission.
LEMMA DeletionStepsOK ==
    ASSUME TypeOK, (\E o \in Objects : Delete(o)) \/ DrainMonitor \/ Deliver \/ SlotsReturn
    PROVE  TypeOK'
<1>1. ASSUME NEW o \in Objects, Delete(o) PROVE TypeOK'
  <2>1. /\ rows' \subseteq rows /\ refs' \subseteq refs
        /\ typed' \subseteq typed /\ listed' \subseteq listed /\ monitor' \in Bags
    BY <1>1, DeleteRowsTyped DEF Delete
  <2>2. Drain \in Frames
    BY DEF Frames
  <2>3. todo' \in Seq(Frames)
    BY <1>1, <2>2, PushIsStack DEF Delete, TypeOK
  <2>4. UNCHANGED <<up, crashes, known>>
    BY <1>1 DEF Delete
  <2>. QED
    BY <2>1, <2>3, <2>4 DEF TypeOK
<1>2. CASE DrainMonitor
  <2>1. monitor \in Bags /\ Tail(todo) \in Seq(Frames)
    BY <1>2, HeadTyped DEF DrainMonitor, TypeOK
  <2>2. DeliverAll(monitor) \in Frames
    BY <2>1 DEF DeliverAll, Frames
  <2>3. todo' \in Seq(Frames)
    BY <1>2, <2>1, <2>2, PushIsStack DEF DrainMonitor
  <2>4. monitor' \in Bags
    BY <1>2 DEF DrainMonitor, NoTuples, Bags
  <2>. QED
    BY <1>2, <2>3, <2>4 DEF DrainMonitor, TypeOK
<1>3. CASE Deliver
  <2>1. Head(todo).gone \in Bags /\ Tail(todo) \in Seq(Frames)
    BY <1>3, HeadTyped, FrameFields DEF Deliver
  <2>2. CASE todo' = Tail(todo) /\ UNCHANGED known
    BY <1>3, <2>1, <2>2 DEF Deliver, TypeOK
  <2>3. CASE \E o \in Objects :
               /\ Head(todo).gone[o] > 0
               /\ Tell(o, "Deleted", <<DeliverAll([Head(todo).gone EXCEPT ![o] = @ - 1])>> \o Tail(todo))
    <3>1. PICK o \in Objects :
               /\ Head(todo).gone[o] > 0
               /\ Tell(o, "Deleted", <<DeliverAll([Head(todo).gone EXCEPT ![o] = @ - 1])>> \o Tail(todo))
      BY <2>3
    <3>2. [Head(todo).gone EXCEPT ![o] = @ - 1] \in Bags
      BY <2>1, <3>1 DEF Bags
    <3>3. DeliverAll([Head(todo).gone EXCEPT ![o] = @ - 1]) \in Frames
      BY <3>2 DEF DeliverAll, Frames
    <3>4. <<DeliverAll([Head(todo).gone EXCEPT ![o] = @ - 1])>> \o Tail(todo) \in Seq(Frames)
      BY <2>1, <3>3, PushIsStack
    <3>5. todo' \in Seq(Frames) /\ known' \subseteq Objects
      BY <3>1, <3>4, TellTyped
    <3>. QED
      BY <1>3, <3>5 DEF Deliver, TypeOK
  <2>. QED
    BY <1>3, <2>2, <2>3 DEF Deliver
<1>4. CASE SlotsReturn
  <2>1. todo' \in Seq(Frames)
    BY <1>4, HeadTyped DEF SlotsReturn
  <2>. QED
    BY <1>4, <2>1 DEF SlotsReturn, TypeOK
<1>. QED
  BY <1>1, <1>2, <1>3, <1>4

\* terminate(), a kill and a restart.
LEMMA StopStepsOK ==
    ASSUME TypeOK, ForeignKeyFails \/ StoreConnectionRefused \/ Crash \/ Restart
    PROVE  TypeOK'
<1>1. CASE ForeignKeyFails
  BY <1>1, StopTyped DEF ForeignKeyFails, database, TypeOK
<1>2. CASE StoreConnectionRefused
  BY <1>2, StopTyped DEF StoreConnectionRefused, database, TypeOK
<1>3. CASE Crash
  BY <1>3, StopTyped DEF Crash, TypeOK
<1>4. CASE Restart
  BY <1>4 DEF Restart, TypeOK
<1>. QED
  BY <1>1, <1>2, <1>3, <1>4

\* Every step preserves the types.
LEMMA NextTyped == TypeOK /\ [Next]_vars => TypeOK'
<1>. SUFFICES ASSUME TypeOK, [Next]_vars PROVE TypeOK'
  OBVIOUS
<1>1. CASE Progress
  BY <1>1, AppCertStepsOK, ListStepsOK, SettingStepsOK, DeletionStepsOK, StopStepsOK DEF Progress
<1>2. CASE Call
  BY <1>2, StoreTypedOK, StoreConnectionOK, StopStepsOK, SettingStepsOK, DeletionStepsOK DEF Call
<1>3. CASE Crash \/ Restart
  BY <1>3, StopStepsOK
<1>4. CASE UNCHANGED vars
  BY <1>4 DEF vars, TypeOK
<1>. QED
  BY <1>1, <1>2, <1>3, <1>4 DEF Next

\* The tables, the monitor and the call stack are well-typed in every state
\* SQLStorageManager reaches, for every number of rows, names and nested calls.
THEOREM StorageTyped == Spec => []TypeOK
<1>1. Init => TypeOK
  BY InitTyped
<1>2. TypeOK /\ [Next]_vars => TypeOK'
  BY NextTyped
<1>. QED
  BY <1>1, <1>2, PTL DEF Spec

-----------------------------------------------------------------------------
(* The cascade.                                                            *)

\* Which kind of object an object is follows from its relation.
LEMMA Relations ==
    /\ \A o \in AppCerts : o.rel = "ApplicationCertificate"
    /\ \A o \in Connections : o.rel = "HistoricServerConnection"
    /\ \A o \in Settings : o.rel = "Setting"
    /\ \A o \in Certificates : o.rel = "Certificate"
    /\ \A o \in Keys : o.rel = "Key"
    /\ \A o \in Layouts : o.rel = "Layout"
    /\ \A o \in IdObjects : o.rel # "Setting"
  BY DEF AppCerts, Connections, Settings, Certificates, Keys, Layouts, IdObjects, Row, Layout, Setting

\* What refers to an object, and what it may be.
LEMMA ReferrersAre ==
    ASSUME TypeOK, Layered, NEW S \in SUBSET Objects, NEW x \in Referrers(S)
    PROVE  \E d \in S :
              \/ /\ x.rel = "ApplicationCertificate" /\ d.rel \in {"Certificate", "Key"}
              \/ /\ x.rel = "HistoricServerConnection" /\ d.rel \in {"ApplicationCertificate", "Layout"}
              \/ /\ x.rel = "Setting" /\ d.rel # "Setting"
<1>1. CASE \E e \in refs : e[2] \in S /\ x = e[1]
  <2>1. PICK e \in refs : e[2] \in S /\ x = e[1]
    BY <1>1
  <2>. QED
    BY <2>1, Relations DEF Layered
<1>2. CASE \E t \in typed : t.ref \in S /\ x = t.key
  <2>1. PICK t \in typed : t.ref \in S /\ x = t.key
    BY <1>2
  <2>2. t.key \in Settings /\ t.ref \in IdObjects \cup {NoRef}
    BY DEF TypeOK, TypedTuples
  <2>3. t.ref \in IdObjects
    BY <2>1, <2>2, StorageAssumption
  <2>. QED
    BY <2>1, <2>2, <2>3, Relations
<1>. QED
  BY <1>1, <1>2 DEF Referrers

\* Whatever refers to an object is an object.
LEMMA ReferrersAreObjects ==
    ASSUME TypeOK, NEW S
    PROVE  Referrers(S) \subseteq Objects
  BY RowsAreObjects DEF Referrers, TypeOK, TypedTuples

\* Three rounds of referrers are all there are: `ON DELETE CASCADE' leaves no
\* tuple behind that refers to a deleted one.
LEMMA CascadeIsClosed ==
    ASSUME TypeOK, Layered, NEW S \in SUBSET Objects
    PROVE  Referrers(Doomed(S)) \subseteq Doomed(S)
<1>. DEFINE once  == S \cup Referrers(S)
            twice == once \cup Referrers(once)
<1>1. Doomed(S) = twice \cup Referrers(twice)
  BY DEF Doomed
<1>2. once \subseteq Objects /\ twice \subseteq Objects /\ Doomed(S) \subseteq Objects
  BY <1>1, ReferrersAreObjects
<1>. SUFFICES ASSUME NEW x \in Referrers(Doomed(S)), x \notin Doomed(S) PROVE FALSE
  OBVIOUS
<1>3. PICK d \in Doomed(S) : x \in Referrers({d})
  BY DEF Referrers
<1>4. d \in Referrers(twice) /\ d \notin twice
  <2>1. x \notin Referrers(twice)
    BY <1>1
  <2>2. d \notin twice
    BY <1>3, <2>1 DEF Referrers
  <2>. QED
    BY <1>1, <2>2
<1>5. PICK c \in twice : d \in Referrers({c})
  BY <1>4 DEF Referrers
<1>6. c \in Referrers(once) /\ c \notin once
  <2>1. d \notin Referrers(once)
    BY <1>4
  <2>2. c \notin once
    BY <1>5, <2>1 DEF Referrers
  <2>. QED
    BY <2>2
<1>7. PICK b \in once : c \in Referrers({b})
  BY <1>6 DEF Referrers
<1>8. b \in Referrers(S)
  <2>1. c \notin Referrers(S)
    BY <1>6
  <2>2. b \notin S
    BY <1>7, <2>1 DEF Referrers
  <2>. QED
    BY <2>2
<1>9. b.rel \in {"ApplicationCertificate", "HistoricServerConnection", "Setting"}
  BY <1>8, ReferrersAre
<1>10. c.rel \in {"HistoricServerConnection", "Setting"}
  <2>1. {b} \in SUBSET Objects
    BY <1>2
  <2>. QED
    BY <1>7, <1>9, <2>1, ReferrersAre
<1>11. d.rel = "Setting"
  <2>1. {c} \in SUBSET Objects
    BY <1>2
  <2>. QED
    BY <1>5, <1>10, <2>1, ReferrersAre
<1>12. {d} \in SUBSET Objects
  BY <1>2
<1>. QED
  BY <1>3, <1>11, <1>12, ReferrersAre

\* A deletion keeps the tables consistent.
LEMMA DeleteRowsIntegrity ==
    ASSUME Integrity, NEW S \in SUBSET Objects, DeleteRows(S)
    PROVE  Layered' /\ ReferentialIntegrity' /\ OneTypePerSetting'
<1>. DEFINE gone == Doomed(S)
<1>0. TypeOK /\ Layered /\ ReferentialIntegrity /\ OneTypePerSetting
  BY DEF Integrity
<1>1. /\ rows' = rows \ gone
      /\ refs' = {e \in refs : e[1] \notin gone}
      /\ typed' = {t \in typed : t.key \notin gone}
      /\ listed' = {l \in listed : {l.connection, l.certificate} \cap gone = {}}
  BY DEF DeleteRows
<1>2. Referrers(gone) \subseteq gone
  BY <1>0, CascadeIsClosed
<1>3. Layered' /\ OneTypePerSetting'
  BY <1>0, <1>1 DEF Layered, OneTypePerSetting
<1>4. ASSUME NEW e \in refs' PROVE e[1] \in rows' /\ e[2] \in rows'
  <2>1. e \in refs /\ e[1] \notin gone /\ e[1] \in rows /\ e[2] \in rows
    BY <1>0, <1>1, <1>4 DEF ReferentialIntegrity
  <2>2. e[2] \notin gone
    BY <1>2, <2>1 DEF Referrers
  <2>. QED
    BY <1>1, <2>1, <2>2
<1>5. ASSUME NEW t \in typed' PROVE t.key \in rows' /\ t.ref \in rows' \cup {NoRef}
  <2>1. t \in typed /\ t.key \notin gone /\ t.key \in rows /\ t.ref \in rows \cup {NoRef}
    BY <1>0, <1>1, <1>5 DEF ReferentialIntegrity
  <2>2. t.ref \notin gone
    BY <1>2, <2>1 DEF Referrers
  <2>. QED
    BY <1>1, <2>1, <2>2
<1>6. ASSUME NEW l \in listed' PROVE l.connection \in rows' /\ l.certificate \in rows'
  BY <1>0, <1>1, <1>6 DEF ReferentialIntegrity
<1>. QED
  BY <1>3, <1>4, <1>5, <1>6 DEF ReferentialIntegrity

\* Which foreign keys the schema has.
MayRefer(o, p) == \/ o \in AppCerts /\ p \in Certificates \cup Keys
                  \/ o \in Connections /\ p \in AppCerts \cup Layouts

\* New rows with foreign keys on rows keep the tables consistent too.
LEMMA InsertRowIntegrity ==
    ASSUME Integrity, NEW o, NEW T \in SUBSET rows, InsertRow(o, T),
           \A p \in T : MayRefer(o, p)
    PROVE  Layered' /\ ReferentialIntegrity' /\ OneTypePerSetting'
<1>0. Layered /\ ReferentialIntegrity /\ OneTypePerSetting
  BY DEF Integrity
<1>1. /\ rows' = rows \cup {o} /\ refs' = refs \cup {<<o, p>> : p \in T}
      /\ UNCHANGED <<typed, listed>>
  BY DEF InsertRow
<1>2. Layered'
  BY <1>0, <1>1 DEF Layered, MayRefer
<1>3. ReferentialIntegrity'
  BY <1>0, <1>1 DEF ReferentialIntegrity
<1>. QED
  BY <1>0, <1>1, <1>2, <1>3 DEF OneTypePerSetting

\* A step that leaves the tables alone keeps them consistent.
LEMMA TablesUnchanged ==
    ASSUME Integrity, UNCHANGED <<rows, refs, typed, listed>>
    PROVE  Layered' /\ ReferentialIntegrity' /\ OneTypePerSetting'
  BY DEF Integrity, Layered, ReferentialIntegrity, OneTypePerSetting

-----------------------------------------------------------------------------
(* The calls in progress.                                                  *)

NoInsertsIn(s) == \A i \in DOMAIN s : s[i].op \notin {"insertTyped", "insertListed"}
NoInserts      == NoInsertsIn(todo)

\* A stack without insertions has none that could be disturbed.
LEMMA NoInsertsIsSafe == /\ NoInserts => InsertsAreSafe
                         /\ NoInserts' => InsertsAreSafe'
<1>1. NoInserts => InsertsAreSafe
  BY DEF NoInserts, NoInsertsIn, InsertsAreSafe
<1>2. NoInserts' => InsertsAreSafe'
  BY <1>1, PTL
<1>. QED
  BY <1>1, <1>2

\* A call that inserts row after row is alone on the stack.
LEMMA OthersMeanNoInserts ==
    ASSUME Integrity, NEW op, Pending(op),
           op \notin {"insertTyped", "insertListed", "clearRevoked"}
    PROVE  NoInserts
<1>0. TypeOK /\ InsertsAreSafe
  BY DEF Integrity
<1>1. todo \in Seq(Frames) /\ todo # <<>> /\ todo[1].op = op
  BY <1>0 DEF TypeOK, Pending
<1>2. Len(todo) \in Nat /\ Len(todo) >= 1 /\ DOMAIN todo = 1..Len(todo)
  BY <1>1
<1>3. SUFFICES ASSUME NEW i \in DOMAIN todo, todo[i].op \in {"insertTyped", "insertListed"}
               PROVE  FALSE
  BY DEF NoInserts, NoInsertsIn
<1>4. CASE todo[i].op = "insertTyped"
  <2>1. Len(todo) = 1
    BY <1>0, <1>3, <1>4 DEF InsertsAreSafe
  <2>2. i = 1
    BY <1>2, <1>3, <2>1
  <2>. QED
    BY <1>1, <1>4, <2>2
<1>5. CASE todo[i].op = "insertListed"
  <2>1. Len(todo) = 1
    BY <1>0, <1>1, <1>2, <1>3, <1>5 DEF InsertsAreSafe
  <2>2. i = 1
    BY <1>2, <1>3, <2>1
  <2>. QED
    BY <1>1, <1>5, <2>1, <2>2
<1>. QED
  BY <1>3, <1>4, <1>5

\* Calls, returns and signals bring no insertion onto the stack.
LEMMA PopNoInserts ==
    ASSUME TypeOK, NoInserts, todo # <<>>, todo' = Tail(todo)
    PROVE  NoInserts'
  BY PopIsStack DEF TypeOK, NoInserts, NoInsertsIn

\* The frames below a stack without insertions have none either.
LEMMA TailNoInserts ==
    ASSUME TypeOK, NoInserts, todo # <<>>
    PROVE  NoInsertsIn(Tail(todo))
  BY PopIsStack DEF TypeOK, NoInserts, NoInsertsIn

\* Pushing a frame of another kind brings no insertion.
LEMMA PushNoInserts ==
    ASSUME NEW s \in Seq(Frames), NEW f \in Frames, f.op \notin {"insertTyped", "insertListed"},
           NoInsertsIn(s)
    PROVE  <<f>> \o s \in Seq(Frames) /\ NoInsertsIn(<<f>> \o s)
<1>. SUFFICES ASSUME NEW i \in DOMAIN (<<f>> \o s)
              PROVE  (<<f>> \o s)[i].op \notin {"insertTyped", "insertListed"}
  BY PushIsStack DEF NoInsertsIn
<1>1. (<<f>> \o s)[i] = IF i = 1 THEN f ELSE s[i - 1]
  OBVIOUS
<1>2. i # 1 => i - 1 \in DOMAIN s
  OBVIOUS
<1>. QED
  BY <1>1, <1>2 DEF NoInsertsIn

\* The empty stack has no insertions.
LEMMA EmptyNoInserts == NoInsertsIn(<<>>)
  BY DEF NoInsertsIn

\* A signal above a stack without insertions.
LEMMA TellNoInserts ==
    ASSUME NEW o \in Objects, NEW change \in {"Created", "Modified", "Deleted"},
           NEW rest \in Seq(Frames), Tell(o, change, rest), NoInsertsIn(rest)
    PROVE  NoInserts'
<1>1. Slots(o, change) \in Frames /\ Slots(o, change).op = "slots"
  BY DEF Slots, Frames
<1>2. todo' = <<Slots(o, change)>> \o rest
  BY DEF Tell
<1>3. NoInsertsIn(<<Slots(o, change)>> \o rest)
  BY <1>1, PushNoInserts
<1>. QED
  BY <1>2, <1>3 DEF NoInserts

-----------------------------------------------------------------------------
(* The steps.                                                              *)

TablesIntegrity == Layered /\ ReferentialIntegrity /\ OneTypePerSetting

\* Storing a row and telling of it, the end of most store calls.
LEMMA InsertAndTellKeeps ==
    ASSUME Integrity, NEW o \in Objects, NEW T \in SUBSET rows, InsertRow(o, T),
           \A p \in T : MayRefer(o, p),
           NEW change \in {"Created", "Modified", "Deleted"},
           NEW rest \in Seq(Frames), Tell(o, change, rest), NoInsertsIn(rest)
    PROVE  TablesIntegrity' /\ InsertsAreSafe'
<1>1. InsertsAreSafe'
  BY TellNoInserts, NoInsertsIsSafe
<1>2. Layered' /\ ReferentialIntegrity' /\ OneTypePerSetting'
  BY InsertRowIntegrity
<1>. QED
  BY <1>1, <1>2 DEF TablesIntegrity

\* The same for a row without foreign keys.
LEMMA InsertFreeAndTellKeeps ==
    ASSUME Integrity, NEW o \in Objects, InsertRow(o, {}),
           NEW change \in {"Created", "Modified", "Deleted"},
           NEW rest \in Seq(Frames), Tell(o, change, rest), NoInsertsIn(rest)
    PROVE  TablesIntegrity' /\ InsertsAreSafe'
<1>1. {} \in SUBSET rows /\ \A p \in {} : MayRefer(o, p)
  OBVIOUS
<1>. QED
  BY <1>1, InsertAndTellKeeps

\* The store calls of one statement (storeKey, storeLayout, setKV, storeCertificate).
LEMMA StoreCallsKeep ==
    ASSUME Integrity, StoreCertificate \/ StoreKey \/ StoreLayout \/ SetKV
    PROVE  TablesIntegrity' /\ InsertsAreSafe'
<1>1. CASE StoreCertificate
  <2>1. PICK i \in 1..MaxRowid["Certificate"], rest \in {"none", "key"} :
           /\ InsertRow(Row("Certificate", i), {})
           /\ Tell(Row("Certificate", i), "Created",
                   IF rest = "key" THEN <<InsertKey(Row("Certificate", i))>> ELSE <<>>)
    BY <1>1 DEF StoreCertificate
  <2>. DEFINE f == InsertKey(Row("Certificate", i))
  <2>2. f \in Frames /\ f.op = "insertKey"
    BY RowsAreObjects DEF InsertKey, Frames
  <2>. HIDE DEF f
  <2>3. <<f>> \in Seq(Frames) /\ NoInsertsIn(<<f>>)
    BY <2>2 DEF NoInsertsIn
  <2>4. Row("Certificate", i) \in Objects
    BY RowsAreObjects
  <2>5. CASE rest = "key"
    <3>1. Tell(Row("Certificate", i), "Created", <<f>>)
      BY <2>1, <2>5 DEF f
    <3>. QED
      BY <2>1, <2>3, <2>4, <3>1, InsertFreeAndTellKeeps
  <2>6. CASE rest = "none"
    <3>1. Tell(Row("Certificate", i), "Created", <<>>)
      BY <2>1, <2>6
    <3>. QED
      BY <2>1, <2>4, <3>1, EmptyIsStack, EmptyNoInserts, InsertFreeAndTellKeeps
  <2>. QED
    BY <2>5, <2>6
<1>2. CASE StoreKey
  <2>1. PICK i \in 1..MaxRowid["Key"] :
           InsertRow(Row("Key", i), {}) /\ Tell(Row("Key", i), "Created", <<>>)
    BY <1>2 DEF StoreKey
  <2>2. Row("Key", i) \in Objects
    BY RowsAreObjects
  <2>. QED
    BY <2>1, <2>2, EmptyIsStack, EmptyNoInserts, InsertFreeAndTellKeeps
<1>3. CASE StoreLayout
  <2>1. PICK i \in 1..MaxRowid["Layout"], s \in Scopes :
           InsertRow(Layout(i, s), {}) /\ Tell(Layout(i, s), "Created", <<>>)
    BY <1>3 DEF StoreLayout
  <2>2. Layout(i, s) \in Objects
    BY RowsAreObjects
  <2>. QED
    BY <2>1, <2>2, EmptyIsStack, EmptyNoInserts, InsertFreeAndTellKeeps
<1>4. CASE SetKV
  <2>1. PICK o \in KeyValues : InsertRow(o, {}) /\ Tell(o, "Modified", <<>>)
    BY <1>4 DEF SetKV
  <2>2. o \in Objects
    BY RowsAreObjects
  <2>. QED
    BY <2>1, <2>2, EmptyIsStack, EmptyNoInserts, InsertFreeAndTellKeeps
<1>. QED
  BY <1>1, <1>2, <1>3, <1>4

\* The second and the third statement of storeApplicationCertificate.
LEMMA AppCertStepsKeep ==
    ASSUME Integrity, StoreAppCertKey \/ StoreAppCert
    PROVE  TablesIntegrity' /\ InsertsAreSafe'
<1>0. TypeOK
  BY DEF Integrity
<1>1. CASE StoreAppCertKey
  <2>0. Pending("insertKey")
    BY <1>1 DEF StoreAppCertKey
  <2>1. PICK i \in 1..MaxRowid["Key"] :
           /\ InsertRow(Row("Key", i), {})
           /\ Tell(Row("Key", i), "Created",
                   <<InsertAppCert(Head(todo).certificate, Row("Key", i))>> \o Tail(todo))
    BY <1>1 DEF StoreAppCertKey
  <2>2. Head(todo).certificate \in Certificates /\ Tail(todo) \in Seq(Frames) /\ todo # <<>>
    BY <1>0, <2>0, HeadTyped, FrameFields DEF Pending
  <2>. DEFINE f == InsertAppCert(Head(todo).certificate, Row("Key", i))
  <2>3. f \in Frames /\ f.op = "insertAppCert"
    BY <2>2, RowsAreObjects DEF InsertAppCert, Frames
  <2>4. NoInserts
    BY <2>0, OthersMeanNoInserts
  <2>5. NoInsertsIn(Tail(todo))
    BY <1>0, <2>2, <2>4, TailNoInserts
  <2>6. Tell(Row("Key", i), "Created", <<f>> \o Tail(todo))
    BY <2>1
  <2>. HIDE DEF f
  <2>7. <<f>> \o Tail(todo) \in Seq(Frames) /\ NoInsertsIn(<<f>> \o Tail(todo))
    BY <2>2, <2>3, <2>5, PushNoInserts
  <2>8. Row("Key", i) \in Objects
    BY RowsAreObjects
  <2>. QED
    BY <2>1, <2>6, <2>7, <2>8, InsertFreeAndTellKeeps
<1>2. CASE StoreAppCert
  <2>0. Pending("insertAppCert")
    BY <1>2 DEF StoreAppCert
  <2>. DEFINE needed == {Head(todo).certificate, Head(todo).key}
  <2>1. PICK i \in 1..MaxRowid["ApplicationCertificate"] :
           /\ needed \subseteq rows
           /\ InsertRow(Row("ApplicationCertificate", i), needed)
           /\ Tell(Row("ApplicationCertificate", i), "Created", Tail(todo))
    BY <1>2 DEF StoreAppCert
  <2>2. /\ Head(todo).certificate \in Certificates /\ Head(todo).key \in Keys
        /\ Tail(todo) \in Seq(Frames) /\ todo # <<>>
    BY <1>0, <2>0, HeadTyped, FrameFields DEF Pending
  <2>3. Row("ApplicationCertificate", i) \in AppCerts /\ Row("ApplicationCertificate", i) \in Objects
    BY RowsAreObjects
  <2>4. \A p \in needed : MayRefer(Row("ApplicationCertificate", i), p)
    BY <2>2, <2>3 DEF MayRefer
  <2>5. NoInserts
    BY <2>0, OthersMeanNoInserts
  <2>6. NoInsertsIn(Tail(todo))
    BY <1>0, <2>2, <2>5, TailNoInserts
  <2>. HIDE DEF needed
  <2>. QED
    BY <2>1, <2>2, <2>3, <2>4, <2>6, InsertAndTellKeeps
<1>. QED
  BY <1>1, <1>2

\* The first statement of storeHistoricServerConnection.
LEMMA StoreConnectionKeeps ==
    ASSUME Integrity, StoreConnection
    PROVE  TablesIntegrity' /\ InsertsAreSafe'
<1>0. TypeOK
  BY DEF Integrity
<1>1. PICK i \in 1..MaxRowid["HistoricServerConnection"],
           a \in SUBSET (AppCerts \cap rows), l \in SUBSET (Layouts \cap rows),
           T \in SUBSET Choosable, R \in SUBSET Choosable :
        LET h == Row("HistoricServerConnection", i) IN
        /\ InsertRow(h, a \cup l)
        /\ todo' = <<ClearRevoked(h), InsertListed("trust", h, T),
                     ClearRevoked(h), InsertListed("revoked", h, R), Announce(h, T, R)>>
  BY DEF StoreConnection
<1>. DEFINE h == Row("HistoricServerConnection", i)
<1>2. h \in Connections
  BY RowsAreObjects
<1>3. \A p \in a \cup l : MayRefer(h, p)
  BY <1>2 DEF MayRefer
<1>4. TablesIntegrity'
  <2>1. a \cup l \in SUBSET rows /\ InsertRow(h, a \cup l)
    BY <1>1
  <2>. QED
    BY <1>3, <2>1, InsertRowIntegrity DEF TablesIntegrity
<1>5. h \in rows'
  BY <1>1 DEF InsertRow
<1>6. /\ ClearRevoked(h).op = "clearRevoked"
      /\ InsertListed("trust", h, T).op = "insertListed"
      /\ InsertListed("trust", h, T).connection = h
      /\ InsertListed("revoked", h, R).op = "insertListed"
      /\ InsertListed("revoked", h, R).connection = h
      /\ Announce(h, T, R).op = "announce"
  BY DEF ClearRevoked, InsertListed, Announce
<1>7. todo' = <<ClearRevoked(h), InsertListed("trust", h, T),
                ClearRevoked(h), InsertListed("revoked", h, R), Announce(h, T, R)>>
  BY <1>1
<1>. HIDE DEF h
<1>8. /\ Len(todo') = 5 /\ DOMAIN todo' = 1..5
      /\ todo'[1] = ClearRevoked(h) /\ todo'[2] = InsertListed("trust", h, T)
      /\ todo'[3] = ClearRevoked(h) /\ todo'[4] = InsertListed("revoked", h, R)
      /\ todo'[5] = Announce(h, T, R)
  BY <1>7
<1>9. InsertsAreSafe'
  BY <1>5, <1>6, <1>8 DEF InsertsAreSafe
<1>. QED
  BY <1>4, <1>9

\* The statements on the trust list and the revoked list, and the signal after them.
LEMMA ListStepsKeep ==
    ASSUME Integrity, ClearRevokedList \/ StoreListed \/ AnnounceConnection
    PROVE  TablesIntegrity' /\ InsertsAreSafe'
<1>0. TypeOK /\ Layered /\ ReferentialIntegrity /\ OneTypePerSetting /\ InsertsAreSafe
  BY DEF Integrity
<1>1. ASSUME todo # <<>>, todo' = Tail(todo), rows' = rows, typed' = typed
      PROVE  InsertsAreSafe'
  <2>1. /\ Len(todo') = Len(todo) - 1
        /\ \A i \in DOMAIN todo' : i + 1 \in DOMAIN todo /\ todo'[i] = todo[i + 1]
    BY <1>0, <1>1, PopIsStack DEF TypeOK
  <2>2. ASSUME NEW i \in DOMAIN todo', todo'[i].op = "insertTyped" PROVE FALSE
    <3>1. i + 1 \in DOMAIN todo /\ todo[i + 1].op = "insertTyped"
      BY <2>1, <2>2
    <3>2. Len(todo) = 1
      BY <1>0, <3>1 DEF InsertsAreSafe
    <3>3. i \in 1..0
      BY <1>0, <1>1, <2>1, <2>2, <3>2 DEF TypeOK
    <3>. QED
      BY <3>3
  <2>3. ASSUME NEW i \in DOMAIN todo', todo'[i].op = "insertListed"
        PROVE  /\ todo'[i].connection \in rows
               /\ \A j \in DOMAIN todo' :
                     /\ todo'[j].op \in {"clearRevoked", "insertListed", "announce"}
                     /\ todo'[j].op = "announce" => j = Len(todo')
    <3>1. i + 1 \in DOMAIN todo /\ todo[i + 1].op = "insertListed" /\ todo'[i] = todo[i + 1]
      BY <2>1, <2>3
    <3>2. /\ todo[i + 1].connection \in rows
          /\ \A j \in DOMAIN todo :
                     /\ todo[j].op \in {"clearRevoked", "insertListed", "announce"}
                     /\ todo[j].op = "announce" => j = Len(todo)
      BY <1>0, <3>1 DEF InsertsAreSafe
    <3>3. ASSUME NEW j \in DOMAIN todo', todo'[j].op = "announce" PROVE j = Len(todo')
      <4>1. j + 1 \in DOMAIN todo /\ todo[j + 1].op = "announce"
        BY <2>1, <3>3
      <4>2. j + 1 = Len(todo)
        BY <3>2, <4>1
      <4>3. j \in Int /\ Len(todo) \in Nat
        BY <1>0, <1>1 DEF TypeOK
      <4>. QED
        BY <2>1, <4>2, <4>3
    <3>. QED
      BY <2>1, <3>1, <3>2, <3>3
  <2>. QED
    BY <1>1, <2>2, <2>3 DEF InsertsAreSafe
<1>2. CASE ClearRevokedList
  <2>1. todo # <<>> /\ todo' = Tail(todo) /\ listed' \subseteq listed
        /\ UNCHANGED <<rows, refs, typed>>
    BY <1>2 DEF ClearRevokedList, Pending
  <2>2. InsertsAreSafe'
    BY <1>1, <2>1
  <2>3. TablesIntegrity'
    BY <1>0, <2>1 DEF TablesIntegrity, Layered, ReferentialIntegrity, OneTypePerSetting
  <2>. QED
    BY <2>2, <2>3
<1>3. CASE StoreListed
  <2>0. Pending("insertListed") /\ todo # <<>> /\ UNCHANGED <<rows, refs, typed>>
    BY <1>3 DEF StoreListed, Pending
  <2>1. CASE todo' = Tail(todo) /\ UNCHANGED listed
    <3>1. InsertsAreSafe'
      BY <1>1, <2>0, <2>1
    <3>. QED
      BY <1>0, <2>0, <2>1, <3>1 DEF TablesIntegrity, Layered, ReferentialIntegrity, OneTypePerSetting
  <2>2. CASE \E c \in Head(todo).certificates \cap rows :
               /\ listed' = listed \cup {[list |-> Head(todo).list,
                                         connection |-> Head(todo).connection, certificate |-> c]}
               /\ todo' = <<InsertListed(Head(todo).list, Head(todo).connection,
                                        Head(todo).certificates \ {c})>> \o Tail(todo)
    <3>1. PICK c \in Head(todo).certificates \cap rows :
               /\ listed' = listed \cup {[list |-> Head(todo).list,
                                         connection |-> Head(todo).connection, certificate |-> c]}
               /\ todo' = <<InsertListed(Head(todo).list, Head(todo).connection,
                                        Head(todo).certificates \ {c})>> \o Tail(todo)
      BY <2>2
    <3>. DEFINE f == InsertListed(Head(todo).list, Head(todo).connection,
                                  Head(todo).certificates \ {c})
    <3>2. f.op = "insertListed" /\ f.connection = Head(todo).connection
      BY DEF InsertListed
    <3>3. todo' = <<f>> \o Tail(todo)
      BY <3>1
    <3>. HIDE DEF f
    <3>4. todo \in Seq(Frames) /\ Head(todo) = todo[1] /\ todo[1].op = "insertListed" /\ 1 \in DOMAIN todo
      BY <1>0, <2>0 DEF TypeOK, Pending
    <3>5. todo[1].connection \in rows
      BY <1>0, <3>4 DEF InsertsAreSafe
    <3>6. TablesIntegrity'
      BY <1>0, <2>0, <3>1, <3>4, <3>5
      DEF TablesIntegrity, Layered, ReferentialIntegrity, OneTypePerSetting
    <3>7. /\ Len(todo') = Len(todo) /\ DOMAIN todo' = DOMAIN todo /\ todo'[1] = f
          /\ \A i \in DOMAIN todo : i # 1 => todo'[i] = todo[i]
      BY <2>0, <3>3, <3>4
    <3>8. /\ \A i \in DOMAIN todo : todo'[i].op = todo[i].op
          /\ \A i \in DOMAIN todo :
                todo[i].op = "insertListed" => todo'[i].connection = todo[i].connection
      BY <3>2, <3>4, <3>7
    <3>9. ASSUME NEW i \in DOMAIN todo PROVE todo[i].op # "insertTyped"
      BY <1>0, <3>4 DEF InsertsAreSafe
    <3>10. InsertsAreSafe'
      BY <1>0, <2>0, <3>7, <3>8, <3>9 DEF InsertsAreSafe
    <3>. QED
      BY <3>6, <3>10
  <2>. QED
    BY <1>3, <2>1, <2>2 DEF StoreListed
<1>4. CASE AnnounceConnection
  <2>0. Pending("announce") /\ todo # <<>> /\ Tell(Head(todo).connection, "Created", Tail(todo))
    BY <1>4 DEF AnnounceConnection, Pending
  <2>1. Head(todo).connection \in Objects /\ Tail(todo) \in Seq(Frames)
    BY <1>0, <2>0, HeadTyped, FrameFields, RowsAreObjects
  <2>2. NoInserts
    BY <2>0, OthersMeanNoInserts
  <2>3. NoInsertsIn(Tail(todo))
    BY <1>0, <2>0, <2>2, TailNoInserts
  <2>4. InsertsAreSafe'
    BY <2>0, <2>1, <2>3, TellNoInserts, NoInsertsIsSafe
  <2>5. TablesIntegrity'
    BY <1>4, TablesUnchanged DEF AnnounceConnection, TablesIntegrity
  <2>. QED
    BY <2>4, <2>5
<1>. QED
  BY <1>2, <1>3, <1>4

\* The two statements of setXSetting.
LEMMA SettingStepsKeep ==
    ASSUME Integrity, SetSetting \/ StoreTyped
    PROVE  TablesIntegrity' /\ InsertsAreSafe'
<1>0. TypeOK /\ Layered /\ ReferentialIntegrity /\ OneTypePerSetting /\ InsertsAreSafe
  BY DEF Integrity
<1>1. CASE SetSetting
  <2>1. PICK k \in Settings, kind \in Kinds, r \in IdObjects \cup {NoRef} :
           /\ rows'  = rows \cup {k}
           /\ typed' = {t \in typed : t.key # k}
           /\ todo'  = <<InsertTyped([key |-> k, kind |-> kind, ref |-> r])>>
    BY <1>1 DEF SetSetting
  <2>2. UNCHANGED <<refs, listed>>
    BY <1>1 DEF SetSetting
  <2>3. TablesIntegrity'
    BY <1>0, <2>1, <2>2 DEF TablesIntegrity, Layered, ReferentialIntegrity, OneTypePerSetting
  <2>. DEFINE f == InsertTyped([key |-> k, kind |-> kind, ref |-> r])
  <2>4. f.op = "insertTyped" /\ f.tuple.key = k
    BY DEF InsertTyped
  <2>5. todo' = <<f>>
    BY <2>1
  <2>. HIDE DEF f
  <2>6. Len(todo') = 1 /\ DOMAIN todo' = {1} /\ todo'[1] = f
    BY <2>5
  <2>7. InsertsAreSafe'
    BY <2>1, <2>4, <2>6 DEF InsertsAreSafe
  <2>. QED
    BY <2>3, <2>7
<1>2. CASE StoreTyped
  <2>0. Pending("insertTyped") /\ todo # <<>> /\ UNCHANGED <<rows, refs, listed>>
    BY <1>2 DEF StoreTyped, Pending
  <2>. DEFINE t == Head(todo).tuple
  <2>1. /\ t.ref \in rows \cup {NoRef}
        /\ typed' = {u \in typed : u.key # t.key \/ u.kind # t.kind} \cup {t}
        /\ Tell(t.key, "Modified", Tail(todo))
    BY <1>2 DEF StoreTyped
  <2>2. todo \in Seq(Frames) /\ Head(todo) = todo[1] /\ todo[1].op = "insertTyped" /\ 1 \in DOMAIN todo
    BY <1>0, <2>0 DEF TypeOK, Pending
  <2>3. Len(todo) = 1 /\ t.key \in rows /\ \A u \in typed : u.key # t.key
    BY <1>0, <2>2 DEF InsertsAreSafe
  <2>4. Tail(todo) \in Seq(Frames) /\ NoInsertsIn(Tail(todo))
    <3>1. /\ Tail(todo) \in Seq(Frames) /\ Len(Tail(todo)) = Len(todo) - 1
          /\ \A i \in DOMAIN Tail(todo) : i + 1 \in DOMAIN todo
      BY <2>0, <2>2, PopIsStack
    <3>2. DOMAIN Tail(todo) = {}
      BY <2>2, <2>3, <3>1
    <3>. QED
      BY <3>1, <3>2 DEF NoInsertsIn
  <2>5. t \in TypedTuples
    BY <1>0, <2>0, HeadTyped, FrameFields
  <2>6. t.key \in Objects
    BY <2>5, RowsAreObjects DEF TypedTuples
  <2>. HIDE DEF t
  <2>7. InsertsAreSafe'
    BY <2>1, <2>4, <2>6, TellNoInserts, NoInsertsIsSafe
  <2>8. Layered' /\ ReferentialIntegrity'
    BY <1>0, <2>0, <2>1, <2>3 DEF Layered, ReferentialIntegrity
  <2>9. OneTypePerSetting'
    BY <1>0, <2>1, <2>3 DEF OneTypePerSetting
  <2>. QED
    BY <2>7, <2>8, <2>9 DEF TablesIntegrity
<1>. QED
  BY <1>1, <1>2

\* The DELETE, handleDeleteMonitor and the return of an emission.
LEMMA DeletionStepsKeep ==
    ASSUME Integrity, (\E o \in Objects : Delete(o)) \/ DrainMonitor \/ Deliver \/ SlotsReturn
    PROVE  TablesIntegrity' /\ InsertsAreSafe'
<1>0. TypeOK
  BY DEF Integrity
<1>1. ASSUME NEW o \in Objects, Delete(o) PROVE TablesIntegrity' /\ InsertsAreSafe'
  <2>1. DeleteRows({o} \cap rows) /\ {o} \cap rows \in SUBSET Objects /\ todo' = <<Drain>> \o todo
    BY <1>1 DEF Delete
  <2>2. TablesIntegrity'
    BY <2>1, DeleteRowsIntegrity DEF TablesIntegrity
  <2>3. NoInsertsIn(todo)
    <3>1. CASE Idle
      BY <3>1, EmptyNoInserts DEF Idle
    <3>2. CASE SlotMayCall
      BY <3>2, OthersMeanNoInserts DEF SlotMayCall, NoInserts
    <3>. QED
      BY <1>1, <3>1, <3>2 DEF Delete
  <2>4. Drain \in Frames /\ Drain.op = "drain"
    BY DEF Frames, Drain
  <2>5. NoInsertsIn(<<Drain>> \o todo)
    BY <1>0, <2>3, <2>4, PushNoInserts DEF TypeOK
  <2>6. NoInserts'
    BY <2>1, <2>5 DEF NoInserts
  <2>. QED
    BY <2>2, <2>6, NoInsertsIsSafe
<1>2. CASE DrainMonitor
  <2>0. Pending("drain") /\ todo # <<>>
    BY <1>2 DEF DrainMonitor, Pending
  <2>1. monitor \in Bags /\ Tail(todo) \in Seq(Frames)
    BY <1>0, <2>0, HeadTyped DEF TypeOK
  <2>2. NoInsertsIn(Tail(todo))
    BY <1>0, <2>0, OthersMeanNoInserts, TailNoInserts
  <2>3. DeliverAll(monitor) \in Frames /\ DeliverAll(monitor).op = "deliver"
    BY <2>1 DEF DeliverAll, Frames
  <2>4. NoInsertsIn(<<DeliverAll(monitor)>> \o Tail(todo))
    BY <2>1, <2>2, <2>3, PushNoInserts
  <2>5. NoInserts'
    BY <1>2, <2>4 DEF DrainMonitor, NoInserts
  <2>6. TablesIntegrity'
    BY <1>2, TablesUnchanged DEF DrainMonitor, TablesIntegrity
  <2>. QED
    BY <2>5, <2>6, NoInsertsIsSafe
<1>3. CASE Deliver
  <2>0. Pending("deliver") /\ todo # <<>>
    BY <1>3 DEF Deliver, Pending
  <2>1. Head(todo).gone \in Bags /\ Tail(todo) \in Seq(Frames)
    BY <1>0, <2>0, HeadTyped, FrameFields
  <2>2. NoInsertsIn(Tail(todo))
    BY <1>0, <2>0, OthersMeanNoInserts, TailNoInserts
  <2>3. TablesIntegrity'
    BY <1>3, TablesUnchanged DEF Deliver, TablesIntegrity
  <2>4. CASE todo' = Tail(todo) /\ UNCHANGED known
    BY <2>2, <2>3, <2>4, NoInsertsIsSafe DEF NoInserts
  <2>5. CASE \E o \in Objects :
               /\ Head(todo).gone[o] > 0
               /\ Tell(o, "Deleted", <<DeliverAll([Head(todo).gone EXCEPT ![o] = @ - 1])>> \o Tail(todo))
    <3>1. PICK o \in Objects :
               /\ Head(todo).gone[o] > 0
               /\ Tell(o, "Deleted", <<DeliverAll([Head(todo).gone EXCEPT ![o] = @ - 1])>> \o Tail(todo))
      BY <2>5
    <3>2. [Head(todo).gone EXCEPT ![o] = @ - 1] \in Bags
      BY <2>1, <3>1 DEF Bags
    <3>. DEFINE f == DeliverAll([Head(todo).gone EXCEPT ![o] = @ - 1])
    <3>3. f \in Frames /\ f.op = "deliver"
      BY <3>2 DEF DeliverAll, Frames
    <3>4. Tell(o, "Deleted", <<f>> \o Tail(todo))
      BY <3>1
    <3>. HIDE DEF f
    <3>5. <<f>> \o Tail(todo) \in Seq(Frames) /\ NoInsertsIn(<<f>> \o Tail(todo))
      BY <2>1, <2>2, <3>3, PushNoInserts
    <3>6. NoInserts'
      BY <3>4, <3>5, TellNoInserts
    <3>. QED
      BY <2>3, <3>6, NoInsertsIsSafe
  <2>. QED
    BY <1>3, <2>4, <2>5 DEF Deliver
<1>4. CASE SlotsReturn
  <2>0. Pending("slots") /\ todo # <<>>
    BY <1>4 DEF SlotsReturn, Pending
  <2>1. NoInserts'
    BY <1>0, <1>4, <2>0, OthersMeanNoInserts, TailNoInserts DEF SlotsReturn, NoInserts
  <2>2. TablesIntegrity'
    BY <1>4, TablesUnchanged DEF SlotsReturn, TablesIntegrity
  <2>. QED
    BY <2>1, <2>2, NoInsertsIsSafe
<1>. QED
  BY <1>1, <1>2, <1>3, <1>4

\* terminate(), a kill and a restart.
LEMMA StopStepsKeep ==
    ASSUME Integrity, ForeignKeyFails \/ StoreConnectionRefused \/ Crash \/ Restart
    PROVE  TablesIntegrity' /\ InsertsAreSafe'
<1>1. UNCHANGED <<rows, refs, typed, listed>>
  BY DEF ForeignKeyFails, StoreConnectionRefused, Crash, Restart, database
<1>2. TablesIntegrity'
  BY <1>1, TablesUnchanged DEF TablesIntegrity
<1>3. CASE Restart
  <2>1. UNCHANGED <<rows, typed, todo>>
    BY <1>3 DEF Restart
  <2>. QED
    BY <1>2, <2>1 DEF Integrity, InsertsAreSafe
<1>4. CASE ForeignKeyFails \/ StoreConnectionRefused \/ Crash
  <2>1. todo' = <<>>
    BY <1>4 DEF ForeignKeyFails, StoreConnectionRefused, Crash, Stop
  <2>2. NoInserts'
    BY <2>1, EmptyNoInserts DEF NoInserts
  <2>. QED
    BY <1>2, <2>2, NoInsertsIsSafe
<1>. QED
  BY <1>3, <1>4

\* A new database is consistent.
LEMMA InitIntegrity == Init => Integrity
<1>. SUFFICES ASSUME Init PROVE Integrity
  OBVIOUS
<1>1. TypeOK
  BY InitTyped
<1>2. Layered /\ ReferentialIntegrity /\ OneTypePerSetting
  BY DEF Init, Layered, ReferentialIntegrity, OneTypePerSetting
<1>3. InsertsAreSafe
  BY EmptyNoInserts, NoInsertsIsSafe DEF Init, NoInserts
<1>. QED
  BY <1>1, <1>2, <1>3 DEF Integrity

\* Every step preserves the invariant.
LEMMA NextIntegrity == Integrity /\ [Next]_vars => Integrity'
<1>. SUFFICES ASSUME Integrity, [Next]_vars PROVE Integrity'
  OBVIOUS
<1>0. TypeOK'
  BY NextTyped DEF Integrity
<1>1. CASE Progress
  BY <1>0, <1>1, AppCertStepsKeep, ListStepsKeep, SettingStepsKeep, DeletionStepsKeep, StopStepsKeep
  DEF Progress, Integrity, TablesIntegrity
<1>2. CASE Call
  BY <1>0, <1>2, StoreCallsKeep, StoreConnectionKeeps, StopStepsKeep, SettingStepsKeep, DeletionStepsKeep
  DEF Call, Integrity, TablesIntegrity
<1>3. CASE Crash \/ Restart
  BY <1>0, <1>3, StopStepsKeep DEF Integrity, TablesIntegrity
<1>4. CASE UNCHANGED vars
  <2>1. UNCHANGED <<rows, refs, typed, listed, todo>>
    BY <1>4 DEF vars
  <2>2. InsertsAreSafe'
    BY <2>1 DEF Integrity, InsertsAreSafe
  <2>. QED
    BY <1>0, <2>1, <2>2, TablesUnchanged DEF Integrity
<1>. QED
  BY <1>1, <1>2, <1>3, <1>4 DEF Next

-----------------------------------------------------------------------------
\* The tables, the stack and the calls in progress fit together in every state
\* that SQLStorageManager reaches: the invariant the two results below follow from.
THEOREM StorageIsSound == Spec => []Integrity
<1>1. Init => Integrity
  BY InitIntegrity
<1>2. Integrity /\ [Next]_vars => Integrity'
  BY NextIntegrity
<1>. QED
  BY <1>1, <1>2, PTL DEF Spec

\* No tuple of any relation refers to a row that is not there: the CASCADE
\* clauses and triggers of the schema are complete, whatever is deleted, also
\* from within a slot, and whenever the process is killed.
THEOREM NothingDangles == Spec => []ReferentialIntegrity
<1>1. Integrity => ReferentialIntegrity
  BY DEF Integrity
<1>. QED
  BY <1>1, StorageIsSound, PTL

\* A setting never has two values, whatever types it is set with one after
\* the other (setGenericSetting, then the typed REPLACE).
THEOREM SettingsHaveOneValue == Spec => []OneTypePerSetting
<1>1. Integrity => OneTypePerSetting
  BY DEF Integrity
<1>. QED
  BY <1>1, StorageIsSound, PTL

-----------------------------------------------------------------------------
(* What the signals tell: the invariants.                                  *)

\* The frames of a deletion, and of the Deleted signals that it ends with.
Deleting(f) == \/ f.op \in {"drain", "deliver"}
               \/ f.op = "slots" /\ f.change = "Deleted"

\* Deletions nest in deletions only: a call that stores is alone on the stack.
OneMode == \/ \A f \in Range(todo) : Deleting(f)
           \/ \A f \in Range(todo) : ~Deleting(f)

\* A connection that is about to be announced is there.
AnnouncedIsThere == \A f \in Range(todo) : f.op = "announce" => f.connection \in rows

StackInv == OneMode /\ AnnouncedIsThere

\* What is about to be told: a row that has been stored, ...
ToBeAnnounced(o) ==
    \E f \in Range(todo) : \/ f.op = "announce" /\ o = f.connection
                           \/ f.op = "insertTyped" /\ o = f.tuple.key

\* ... and an object that has been deleted.
ToBeDelivered(o) == \E f \in Range(todo) : f.op = "deliver" /\ f.gone[o] > 0

\* The monitor holds what one DELETE has written, until handleDeleteMonitor reads it.
MonitorIsRead == monitor = NoTuples \/ Pending("drain")

\* Whatever is told as deleted, now or later, is gone.
ToldIsGone ==
    /\ \A o \in Objects : monitor[o] > 0 \/ ToBeDelivered(o) => o \notin rows
    /\ \A f \in Range(todo) : f.op = "slots" /\ Deleting(f) => f.object \notin rows

\* Whatever is not told yet will be.
NothingIsMissed ==
    /\ up => \A o \in rows : o \in known \/ ToBeAnnounced(o)
    /\ \A o \in known : o \in rows \/ monitor[o] > 0 \/ ToBeDelivered(o)

\* What the signals owe to those who listen, while no process has been killed.
SignalsInv == MonitorIsRead /\ ToldIsGone /\ NothingIsMissed

\* Every setting has its tuple in one of the typed relations or is about to get it.
PartitionInv ==
    /\ \A k \in rows \cap Settings :
          (\E t \in typed : t.key = k) \/ (\E f \in Range(todo) : f.op = "insertTyped" /\ f.tuple.key = k)
    /\ \A f \in Range(todo) : f.op = "insertTyped" => f.tuple.ref \in rows \cup {NoRef}

\* storeHistoricServerConnection after the row: T1 and R1 is what is left to be listed.
StoringLists(h, T, R) ==
    LET trust == ListsOf(h, "trust") revoked == ListsOf(h, "revoked") IN
    \/ /\ trust = {} /\ revoked = {}
       /\ todo = <<ClearRevoked(h), InsertListed("trust", h, T),
                   ClearRevoked(h), InsertListed("revoked", h, R), Announce(h, T, R)>>
    \/ /\ revoked = {}
       /\ \E T1 \in SUBSET Certificates :
             /\ trust \cup T1 = T
             /\ todo = <<InsertListed("trust", h, T1),
                         ClearRevoked(h), InsertListed("revoked", h, R), Announce(h, T, R)>>
    \/ /\ trust = T /\ revoked = {}
       /\ todo = <<ClearRevoked(h), InsertListed("revoked", h, R), Announce(h, T, R)>>
    \/ /\ trust = T
       /\ \E R1 \in SUBSET Certificates :
             /\ revoked \cup R1 = R
             /\ todo = <<InsertListed("revoked", h, R1), Announce(h, T, R)>>
    \/ trust = T /\ revoked = R /\ todo = <<Announce(h, T, R)>>

ListsInv ==
    (\E f \in Range(todo) : f.op = "announce") =>
        \E h \in Connections, T \in SUBSET Certificates, R \in SUBSET Certificates :
            StoringLists(h, T, R)

FeedInv == Integrity /\ StackInv /\ (crashes = 0 => SignalsInv)

-----------------------------------------------------------------------------
(* Stacks as sets of frames.                                               *)

\* Calling: one frame more.
LEMMA PushedFrames ==
    ASSUME NEW s \in Seq(Frames), NEW f \in Frames
    PROVE  Range(<<f>> \o s) = {f} \cup Range(s)
<1>. DEFINE one == <<f>>
<1>1. one \in Seq(Frames) /\ Range(one) = {f}
  BY DEF Range
<1>. HIDE DEF one
<1>2. Range(one \o s) = Range(one) \cup Range(s)
  BY <1>1, RangeConcatenation
<1>. QED
  BY <1>1, <1>2 DEF one

\* Returning: one frame less.
LEMMA PoppedFrames ==
    ASSUME NEW s \in Seq(Frames), s # <<>>
    PROVE  Range(s) = {Head(s)} \cup Range(Tail(s))
<1>1. s = <<Head(s)>> \o Tail(s) /\ Head(s) \in Frames /\ Tail(s) \in Seq(Frames)
  OBVIOUS
<1>. QED
  BY <1>1, PushedFrames

\* No call, no frame.
LEMMA NoFrames == Range(<<>>) = {}
  BY DEF Range

\* What a signal leaves on the stack.
LEMMA ToldFrames ==
    ASSUME NEW o \in Objects, NEW change \in {"Created", "Modified", "Deleted"},
           NEW rest \in Seq(Frames), Tell(o, change, rest)
    PROVE  Range(todo') = {Slots(o, change)} \cup Range(rest)
<1>1. Slots(o, change) \in Frames
  BY DEF Slots, Frames
<1>. QED
  BY <1>1, PushedFrames DEF Tell

\* Which frames belong to deletions.
LEMMA FramesOfDeletions ==
    /\ Deleting(Drain)
    /\ \A bag : Deleting(DeliverAll(bag))
    /\ \A o : /\ Deleting(Slots(o, "Deleted"))
              /\ ~Deleting(Slots(o, "Created")) /\ ~Deleting(Slots(o, "Modified"))
    /\ \A f : f.op \in {"insertKey", "insertAppCert", "clearRevoked", "insertListed",
                        "announce", "insertTyped"} => ~Deleting(f)
  BY DEF Deleting, Drain, DeliverAll, Slots

-----------------------------------------------------------------------------
(* Calls that store.                                                       *)

\* What every step of a call that stores has in common: nothing is being deleted,
\* and at most one row is new, told or about to be.
StoreShape ==
    /\ up /\ UNCHANGED <<monitor, up, crashes>>
    /\ todo = <<>> \/ ~Deleting(Head(todo))
    /\ \A f \in Range(todo') : f \in Range(todo) \/ ~Deleting(f)
    /\ \/ UNCHANGED <<rows, known>>
       \/ \E o \in Objects : /\ rows' = rows \cup {o}
                             /\ known' = known \cup {o} \/ (known' = known /\ ToBeAnnounced(o)')
    /\ \A o : ToBeAnnounced(o) => ToBeAnnounced(o)' \/ o \in known'
    /\ \A f \in Range(todo') :
          /\ f.op = "announce" => f \in Range(todo) \/ (StoreConnection /\ f.connection \in rows')
          /\ f.op = "insertTyped" => f \in Range(todo) \/ SetSetting

\* Such a step from a stack that has only frames of such calls.
LEMMA StoringKeeps ==
    ASSUME Integrity, StackInv, StoreShape
    PROVE  StackInv' /\ (SignalsInv => SignalsInv')
<1>0. TypeOK
  BY DEF Integrity
<1>1. \A f \in Range(todo) : ~Deleting(f)
  <2>1. CASE todo = <<>>
    BY <2>1, NoFrames
  <2>2. CASE todo # <<>>
    <3>1. Head(todo) \in Range(todo)
      BY <1>0, <2>2, PoppedFrames DEF TypeOK
    <3>. QED
      BY <2>2, <3>1 DEF StoreShape, StackInv, OneMode
  <2>. QED
    BY <2>1, <2>2
<1>2. \A f \in Range(todo') : ~Deleting(f)
  BY <1>1 DEF StoreShape
<1>3. OneMode'
  BY <1>2 DEF OneMode, Deleting
<1>4. AnnouncedIsThere'
  <2>1. rows \subseteq rows'
    BY DEF StoreShape
  <2>. QED
    BY <2>1 DEF StoreShape, StackInv, AnnouncedIsThere
<1>5. ASSUME SignalsInv PROVE SignalsInv'
  <2>1. monitor = NoTuples
    <3>1. ~Pending("drain")
      BY DEF StoreShape, Pending, Deleting
    <3>. QED
      BY <1>5, <3>1 DEF SignalsInv, MonitorIsRead
  <2>2. monitor' = NoTuples /\ \A o \in Objects : ~(monitor[o] > 0) /\ ~(monitor'[o] > 0)
    BY <2>1 DEF StoreShape, NoTuples
  <2>3. \A f \in Range(todo) : f.op # "deliver"
    BY <1>1 DEF Deleting
  <2>4. \A f \in Range(todo') : f.op # "deliver" /\ ~(f.op = "slots" /\ Deleting(f))
    BY <1>2 DEF Deleting
  <2>5. MonitorIsRead'
    BY <2>2 DEF MonitorIsRead
  <2>6. ToldIsGone'
    BY <2>2, <2>4 DEF ToldIsGone, ToBeDelivered, Deleting
  <2>7. \A o \in known : o \in rows
    BY <1>0, <1>5, <2>2, <2>3 DEF SignalsInv, NothingIsMissed, ToBeDelivered, TypeOK
  <2>8. \A o \in known' : o \in rows'
    BY <2>7 DEF StoreShape
  <2>9. \A o \in rows' : o \in known' \/ ToBeAnnounced(o)'
    <3>1. \A o \in rows : o \in known \/ ToBeAnnounced(o)
      BY <1>5 DEF SignalsInv, NothingIsMissed, StoreShape
    <3>2. known \subseteq known'
      BY DEF StoreShape
    <3>3. \A o \in rows : o \in known' \/ ToBeAnnounced(o)'
      BY <3>1, <3>2 DEF StoreShape
    <3>. QED
      BY <3>3 DEF StoreShape
  <2>10. NothingIsMissed'
    BY <2>8, <2>9 DEF NothingIsMissed, ToBeAnnounced
  <2>. QED
    BY <2>5, <2>6, <2>10 DEF SignalsInv
<1>. QED
  BY <1>3, <1>4, <1>5 DEF StackInv

\* A row is stored and told of at once.
LEMMA InsertAndTellStores ==
    ASSUME TypeOK, up, UNCHANGED <<up, crashes>>,
           todo = <<>> \/ (~Deleting(Head(todo)) /\ Head(todo).op \notin {"announce", "insertTyped"}),
           NEW o \in Objects, NEW T, InsertRow(o, T),
           NEW change \in {"Created", "Modified"}, NEW rest \in Seq(Frames), Tell(o, change, rest),
           \A f \in Range(rest) : f \in Range(todo) \/ f.op \in {"insertKey", "insertAppCert"},
           todo # <<>> => \A f \in Range(todo) : f = Head(todo) \/ f \in Range(rest)
    PROVE  StoreShape
<1>1. Range(todo') = {Slots(o, change)} \cup Range(rest)
  BY ToldFrames
<1>2. Slots(o, change).op = "slots" /\ ~Deleting(Slots(o, change))
  BY FramesOfDeletions DEF Slots
<1>3. \A f \in Range(todo') : f \in Range(todo) \/ (~Deleting(f) /\ f.op \notin {"announce", "insertTyped"})
  BY <1>1, <1>2, FramesOfDeletions
<1>4. \A f \in Range(todo) : f.op \in {"announce", "insertTyped"} => f \in Range(todo')
  BY <1>1, NoFrames
<1>5. \A p : ToBeAnnounced(p) => ToBeAnnounced(p)'
  BY <1>4 DEF ToBeAnnounced
<1>6. rows' = rows \cup {o} /\ known' = known \cup {o} /\ monitor' = monitor
  BY DEF InsertRow, Tell
<1>. QED
  BY <1>3, <1>5, <1>6 DEF StoreShape

\* The store calls of one statement (storeKey, storeLayout, setKV), and storeCertificate,
\* which storeApplicationCertificate goes on after.
LEMMA StoreCallsStore ==
    ASSUME TypeOK, StoreCertificate \/ StoreKey \/ StoreLayout \/ SetKV
    PROVE  StoreShape
<1>0. todo = <<>> /\ up /\ UNCHANGED <<up, crashes>>
  BY DEF StoreCertificate, StoreKey, StoreLayout, SetKV, Idle
<1>1. CASE StoreCertificate
  <2>1. PICK i \in 1..MaxRowid["Certificate"], rest \in {"none", "key"} :
           /\ InsertRow(Row("Certificate", i), {})
           /\ Tell(Row("Certificate", i), "Created",
                   IF rest = "key" THEN <<InsertKey(Row("Certificate", i))>> ELSE <<>>)
    BY <1>1 DEF StoreCertificate
  <2>. DEFINE f == InsertKey(Row("Certificate", i))
  <2>2. f \in Frames /\ f.op = "insertKey"
    BY RowsAreObjects DEF InsertKey, Frames
  <2>3. Row("Certificate", i) \in Objects
    BY RowsAreObjects
  <2>4. CASE rest = "key"
    <3>1. Tell(Row("Certificate", i), "Created", <<f>>)
      BY <2>1, <2>4
    <3>. HIDE DEF f
    <3>2. <<f>> \in Seq(Frames) /\ Range(<<f>>) = {f}
      BY <2>2 DEF Range
    <3>. QED
      BY <1>0, <2>1, <2>2, <2>3, <3>1, <3>2, InsertAndTellStores
  <2>5. CASE rest = "none"
    <3>1. Tell(Row("Certificate", i), "Created", <<>>)
      BY <2>1, <2>5
    <3>. QED
      BY <1>0, <2>1, <2>3, <3>1, EmptyIsStack, NoFrames, InsertAndTellStores
  <2>. QED
    BY <2>4, <2>5
<1>2. CASE StoreKey
  <2>1. PICK i \in 1..MaxRowid["Key"] :
           InsertRow(Row("Key", i), {}) /\ Tell(Row("Key", i), "Created", <<>>)
    BY <1>2 DEF StoreKey
  <2>2. Row("Key", i) \in Objects
    BY RowsAreObjects
  <2>. QED
    BY <1>0, <2>1, <2>2, EmptyIsStack, NoFrames, InsertAndTellStores
<1>3. CASE StoreLayout
  <2>1. PICK i \in 1..MaxRowid["Layout"], s \in Scopes :
           InsertRow(Layout(i, s), {}) /\ Tell(Layout(i, s), "Created", <<>>)
    BY <1>3 DEF StoreLayout
  <2>2. Layout(i, s) \in Objects
    BY RowsAreObjects
  <2>. QED
    BY <1>0, <2>1, <2>2, EmptyIsStack, NoFrames, InsertAndTellStores
<1>4. CASE SetKV
  <2>1. PICK o \in KeyValues : InsertRow(o, {}) /\ Tell(o, "Modified", <<>>)
    BY <1>4 DEF SetKV
  <2>2. o \in Objects
    BY RowsAreObjects
  <2>. QED
    BY <1>0, <2>1, <2>2, EmptyIsStack, NoFrames, InsertAndTellStores
<1>. QED
  BY <1>1, <1>2, <1>3, <1>4

\* The second and the third statement of storeApplicationCertificate.
LEMMA AppCertStepsStore ==
    ASSUME TypeOK, StoreAppCertKey \/ StoreAppCert
    PROVE  StoreShape
<1>0. /\ todo \in Seq(Frames) /\ todo # <<>> /\ up /\ UNCHANGED <<up, crashes>>
      /\ Head(todo).op \in {"insertKey", "insertAppCert"} /\ ~Deleting(Head(todo))
  BY FramesOfDeletions DEF StoreAppCertKey, StoreAppCert, Pending, TypeOK
<1>1. Range(todo) = {Head(todo)} \cup Range(Tail(todo)) /\ Tail(todo) \in Seq(Frames)
  BY <1>0, PoppedFrames, PopIsStack
<1>2. CASE StoreAppCertKey
  <2>1. PICK i \in 1..MaxRowid["Key"] :
           /\ InsertRow(Row("Key", i), {})
           /\ Tell(Row("Key", i), "Created",
                   <<InsertAppCert(Head(todo).certificate, Row("Key", i))>> \o Tail(todo))
    BY <1>2 DEF StoreAppCertKey
  <2>2. Head(todo).certificate \in Certificates
    BY <1>2, HeadTyped, FrameFields DEF StoreAppCertKey
  <2>. DEFINE f == InsertAppCert(Head(todo).certificate, Row("Key", i))
              rest == <<f>> \o Tail(todo)
  <2>3. f \in Frames /\ f.op = "insertAppCert" /\ Row("Key", i) \in Objects
    BY <2>2, RowsAreObjects DEF InsertAppCert, Frames
  <2>4. Tell(Row("Key", i), "Created", rest)
    BY <2>1
  <2>. HIDE DEF f
  <2>5. rest \in Seq(Frames) /\ Range(rest) = {f} \cup Range(Tail(todo))
    BY <1>1, <2>3, PushIsStack, PushedFrames
  <2>. HIDE DEF rest
  <2>. QED
    BY <1>0, <1>1, <2>1, <2>3, <2>4, <2>5, InsertAndTellStores
<1>3. CASE StoreAppCert
  <2>1. PICK i \in 1..MaxRowid["ApplicationCertificate"] :
           /\ InsertRow(Row("ApplicationCertificate", i), {Head(todo).certificate, Head(todo).key})
           /\ Tell(Row("ApplicationCertificate", i), "Created", Tail(todo))
    BY <1>3 DEF StoreAppCert
  <2>2. Row("ApplicationCertificate", i) \in Objects
    BY RowsAreObjects
  <2>. QED
    BY <1>0, <1>1, <2>1, <2>2, InsertAndTellStores
<1>. QED
  BY <1>2, <1>3

\* The first statement of storeHistoricServerConnection.
LEMMA StoreConnectionStores ==
    ASSUME TypeOK, StoreConnection
    PROVE  StoreShape
<1>1. PICK i \in 1..MaxRowid["HistoricServerConnection"],
           a \in SUBSET (AppCerts \cap rows), l \in SUBSET (Layouts \cap rows),
           T \in SUBSET Choosable, R \in SUBSET Choosable :
        LET h == Row("HistoricServerConnection", i) IN
        /\ InsertRow(h, a \cup l)
        /\ todo' = <<ClearRevoked(h), InsertListed("trust", h, T),
                     ClearRevoked(h), InsertListed("revoked", h, R), Announce(h, T, R)>>
  BY DEF StoreConnection
<1>. DEFINE h == Row("HistoricServerConnection", i)
            f1 == ClearRevoked(h)
            f2 == InsertListed("trust", h, T)
            f3 == InsertListed("revoked", h, R)
            f4 == Announce(h, T, R)
<1>2. h \in Objects /\ rows' = rows \cup {h} /\ monitor' = monitor
  BY <1>1, RowsAreObjects DEF InsertRow
<1>3. todo = <<>> /\ up /\ UNCHANGED <<up, crashes, known>>
  BY DEF StoreConnection, Idle
<1>4. /\ f1.op = "clearRevoked" /\ f2.op = "insertListed" /\ f3.op = "insertListed"
      /\ f4.op = "announce" /\ f4.connection = h
  BY DEF ClearRevoked, InsertListed, Announce
<1>5. todo' = <<f1, f2, f1, f3, f4>>
  BY <1>1
<1>. HIDE DEF f1, f2, f3, f4, h
<1>6. Range(todo') = {f1, f2, f3, f4}
  BY <1>5 DEF Range
<1>7. ToBeAnnounced(h)'
  BY <1>4, <1>6 DEF ToBeAnnounced
<1>8. \A f \in Range(todo') :
         ~Deleting(f) /\ f.op # "insertTyped" /\ (f.op = "announce" => f.connection \in rows')
  BY <1>2, <1>4, <1>6, FramesOfDeletions
<1>9. \A o : ~ToBeAnnounced(o)
  BY <1>3, NoFrames DEF ToBeAnnounced
<1>. QED
  BY <1>2, <1>3, <1>7, <1>8, <1>9 DEF StoreShape

\* The statements on the trust list and the revoked list, and the signal after them.
LEMMA ListStepsStore ==
    ASSUME TypeOK, StackInv, ClearRevokedList \/ StoreListed \/ AnnounceConnection
    PROVE  StoreShape
<1>0. /\ todo \in Seq(Frames) /\ todo # <<>> /\ up /\ UNCHANGED <<rows, monitor, up, crashes>>
      /\ Head(todo).op \in {"clearRevoked", "insertListed", "announce"} /\ ~Deleting(Head(todo))
  BY FramesOfDeletions DEF ClearRevokedList, StoreListed, AnnounceConnection, Pending, TypeOK
<1>1. Range(todo) = {Head(todo)} \cup Range(Tail(todo)) /\ Tail(todo) \in Seq(Frames)
  BY <1>0, PoppedFrames, PopIsStack
<1>2. ASSUME Head(todo).op \in {"clearRevoked", "insertListed"}, UNCHANGED known,
             \A f \in Range(todo') : f \in Range(todo) \/ f.op = "insertListed",
             Range(Tail(todo)) \subseteq Range(todo')
      PROVE  StoreShape
  <2>1. \A f \in Range(todo) : f.op \in {"announce", "insertTyped"} => f \in Range(todo')
    BY <1>1, <1>2
  <2>2. \A o : ToBeAnnounced(o) => ToBeAnnounced(o)'
    BY <2>1 DEF ToBeAnnounced
  <2>3. \A f \in Range(todo') : f \in Range(todo) \/ (~Deleting(f) /\ f.op \notin {"announce", "insertTyped"})
    BY <1>2, FramesOfDeletions
  <2>. QED
    BY <1>0, <1>2, <2>2, <2>3 DEF StoreShape
<1>3. CASE ClearRevokedList
  BY <1>1, <1>2, <1>3 DEF ClearRevokedList, Pending
<1>4. CASE StoreListed
  <2>0. Head(todo).op = "insertListed" /\ UNCHANGED known
    BY <1>4 DEF StoreListed, Pending
  <2>1. CASE todo' = Tail(todo)
    BY <1>1, <1>2, <2>0, <2>1
  <2>2. ASSUME NEW c, todo' = <<InsertListed(Head(todo).list, Head(todo).connection,
                                            Head(todo).certificates \ {c})>> \o Tail(todo)
        PROVE  StoreShape
    <3>. DEFINE f == InsertListed(Head(todo).list, Head(todo).connection, Head(todo).certificates \ {c})
    <3>1. /\ Head(todo).list \in {"trust", "revoked"} /\ Head(todo).connection \in Connections
          /\ Head(todo).certificates \in SUBSET Certificates
      BY <1>4, HeadTyped, FrameFields DEF StoreListed
    <3>2. f \in Frames /\ f.op = "insertListed"
      BY <3>1 DEF InsertListed, Frames
    <3>3. todo' = <<f>> \o Tail(todo)
      BY <2>2
    <3>. HIDE DEF f
    <3>4. Range(todo') = {f} \cup Range(Tail(todo))
      BY <1>1, <3>2, <3>3, PushedFrames
    <3>. QED
      BY <1>1, <1>2, <2>0, <3>2, <3>4
  <2>. QED
    BY <1>4, <2>1, <2>2 DEF StoreListed
<1>5. CASE AnnounceConnection
  <2>. DEFINE h == Head(todo).connection
  <2>1. Head(todo).op = "announce" /\ Tell(h, "Created", Tail(todo))
    BY <1>5 DEF AnnounceConnection, Pending
  <2>2. h \in Objects
    BY <1>0, <2>1, FrameFields, PopIsStack, RowsAreObjects
  <2>3. h \in rows
    BY <1>1, <2>1 DEF StackInv, AnnouncedIsThere
  <2>. HIDE DEF h
  <2>4. Range(todo') = {Slots(h, "Created")} \cup Range(Tail(todo))
    BY <1>1, <2>1, <2>2, ToldFrames
  <2>5. Slots(h, "Created").op = "slots" /\ ~Deleting(Slots(h, "Created"))
    BY FramesOfDeletions DEF Slots
  <2>6. known' = known \cup {h} /\ rows' = rows \cup {h}
    BY <1>0, <2>1, <2>3 DEF Tell
  <2>7. \A o : ToBeAnnounced(o) => ToBeAnnounced(o)' \/ o = h
    BY <1>1, <2>1, <2>4 DEF ToBeAnnounced, h
  <2>8. \A f \in Range(todo') : f \in Range(todo) \/ (~Deleting(f) /\ f.op \notin {"announce", "insertTyped"})
    BY <1>1, <2>4, <2>5
  <2>. QED
    BY <1>0, <2>2, <2>6, <2>7, <2>8 DEF StoreShape
<1>. QED
  BY <1>3, <1>4, <1>5 DEF ClearRevokedList, StoreListed, AnnounceConnection

\* The two statements of setXSetting.
LEMMA SettingStepsStore ==
    ASSUME Integrity, SetSetting \/ StoreTyped
    PROVE  StoreShape
<1>0. TypeOK /\ InsertsAreSafe
  BY DEF Integrity
<1>1. CASE SetSetting
  <2>1. PICK k \in Settings, kind \in Kinds, r \in IdObjects \cup {NoRef} :
           /\ rows'  = rows \cup {k}
           /\ todo'  = <<InsertTyped([key |-> k, kind |-> kind, ref |-> r])>>
    BY <1>1 DEF SetSetting
  <2>. DEFINE f == InsertTyped([key |-> k, kind |-> kind, ref |-> r])
  <2>2. f.op = "insertTyped" /\ f.tuple.key = k /\ todo' = <<f>>
    BY <2>1 DEF InsertTyped
  <2>. HIDE DEF f
  <2>3. Range(todo') = {f}
    BY <2>2 DEF Range
  <2>4. todo = <<>> /\ up /\ UNCHANGED <<monitor, up, crashes, known>> /\ k \in Objects
    BY <1>1, RowsAreObjects DEF SetSetting, Idle
  <2>5. ToBeAnnounced(k)' /\ \A o : ~ToBeAnnounced(o)
    BY <2>2, <2>3, <2>4, NoFrames DEF ToBeAnnounced
  <2>6. ~Deleting(f)
    BY <2>2, FramesOfDeletions
  <2>. QED
    BY <1>1, <2>1, <2>2, <2>3, <2>4, <2>5, <2>6 DEF StoreShape
<1>2. CASE StoreTyped
  <2>. DEFINE k == Head(todo).tuple.key
  <2>1. /\ todo # <<>> /\ Head(todo).op = "insertTyped" /\ up /\ Pending("insertTyped")
        /\ Tell(k, "Modified", Tail(todo)) /\ UNCHANGED <<rows, monitor, up, crashes>>
    BY <1>2 DEF StoreTyped, Pending
  <2>2. k \in Objects /\ Tail(todo) \in Seq(Frames)
    <3>1. Head(todo).tuple \in TypedTuples /\ Tail(todo) \in Seq(Frames)
      BY <1>0, <2>1, HeadTyped, FrameFields
    <3>. QED
      BY <3>1, RowsAreObjects DEF TypedTuples
  <2>3. k \in rows
    <3>1. todo \in Seq(Frames) /\ Head(todo) = todo[1] /\ 1 \in DOMAIN todo
      BY <1>0, <2>1 DEF TypeOK
    <3>. QED
      BY <1>0, <2>1, <3>1 DEF InsertsAreSafe
  <2>4. Range(todo) = {Head(todo)} \cup Range(Tail(todo))
    BY <1>0, <2>1, PoppedFrames DEF TypeOK
  <2>. HIDE DEF k
  <2>5. Range(todo') = {Slots(k, "Modified")} \cup Range(Tail(todo))
    BY <2>1, <2>2, ToldFrames
  <2>6. Slots(k, "Modified").op = "slots" /\ ~Deleting(Slots(k, "Modified"))
    BY FramesOfDeletions DEF Slots
  <2>7. known' = known \cup {k} /\ rows' = rows \cup {k}
    BY <2>1, <2>3 DEF Tell
  <2>8. \A o : ToBeAnnounced(o) => ToBeAnnounced(o)' \/ o = k
    BY <2>1, <2>4, <2>5 DEF ToBeAnnounced, k
  <2>9. \A f \in Range(todo') : f \in Range(todo) \/ (~Deleting(f) /\ f.op \notin {"announce", "insertTyped"})
    BY <2>4, <2>5, <2>6
  <2>10. ~Deleting(Head(todo))
    BY <2>1, FramesOfDeletions
  <2>. QED
    BY <2>1, <2>2, <2>7, <2>8, <2>9, <2>10 DEF StoreShape
<1>. QED
  BY <1>1, <1>2

StoringStep ==
    \/ StoreCertificate \/ StoreKey \/ StoreLayout \/ SetKV \/ StoreAppCertKey \/ StoreAppCert
    \/ StoreConnection \/ ClearRevokedList \/ StoreListed \/ AnnounceConnection
    \/ SetSetting \/ StoreTyped

\* Every step of a call that stores has that shape.
LEMMA StoringStepsStore ==
    ASSUME Integrity, StackInv, StoringStep
    PROVE  StoreShape
<1>1. TypeOK
  BY DEF Integrity
<1>. QED
  BY <1>1, StoreCallsStore, AppCertStepsStore, StoreConnectionStores, ListStepsStore,
     SettingStepsStore DEF StoringStep

-----------------------------------------------------------------------------
(* Calls that delete.                                                      *)

\* The frames of a stack whose head belongs to a deletion, and of the empty one.
LEMMA AllAreDeleting ==
    ASSUME TypeOK, OneMode, todo = <<>> \/ Deleting(Head(todo))
    PROVE  \A f \in Range(todo) : Deleting(f)
<1>1. CASE todo = <<>>
  BY <1>1, NoFrames
<1>2. CASE todo # <<>>
  <2>1. Head(todo) \in Range(todo)
    BY <1>2, PoppedFrames DEF TypeOK
  <2>. QED
    BY <1>2, <2>1 DEF OneMode
<1>. QED
  BY <1>1, <1>2

\* A stack of nothing but deletions announces no connection.
LEMMA DeletingIsSound ==
    ASSUME \A f \in Range(todo') : Deleting(f)
    PROVE  StackInv'
<1>1. OneMode'
  BY DEF OneMode, Deleting
<1>2. AnnouncedIsThere'
  BY DEF AnnouncedIsThere, Deleting
<1>. QED
  BY <1>1, <1>2 DEF StackInv

\* The DELETE: every row that goes is in the monitor, and none of them comes back.
LEMMA DeleteKeepsSignals ==
    ASSUME Integrity, StackInv, NEW o \in Objects, Delete(o)
    PROVE  StackInv' /\ (SignalsInv => SignalsInv')
<1>. DEFINE gone == Doomed({o} \cap rows)
<1>0. TypeOK /\ OneMode /\ monitor \in [Objects -> Nat] /\ known \subseteq Objects
  BY DEF Integrity, StackInv, TypeOK, Bags
<1>1. /\ up /\ up' = up /\ known' = known /\ todo' = <<Drain>> \o todo
      /\ todo = <<>> \/ Deleting(Head(todo))
  BY DEF Delete, Idle, SlotMayCall, Pending, Deleting
<1>2. /\ rows' = rows \ gone
      /\ \A p \in Objects : monitor'[p] = IF p \in gone THEN monitor[p] + 1 ELSE monitor[p]
  BY DEF Delete, DeleteRows, Count
<1>3. Drain \in Frames /\ Drain.op = "drain" /\ todo \in Seq(Frames)
  BY <1>0 DEF Frames, Drain, TypeOK
<1>4. Range(todo') = {Drain} \cup Range(todo)
  BY <1>1, <1>3, PushedFrames
<1>5. \A f \in Range(todo) : Deleting(f)
  BY <1>0, <1>1, AllAreDeleting
<1>6. StackInv'
  <2>1. \A f \in Range(todo') : Deleting(f)
    BY <1>4, <1>5, FramesOfDeletions
  <2>. QED
    BY <2>1, DeletingIsSound
<1>. HIDE DEF gone
<1>7. ASSUME SignalsInv PROVE SignalsInv'
  <2>1. MonitorIsRead'
    <3>1. todo' # <<>> /\ Head(todo') = Drain
      BY <1>1, <1>3
    <3>. QED
      BY <1>1, <1>3, <3>1 DEF MonitorIsRead, Pending
  <2>2. \A p : ToBeDelivered(p)' <=> ToBeDelivered(p)
    BY <1>3, <1>4 DEF ToBeDelivered
  <2>3. \A p \in Objects : monitor'[p] > 0 <=> p \in gone \/ monitor[p] > 0
    BY <1>0, <1>2
  <2>4. ToldIsGone'
    <3>1. \A p \in Objects : monitor'[p] > 0 \/ ToBeDelivered(p)' => p \notin rows'
      BY <1>2, <1>7, <2>2, <2>3 DEF SignalsInv, ToldIsGone
    <3>2. \A f \in Range(todo') : f.op = "slots" /\ Deleting(f) => f.object \notin rows'
      BY <1>2, <1>3, <1>4, <1>7 DEF SignalsInv, ToldIsGone
    <3>. QED
      BY <3>1, <3>2 DEF ToldIsGone, ToBeDelivered, Deleting
  <2>5. NothingIsMissed'
    <3>1. \A p \in rows' : p \in known'
      <4>1. \A p : ~ToBeAnnounced(p)
        BY <1>5 DEF ToBeAnnounced, Deleting
      <4>. QED
        BY <1>1, <1>2, <1>7, <4>1 DEF SignalsInv, NothingIsMissed
    <3>2. \A p \in known' : p \in rows' \/ monitor'[p] > 0 \/ ToBeDelivered(p)'
      BY <1>0, <1>1, <1>2, <1>7, <2>2, <2>3 DEF SignalsInv, NothingIsMissed
    <3>. QED
      BY <3>1, <3>2 DEF NothingIsMissed, ToBeDelivered
  <2>. QED
    BY <2>1, <2>4, <2>5 DEF SignalsInv
<1>. QED
  BY <1>6, <1>7

\* handleDeleteMonitor reads the events: what was in the monitor is to be delivered.
LEMMA DrainKeepsSignals ==
    ASSUME Integrity, StackInv, DrainMonitor
    PROVE  StackInv' /\ (SignalsInv => SignalsInv')
<1>0. TypeOK /\ OneMode /\ monitor \in Bags
  BY DEF Integrity, StackInv, TypeOK
<1>1. /\ todo # <<>> /\ todo \in Seq(Frames) /\ Head(todo).op = "drain" /\ up /\ Pending("drain")
      /\ monitor' = NoTuples /\ todo' = <<DeliverAll(monitor)>> \o Tail(todo)
      /\ UNCHANGED <<rows, known, up>>
  BY <1>0 DEF DrainMonitor, Pending, TypeOK
<1>. DEFINE f0 == DeliverAll(monitor)
<1>2. f0 \in Frames /\ f0.op = "deliver" /\ f0.gone = monitor
  BY <1>0 DEF DeliverAll, Frames
<1>3. todo' = <<f0>> \o Tail(todo)
  BY <1>1
<1>. HIDE DEF f0
<1>4. Range(todo) = {Head(todo)} \cup Range(Tail(todo)) /\ Tail(todo) \in Seq(Frames)
  BY <1>1, PoppedFrames, PopIsStack
<1>5. Range(todo') = {f0} \cup Range(Tail(todo))
  BY <1>2, <1>3, <1>4, PushedFrames
<1>6. \A f \in Range(todo) : Deleting(f)
  BY <1>0, <1>1, AllAreDeleting DEF Deleting
<1>7. StackInv'
  <2>1. \A f \in Range(todo') : Deleting(f)
    BY <1>2, <1>4, <1>5, <1>6 DEF Deleting
  <2>. QED
    BY <2>1, DeletingIsSound
<1>8. ASSUME SignalsInv PROVE SignalsInv'
  <2>1. MonitorIsRead'
    BY <1>1 DEF MonitorIsRead
  <2>2. \A p : ToBeDelivered(p)' <=> ToBeDelivered(p) \/ monitor[p] > 0
    BY <1>1, <1>2, <1>4, <1>5 DEF ToBeDelivered
  <2>3. \A p \in Objects : ~(monitor'[p] > 0)
    BY <1>1 DEF NoTuples
  <2>4. ToldIsGone'
    <3>1. \A p \in Objects : monitor'[p] > 0 \/ ToBeDelivered(p)' => p \notin rows'
      BY <1>1, <1>8, <2>2, <2>3 DEF SignalsInv, ToldIsGone
    <3>2. \A f \in Range(todo') : f.op = "slots" /\ Deleting(f) => f.object \notin rows'
      BY <1>1, <1>2, <1>4, <1>5, <1>8 DEF SignalsInv, ToldIsGone
    <3>. QED
      BY <3>1, <3>2 DEF ToldIsGone, ToBeDelivered, Deleting
  <2>5. NothingIsMissed'
    <3>1. \A p \in rows' : p \in known'
      <4>1. \A p : ~ToBeAnnounced(p)
        BY <1>6 DEF ToBeAnnounced, Deleting
      <4>. QED
        BY <1>1, <1>8, <4>1 DEF SignalsInv, NothingIsMissed
    <3>2. \A p \in known' : p \in rows' \/ ToBeDelivered(p)'
      BY <1>1, <1>8, <2>2 DEF SignalsInv, NothingIsMissed
    <3>. QED
      BY <3>1, <3>2 DEF NothingIsMissed, ToBeDelivered
  <2>. QED
    BY <2>1, <2>4, <2>5 DEF SignalsInv
<1>. QED
  BY <1>7, <1>8

\* One turn of the loop over the events, or its end: an object is told as deleted only
\* when it is gone, and no event is dropped.
LEMMA DeliverKeepsSignals ==
    ASSUME Integrity, StackInv, Deliver
    PROVE  StackInv' /\ (SignalsInv => SignalsInv')
<1>. DEFINE gone == Head(todo).gone
<1>0. TypeOK /\ OneMode
  BY DEF Integrity, StackInv
<1>1. /\ todo # <<>> /\ todo \in Seq(Frames) /\ Head(todo).op = "deliver" /\ up
      /\ UNCHANGED <<rows, monitor, up>> /\ Pending("deliver")
  BY <1>0 DEF Deliver, Pending, TypeOK
<1>2. Range(todo) = {Head(todo)} \cup Range(Tail(todo)) /\ Tail(todo) \in Seq(Frames)
  BY <1>1, PoppedFrames, PopIsStack
<1>3. gone \in Bags
  BY <1>0, <1>1, HeadTyped, FrameFields
<1>4. \A f \in Range(todo) : Deleting(f)
  BY <1>0, <1>1, AllAreDeleting DEF Deleting
<1>5. SignalsInv => monitor = NoTuples
  BY <1>1 DEF SignalsInv, MonitorIsRead, Pending
<1>6. \A p : ~ToBeAnnounced(p)
  BY <1>4 DEF ToBeAnnounced, Deleting
<1>7. CASE gone = NoTuples /\ todo' = Tail(todo) /\ UNCHANGED known
  <2>1. StackInv'
    BY <1>2, <1>4, <1>7, DeletingIsSound
  <2>2. ASSUME SignalsInv PROVE SignalsInv'
    <3>1. \A p \in Objects : ~(gone[p] > 0)
      BY <1>7 DEF NoTuples
    <3>2. \A p \in Objects : ToBeDelivered(p)' <=> ToBeDelivered(p)
      BY <1>2, <1>7, <3>1 DEF ToBeDelivered
    <3>3. MonitorIsRead'
      BY <1>1, <1>5, <2>2 DEF MonitorIsRead
    <3>4. ToldIsGone'
      <4>1. \A p \in Objects : monitor'[p] > 0 \/ ToBeDelivered(p)' => p \notin rows'
        BY <1>1, <2>2, <3>2 DEF SignalsInv, ToldIsGone
      <4>2. \A f \in Range(todo') : f.op = "slots" /\ Deleting(f) => f.object \notin rows'
        BY <1>1, <1>2, <1>7, <2>2 DEF SignalsInv, ToldIsGone
      <4>. QED
        BY <4>1, <4>2 DEF ToldIsGone, ToBeDelivered, Deleting
    <3>5. NothingIsMissed'
      <4>1. \A p \in rows' : p \in known'
        BY <1>1, <1>6, <1>7, <2>2 DEF SignalsInv, NothingIsMissed
      <4>2. \A p \in known' : p \in rows' \/ monitor'[p] > 0 \/ ToBeDelivered(p)'
        BY <1>0, <1>1, <1>7, <2>2, <3>2 DEF SignalsInv, NothingIsMissed, TypeOK
      <4>. QED
        BY <4>1, <4>2 DEF NothingIsMissed, ToBeDelivered
    <3>. QED
      BY <3>3, <3>4, <3>5 DEF SignalsInv
  <2>. QED
    BY <2>1, <2>2
<1>8. ASSUME NEW o \in Objects, gone[o] > 0,
             Tell(o, "Deleted", <<DeliverAll([gone EXCEPT ![o] = @ - 1])>> \o Tail(todo))
      PROVE  StackInv' /\ (SignalsInv => SignalsInv')
  <2>. DEFINE left == [gone EXCEPT ![o] = @ - 1]
              f0 == DeliverAll(left)
              f1 == Slots(o, "Deleted")
              rest == <<f0>> \o Tail(todo)
  <2>1. left \in Bags /\ \A p \in Objects : left[p] = IF p = o THEN gone[p] - 1 ELSE gone[p]
    BY <1>3, <1>8 DEF Bags
  <2>2. f0 \in Frames /\ f0.op = "deliver" /\ f0.gone = left
    BY <2>1 DEF DeliverAll, Frames
  <2>3. f1.op = "slots" /\ f1.object = o /\ Deleting(f1)
    BY FramesOfDeletions DEF Slots
  <2>4. Tell(o, "Deleted", rest)
    BY <1>8
  <2>5. known' = known \ {o}
    BY <2>4 DEF Tell
  <2>. HIDE DEF f0, left
  <2>6. rest \in Seq(Frames) /\ Range(rest) = {f0} \cup Range(Tail(todo))
    BY <1>2, <2>2, PushIsStack, PushedFrames
  <2>. HIDE DEF rest
  <2>7. Range(todo') = {f1, f0} \cup Range(Tail(todo))
    BY <2>4, <2>6, ToldFrames
  <2>. HIDE DEF f1
  <2>8. StackInv'
    <3>1. \A f \in Range(todo') : Deleting(f)
      BY <1>2, <1>4, <2>2, <2>3, <2>7 DEF Deleting
    <3>. QED
      BY <3>1, DeletingIsSound
  <2>9. ASSUME SignalsInv PROVE SignalsInv'
    <3>1. \A p \in Objects : left[p] > 0 => gone[p] > 0
      BY <1>3, <1>8, <2>1 DEF Bags
    <3>2. \A p \in Objects : ToBeDelivered(p)' => ToBeDelivered(p)
      BY <1>1, <1>2, <2>2, <2>3, <2>7, <3>1 DEF ToBeDelivered
    <3>3. \A p \in Objects : ToBeDelivered(p) => ToBeDelivered(p)' \/ p = o
      BY <1>2, <2>1, <2>2, <2>7 DEF ToBeDelivered
    <3>4. o \notin rows
      <4>1. ToBeDelivered(o)
        BY <1>1, <1>2, <1>8 DEF ToBeDelivered
      <4>. QED
        BY <2>9, <4>1 DEF SignalsInv, ToldIsGone
    <3>5. MonitorIsRead'
      BY <1>1, <1>5, <2>9 DEF MonitorIsRead
    <3>6. ToldIsGone'
      <4>1. \A p \in Objects : monitor'[p] > 0 \/ ToBeDelivered(p)' => p \notin rows'
        BY <1>1, <2>9, <3>2 DEF SignalsInv, ToldIsGone
      <4>2. \A f \in Range(todo') : f.op = "slots" /\ Deleting(f) => f.object \notin rows'
        BY <1>1, <1>2, <2>2, <2>3, <2>7, <2>9, <3>4 DEF SignalsInv, ToldIsGone
      <4>. QED
        BY <4>1, <4>2 DEF ToldIsGone, ToBeDelivered, Deleting
    <3>7. NothingIsMissed'
      <4>1. \A p \in rows' : p \in known'
        BY <1>1, <1>6, <2>5, <2>9, <3>4 DEF SignalsInv, NothingIsMissed
      <4>2. \A p \in known' : p \in rows' \/ monitor'[p] > 0 \/ ToBeDelivered(p)'
        BY <1>0, <1>1, <2>5, <2>9, <3>3 DEF SignalsInv, NothingIsMissed, TypeOK
      <4>. QED
        BY <4>1, <4>2 DEF NothingIsMissed, ToBeDelivered
    <3>. QED
      BY <3>5, <3>6, <3>7 DEF SignalsInv
  <2>. QED
    BY <2>8, <2>9
<1>. QED
  BY <1>7, <1>8 DEF Deliver

\* The slots of a signal return.
LEMMA ReturnKeepsSignals ==
    ASSUME Integrity, StackInv, SlotsReturn
    PROVE  StackInv' /\ (SignalsInv => SignalsInv')
<1>0. TypeOK
  BY DEF Integrity
<1>1. /\ todo # <<>> /\ todo \in Seq(Frames) /\ Head(todo).op = "slots" /\ todo' = Tail(todo)
      /\ UNCHANGED <<rows, known, monitor, up>>
  BY <1>0 DEF SlotsReturn, Pending, TypeOK
<1>2. Range(todo) = {Head(todo)} \cup Range(todo')
  BY <1>1, PoppedFrames
<1>3. StackInv'
  BY <1>1, <1>2 DEF StackInv, OneMode, AnnouncedIsThere, Deleting
<1>4. ASSUME SignalsInv PROVE SignalsInv'
  <2>1. MonitorIsRead'
    BY <1>1, <1>4 DEF SignalsInv, MonitorIsRead, Pending
  <2>2. \A p : ToBeDelivered(p)' <=> ToBeDelivered(p)
    BY <1>1, <1>2 DEF ToBeDelivered
  <2>3. \A p : ToBeAnnounced(p)' <=> ToBeAnnounced(p)
    BY <1>1, <1>2 DEF ToBeAnnounced
  <2>4. ToldIsGone'
    <3>1. \A p \in Objects : monitor'[p] > 0 \/ ToBeDelivered(p)' => p \notin rows'
      BY <1>1, <1>4, <2>2 DEF SignalsInv, ToldIsGone
    <3>2. \A f \in Range(todo') : f.op = "slots" /\ Deleting(f) => f.object \notin rows'
      BY <1>1, <1>2, <1>4 DEF SignalsInv, ToldIsGone
    <3>. QED
      BY <3>1, <3>2 DEF ToldIsGone, ToBeDelivered, Deleting
  <2>5. NothingIsMissed'
    <3>1. up' => \A p \in rows' : p \in known' \/ ToBeAnnounced(p)'
      BY <1>1, <1>4, <2>3 DEF SignalsInv, NothingIsMissed
    <3>2. \A p \in known' : p \in rows' \/ monitor'[p] > 0 \/ ToBeDelivered(p)'
      BY <1>1, <1>4, <2>2 DEF SignalsInv, NothingIsMissed
    <3>. QED
      BY <3>1, <3>2 DEF NothingIsMissed, ToBeDelivered, ToBeAnnounced
  <2>. QED
    BY <2>1, <2>4, <2>5 DEF SignalsInv
<1>. QED
  BY <1>3, <1>4

-----------------------------------------------------------------------------
(* The end and the start of the process.                                   *)

\* A refused foreign key ends the process when no deletion is under way, and a kill
\* is counted.
LEMMA StoppingKeeps ==
    ASSUME Integrity, StackInv, ForeignKeyFails \/ StoreConnectionRefused \/ Crash
    PROVE  StackInv' /\ (crashes = 0 /\ SignalsInv => (crashes' = 0 => SignalsInv'))
<1>1. up' = FALSE /\ todo' = <<>> /\ known' = {} /\ UNCHANGED <<rows, monitor>>
  BY DEF ForeignKeyFails, StoreConnectionRefused, Crash, Stop, database
<1>2. Range(todo') = {}
  BY <1>1, NoFrames
<1>3. StackInv'
  BY <1>2 DEF StackInv, OneMode, AnnouncedIsThere, Deleting
<1>4. ASSUME SignalsInv, crashes = 0, crashes' = 0 PROVE SignalsInv'
  <2>1. ~Pending("drain")
    <3>1. ~Crash
      BY <1>4 DEF Crash
    <3>. QED
      BY <3>1 DEF ForeignKeyFails, StoreConnectionRefused, Pending, Idle
  <2>2. monitor' = NoTuples
    BY <1>1, <1>4, <2>1 DEF SignalsInv, MonitorIsRead
  <2>3. \A p \in Objects : ~(monitor'[p] > 0)
    BY <2>2 DEF NoTuples
  <2>. QED
    BY <1>1, <1>2, <2>2, <2>3
    DEF SignalsInv, MonitorIsRead, ToldIsGone, NothingIsMissed, ToBeDelivered
<1>. QED
  BY <1>3, <1>4

\* The listeners are created after the constructor and read the tables.
LEMMA RestartKeeps ==
    ASSUME Integrity, StackInv, Restart
    PROVE  StackInv' /\ (SignalsInv => SignalsInv')
<1>1. up' = TRUE /\ known' = rows /\ ~up /\ UNCHANGED <<rows, monitor, todo>>
  BY DEF Restart
<1>2. StackInv'
  BY <1>1 DEF StackInv, OneMode, AnnouncedIsThere, Deleting
<1>3. ASSUME SignalsInv PROVE SignalsInv'
  <2>1. MonitorIsRead' /\ ToldIsGone'
    BY <1>1, <1>3
    DEF SignalsInv, MonitorIsRead, Pending, ToldIsGone, ToBeDelivered, Deleting
  <2>2. NothingIsMissed'
    BY <1>1 DEF NothingIsMissed
  <2>. QED
    BY <2>1, <2>2 DEF SignalsInv
<1>. QED
  BY <1>2, <1>3

-----------------------------------------------------------------------------
(* All steps.                                                              *)

\* What a step is.
LEMMA StepsAre ==
    ASSUME Next
    PROVE  \/ StoringStep \/ (\E o \in Objects : Delete(o)) \/ DrainMonitor \/ Deliver \/ SlotsReturn
           \/ ForeignKeyFails \/ StoreConnectionRefused \/ Crash \/ Restart
  BY DEF Next, Progress, Call, StoringStep

\* Nothing has been stored yet, and nobody has been told anything.
LEMMA InitFeed == Init => FeedInv
<1>. SUFFICES ASSUME Init PROVE FeedInv
  OBVIOUS
<1>1. Integrity
  BY InitIntegrity
<1>2. Range(todo) = {}
  BY NoFrames DEF Init
<1>3. StackInv
  BY <1>2 DEF StackInv, OneMode, AnnouncedIsThere
<1>4. SignalsInv
  BY <1>2
  DEF Init, SignalsInv, MonitorIsRead, ToldIsGone, NothingIsMissed, ToBeDelivered, NoTuples
<1>. QED
  BY <1>1, <1>3, <1>4 DEF FeedInv

\* Every step keeps the signals in order.
LEMMA NextFeed == FeedInv /\ [Next]_vars => FeedInv'
<1>. SUFFICES ASSUME FeedInv, [Next]_vars PROVE FeedInv'
  OBVIOUS
<1>0. Integrity /\ StackInv /\ Integrity' /\ crashes \in Nat
  BY NextIntegrity DEF FeedInv, Integrity, TypeOK
<1>1. ASSUME StackInv' /\ (SignalsInv => SignalsInv'), crashes' = crashes PROVE FeedInv'
  BY <1>0, <1>1 DEF FeedInv
<1>2. CASE StoringStep
  <2>1. StoreShape
    BY <1>0, <1>2, StoringStepsStore
  <2>. QED
    BY <1>0, <1>1, <2>1, StoringKeeps DEF StoreShape
<1>3. CASE \E o \in Objects : Delete(o)
  <2>1. PICK o \in Objects : Delete(o)
    BY <1>3
  <2>. QED
    BY <1>0, <1>1, <2>1, DeleteKeepsSignals DEF Delete
<1>4. CASE DrainMonitor
  BY <1>0, <1>1, <1>4, DrainKeepsSignals DEF DrainMonitor
<1>5. CASE Deliver
  BY <1>0, <1>1, <1>5, DeliverKeepsSignals DEF Deliver
<1>6. CASE SlotsReturn
  BY <1>0, <1>1, <1>6, ReturnKeepsSignals DEF SlotsReturn
<1>7. CASE ForeignKeyFails \/ StoreConnectionRefused \/ Crash
  <2>1. StackInv' /\ (crashes = 0 /\ SignalsInv => (crashes' = 0 => SignalsInv'))
    BY <1>0, <1>7, StoppingKeeps
  <2>2. crashes' = 0 => crashes = 0
    BY <1>0, <1>7 DEF ForeignKeyFails, StoreConnectionRefused, Crash
  <2>. QED
    BY <1>0, <2>1, <2>2 DEF FeedInv
<1>8. CASE Restart
  BY <1>0, <1>1, <1>8, RestartKeeps DEF Restart
<1>9. CASE UNCHANGED vars
  <2>1. UNCHANGED <<rows, monitor, todo, up, known, crashes>>
    BY <1>9 DEF vars
  <2>. QED
    BY <1>0, <2>1
    DEF FeedInv, StackInv, OneMode, AnnouncedIsThere, SignalsInv, MonitorIsRead, Pending,
        ToldIsGone, NothingIsMissed, ToBeDelivered, ToBeAnnounced, Deleting
<1>. QED
  BY <1>2, <1>3, <1>4, <1>5, <1>6, <1>7, <1>8, <1>9, StepsAre

\* The invariant of the signals: deletions nest in deletions, what is told as deleted
\* is gone, and whatever the listeners do not know yet is in the monitor or on the stack.
THEOREM SignalsAreSound == Spec => []FeedInv
<1>1. Init => FeedInv
  BY InitFeed
<1>2. FeedInv /\ [Next]_vars => FeedInv'
  BY NextFeed
<1>. QED
  BY <1>1, <1>2, PTL DEF Spec

-----------------------------------------------------------------------------
(* Results on the signals.                                                 *)

\* While the slots of a Deleted signal run, the object is gone, until a process that
\* was killed has left events in the monitor: for every nesting of deletions in slots.
THEOREM DeletedIsGone == Spec => [](crashes = 0 => DeletedMeansGone)
<1>1. FeedInv => (crashes = 0 => DeletedMeansGone)
  <2>. SUFFICES ASSUME SignalsInv PROVE DeletedMeansGone
    BY DEF FeedInv
  <2>1. \A i \in DOMAIN todo : todo[i] \in Range(todo)
    BY DEF Range
  <2>. QED
    BY <2>1 DEF SignalsInv, ToldIsGone, Deleting, DeletedMeansGone
<1>. QED
  BY <1>1, SignalsAreSound, PTL

\* Between calls the listeners know exactly the rows there are, until the first kill:
\* no cascaded deletion is lost and none is told twice (handleDeleteMonitor).
THEOREM ListenersCatchUp == Spec => [](crashes = 0 => ListenersCaughtUp)
<1>1. FeedInv => (crashes = 0 => ListenersCaughtUp)
  <2>. SUFFICES ASSUME Integrity, SignalsInv, Idle PROVE known = rows
    BY DEF FeedInv, ListenersCaughtUp
  <2>1. up /\ Range(todo) = {} /\ ~Pending("drain")
    BY NoFrames DEF Idle, Pending
  <2>2. \A p \in Objects : ~(monitor[p] > 0)
    BY <2>1 DEF SignalsInv, MonitorIsRead, NoTuples
  <2>3. known \subseteq Objects
    BY DEF Integrity, TypeOK
  <2>. QED
    BY <2>1, <2>2, <2>3 DEF SignalsInv, NothingIsMissed, ToBeAnnounced, ToBeDelivered
<1>. QED
  BY <1>1, SignalsAreSound, PTL

\* A step of Storage is a step of ChangeFeed, or none.
LEMMA StepsFollowFeed ==
    ASSUME FeedInv, crashes = 0, [Next]_vars
    PROVE  Feed!Next \/ UNCHANGED <<rows, known, up>>
<1>0. Integrity /\ StackInv /\ SignalsInv /\ TypeOK
  BY DEF FeedInv, Integrity
<1>1. CASE StoringStep
  <2>1. StoreShape
    BY <1>0, <1>1, StoringStepsStore
  <2>2. CASE UNCHANGED <<rows, known>>
    BY <2>1, <2>2 DEF StoreShape
  <2>3. CASE \E o \in Objects : rows' = rows \cup {o} /\ known' \in {known, known \cup {o}}
    BY <2>1, <2>3 DEF StoreShape, Feed!Next, Feed!Add
  <2>. QED
    BY <2>1, <2>2, <2>3 DEF StoreShape
<1>2. CASE \E o \in Objects : Delete(o)
  <2>1. PICK o \in Objects : Delete(o)
    BY <1>2
  <2>. DEFINE S == rows \cap Doomed({o} \cap rows)
  <2>2. up /\ rows' = rows \ S /\ UNCHANGED <<known, up>>
    BY <2>1 DEF Delete, DeleteRows, Idle, SlotMayCall, Pending
  <2>3. S \in SUBSET Objects /\ S \subseteq rows
    BY <1>0 DEF TypeOK
  <2>. HIDE DEF S
  <2>4. Feed!Remove(S)
    BY <2>2, <2>3 DEF Feed!Remove
  <2>. QED
    BY <2>3, <2>4 DEF Feed!Next
<1>3. CASE Deliver
  <2>1. todo # <<>> /\ Head(todo).op = "deliver" /\ up /\ UNCHANGED <<rows, up>>
    BY <1>3 DEF Deliver, Pending
  <2>2. CASE UNCHANGED known
    BY <2>1, <2>2
  <2>3. ASSUME NEW o \in Objects, Head(todo).gone[o] > 0, known' = known \ {o} PROVE Feed!Next
    <3>1. Head(todo) \in Range(todo)
      BY <1>0, <2>1, PoppedFrames DEF TypeOK
    <3>2. o \notin rows
      BY <1>0, <2>1, <2>3, <3>1 DEF SignalsInv, ToldIsGone, ToBeDelivered
    <3>3. Feed!TellRemoved(o)
      BY <2>1, <2>3, <3>2 DEF Feed!TellRemoved
    <3>. QED
      BY <3>3 DEF Feed!Next, Feed!Tell
  <2>. QED
    BY <1>3, <2>2, <2>3 DEF Deliver, Tell
<1>4. CASE DrainMonitor \/ SlotsReturn
  BY <1>4 DEF DrainMonitor, SlotsReturn
<1>5. CASE ForeignKeyFails \/ StoreConnectionRefused \/ Crash
  <2>1. up /\ up' = FALSE /\ known' = {} /\ rows' = rows
    BY <1>5 DEF ForeignKeyFails, StoreConnectionRefused, Crash, Stop, database, Pending, Idle
  <2>2. Feed!End
    BY <1>0, <2>1 DEF Feed!End, TypeOK
  <2>. QED
    BY <2>2 DEF Feed!Next
<1>6. CASE Restart
  <2>1. Feed!Start
    BY <1>6 DEF Restart, Feed!Start
  <2>. QED
    BY <2>1 DEF Feed!Next
<1>7. CASE UNCHANGED vars
  BY <1>7 DEF vars
<1>. QED
  BY <1>1, <1>2, <1>3, <1>4, <1>5, <1>6, <1>7, StepsAre

\* The storage is the feed that StorageManager.hpp promises, until the first kill:
\* every statement, signal and end of the process is one of its steps or none.  (That
\* it also tells everything in the end is a liveness property.)
THEOREM StorageFollowsFeed ==
    Spec => Feed!Init /\ [][crashes = 0 => Feed!Next]_<<rows, known, up>>
<1>1. Init => Feed!Init
  BY DEF Init, Feed!Init
<1>2. FeedInv /\ [Next]_vars => [crashes = 0 => Feed!Next]_<<rows, known, up>>
  BY StepsFollowFeed
<1>. QED
  BY <1>1, <1>2, SignalsAreSound, PTL DEF Spec

-----------------------------------------------------------------------------
(* Settings.                                                               *)

\* A setting that is about to get its tuple is the only business there is.
LEMMA TypedIsAlone ==
    ASSUME Integrity, NEW f \in Range(todo), f.op = "insertTyped"
    PROVE  Head(todo) = f /\ Range(todo) = {f} /\ Range(Tail(todo)) = {} /\ todo # <<>>
<1>1. todo \in Seq(Frames) /\ \A i \in DOMAIN todo : todo[i].op = "insertTyped" => Len(todo) = 1
  BY DEF Integrity, TypeOK, InsertsAreSafe
<1>2. PICK i \in DOMAIN todo : todo[i] = f
  BY DEF Range
<1>3. Len(todo) = 1
  BY <1>1, <1>2
<1>4. i = 1 /\ todo # <<>>
  BY <1>1, <1>2, <1>3
<1>5. Head(todo) = f
  BY <1>1, <1>2, <1>4
<1>6. Range(Tail(todo)) = {}
  <2>1. Tail(todo) \in Seq(Frames) /\ Len(Tail(todo)) = 0
    <3>1. todo \in Seq(Frames) /\ todo # <<>>
      BY <1>1, <1>4
    <3>2. Tail(todo) \in Seq(Frames) /\ Len(Tail(todo)) = Len(todo) - 1
      BY <3>1, PopIsStack
    <3>. QED
      BY <1>3, <3>2
  <2>. DEFINE rest == Tail(todo)
  <2>. HIDE DEF rest
  <2>2. rest \in Seq(Frames) /\ Len(rest) = 0
    BY <2>1 DEF rest
  <2>3. DOMAIN rest = {}
    BY <2>2
  <2>. QED
    BY <2>3 DEF Range, rest
<1>7. Range(todo) = {Head(todo)} \cup Range(Tail(todo))
  BY <1>1, <1>4, PoppedFrames
<1>. QED
  BY <1>4, <1>5, <1>6, <1>7

\* The frames that deletions and returning signals bring.
LEMMA FramesOfDeletionSteps ==
    ASSUME TypeOK, (\E o \in Objects : Delete(o)) \/ DrainMonitor \/ Deliver \/ SlotsReturn
    PROVE  \A f \in Range(todo') : f \in Range(todo) \/ Deleting(f)
<1>0. todo \in Seq(Frames)
  BY DEF TypeOK
<1>1. CASE \E o \in Objects : Delete(o)
  <2>1. todo' = <<Drain>> \o todo /\ Drain \in Frames
    BY <1>1 DEF Delete, Frames
  <2>. QED
    BY <1>0, <2>1, PushedFrames, FramesOfDeletions
<1>2. CASE DrainMonitor
  <2>1. todo # <<>> /\ todo' = <<DeliverAll(monitor)>> \o Tail(todo) /\ Tail(todo) \in Seq(Frames)
    BY <1>0, <1>2 DEF DrainMonitor, Pending
  <2>2. DeliverAll(monitor) \in Frames
    BY DEF DeliverAll, Frames, TypeOK
  <2>3. Range(todo') = {DeliverAll(monitor)} \cup Range(Tail(todo))
    BY <2>1, <2>2, PushedFrames
  <2>. QED
    BY <1>0, <2>1, <2>3, PoppedFrames, FramesOfDeletions
<1>3. CASE Deliver
  <2>1. todo # <<>> /\ Head(todo).gone \in Bags /\ Tail(todo) \in Seq(Frames)
    BY <1>0, <1>3, HeadTyped, FrameFields DEF Deliver, Pending
  <2>2. CASE todo' = Tail(todo)
    BY <1>0, <2>1, <2>2, PoppedFrames
  <2>3. ASSUME NEW o \in Objects, Head(todo).gone[o] > 0,
               Tell(o, "Deleted", <<DeliverAll([Head(todo).gone EXCEPT ![o] = @ - 1])>> \o Tail(todo))
        PROVE  \A f \in Range(todo') : f \in Range(todo) \/ Deleting(f)
    <3>. DEFINE left == [Head(todo).gone EXCEPT ![o] = @ - 1]
    <3>1. left \in Bags
      BY <2>1, <2>3 DEF Bags
    <3>2. DeliverAll(left) \in Frames
      BY <3>1 DEF DeliverAll, Frames
    <3>3. Tell(o, "Deleted", <<DeliverAll(left)>> \o Tail(todo))
      BY <2>3
    <3>. HIDE DEF left
    <3>4. /\ <<DeliverAll(left)>> \o Tail(todo) \in Seq(Frames)
          /\ Range(<<DeliverAll(left)>> \o Tail(todo)) = {DeliverAll(left)} \cup Range(Tail(todo))
      BY <2>1, <3>2, PushIsStack, PushedFrames
    <3>5. Range(todo') = {Slots(o, "Deleted")} \cup ({DeliverAll(left)} \cup Range(Tail(todo)))
      BY <3>3, <3>4, ToldFrames
    <3>. QED
      BY <1>0, <2>1, <3>5, PoppedFrames, FramesOfDeletions
  <2>. QED
    BY <1>3, <2>2, <2>3 DEF Deliver
<1>4. CASE SlotsReturn
  BY <1>0, <1>4, PoppedFrames DEF SlotsReturn, Pending
<1>. QED
  BY <1>1, <1>2, <1>3, <1>4

\* No call but setXSetting changes the settings, or their tuples, without deleting them.
LEMMA OthersStoreNoSetting ==
    ASSUME StoringStep, ~SetSetting, ~StoreTyped
    PROVE  rows' \cap Settings \subseteq rows /\ typed' = typed
<1>1. \A k \in Settings : k.rel = "Setting"
  BY Relations
<1>2. ASSUME NEW o, NEW T, InsertRow(o, T), o.rel # "Setting"
      PROVE  rows' \cap Settings \subseteq rows /\ typed' = typed
  BY <1>1, <1>2 DEF InsertRow
<1>3. /\ \A r, i : Row(r, i).rel = r
      /\ \A i, s : Layout(i, s).rel = "Layout"
      /\ \A o \in KeyValues : o.rel = "KeyValue"
  BY DEF Row, Layout, KeyValues, KeyValue
<1>4. CASE \/ ClearRevokedList \/ StoreListed \/ AnnounceConnection
  BY <1>4 DEF ClearRevokedList, StoreListed, AnnounceConnection
<1>5. CASE StoreCertificate
  BY <1>2, <1>3, <1>5 DEF StoreCertificate
<1>6. CASE StoreKey
  BY <1>2, <1>3, <1>6 DEF StoreKey
<1>7. CASE StoreLayout
  BY <1>2, <1>3, <1>7 DEF StoreLayout
<1>8. CASE SetKV
  BY <1>2, <1>3, <1>8 DEF SetKV
<1>9. CASE StoreAppCertKey
  BY <1>2, <1>3, <1>9 DEF StoreAppCertKey
<1>10. CASE StoreAppCert
  BY <1>2, <1>3, <1>10 DEF StoreAppCert
<1>11. CASE StoreConnection
  BY <1>2, <1>3, <1>11 DEF StoreConnection
<1>. QED
  BY <1>4, <1>5, <1>6, <1>7, <1>8, <1>9, <1>10, <1>11 DEF StoringStep

\* A step without setXSetting on the stack, before or after, keeps the partition if the
\* settings it leaves keep their tuples.
LEMMA PartitionStays ==
    ASSUME PartitionInv,
           \A f \in Range(todo) : f.op # "insertTyped",
           \A f \in Range(todo') : f.op # "insertTyped",
           rows' \cap Settings \subseteq rows,
           \A t \in typed : t.key \in rows' => t \in typed'
    PROVE  PartitionInv'
  BY DEF PartitionInv

\* setXSetting: the Setting, whose old tuple goes, and the new tuple.
LEMMA SettingStepsPartition ==
    ASSUME Integrity, PartitionInv, ~StaleIds, SetSetting \/ StoreTyped
    PROVE  PartitionInv'
<1>1. CASE SetSetting
  <2>1. PICK k \in Settings, kind \in Kinds, r \in IdObjects \cup {NoRef} :
           /\ r = NoRef \/ r \in rows
           /\ rows'  = rows \cup {k}
           /\ typed' = {t \in typed : t.key # k}
           /\ todo'  = <<InsertTyped([key |-> k, kind |-> kind, ref |-> r])>>
    BY <1>1 DEF SetSetting
  <2>. DEFINE f == InsertTyped([key |-> k, kind |-> kind, ref |-> r])
  <2>2. f.op = "insertTyped" /\ f.tuple.key = k /\ f.tuple.ref = r /\ todo' = <<f>>
    BY <2>1 DEF InsertTyped
  <2>. HIDE DEF f
  <2>3. Range(todo') = {f}
    BY <2>2 DEF Range
  <2>4. \A j \in rows \cap Settings : \E t \in typed : t.key = j
    BY <1>1, NoFrames DEF SetSetting, Idle, PartitionInv
  <2>. QED
    BY <2>1, <2>2, <2>3, <2>4 DEF PartitionInv
<1>2. CASE StoreTyped
  <2>. DEFINE t == Head(todo).tuple
  <2>0. TypeOK
    BY DEF Integrity
  <2>1. /\ Pending("insertTyped") /\ todo # <<>> /\ Head(todo).op = "insertTyped"
        /\ typed' = {u \in typed : u.key # t.key \/ u.kind # t.kind} \cup {t}
        /\ Tell(t.key, "Modified", Tail(todo)) /\ UNCHANGED rows
    BY <1>2 DEF StoreTyped, Pending
  <2>2. Head(todo) \in Range(todo) /\ t.key \in Objects /\ Tail(todo) \in Seq(Frames)
    <3>1. t \in TypedTuples /\ Tail(todo) \in Seq(Frames)
      BY <2>0, <2>1, HeadTyped, FrameFields
    <3>. QED
      BY <2>0, <2>1, <3>1, PoppedFrames, RowsAreObjects DEF TypedTuples, TypeOK
  <2>3. Range(todo) = {Head(todo)} /\ Range(Tail(todo)) = {}
    BY <2>1, <2>2, TypedIsAlone
  <2>4. Range(todo') = {Slots(t.key, "Modified")}
    BY <2>1, <2>2, <2>3, ToldFrames
  <2>5. \A f \in Range(todo') : f.op # "insertTyped"
    BY <2>4 DEF Slots
  <2>6. \A k \in rows \cap Settings : (\E u \in typed : u.key = k) \/ k = t.key
    BY <2>3 DEF PartitionInv
  <2>. HIDE DEF t
  <2>. QED
    BY <2>1, <2>5, <2>6 DEF PartitionInv
<1>. QED
  BY <1>1, <1>2

\* A kill is counted, and nothing else is.
LEMMA KillsAreCounted ==
    ASSUME FeedInv, [Next]_vars
    PROVE  crashes' = 0 => crashes = 0
<1>1. Integrity /\ StackInv /\ crashes \in Nat
  BY DEF FeedInv, Integrity, TypeOK
<1>2. CASE StoringStep
  BY <1>1, <1>2, StoringStepsStore DEF StoreShape
<1>3. CASE (\E o \in Objects : Delete(o)) \/ DrainMonitor \/ Deliver \/ SlotsReturn
  BY <1>3 DEF Delete, DrainMonitor, Deliver, SlotsReturn
<1>4. CASE ForeignKeyFails \/ StoreConnectionRefused \/ Crash \/ Restart
  BY <1>1, <1>4 DEF ForeignKeyFails, StoreConnectionRefused, Crash, Restart
<1>5. CASE UNCHANGED vars
  BY <1>5 DEF vars
<1>. QED
  BY <1>2, <1>3, <1>4, <1>5, StepsAre

PartInv == FeedInv /\ (crashes = 0 /\ ~StaleIds => PartitionInv)

\* Every step keeps the partition.
LEMMA NextPartition == PartInv /\ [Next]_vars => PartInv'
<1>. SUFFICES ASSUME FeedInv, FeedInv', [Next]_vars, ~StaleIds, crashes = 0, crashes' = 0, PartitionInv
              PROVE  PartitionInv'
  BY NextFeed, KillsAreCounted DEF PartInv
<1>0. Integrity /\ StackInv /\ TypeOK
  BY DEF FeedInv, Integrity
<1>1. CASE SetSetting \/ StoreTyped
  BY <1>0, <1>1, SettingStepsPartition
<1>2. CASE StoringStep /\ ~SetSetting /\ ~StoreTyped
  <2>1. StoreShape /\ rows' \cap Settings \subseteq rows /\ typed' = typed
    BY <1>0, <1>2, StoringStepsStore, OthersStoreNoSetting
  <2>2. ASSUME NEW f \in Range(todo), f.op = "insertTyped" PROVE FALSE
    <3>1. Head(todo).op = "insertTyped" /\ todo # <<>>
      BY <1>0, <2>2, TypedIsAlone
    <3>. QED
      BY <1>2, <3>1
      DEF StoringStep, StoreCertificate, StoreKey, StoreLayout, SetKV, StoreAppCertKey, StoreAppCert,
          StoreConnection, ClearRevokedList, StoreListed, AnnounceConnection, Idle, Pending
  <2>3. \A f \in Range(todo') : f.op # "insertTyped"
    BY <1>2, <2>1, <2>2 DEF StoreShape
  <2>. QED
    BY <2>1, <2>2, <2>3, PartitionStays
<1>3. CASE (\E o \in Objects : Delete(o)) \/ DrainMonitor \/ Deliver \/ SlotsReturn
  <2>1. ASSUME NEW f \in Range(todo), f.op = "insertTyped" PROVE FALSE
    <3>1. Head(todo).op = "insertTyped" /\ todo # <<>>
      BY <1>0, <2>1, TypedIsAlone
    <3>. QED
      BY <1>3, <3>1 DEF Delete, DrainMonitor, Deliver, SlotsReturn, SlotMayCall, Idle, Pending
  <2>2. \A f \in Range(todo') : f.op # "insertTyped"
    BY <1>0, <1>3, <2>1, FramesOfDeletionSteps DEF Deleting
  <2>3. rows' \subseteq rows /\ \A t \in typed : t.key \in rows' => t \in typed'
    BY <1>3 DEF Delete, DeleteRows, DrainMonitor, Deliver, SlotsReturn
  <2>. QED
    BY <2>1, <2>2, <2>3, PartitionStays
<1>4. CASE ForeignKeyFails \/ StoreConnectionRefused
  <2>1. todo' = <<>> /\ UNCHANGED <<rows, typed>>
    BY <1>4 DEF ForeignKeyFails, StoreConnectionRefused, Stop
  <2>2. ASSUME NEW f \in Range(todo), f.op = "insertTyped" PROVE FALSE
    <3>1. Head(todo) = f /\ todo # <<>>
      BY <1>0, <2>2, TypedIsAlone
    <3>2. f.tuple.ref \in rows \cup {NoRef}
      BY <2>2 DEF PartitionInv
    <3>. QED
      BY <1>4, <2>2, <3>1, <3>2 DEF ForeignKeyFails, StoreConnectionRefused, Idle, Pending
  <2>3. \A f \in Range(todo') : f.op # "insertTyped"
    BY <2>1, NoFrames
  <2>. QED
    BY <2>1, <2>2, <2>3, PartitionStays
<1>5. CASE Crash
  BY <1>5 DEF Crash
<1>6. CASE Restart \/ UNCHANGED vars
  <2>1. UNCHANGED <<rows, typed, todo>>
    BY <1>6 DEF Restart, vars
  <2>. QED
    BY <2>1 DEF PartitionInv
<1>. QED
  BY <1>1, <1>2, <1>3, <1>4, <1>5, <1>6, StepsAre

\* `Settings are implemented as a total partition': as long as no process is killed and
\* callers name rows that are there, every Setting has its value between two calls, for
\* every sequence of settings, types and deletions.
THEOREM SettingsHaveAValue == Spec => [](crashes = 0 /\ ~StaleIds => TotalPartition)
<1>1. Init => PartInv
  <2>1. Init => PartitionInv
    BY NoFrames DEF Init, PartitionInv
  <2>. QED
    BY <2>1, InitFeed DEF PartInv
<1>2. PartInv => (crashes = 0 /\ ~StaleIds => TotalPartition)
  BY NoFrames DEF PartInv, PartitionInv, TotalPartition, Idle
<1>. QED
  BY <1>1, <1>2, NextPartition, PTL DEF Spec

-----------------------------------------------------------------------------
(* The lists of a new connection.                                          *)

\* What is on the stack after the row of a connection has been stored.
LEMMA ListFrames ==
    ASSUME NEW h, NEW T, NEW R
    PROVE  /\ ClearRevoked(h).op = "clearRevoked" /\ ClearRevoked(h).connection = h
           /\ \A l, C : /\ InsertListed(l, h, C).op = "insertListed"
                        /\ InsertListed(l, h, C).list = l
                        /\ InsertListed(l, h, C).connection = h
                        /\ InsertListed(l, h, C).certificates = C
           /\ Announce(h, T, R).op = "announce" /\ Announce(h, T, R).connection = h
           /\ Announce(h, T, R).trust = T /\ Announce(h, T, R).revoked = R
  BY DEF ClearRevoked, InsertListed, Announce

\* Head and rest of the stacks that StoringLists speaks of.
LEMMA ShortStacks ==
    ASSUME NEW a, NEW b, NEW c, NEW d, NEW e
    PROVE  /\ Head(<<a, b, c, d, e>>) = a /\ Tail(<<a, b, c, d, e>>) = <<b, c, d, e>>
           /\ Head(<<b, c, d, e>>) = b /\ Tail(<<b, c, d, e>>) = <<c, d, e>>
           /\ Head(<<c, d, e>>) = c /\ Tail(<<c, d, e>>) = <<d, e>>
           /\ Head(<<d, e>>) = d /\ Tail(<<d, e>>) = <<e>>
           /\ Head(<<e>>) = e /\ Tail(<<e>>) = <<>>
           /\ <<a, b, c, d, e>> # <<>> /\ <<b, c, d, e>> # <<>> /\ <<c, d, e>> # <<>>
           /\ <<d, e>> # <<>> /\ <<e>> # <<>>
  OBVIOUS

\* A frame that is pushed back onto what is left of them.
LEMMA PushedOnto ==
    ASSUME NEW S, NEW f \in S, NEW s \in Seq(S)
    PROVE  /\ <<f>> \o s \in Seq(S) /\ Len(<<f>> \o s) = Len(s) + 1
           /\ (<<f>> \o s)[1] = f /\ \A i \in 1..Len(s) : (<<f>> \o s)[i + 1] = s[i]
  OBVIOUS

LEMMA ShortConcatenations ==
    ASSUME NEW b, NEW c, NEW d, NEW e
    PROVE  <<b>> \o <<c, d, e>> = <<b, c, d, e>> /\ <<d>> \o <<e>> = <<d, e>>
<1>. DEFINE S == {b, c, d, e}
            s1 == <<c, d, e>>
            t1 == <<b, c, d, e>>
            s2 == <<e>>
            t2 == <<d, e>>
<1>1. /\ s1 \in Seq(S) /\ Len(s1) = 3 /\ s1[1] = c /\ s1[2] = d /\ s1[3] = e
      /\ t1 \in Seq(S) /\ Len(t1) = 4 /\ t1[1] = b /\ t1[2] = c /\ t1[3] = d /\ t1[4] = e
      /\ s2 \in Seq(S) /\ Len(s2) = 1 /\ s2[1] = e
      /\ t2 \in Seq(S) /\ Len(t2) = 2 /\ t2[1] = d /\ t2[2] = e
      /\ b \in S /\ d \in S
  OBVIOUS
<1>. HIDE DEF S, s1, t1, s2, t2
<1>2. <<b>> \o s1 = t1
  <2>. DEFINE u == <<b>> \o s1
  <2>0. b \in S /\ s1 \in Seq(S)
    BY <1>1
  <2>1. u \in Seq(S) /\ Len(u) = Len(s1) + 1 /\ u[1] = b /\ \A i \in 1..Len(s1) : u[i + 1] = s1[i]
    BY <2>0, PushedOnto
  <2>. HIDE DEF u
  <2>2. Len(u) = 4 /\ u[1 + 1] = c /\ u[2 + 1] = d /\ u[3 + 1] = e
    BY <1>1, <2>1
  <2>3. \A i \in 1..4 : i = 1 \/ i = 2 \/ i = 3 \/ i = 4
    OBVIOUS
  <2>4. \A i \in 1..Len(u) : u[i] = t1[i]
    BY <1>1, <2>1, <2>2, <2>3
  <2>5. u \in Seq(S) /\ t1 \in Seq(S) /\ Len(u) = Len(t1)
    BY <1>1, <2>1, <2>2
  <2>6. u = t1
    BY <2>4, <2>5, SeqEqual
  <2>. QED
    BY <2>6 DEF u
<1>3. <<d>> \o s2 = t2
  <2>. DEFINE u == <<d>> \o s2
  <2>0. d \in S /\ s2 \in Seq(S)
    BY <1>1
  <2>1. u \in Seq(S) /\ Len(u) = Len(s2) + 1 /\ u[1] = d /\ \A i \in 1..Len(s2) : u[i + 1] = s2[i]
    BY <2>0, PushedOnto
  <2>. HIDE DEF u
  <2>2. Len(u) = 2 /\ u[1 + 1] = e
    BY <1>1, <2>1
  <2>3. \A i \in 1..2 : i = 1 \/ i = 2
    OBVIOUS
  <2>4. \A i \in 1..Len(u) : u[i] = t2[i]
    BY <1>1, <2>1, <2>2, <2>3
  <2>5. u \in Seq(S) /\ t2 \in Seq(S) /\ Len(u) = Len(t2)
    BY <1>1, <2>1, <2>2
  <2>6. u = t2
    BY <2>4, <2>5, SeqEqual
  <2>. QED
    BY <2>6 DEF u
<1>. QED
  BY <1>2, <1>3 DEF s1, t1, s2, t2

\* Only the statements on the lists, and the signal, come while a list is stored.
LEMMA ListingHead ==
    ASSUME ListsInv, NEW f \in Range(todo), f.op = "announce"
    PROVE  todo # <<>> /\ Head(todo).op \in {"clearRevoked", "insertListed", "announce"}
<1>1. PICK h \in Connections, T \in SUBSET Certificates, R \in SUBSET Certificates :
           StoringLists(h, T, R)
  BY DEF ListsInv
<1>. QED
  BY <1>1, ListFrames, ShortStacks DEF StoringLists

\* The id of a new connection is none that a row has, and so none that a list has.
LEMMA NewConnectionHasNoLists ==
    ASSUME Integrity, NEW i \in 1..MaxRowid["HistoricServerConnection"],
           IsNextRowid("HistoricServerConnection", i), NEW l
    PROVE  ListsOf(Row("HistoricServerConnection", i), l) = {}
<1>1. /\ Row("HistoricServerConnection", i).rel = "HistoricServerConnection"
      /\ Row("HistoricServerConnection", i).id = i /\ i \in Int
  BY DEF Row
<1>2. Row("HistoricServerConnection", i) \notin rows
  BY <1>1 DEF IsNextRowid, IdsOf
<1>3. \A m \in listed : m.connection \in rows
  BY DEF Integrity, ReferentialIntegrity
<1>. QED
  BY <1>2, <1>3 DEF ListsOf

\* Each of the two lists starts by deleting the revoked list.
LEMMA ClearingKeepsLists ==
    ASSUME NEW h \in Connections, NEW T \in SUBSET Certificates, NEW R \in SUBSET Certificates,
           StoringLists(h, T, R), ClearRevokedList
    PROVE  StoringLists(h, T, R)'
<1>. DEFINE f1 == ClearRevoked(h)
            f2 == InsertListed("trust", h, T)
            f3 == InsertListed("revoked", h, R)
            f4 == Announce(h, T, R)
<1>1. Head(todo).op = "clearRevoked" /\ todo' = Tail(todo)
      /\ listed' = {l \in listed : ~(l.list = "revoked" /\ l.connection = Head(todo).connection)}
  BY DEF ClearRevokedList, Pending
<1>2. ASSUME Head(todo) = f1
      PROVE  ListsOf(h, "trust")' = ListsOf(h, "trust") /\ ListsOf(h, "revoked")' = {}
  <2>0. Head(todo).connection = h
    BY <1>2, ListFrames
  <2>1. listed' = {l \in listed : ~(l.list = "revoked" /\ l.connection = h)}
    BY <1>1, <2>0
  <2>2. ListsOf(h, "revoked")' = {}
    BY <2>1 DEF ListsOf
  <2>3. \A l : l \in listed' /\ l.list = "trust" <=> l \in listed /\ l.list = "trust"
    BY <2>1
  <2>4. ListsOf(h, "trust")' = ListsOf(h, "trust")
    BY <2>3 DEF ListsOf
  <2>. QED
    BY <2>2, <2>4
<1>3. CASE /\ ListsOf(h, "trust") = {} /\ ListsOf(h, "revoked") = {}
           /\ todo = <<f1, f2, f1, f3, f4>>
  <2>1. Head(todo) = f1 /\ todo' = <<f2, f1, f3, f4>>
    BY <1>1, <1>3, ShortStacks
  <2>2. ListsOf(h, "trust")' = {} /\ ListsOf(h, "revoked")' = {}
    BY <1>2, <1>3, <2>1
  <2>3. ListsOf(h, "trust")' \cup T = T
    BY <2>2
  <2>. QED
    BY <2>1, <2>2, <2>3 DEF StoringLists, ListsOf
<1>4. CASE ListsOf(h, "trust") = T /\ ListsOf(h, "revoked") = {} /\ todo = <<f1, f3, f4>>
  <2>1. Head(todo) = f1 /\ todo' = <<f3, f4>>
    BY <1>1, <1>4, ShortStacks
  <2>2. ListsOf(h, "trust")' = T /\ ListsOf(h, "revoked")' = {}
    BY <1>2, <1>4, <2>1
  <2>3. ListsOf(h, "revoked")' \cup R = R
    BY <2>2
  <2>. QED
    BY <2>1, <2>2, <2>3 DEF StoringLists, ListsOf
<1>5. f2.op # "clearRevoked" /\ f3.op # "clearRevoked" /\ f4.op # "clearRevoked"
      /\ \A l, C : InsertListed(l, h, C).op # "clearRevoked"
  BY ListFrames
<1>. QED
  BY <1>1, <1>3, <1>4, <1>5, ShortStacks, SMTT(30) DEF StoringLists

\* One certificate is listed, or the list is complete.
LEMMA ListingKeepsLists ==
    ASSUME NEW h \in Connections, NEW T \in SUBSET Certificates, NEW R \in SUBSET Certificates,
           StoringLists(h, T, R), StoreListed
    PROVE  StoringLists(h, T, R)'
<1>. DEFINE f1 == ClearRevoked(h)
            f3 == InsertListed("revoked", h, R)
            f4 == Announce(h, T, R)
<1>1. Head(todo).op = "insertListed"
  BY DEF StoreListed, Pending
<1>2. ASSUME NEW l \in {"trust", "revoked"}, NEW C, NEW c, Head(todo) = InsertListed(l, h, C),
             listed' = listed \cup {[list |-> Head(todo).list, connection |-> Head(todo).connection,
                                     certificate |-> c]}
      PROVE  \A k \in {"trust", "revoked"} :
                 ListsOf(h, k)' = IF k = l THEN ListsOf(h, k) \cup {c} ELSE ListsOf(h, k)
  <2>1. Head(todo).list = l /\ Head(todo).connection = h
    BY <1>2, ListFrames
  <2>. DEFINE m == [list |-> l, connection |-> h, certificate |-> c]
  <2>2. m.list = l /\ m.connection = h /\ m.certificate = c /\ listed' = listed \cup {m}
    BY <1>2, <2>1
  <2>. HIDE DEF m
  <2>. QED
    BY <2>2 DEF ListsOf
<1>3. ASSUME NEW T1 \in SUBSET Certificates, ListsOf(h, "revoked") = {},
             ListsOf(h, "trust") \cup T1 = T, todo = <<InsertListed("trust", h, T1), f1, f3, f4>>
      PROVE  StoringLists(h, T, R)'
  <2>. DEFINE g == InsertListed("trust", h, T1)
  <2>1. Head(todo) = g /\ Tail(todo) = <<f1, f3, f4>> /\ g.certificates = T1 /\ g.list = "trust"
        /\ g.connection = h
    BY <1>3, ListFrames, ShortStacks
  <2>2. CASE T1 = {} /\ todo' = Tail(todo) /\ UNCHANGED listed
    BY <1>3, <2>1, <2>2 DEF StoringLists, ListsOf
  <2>3. ASSUME NEW c \in T1,
               listed' = listed \cup {[list |-> Head(todo).list, connection |-> Head(todo).connection,
                                       certificate |-> c]},
               todo' = <<InsertListed("trust", h, T1 \ {c})>> \o Tail(todo)
        PROVE  StoringLists(h, T, R)'
    <3>0. \A k \in {"trust", "revoked"} :
              ListsOf(h, k)' = IF k = "trust" THEN ListsOf(h, k) \cup {c} ELSE ListsOf(h, k)
      BY <1>2, <2>1, <2>3
    <3>1. ListsOf(h, "trust")' = ListsOf(h, "trust") \cup {c} /\ ListsOf(h, "revoked")' = {}
      BY <1>3, <3>0
    <3>2. ListsOf(h, "trust")' \cup (T1 \ {c}) = T /\ T1 \ {c} \in SUBSET Certificates
      BY <1>3, <3>1
    <3>3. todo' = <<InsertListed("trust", h, T1 \ {c}), f1, f3, f4>>
      <4>. HIDE DEF f1, f3, f4, g
      <4>. DEFINE g2 == InsertListed("trust", h, T1 \ {c})
      <4>1. todo' = <<g2>> \o <<f1, f3, f4>>
        BY <2>1, <2>3
      <4>. HIDE DEF g2
      <4>2. todo' = <<g2, f1, f3, f4>>
        BY <4>1, ShortConcatenations, ZenonT(60)
      <4>. QED
        BY <4>2 DEF g2
    <3>4. \E T2 \in SUBSET Certificates :
             /\ ListsOf(h, "trust")' \cup T2 = T
             /\ todo' = <<InsertListed("trust", h, T2), f1, f3, f4>>
      BY <3>2, <3>3
    <3>5. ListsOf(h, "revoked")' = {}
      BY <3>1
    <3>. HIDE DEF g
    <3>. QED
      BY <3>4, <3>5, Zenon DEF StoringLists
  <2>. QED
    BY <2>1, <2>2, <2>3 DEF StoreListed
<1>4. ASSUME NEW R1 \in SUBSET Certificates, ListsOf(h, "trust") = T,
             ListsOf(h, "revoked") \cup R1 = R, todo = <<InsertListed("revoked", h, R1), f4>>
      PROVE  StoringLists(h, T, R)'
  <2>. DEFINE g == InsertListed("revoked", h, R1)
  <2>1. Head(todo) = g /\ Tail(todo) = <<f4>> /\ g.certificates = R1 /\ g.list = "revoked"
        /\ g.connection = h
    BY <1>4, ListFrames, ShortStacks
  <2>2. CASE R1 = {} /\ todo' = Tail(todo) /\ UNCHANGED listed
    BY <1>4, <2>1, <2>2 DEF StoringLists, ListsOf
  <2>3. ASSUME NEW c \in R1,
               listed' = listed \cup {[list |-> Head(todo).list, connection |-> Head(todo).connection,
                                       certificate |-> c]},
               todo' = <<InsertListed("revoked", h, R1 \ {c})>> \o Tail(todo)
        PROVE  StoringLists(h, T, R)'
    <3>0. \A k \in {"trust", "revoked"} :
              ListsOf(h, k)' = IF k = "revoked" THEN ListsOf(h, k) \cup {c} ELSE ListsOf(h, k)
      BY <1>2, <2>1, <2>3
    <3>1. ListsOf(h, "revoked")' = ListsOf(h, "revoked") \cup {c} /\ ListsOf(h, "trust")' = T
      BY <1>4, <3>0
    <3>2. ListsOf(h, "revoked")' \cup (R1 \ {c}) = R /\ R1 \ {c} \in SUBSET Certificates
      BY <1>4, <3>1
    <3>3. todo' = <<InsertListed("revoked", h, R1 \ {c}), f4>>
      BY <2>1, <2>3, ShortConcatenations
    <3>. QED
      BY <3>1, <3>2, <3>3 DEF StoringLists
  <2>. QED
    BY <2>1, <2>2, <2>3 DEF StoreListed
<1>5. f1.op # "insertListed" /\ f4.op # "insertListed"
  BY ListFrames
<1>. QED
  BY <1>1, <1>3, <1>4, <1>5, ShortStacks DEF StoringLists

\* Storing the row of a connection begins its lists.
LEMMA StoreConnectionBeginsLists ==
    ASSUME Integrity, StoreConnection
    PROVE  ListsInv'
<1>1. PICK i \in 1..MaxRowid["HistoricServerConnection"],
           T \in SUBSET Choosable, R \in SUBSET Choosable :
        /\ IsNextRowid("HistoricServerConnection", i)
        /\ todo' = <<ClearRevoked(Row("HistoricServerConnection", i)),
                     InsertListed("trust", Row("HistoricServerConnection", i), T),
                     ClearRevoked(Row("HistoricServerConnection", i)),
                     InsertListed("revoked", Row("HistoricServerConnection", i), R),
                     Announce(Row("HistoricServerConnection", i), T, R)>>
  BY DEF StoreConnection
<1>. DEFINE h == Row("HistoricServerConnection", i)
<1>2. h \in Connections /\ T \in SUBSET Certificates /\ R \in SUBSET Certificates
  BY DEF Connections, Choosable
<1>3. \A l : ListsOf(h, l) = {}
  BY <1>1, NewConnectionHasNoLists
<1>4. listed' = listed
  BY DEF StoreConnection, InsertRow
<1>5. ListsOf(h, "trust")' = {} /\ ListsOf(h, "revoked")' = {}
  <2>1. \A l : ListsOf(h, l)' = ListsOf(h, l)
    BY <1>4 DEF ListsOf
  <2>. QED
    BY <1>3, <2>1
<1>6. todo' = <<ClearRevoked(h), InsertListed("trust", h, T),
                ClearRevoked(h), InsertListed("revoked", h, R), Announce(h, T, R)>>
  BY <1>1
<1>. HIDE DEF h
<1>7. StoringLists(h, T, R)'
  BY <1>5, <1>6 DEF StoringLists
<1>. QED
  BY <1>2, <1>7 DEF ListsInv

\* Every step keeps the lists that are being stored.
LEMMA NextLists == FeedInv /\ ListsInv /\ [Next]_vars => ListsInv'
<1>. SUFFICES ASSUME FeedInv, ListsInv, [Next]_vars PROVE ListsInv'
  OBVIOUS
<1>0. Integrity /\ StackInv /\ TypeOK
  BY DEF FeedInv, Integrity
<1>. DEFINE Listing == \E f \in Range(todo) : f.op = "announce"
<1>1. Listing => todo # <<>> /\ Head(todo).op \in {"clearRevoked", "insertListed", "announce"}
  BY ListingHead
<1>2. CASE StoreConnection
  BY <1>0, <1>2, StoreConnectionBeginsLists
<1>3. CASE StoringStep /\ ~StoreConnection /\ ~Listing
  <2>1. StoreShape
    BY <1>0, <1>3, StoringStepsStore
  <2>2. \A f \in Range(todo') : f.op # "announce"
    BY <1>3, <2>1 DEF StoreShape
  <2>. QED
    BY <2>2 DEF ListsInv
<1>4. CASE StoringStep /\ ~StoreConnection /\ Listing
  <2>1. PICK h \in Connections, T \in SUBSET Certificates, R \in SUBSET Certificates :
            StoringLists(h, T, R)
    BY <1>4 DEF ListsInv
  <2>2. CASE ClearRevokedList
    BY <2>1, <2>2, ClearingKeepsLists DEF ListsInv
  <2>3. CASE StoreListed
    BY <2>1, <2>3, ListingKeepsLists DEF ListsInv
  <2>4. CASE AnnounceConnection
    <3>1. Head(todo).op = "announce" /\ todo # <<>> /\ Tell(Head(todo).connection, "Created", Tail(todo))
      BY <2>4 DEF AnnounceConnection, Pending
    <3>2. todo = <<Announce(h, T, R)>>
      BY <2>1, <3>1, ListFrames, ShortStacks DEF StoringLists
    <3>3. Tail(todo) = <<>> /\ Head(todo).connection = h
      BY <3>2, ListFrames, ShortStacks
    <3>4. todo' = <<Slots(h, "Created")>> \o <<>>
      BY <3>1, <3>3 DEF Tell
    <3>5. Range(<<>>) = {} /\ <<>> \in Seq(Frames) /\ Slots(h, "Created") \in Frames
      BY NoFrames DEF Slots, Frames, Objects, IdObjects
    <3>6. Range(todo') = {Slots(h, "Created")}
      BY <3>4, <3>5, PushedFrames
    <3>7. \A f \in Range(todo') : f.op # "announce"
      BY <3>6 DEF Slots
    <3>. QED
      BY <3>7 DEF ListsInv
  <2>5. ~(StoreCertificate \/ StoreKey \/ StoreLayout \/ SetKV \/ StoreAppCertKey
          \/ StoreAppCert \/ SetSetting \/ StoreTyped)
    BY <1>1, <1>4
    DEF StoreCertificate, StoreKey, StoreLayout, SetKV, StoreAppCertKey, StoreAppCert, SetSetting,
        StoreTyped, Idle, Pending
  <2>. QED
    BY <1>4, <2>2, <2>3, <2>4, <2>5 DEF StoringStep
<1>5. CASE (\E o \in Objects : Delete(o)) \/ DrainMonitor \/ Deliver \/ SlotsReturn
  <2>1. ~Listing
    BY <1>1, <1>5 DEF Delete, DrainMonitor, Deliver, SlotsReturn, SlotMayCall, Idle, Pending
  <2>2. \A f \in Range(todo') : f.op # "announce"
    BY <1>0, <1>5, <2>1, FramesOfDeletionSteps DEF Deleting
  <2>. QED
    BY <2>2 DEF ListsInv
<1>6. CASE ForeignKeyFails \/ StoreConnectionRefused \/ Crash
  <2>1. Range(todo') = {}
    BY <1>6, NoFrames DEF ForeignKeyFails, StoreConnectionRefused, Crash, Stop
  <2>. QED
    BY <2>1 DEF ListsInv
<1>7. CASE Restart \/ UNCHANGED vars
  <2>1. listed' = listed /\ todo' = todo
    BY <1>7 DEF Restart, vars
  <2>2. \A h, l : ListsOf(h, l)' = ListsOf(h, l)
    BY <2>1 DEF ListsOf
  <2>3. \A h \in Connections, T \in SUBSET Certificates, R \in SUBSET Certificates :
            StoringLists(h, T, R) => StoringLists(h, T, R)'
    <3>. TAKE h \in Connections, T \in SUBSET Certificates, R \in SUBSET Certificates
    <3>1. /\ ListsOf(h, "trust")' = ListsOf(h, "trust")
          /\ ListsOf(h, "revoked")' = ListsOf(h, "revoked")
      BY <2>2
    <3>. QED
      BY <2>1, <3>1 DEF StoringLists
  <2>. QED
    BY <2>1, <2>3 DEF ListsInv
<1>. QED
  BY <1>2, <1>3, <1>4, <1>5, <1>6, <1>7, StepsAre

\* A connection is announced with exactly the two lists that its caller passed, whatever
\* was killed before and whatever had the id of the connection before it: although each
\* list is stored by deleting the revoked one first (setHistoricServerConnectionTrustList).
THEOREM ConnectionsComeWithTheirLists == Spec => []AnnouncedWithItsLists
<1>1. Init => ListsInv
  BY NoFrames DEF Init, ListsInv
<1>2. FeedInv /\ ListsInv => AnnouncedWithItsLists
  <2>. SUFFICES ASSUME FeedInv, ListsInv, Pending("announce")
                PROVE  /\ ListsOf(Head(todo).connection, "trust") = Head(todo).trust
                       /\ ListsOf(Head(todo).connection, "revoked") = Head(todo).revoked
    BY DEF AnnouncedWithItsLists
  <2>1. todo \in Seq(Frames) /\ todo # <<>> /\ Head(todo).op = "announce"
    BY DEF FeedInv, Integrity, TypeOK, Pending
  <2>2. Head(todo) \in Range(todo)
    BY <2>1, PoppedFrames
  <2>3. PICK h \in Connections, T \in SUBSET Certificates, R \in SUBSET Certificates :
            StoringLists(h, T, R)
    BY <2>1, <2>2 DEF ListsInv
  <2>. QED
    BY <2>1, <2>3, ListFrames, ShortStacks DEF StoringLists
<1>3. (Init => FeedInv) /\ (FeedInv /\ [Next]_vars => FeedInv')
  BY InitFeed, NextFeed
<1>. QED
  BY <1>1, <1>2, <1>3, NextLists, PTL DEF Spec

=============================================================================
