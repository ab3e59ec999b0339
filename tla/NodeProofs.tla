------------------------------ MODULE NodeProofs ------------------------------
(* What the caches and subscriptions of NodeView promise, for any nodes,   *)
(* children and bounds.                                                    *)
EXTENDS NodeView, FiniteSetTheorems, TLAPS

\* The leaves that are being added were reached, and nobody removes rows then.
AddingOK ==
    adding # Nothing =>
        /\ adding \in Additions
        /\ \A i \in DOMAIN adding.left : life[adding.left[i]] = "alive"

\* Only objects that were made are subscribed.
SubscribedAreMade == \A s \in DOMAIN subs : life[subs[s].on] # "none"

NodeInv ==
    /\ NodeTypeOK
    /\ AddingOK
    /\ SubscribedAreMade
    /\ CacheIsFresh
    /\ OneAttributeSubscription

-----------------------------------------------------------------------------
\* What selectNode reaches are objects, and finitely many.
LEMMA ReachIsFinite ==
    ASSUME NEW n \in Ids
    PROVE  Reach(n) \subseteq Objects /\ IsFiniteSet(Reach(n)) /\ Own(n) \in Objects
<1>1. Own(n) \in Objects /\ ChildObjects(n) \subseteq Objects
  BY DEF Objects
<1>2. Children[n] \subseteq Ids /\ IsFiniteSet(Ids)
  BY NodeViewAssumption DEF NodeViewAssumption
<1>3. IsFiniteSet(Children[n])
  BY <1>2, FS_Subset
<1>4. IsFiniteSet(ChildObjects(n))
  <2> DEFINE under == [c \in Children[n] |-> Object(c, n)]
  <2>1. under \in Surjection(Children[n], ChildObjects(n))
    BY DEF Surjection, ChildObjects
  <2> QED BY <1>3, <2>1, FS_Surjection
<1>5. IsFiniteSet({Own(n)})
  BY FS_Singleton
<1>6. IsFiniteSet(Reach(n))
  BY <1>4, <1>5, FS_Union DEF Reach
<1> QED BY <1>1, <1>6 DEF Reach

\* The order of the leaves leaves none out and adds none.
LEMMA InOrderIsASequence ==
    ASSUME NEW S, IsFiniteSet(S)
    PROVE  InOrder(S) \in Seq(S) /\ Members(InOrder(S)) = S
<1> DEFINE n == Cardinality(S)
<1>1. n \in Nat /\ ExistsBijection(1..n, S)
  BY FS_CardinalityType
<1>2. PICK f \in Bijection(1..n, S) : TRUE
  BY <1>1, Zenon DEF ExistsBijection
<1>3. f \in [1..n -> S] /\ Members(f) = S
  BY <1>2 DEF Bijection, Injection, Surjection, Members
<1>4. InOrder(S) \in [1..n -> S] /\ Members(InOrder(S)) = S
  BY <1>3, Zenon DEF InOrder
<1> QED BY <1>1, <1>4

\* Every subscription is a record, of an object.
LEMMA SubsAreRecords ==
    ASSUME NodeTypeOK, NEW s \in DOMAIN subs
    PROVE  subs[s] \in SubscriptionRecords /\ subs[s].on \in Objects
<1>1. subs[s] \in SubscriptionRecords
  BY DEF NodeTypeOK
<1> QED BY <1>1 DEF SubscriptionRecords

\* Subscriptions that change but stay records are a sequence of them.
LEMMA SubsStayRecords ==
    ASSUME NodeTypeOK, NEW f, f = [s \in DOMAIN subs |-> f[s]],
           \A s \in DOMAIN subs : f[s] \in SubscriptionRecords
    PROVE  f \in Seq(SubscriptionRecords) /\ DOMAIN f = DOMAIN subs
<1>1. subs \in Seq(SubscriptionRecords)
  BY DEF NodeTypeOK
<1>2. DOMAIN subs = 1..Len(subs) /\ Len(subs) \in Nat
  BY <1>1
<1>3. f \in [1..Len(subs) -> SubscriptionRecords]
  BY <1>2
<1> QED BY <1>2, <1>3

-----------------------------------------------------------------------------
USE DEF heap_vars, panel_vars, shown_vars, Additions

\* It holds at the start.
LEMMA NodeInitInv == NodeInit => NodeInv
<1> SUFFICES ASSUME NodeInit PROVE NodeInv
  OBVIOUS
<1> USE DEF NodeInit
<1>1. NodeTypeOK
  <2>1. /\ life \in [Objects -> {"none", "alive", "deleted"}]
        /\ cache \in [Objects -> {"unread", "current", "old"}]
    OBVIOUS
  <2>2. subs \in Seq(SubscriptionRecords) /\ browsed \subseteq Objects
    OBVIOUS
  <2>3. rows \in Seq(Objects) /\ tracked \in Seq(DOMAIN subs)
    OBVIOUS
  <2> QED BY <2>1, <2>2, <2>3 DEF NodeTypeOK
<1>2. AddingOK /\ SubscribedAreMade /\ CacheIsFresh /\ OneAttributeSubscription
  BY DEF AddingOK, SubscribedAreMade, CacheIsFresh, OneAttributeSubscription
<1> QED BY <1>1, <1>2 DEF NodeInv

\* A change of the server is news to every subscription that hears of it.
LEMMA ServerChangesInv ==
    ASSUME NodeInv, NEW n \in Ids, ServerChanges(n) PROVE NodeInv'
<1> USE DEF NodeInv, ServerChanges
<1>1. PICK sampled \in SUBSET Hearing(n) :
        subs' = [s \in DOMAIN subs |->
                    IF s \notin Hearing(n) THEN subs[s]
                    ELSE [subs[s] EXCEPT !.news = IF s \in sampled THEN "late"
                                                  ELSE IF @ = "none" THEN "new" ELSE @]]
  OBVIOUS
<1>2. DOMAIN subs' = DOMAIN subs /\ subs' \in Seq(SubscriptionRecords)
  <2>1. subs' = [s \in DOMAIN subs |-> subs'[s]]
    BY <1>1
  <2>2. ASSUME NEW s \in DOMAIN subs PROVE subs'[s] \in SubscriptionRecords
    <3>1. [subs[s] EXCEPT !.news = IF s \in sampled THEN "late"
                                   ELSE IF @ = "none" THEN "new" ELSE @] \in SubscriptionRecords
      BY SubsAreRecords DEF SubscriptionRecords
    <3> QED BY <1>1, <3>1, SubsAreRecords
  <2> QED BY <2>1, <2>2, SubsStayRecords
<1>3. \A s \in DOMAIN subs :
        /\ subs'[s].on = subs[s].on /\ subs'[s].owner = subs[s].owner
        /\ subs'[s].state = subs[s].state
        /\ s \in Hearing(n) => subs'[s].news # "none"
        /\ s \notin Hearing(n) => subs'[s] = subs[s]
  BY <1>1 DEF NodeTypeOK, SubscriptionRecords
<1>4. NodeTypeOK'
  BY <1>2 DEF NodeTypeOK
<1>5. AddingOK' /\ SubscribedAreMade'
  BY <1>2, <1>3 DEF AddingOK, SubscribedAreMade
<1>6. CacheIsFresh'
  <2> SUFFICES ASSUME NEW s \in DOMAIN subs, subs'[s].state # "gone", life[subs'[s].on] = "alive",
                      \A r \in DOMAIN subs : subs'[r].on = subs'[s].on => subs'[r].news = "none"
               PROVE  cache'[subs'[s].on] = "current"
    BY <1>2 DEF CacheIsFresh, AllTold, InForce
  <2>1. s \notin Hearing(n) /\ InForce(s)
    BY <1>2, <1>3 DEF AllTold, InForce
  <2>2. subs[s].on.of # n
    BY <2>1 DEF Hearing
  <2>3. AllTold(subs[s].on)
    BY <1>2, <1>3, <2>2 DEF AllTold, Hearing
  <2>4. cache[subs[s].on] = "current"
    BY <1>3, <2>1, <2>3 DEF CacheIsFresh
  <2> QED BY <1>3, <2>2, <2>4, SubsAreRecords
<1>7. OneAttributeSubscription'
  BY <1>2, <1>3 DEF OneAttributeSubscription
<1> QED BY <1>4, <1>5, <1>6, <1>7

\* A notification brings the newest, or another is still to come.
LEMMA NotifyInv ==
    ASSUME NodeInv, NEW t \in DOMAIN subs, Notify(t) PROVE NodeInv'
<1> USE DEF NodeInv, Notify
<1>1. /\ DOMAIN subs' = DOMAIN subs /\ subs' \in Seq(SubscriptionRecords)
      /\ subs[t].on \in Objects
  <2>1. subs' = [s \in DOMAIN subs |-> subs'[s]]
    BY DEF Delivered
  <2>2. \A s \in DOMAIN subs : subs'[s] \in SubscriptionRecords
    BY SubsAreRecords DEF SubscriptionRecords, Delivered
  <2> QED BY <2>1, <2>2, SubsStayRecords, SubsAreRecords
<1>2. \A s \in DOMAIN subs :
        /\ subs'[s].on = subs[s].on /\ subs'[s].owner = subs[s].owner
        /\ subs'[s].state = subs[s].state
        /\ s # t => subs'[s] = subs[s]
        /\ s = t /\ subs[t].news = "late" => subs'[s].news # "none"
  BY SubsAreRecords DEF SubscriptionRecords, Delivered
<1>3. NodeTypeOK'
  <2>1. cache' \in [Objects -> {"unread", "current", "old"}]
    BY <1>1 DEF NodeTypeOK, Cached
  <2>2. fault' \in {"none", "deletedNode", "deletedSubscription", "noRow", "noSubscription"}
    BY DEF NodeTypeOK
  <2> QED BY <1>1, <2>1, <2>2 DEF NodeTypeOK
<1>4. AddingOK' /\ SubscribedAreMade'
  BY <1>1, <1>2 DEF AddingOK, SubscribedAreMade
<1>5. CacheIsFresh'
  <2> SUFFICES ASSUME NEW s \in DOMAIN subs, subs'[s].state # "gone", life[subs'[s].on] = "alive",
                      \A r \in DOMAIN subs : subs'[r].on = subs'[s].on => subs'[r].news = "none"
               PROVE  cache'[subs'[s].on] = "current"
    BY <1>1 DEF CacheIsFresh, AllTold, InForce
  <2>1. CASE subs[s].on = subs[t].on
    <3>1. subs'[t].news = "none"
      BY <1>1, <1>2, <2>1 DEF AllTold
    <3>2. subs[t].news # "late"
      BY <1>2, <3>1
    <3> QED BY <1>1, <1>2, <2>1, <3>2 DEF Cached, NodeTypeOK
  <2>2. CASE subs[s].on # subs[t].on
    <3>1. AllTold(subs[s].on) /\ InForce(s)
      BY <1>1, <1>2, <2>2 DEF AllTold, InForce
    <3>2. cache[subs[s].on] = "current"
      BY <1>2, <3>1 DEF CacheIsFresh
    <3> QED BY <1>1, <1>2, <2>2, <3>2 DEF Cached, NodeTypeOK
  <2> QED BY <2>1, <2>2
<1>6. OneAttributeSubscription'
  BY <1>1, <1>2 DEF OneAttributeSubscription
<1> QED BY <1>3, <1>4, <1>5, <1>6

\* A deletion tells nothing, and what was to tell stays untold.
LEMMA DeleteDeferredInv ==
    ASSUME NodeInv, NEW t \in DOMAIN subs, DeleteDeferred(t) PROVE NodeInv'
<1> USE DEF NodeInv, DeleteDeferred
<1>1. DOMAIN subs' = DOMAIN subs /\ subs' \in Seq(SubscriptionRecords)
  <2>1. subs' = [s \in DOMAIN subs |-> subs'[s]]
    OBVIOUS
  <2>2. ASSUME NEW s \in DOMAIN subs PROVE subs'[s] \in SubscriptionRecords
    <3>1. [subs[s] EXCEPT !.state = "gone"] \in SubscriptionRecords
      BY SubsAreRecords DEF SubscriptionRecords
    <3>2. [[subs[t] EXCEPT !.state = "gone"] EXCEPT !.news = IF @ = "late" THEN "new" ELSE @]
            \in SubscriptionRecords
      BY SubsAreRecords DEF SubscriptionRecords
    <3> QED BY <3>1, <3>2, SubsAreRecords
  <2> QED BY <2>1, <2>2, SubsStayRecords
<1>2. \A s \in DOMAIN subs :
        /\ subs'[s].on = subs[s].on /\ subs'[s].owner = subs[s].owner
        /\ subs'[s].state = subs[s].state \/ subs'[s].state = "gone"
        /\ subs'[s].news = "none" => subs[s].news = "none"
  BY SubsAreRecords DEF SubscriptionRecords
<1>3. NodeTypeOK'
  BY <1>1 DEF NodeTypeOK
<1>4. AddingOK' /\ SubscribedAreMade'
  BY <1>1, <1>2 DEF AddingOK, SubscribedAreMade
<1>5. CacheIsFresh'
  BY <1>1, <1>2 DEF CacheIsFresh, AllTold, InForce
<1>6. OneAttributeSubscription'
  BY <1>1, <1>2 DEF OneAttributeSubscription
<1> QED BY <1>3, <1>4, <1>5, <1>6

\* A fault changes nothing but itself.
LEMMA FaultInv ==
    ASSUME NodeInv, NEW why \in {"deletedNode", "deletedSubscription", "noSubscription"}, Fails(why)
    PROVE  NodeInv'
BY DEF NodeInv, Fails, heap_vars, panel_vars, shown_vars, NodeTypeOK, AddingOK,
       SubscribedAreMade, CacheIsFresh, AllTold, InForce, OneAttributeSubscription

\* Painting reads what is not cached; what is subscribed is newer or the same.
LEMMA PaintInv ==
    ASSUME NodeInv, NEW o \in Displayed, Paint(o) PROVE NodeInv'
<1> USE DEF NodeInv, Paint
<1>1. o \in Objects
  BY DEF Displayed, NodeTypeOK, Members
<1>2. \A p \in Objects : cache'[p] = cache[p] \/ cache'[p] = "current"
  BY <1>1 DEF Cached, NodeTypeOK
<1>3. NodeTypeOK'
  <2>1. cache' \in [Objects -> {"unread", "current", "old"}]
    BY <1>1 DEF NodeTypeOK, Cached
  <2> QED BY <2>1 DEF NodeTypeOK
<1>4. AddingOK' /\ SubscribedAreMade' /\ OneAttributeSubscription'
  BY DEF AddingOK, SubscribedAreMade, OneAttributeSubscription
<1>5. CacheIsFresh'
  BY <1>2, SubsAreRecords DEF CacheIsFresh, AllTold, InForce
<1> QED BY <1>3, <1>4, <1>5

\* A new subscription begins with something to tell.
LEMMA NewSubscription ==
    ASSUME NodeTypeOK, NEW current \in Seq(SubscriptionRecords), NEW o \in Objects,
           NEW owner \in {"rows", "attributes"}, Subscribe(current, o, owner)
    PROVE  /\ subs' \in Seq(SubscriptionRecords)
           /\ Len(subs') = Len(current) + 1 /\ DOMAIN subs' = 1..Len(subs')
           /\ DOMAIN subs' = DOMAIN current \cup {Len(subs')}
           /\ \A s \in DOMAIN current : subs'[s] = current[s]
           /\ subs'[Len(subs')].on = o /\ subs'[Len(subs')].news = "new"
           /\ subs'[Len(subs')].owner = owner
<1> DEFINE sub == [on |-> o, owner |-> owner, state |-> "live", news |-> "new"]
<1>1. sub \in SubscriptionRecords
  BY DEF SubscriptionRecords
<1>2. subs' = Append(current, sub)
  BY DEF Subscribe
<1>3. sub.on = o /\ sub.news = "new" /\ sub.owner = owner
  OBVIOUS
<1> HIDE DEF sub
<1> QED BY <1>1, <1>2, <1>3

\* The leaves are alive, and each subscription is about one of them.
LEMMA SubscribeLeafInv ==
    ASSUME NodeInv, SubscribeLeaf PROVE NodeInv'
<1> USE DEF NodeInv
<1> DEFINE o == Head(adding.left)
<1>1. /\ adding \in Additions /\ adding.left # <<>>
      /\ \A i \in DOMAIN adding.left : life[adding.left[i]] = "alive"
  BY DEF SubscribeLeaf, LeavesLeft, AddingOK
<1>2. o \in Objects /\ life[o] = "alive"
  BY <1>1
<1>3. /\ Subscribe(subs, o, "rows")
      /\ tracked' = Append(tracked, Len(subs'))
      /\ adding' = [adding EXCEPT !.left = Tail(@)]
      /\ UNCHANGED <<life, cache, browsed, rows, shown, shown_sub, refused, fault>>
  BY DEF SubscribeLeaf
<1>4. subs \in Seq(SubscriptionRecords)
  BY DEF NodeTypeOK
<1> HIDE DEF o
<1>5. /\ subs' \in Seq(SubscriptionRecords)
      /\ DOMAIN subs' = DOMAIN subs \cup {Len(subs')}
      /\ \A s \in DOMAIN subs : subs'[s] = subs[s]
      /\ subs'[Len(subs')].on = o /\ subs'[Len(subs')].news = "new"
      /\ subs'[Len(subs')].owner = "rows"
  BY <1>2, <1>3, <1>4, NewSubscription
<1>6. NodeTypeOK'
  <2>1. tracked' \in Seq(DOMAIN subs')
    <3>1. tracked \in Seq(DOMAIN subs)
      BY DEF NodeTypeOK
    <3>2. DOMAIN subs \subseteq DOMAIN subs' /\ Len(subs') \in DOMAIN subs'
      BY <1>5
    <3> QED BY <1>3, <3>1, <3>2
  <2> QED BY <1>3, <1>5, <2>1 DEF NodeTypeOK
<1>7. AddingOK'
  <2>1. adding' \in Additions /\ adding'.left = Tail(adding.left)
    <3>1. adding.left \in Seq(Objects) /\ Tail(adding.left) \in Seq(Objects)
      BY <1>1
    <3> QED BY <1>1, <1>3, <3>1
  <2>2. \A i \in DOMAIN Tail(adding.left) : Tail(adding.left)[i] = adding.left[i + 1] /\ i + 1 \in DOMAIN adding.left
    BY <1>1
  <2> QED BY <1>1, <1>3, <2>1, <2>2 DEF AddingOK
<1>8. SubscribedAreMade'
  BY <1>2, <1>3, <1>5 DEF SubscribedAreMade
<1>9. CacheIsFresh'
  BY <1>3, <1>5, ZenonT(60) DEF CacheIsFresh, AllTold, InForce
<1>10. OneAttributeSubscription'
  BY <1>3, <1>5 DEF OneAttributeSubscription
<1> QED BY <1>6, <1>7, <1>8, <1>9, <1>10

\* What else appendNode does leaves objects and subscriptions alone.
LEMMA RestOfAppendInv ==
    ASSUME NodeInv, SubscribeRefused \/ InsertRows PROVE NodeInv'
<1> USE DEF NodeInv
<1>1. adding \in Additions
  BY DEF AddingOK, SubscribeRefused, InsertRows, LeavesLeft
<1>2. UNCHANGED <<heap_vars, tracked, shown_vars, fault>>
  BY DEF SubscribeRefused, InsertRows
<1>3. NodeTypeOK'
  <2>1. rows' \in Seq(Objects)
    <3>1. adding.leaves \in Seq(Objects) /\ rows \in Seq(Objects)
      BY <1>1 DEF NodeTypeOK
    <3>2. rows \o adding.leaves \in Seq(Objects)
      BY <3>1
    <3> QED BY <3>1, <3>2 DEF SubscribeRefused, InsertRows
  <2>2. refused' \in BOOLEAN
    BY DEF NodeTypeOK, SubscribeRefused, InsertRows
  <2> QED BY <1>2, <2>1, <2>2, Zenon DEF NodeTypeOK
<1>4. AddingOK'
  <2>1. CASE SubscribeRefused
    <3>1. adding' \in Additions /\ adding'.left = <<>>
      <4>1. <<>> \in Seq(Objects)
        OBVIOUS
      <4>2. adding' = [adding EXCEPT !.left = <<>>]
        BY <2>1 DEF SubscribeRefused
      <4> QED BY <1>1, <4>1, <4>2
    <3> QED BY <3>1 DEF AddingOK
  <2>2. CASE InsertRows
    BY <2>2 DEF InsertRows, AddingOK
  <2> QED BY <2>1, <2>2
<1>5. SubscribedAreMade' /\ CacheIsFresh' /\ OneAttributeSubscription'
  BY <1>2 DEF SubscribedAreMade, CacheIsFresh, AllTold, InForce, OneAttributeSubscription
<1> QED BY <1>3, <1>4, <1>5

\* What is selected comes alive, and with it what it may add.
LEMMA SelectNodeInv ==
    ASSUME NodeInv, NEW n \in Ids, SelectNode(n)
    PROVE  /\ NodeInv'
           /\ \A s \in DOMAIN subs : life'[subs[s].on] = "alive" => life[subs[s].on] = "alive"
<1> USE DEF NodeInv
<1> DEFINE Found(readable)  == IF Own(n) \in readable THEN readable ELSE {}
           Made(readable)   == IF Own(n) \in readable THEN Reach(n) ELSE {Own(n)}
           Leaves(readable) == InOrder({o \in Found(readable) : o.of \in Variables})
<1>1. PICK readable \in SUBSET Reach(n) :
        /\ browsed' = browsed \cup Found(readable)
        /\ life' = [o \in Objects |-> IF o \in Made(readable) THEN "alive" ELSE life[o]]
        /\ adding' = [leaves |-> Leaves(readable), left |-> Leaves(readable)]
  BY DEF SelectNode
<1>2. /\ UNCHANGED <<cache, subs, rows, tracked, shown, shown_sub, refused, fault>>
      /\ \A o \in Reach(n) : life[o] # "deleted"
  BY DEF SelectNode
<1> DEFINE found == Found(readable)
           made  == Made(readable)
           leaves == Leaves(readable)
<1>3. found \subseteq made /\ made \subseteq Reach(n) /\ Reach(n) \subseteq Objects
  BY ReachIsFinite DEF Reach
<1>4. leaves \in Seq(Objects) /\ \A i \in DOMAIN leaves : leaves[i] \in made
  <2> DEFINE S == {o \in found : o.of \in Variables}
  <2>1. S \subseteq made /\ S \subseteq Objects
    BY <1>3
  <2>2. IsFiniteSet(S)
    BY <1>3, ReachIsFinite, FS_Subset
  <2> HIDE DEF S
  <2>3. InOrder(S) \in Seq(S) /\ Members(InOrder(S)) = S
    BY <2>2, InOrderIsASequence
  <2>4. InOrder(S) \in Seq(Objects) /\ \A i \in DOMAIN InOrder(S) : InOrder(S)[i] \in made
    BY <2>1, <2>3 DEF Members
  <2> QED BY <2>4 DEF S
<1> HIDE DEF found, made, leaves, Found, Made, Leaves
<1>5. /\ browsed' = browsed \cup found
      /\ life' = [o \in Objects |-> IF o \in made THEN "alive" ELSE life[o]]
      /\ adding' = [leaves |-> leaves, left |-> leaves]
  BY <1>1 DEF found, made, leaves
<1>6. NodeTypeOK'
  <2>1. life' \in [Objects -> {"none", "alive", "deleted"}] /\ browsed' \subseteq Objects
    BY <1>3, <1>5 DEF NodeTypeOK
  <2> QED BY <1>2, <2>1 DEF NodeTypeOK
<1>7. AddingOK'
  <2>1. adding' \in Additions /\ adding'.left = leaves
    BY <1>4, <1>5
  <2> QED BY <1>3, <1>4, <1>5, <2>1 DEF AddingOK
<1>8. \A s \in DOMAIN subs : life'[subs[s].on] # "none"
                             /\ (life'[subs[s].on] = "alive" => life[subs[s].on] = "alive")
  BY <1>2, <1>3, <1>5, SubsAreRecords DEF SubscribedAreMade, NodeTypeOK
<1>9. SubscribedAreMade' /\ CacheIsFresh' /\ OneAttributeSubscription'
  BY <1>2, <1>8 DEF SubscribedAreMade, CacheIsFresh, AllTold, InForce, OneAttributeSubscription
<1> QED BY <1>6, <1>7, <1>8, <1>9

\* A deleted object is no longer alive, and the others are as they were.
LEMMA RemoveRowsInv ==
    ASSUME NodeInv, NEW first \in DOMAIN rows, NEW last \in first..Len(rows),
           RemoveRows(first, last)
    PROVE  NodeInv'
<1> USE DEF NodeInv
<1> DEFINE S == {rows[i] : i \in first..last}
<1>1. /\ life'    = [o \in Objects |-> IF o \in S THEN "deleted" ELSE life[o]]
      /\ cache'   = [o \in Objects |-> IF o \in S THEN "unread" ELSE cache[o]]
      /\ browsed' = browsed \ S
      /\ rows' = Without(rows, first, last) /\ tracked' = Without(tracked, first, last)
      /\ UNCHANGED <<subs, shown, shown_sub, adding, refused, fault>>
      /\ adding = Nothing /\ last <= Len(tracked)
  BY DEF RemoveRows, DeleteNodes, AtRest
<1> HIDE DEF S
<1>2. first \in 1..last /\ last \in Nat /\ last <= Len(rows)
  BY DEF NodeTypeOK
<1>3. NodeTypeOK'
  <2>1. ASSUME NEW T, NEW s \in Seq(T), last <= Len(s) PROVE Without(s, first, last) \in Seq(T)
    <3>1. SubSeq(s, 1, first - 1) \in Seq(T)
      BY <1>2, <2>1
    <3>2. SubSeq(s, last + 1, Len(s)) \in Seq(T)
      BY <1>2, <2>1
    <3> QED BY <3>1, <3>2 DEF Without
  <2>2. rows' \in Seq(Objects) /\ tracked' \in Seq(DOMAIN subs)
    BY <1>1, <1>2, <2>1 DEF NodeTypeOK
  <2>3. /\ life' \in [Objects -> {"none", "alive", "deleted"}]
        /\ cache' \in [Objects -> {"unread", "current", "old"}]
        /\ browsed' \subseteq Objects
    BY <1>1 DEF NodeTypeOK
  <2> QED BY <1>1, <2>2, <2>3 DEF NodeTypeOK
<1>4. AddingOK' /\ OneAttributeSubscription'
  BY <1>1 DEF AddingOK, OneAttributeSubscription
<1>5. SubscribedAreMade' /\ CacheIsFresh'
  BY <1>1, SubsAreRecords DEF SubscribedAreMade, CacheIsFresh, AllTold, InForce, NodeTypeOK
<1> QED BY <1>3, <1>4, <1>5

\* The AttributeView gives up the one live subscription it has before it asks
\* for another.
LEMMA SetNodeInv ==
    ASSUME NodeInv, NEW n \in Ids, SetNode(n)
    PROVE  /\ NodeInv'
           /\ \A s \in DOMAIN subs : life'[subs[s].on] = "alive" => life[subs[s].on] = "alive"
           /\ \A s \in DOMAIN subs' : subs'[s].owner = "rows" =>
                  s \in DOMAIN subs /\ subs[s].owner = "rows" /\ subs'[s].on = subs[s].on
           /\ \A s \in DOMAIN subs : s \in DOMAIN subs' /\ subs'[s].on = subs[s].on
<1> USE DEF NodeInv
<1> DEFINE o == Own(n)
           current == IF shown_sub = Nothing THEN subs ELSE [subs EXCEPT ![shown_sub].state = "dying"]
<1>1. /\ life' = [life EXCEPT ![o] = "alive"] /\ life[o] # "deleted"
      /\ shown' = o /\ Read(o) /\ SubscribeShown(n, current)
      /\ UNCHANGED <<browsed, rows, tracked, adding, refused, fault>>
      /\ AtRest
  BY DEF SetNode
<1>2. o \in Objects
  BY ReachIsFinite
<1> DEFINE Kept(old, new) == /\ new.on = old.on /\ new.owner = old.owner /\ new.news = old.news
                             /\ (new.state = "gone") = (old.state = "gone")
                             /\ new.owner = "attributes" => new.state # "live"
           New(s) == s = shown_sub' /\ subs'[s].on = o /\ subs'[s].news = "new" /\ subs'[s].owner = "attributes"
<1>3. /\ current \in Seq(SubscriptionRecords) /\ DOMAIN current = DOMAIN subs
      /\ \A s \in DOMAIN subs : Kept(subs[s], current[s])
  <2>1. CASE shown_sub = Nothing
    <3>1. \A s \in DOMAIN subs : s # Nothing
      BY NothingAssumption DEF NothingAssumption, NodeTypeOK
    <3> QED BY <2>1, <3>1 DEF NodeTypeOK, OneAttributeSubscription
  <2>2. CASE shown_sub # Nothing
    <3>1. shown_sub \in DOMAIN subs /\ subs[shown_sub].state # "gone"
      BY <2>2 DEF NodeTypeOK, SetNode, SubscriptionIsGone
    <3>2. current = [subs EXCEPT ![shown_sub].state = "dying"]
      BY <2>2
    <3> HIDE DEF current
    <3>3. current = [s \in DOMAIN subs |-> current[s]]
      BY <3>2
    <3>4. ASSUME NEW s \in DOMAIN subs PROVE current[s] \in SubscriptionRecords
      <4>1. [subs[s] EXCEPT !.state = "dying"] \in SubscriptionRecords
        BY SubsAreRecords DEF SubscriptionRecords
      <4> QED BY <3>1, <3>2, <4>1, SubsAreRecords
    <3>5. ASSUME NEW s \in DOMAIN subs
          PROVE  /\ current[s].on = subs[s].on /\ current[s].owner = subs[s].owner
                 /\ current[s].news = subs[s].news
                 /\ current[s].state = IF s = shown_sub THEN "dying" ELSE subs[s].state
      BY <3>1, <3>2, SubsAreRecords DEF SubscriptionRecords
    <3>6. current \in Seq(SubscriptionRecords) /\ DOMAIN current = DOMAIN subs
      BY <3>3, <3>4, SubsStayRecords
    <3> QED BY <3>1, <3>5, <3>6 DEF OneAttributeSubscription
  <2> QED BY <2>1, <2>2
<1> HIDE DEF current
<1>4. /\ subs' \in Seq(SubscriptionRecords)
      /\ \A s \in DOMAIN current : s \in DOMAIN subs' /\ subs'[s] = current[s]
      /\ \A s \in DOMAIN subs' \ DOMAIN current :
            /\ s = shown_sub' /\ subs'[s].on = o /\ subs'[s].news = "new"
            /\ subs'[s].owner = "attributes"
      /\ shown_sub' \in DOMAIN subs' \cup {Nothing}
  <2>1. CASE Subscribe(current, o, "attributes") /\ shown_sub' = Len(subs')
    BY <1>2, <1>3, <2>1, NewSubscription
  <2>2. CASE subs' = current /\ shown_sub' = shown_sub
    BY <1>3, <2>2 DEF NodeTypeOK
  <2> QED BY <1>1, <2>1, <2>2 DEF SubscribeShown
<1>12. \A s \in DOMAIN subs : s \in DOMAIN subs' /\ Kept(subs[s], subs'[s])
  <2> HIDE DEF Kept
  <2> QED BY <1>3, <1>4
<1>13. \A s \in DOMAIN subs' : s \in DOMAIN subs \/ New(s)
  BY <1>3, <1>4
<1>5. /\ \A p \in Objects : cache'[p] = cache[p] \/ cache'[p] = "current"
      /\ cache' \in [Objects -> {"unread", "current", "old"}]
  BY <1>1, <1>2 DEF Read, Cached, NodeTypeOK
<1>6. NodeTypeOK'
  <2>1. life' \in [Objects -> {"none", "alive", "deleted"}] /\ shown' \in Objects
    BY <1>1, <1>2 DEF NodeTypeOK
  <2>2. tracked \in Seq(DOMAIN subs) /\ DOMAIN subs \subseteq DOMAIN subs'
    BY <1>3, <1>4 DEF NodeTypeOK
  <2>3. tracked' \in Seq(DOMAIN subs')
    BY <1>1, <2>2
  <2> QED BY <1>1, <1>4, <1>5, <2>1, <2>3 DEF NodeTypeOK
<1>7. AddingOK'
  BY <1>1 DEF AddingOK, AtRest
<1>8. \A s \in DOMAIN subs : life'[subs[s].on] # "none"
                             /\ (life'[subs[s].on] = "alive" => life[subs[s].on] = "alive")
  BY <1>1, <1>2, SubsAreRecords DEF SubscribedAreMade, NodeTypeOK
<1>9. SubscribedAreMade'
  BY <1>1, <1>2, <1>8, <1>12, <1>13 DEF SubscribedAreMade, NodeTypeOK
<1>10. CacheIsFresh'
  <2> SUFFICES ASSUME NEW s \in DOMAIN subs', subs'[s].state # "gone", life'[subs'[s].on] = "alive",
                      \A r \in DOMAIN subs' : subs'[r].on = subs'[s].on => subs'[r].news = "none"
               PROVE  cache'[subs'[s].on] = "current"
    BY DEF CacheIsFresh, AllTold, InForce
  <2>1. s \in DOMAIN subs /\ subs'[s].on = subs[s].on /\ subs[s].state # "gone"
    BY <1>12, <1>13
  <2>2. \A r \in DOMAIN subs : subs[r].on = subs[s].on => subs[r].news = "none"
    BY <1>12, <2>1
  <2>3. cache[subs[s].on] = "current"
    BY <1>8, <2>1, <2>2 DEF CacheIsFresh, AllTold, InForce
  <2> QED BY <1>5, <2>1, <2>3, SubsAreRecords
<1>11. OneAttributeSubscription'
  BY <1>1, <1>12, <1>13 DEF OneAttributeSubscription
<1>14. \A s \in DOMAIN subs' : subs'[s].owner = "rows" =>
          s \in DOMAIN subs /\ subs[s].owner = "rows" /\ subs'[s].on = subs[s].on
  BY <1>12, <1>13
<1> QED BY <1>6, <1>7, <1>8, <1>9, <1>10, <1>11, <1>12, <1>14

-----------------------------------------------------------------------------
\* The invariant holds in every behaviour.
THEOREM NodeInvariant == NodeSpec => []NodeInv
<1>1. NodeInit => NodeInv
  BY NodeInitInv
<1>2. NodeInv /\ [NodeNext]_node_vars => NodeInv'
  <2> SUFFICES ASSUME NodeInv, [NodeNext]_node_vars PROVE NodeInv'
    OBVIOUS
  <2>1. ASSUME NEW n \in Ids, ServerChanges(n) PROVE NodeInv'
    BY <2>1, ServerChangesInv
  <2>2. ASSUME NEW s \in DOMAIN subs, Notify(s) \/ NotifyDeleted(s) \/ DeleteDeferred(s) PROVE NodeInv'
    BY <2>2, NotifyInv, DeleteDeferredInv, FaultInv DEF NotifyDeleted
  <2>3. ASSUME NEW o \in Displayed, Paint(o) \/ PaintDeleted(o) PROVE NodeInv'
    BY <2>3, PaintInv, FaultInv DEF PaintDeleted
  <2>4. ASSUME SubscribeLeaf \/ SubscribeRefused \/ InsertRows PROVE NodeInv'
    BY <2>4, SubscribeLeafInv, RestOfAppendInv
  <2>5. ASSUME NEW n \in Ids, SelectNode(n) \/ SetNode(n) \/ SetNodeFails(n) \/ SelectDeleted(n)
        PROVE  NodeInv'
    BY <2>5, SelectNodeInv, SetNodeInv, FaultInv DEF SetNodeFails, SelectDeleted
  <2>6. ASSUME NEW first \in DOMAIN rows, NEW last \in first..Len(rows),
               RemoveRows(first, last) \/ RemoveRowsFails(first, last)
        PROVE  NodeInv'
    BY <2>6, RemoveRowsInv, FaultInv DEF RemoveRowsFails
  <2>7. CASE UNCHANGED node_vars
    BY <2>7 DEF node_vars, NodeInv, NodeTypeOK, AddingOK, SubscribedAreMade, CacheIsFresh,
                AllTold, InForce, OneAttributeSubscription
  <2> QED BY <2>1, <2>2, <2>3, <2>4, <2>5, <2>6, <2>7 DEF NodeNext, User
<1> QED BY <1>1, <1>2, PTL DEF NodeSpec

\* The state of the panels is what NodeTypeOK says.
THEOREM NodeTyped == NodeSpec => []NodeTypeOK
BY NodeInvariant, PTL DEF NodeInv

\* However panels share the Node objects, what a subscribed one has cached
\* (wrapCache, updateNodeCache) is the server's value or will be corrected.
THEOREM CachesAreFresh == NodeSpec => []CacheIsFresh
BY NodeInvariant, PTL DEF NodeInv

\* However often setNode is called, and whether createSubscription answers,
\* the AttributeView has at most one live subscription, that of its node.
THEOREM AttributesAreSubscribedOnce == NodeSpec => []OneAttributeSubscription
BY NodeInvariant, PTL DEF NodeInv

-----------------------------------------------------------------------------
(* The row of a notification.                                              *)

\* What a NodeView has subscribed is one of its rows or about to become one,
\* for as long as the object is there.
RowIsThere ==
    /\ \A s \in DOMAIN subs :
          subs[s].owner = "rows" /\ life[subs[s].on] = "alive"
            => subs[s].on \in Members(rows) \/ (adding # Nothing /\ subs[s].on \in Members(adding.leaves))
    /\ adding # Nothing => \A i \in DOMAIN adding.left : adding.left[i] \in Members(adding.leaves)

\* Only what is removed is missed.
LEMMA WithoutKeeps ==
    ASSUME NEW T, NEW s \in Seq(T), NEW first \in 1..Len(s), NEW last \in first..Len(s),
           NEW x \in Members(s), \A i \in first..last : s[i] # x
    PROVE  x \in Members(Without(s, first, last))
<1> DEFINE a == SubSeq(s, 1, first - 1)
           b == SubSeq(s, last + 1, Len(s))
<1>1. PICK i \in 1..Len(s) : s[i] = x
  BY DEF Members
<1>2. /\ a \in Seq(T) /\ Len(a) = first - 1
      /\ \A k \in 1..(first - 1) : a[k] = s[k]
  OBVIOUS
<1>3. /\ b \in Seq(T) /\ Len(b) = Len(s) - last
      /\ \A k \in 1..(Len(s) - last) : b[k] = s[last + k]
  OBVIOUS
<1> HIDE DEF a, b
<1>4. CASE i < first
  <2>1. i \in DOMAIN (a \o b) /\ (a \o b)[i] = x
    BY <1>1, <1>2, <1>3, <1>4
  <2> QED BY <2>1 DEF Without, Members, a, b
<1>5. CASE i > last
  <2> DEFINE k == i - last
  <2>1. k \in 1..(Len(s) - last) /\ b[k] = x
    BY <1>1, <1>3, <1>5
  <2>2. first - 1 + k \in DOMAIN (a \o b) /\ (a \o b)[first - 1 + k] = x
    BY <1>2, <1>3, <2>1
  <2> QED BY <2>2 DEF Without, Members, a, b
<1> QED BY <1>1, <1>4, <1>5

\* A step that subscribes nothing for the rows and revives nothing keeps it, if
\* it keeps the rows and leaves.
LEMMA SameRows ==
    ASSUME NodeInv, RowIsThere, UNCHANGED <<rows, adding>>,
           \A s \in DOMAIN subs' : subs'[s].owner = "rows" =>
               /\ s \in DOMAIN subs /\ subs[s].owner = "rows" /\ subs'[s].on = subs[s].on
               /\ life'[subs[s].on] = "alive" => life[subs[s].on] = "alive"
    PROVE  RowIsThere'
BY DEF RowIsThere

RowInv == NodeInv /\ RowIsThere /\ RowFoundOnceAdded

\* It holds at the start and every step keeps it.
LEMMA RowStep ==
    ASSUME RowInv, NodeInv', NodeNext PROVE RowIsThere' /\ RowFoundOnceAdded'
<1> USE DEF RowInv, NodeInv
<1>1. ASSUME NEW n \in Ids, ServerChanges(n) PROVE RowIsThere' /\ RowFoundOnceAdded'
  <2>1. PICK sampled \in SUBSET Hearing(n) :
        subs' = [s \in DOMAIN subs |->
                    IF s \notin Hearing(n) THEN subs[s]
                    ELSE [subs[s] EXCEPT !.news = IF s \in sampled THEN "late"
                                                  ELSE IF @ = "none" THEN "new" ELSE @]]
    BY <1>1 DEF ServerChanges
  <2>2. \A s \in DOMAIN subs : subs'[s].owner = subs[s].owner /\ subs'[s].on = subs[s].on
    BY <2>1, SubsAreRecords DEF SubscriptionRecords
  <2> QED BY <1>1, <2>1, <2>2, SameRows DEF ServerChanges, RowFoundOnceAdded
<1>2. ASSUME NEW t \in DOMAIN subs, Notify(t) PROVE RowIsThere' /\ RowFoundOnceAdded'
  <2>1. /\ DOMAIN subs' = DOMAIN subs
        /\ \A s \in DOMAIN subs : subs'[s].owner = subs[s].owner /\ subs'[s].on = subs[s].on
    BY <1>2, SubsAreRecords DEF SubscriptionRecords, Notify, Delivered
  <2>2. RowIsThere'
    BY <1>2, <2>1, SameRows DEF Notify
  <2>3. RowFoundOnceAdded'
    BY <1>2 DEF Notify, Runs, RowFoundOnceAdded, RowIsThere
  <2> QED BY <2>2, <2>3
<1>3. ASSUME NEW t \in DOMAIN subs, DeleteDeferred(t) PROVE RowIsThere' /\ RowFoundOnceAdded'
  <2>1. /\ DOMAIN subs' = DOMAIN subs
        /\ \A s \in DOMAIN subs : subs'[s].owner = subs[s].owner /\ subs'[s].on = subs[s].on
    BY <1>3, SubsAreRecords DEF SubscriptionRecords, DeleteDeferred
  <2> QED BY <1>3, <2>1, SameRows DEF DeleteDeferred, RowFoundOnceAdded
<1>4. ASSUME NEW o \in Displayed, Paint(o) PROVE RowIsThere' /\ RowFoundOnceAdded'
  BY <1>4, SameRows DEF Paint, RowFoundOnceAdded
<1>5. ASSUME NEW why \in {"deletedNode", "deletedSubscription", "noSubscription"}, Fails(why)
      PROVE  RowIsThere' /\ RowFoundOnceAdded'
  BY <1>5, SameRows DEF Fails, RowFoundOnceAdded
<1>6. ASSUME SubscribeLeaf PROVE RowIsThere' /\ RowFoundOnceAdded'
  <2>1. /\ adding # Nothing /\ adding \in Additions /\ adding.left # <<>>
        /\ Subscribe(subs, Head(adding.left), "rows")
        /\ adding' = [adding EXCEPT !.left = Tail(@)]
        /\ UNCHANGED <<life, rows, fault>> /\ Runs
    BY <1>6 DEF SubscribeLeaf, LeavesLeft, AddingOK
  <2>2. /\ Head(adding.left) \in Objects /\ Head(adding.left) = adding.left[1]
        /\ 1 \in DOMAIN adding.left /\ adding.left \in Seq(Objects)
    BY <2>1
  <2>3. /\ DOMAIN subs' = DOMAIN subs \cup {Len(subs')}
        /\ \A s \in DOMAIN subs : subs'[s] = subs[s]
        /\ subs'[Len(subs')].on = Head(adding.left)
    BY <2>1, <2>2, NewSubscription DEF NodeTypeOK
  <2>4. adding'.leaves = adding.leaves /\ adding'.left = Tail(adding.left)
    BY <2>1
  <2>5. \A i \in DOMAIN Tail(adding.left) : Tail(adding.left)[i] = adding.left[i + 1] /\ i + 1 \in DOMAIN adding.left
    BY <2>1, <2>2
  <2>6. adding' # Nothing
    <3>1. adding.leaves \in Seq(Objects) /\ Tail(adding.left) \in Seq(Objects)
      BY <2>1, <2>2
    <3>2. adding' \in Additions
      BY <2>1, <3>1
    <3> QED BY <3>2, NothingAssumption DEF NothingAssumption
  <2>7. RowIsThere'
    BY <2>1, <2>2, <2>3, <2>4, <2>5, <2>6 DEF RowIsThere
  <2> QED BY <2>1, <2>7 DEF RowFoundOnceAdded, Runs
<1>7. ASSUME SubscribeRefused PROVE RowIsThere' /\ RowFoundOnceAdded'
  <2>1. /\ adding # Nothing /\ adding \in Additions
        /\ adding' = [adding EXCEPT !.left = <<>>]
        /\ UNCHANGED <<life, subs, rows, fault>> /\ Runs
    BY <1>7 DEF SubscribeRefused, LeavesLeft, AddingOK
  <2>2. adding'.leaves = adding.leaves /\ adding'.left = <<>>
    BY <2>1
  <2>3. adding' # Nothing
    <3>1. adding.leaves \in Seq(Objects) /\ <<>> \in Seq(Objects)
      BY <2>1
    <3>2. adding' \in Additions
      BY <2>1, <3>1
    <3> QED BY <3>2, NothingAssumption DEF NothingAssumption
  <2> QED BY <2>1, <2>2, <2>3 DEF RowIsThere, RowFoundOnceAdded, Runs
<1>8. ASSUME InsertRows PROVE RowIsThere' /\ RowFoundOnceAdded'
  <2>1. /\ adding # Nothing /\ adding.leaves \in Seq(Objects) /\ rows \in Seq(Objects)
        /\ rows' = rows \o adding.leaves /\ adding' = Nothing
        /\ UNCHANGED <<life, subs, fault>> /\ Runs
    BY <1>8 DEF InsertRows, AddingOK, NodeTypeOK
  <2>2. Members(rows) \cup Members(adding.leaves) \subseteq Members(rows')
    <3>1. \A i \in DOMAIN rows : i \in DOMAIN rows' /\ rows'[i] = rows[i]
      BY <2>1
    <3>2. \A i \in DOMAIN adding.leaves :
            Len(rows) + i \in DOMAIN rows' /\ rows'[Len(rows) + i] = adding.leaves[i]
      BY <2>1
    <3> QED BY <3>1, <3>2 DEF Members
  <2> QED BY <2>1, <2>2 DEF RowIsThere, RowFoundOnceAdded, Runs
<1>9. ASSUME NEW n \in Ids, SelectNode(n) PROVE RowIsThere' /\ RowFoundOnceAdded'
  <2>1. /\ UNCHANGED <<subs, rows, fault>> /\ Runs /\ adding = Nothing
        /\ \A s \in DOMAIN subs : life'[subs[s].on] = "alive" => life[subs[s].on] = "alive"
    BY <1>9, SelectNodeInv DEF SelectNode, AtRest
  <2>2. adding'.left = adding'.leaves
    <3>1. \E l : adding' = [leaves |-> l, left |-> l]
      BY <1>9 DEF SelectNode
    <3> QED BY <3>1
  <2> QED BY <2>1, <2>2 DEF RowIsThere, RowFoundOnceAdded, Runs, Members
<1>10. ASSUME NEW n \in Ids, SetNode(n) PROVE RowIsThere' /\ RowFoundOnceAdded'
  <2>1. /\ \A s \in DOMAIN subs' : subs'[s].owner = "rows" =>
              s \in DOMAIN subs /\ subs[s].owner = "rows" /\ subs'[s].on = subs[s].on
        /\ \A s \in DOMAIN subs : life'[subs[s].on] = "alive" => life[subs[s].on] = "alive"
    BY <1>10, SetNodeInv
  <2> QED BY <1>10, <2>1, SameRows DEF SetNode, RowFoundOnceAdded
<1>11. ASSUME NEW first \in DOMAIN rows, NEW last \in first..Len(rows), RemoveRows(first, last)
       PROVE  RowIsThere' /\ RowFoundOnceAdded'
  <2>1. /\ life' = [o \in Objects |-> IF o \in {rows[i] : i \in first..last} THEN "deleted" ELSE life[o]]
        /\ rows' = Without(rows, first, last)
        /\ UNCHANGED <<subs, adding, fault>> /\ adding = Nothing /\ Runs
    BY <1>11 DEF RemoveRows, DeleteNodes, AtRest
  <2>2. rows \in Seq(Objects) /\ first \in 1..Len(rows)
    BY DEF NodeTypeOK
  <2>3. ASSUME NEW s \in DOMAIN subs, subs[s].owner = "rows", life'[subs[s].on] = "alive"
        PROVE  subs[s].on \in Members(rows')
    <3>1. subs[s].on \notin {rows[i] : i \in first..last} /\ life[subs[s].on] = "alive"
      BY <2>1, <2>3, SubsAreRecords
    <3>2. subs[s].on \in Members(rows) /\ \A i \in first..last : rows[i] # subs[s].on
      BY <2>1, <2>3, <3>1 DEF RowIsThere
    <3> QED BY <2>1, <2>2, <3>2, WithoutKeeps
  <2> QED BY <2>1, <2>3 DEF RowIsThere, RowFoundOnceAdded, Runs
<1>12. ASSUME NEW s \in DOMAIN subs, NotifyDeleted(s) PROVE RowIsThere' /\ RowFoundOnceAdded'
  BY <1>5, <1>12 DEF NotifyDeleted
<1>13. ASSUME NEW o \in Displayed, PaintDeleted(o) PROVE RowIsThere' /\ RowFoundOnceAdded'
  BY <1>5, <1>13 DEF PaintDeleted
<1>14. ASSUME NEW n \in Ids, SetNodeFails(n) \/ SelectDeleted(n) PROVE RowIsThere' /\ RowFoundOnceAdded'
  BY <1>5, <1>14 DEF SetNodeFails, SelectDeleted
<1>15. ASSUME NEW first \in DOMAIN rows, NEW last \in first..Len(rows), RemoveRowsFails(first, last)
       PROVE  RowIsThere' /\ RowFoundOnceAdded'
  BY <1>5, <1>15 DEF RemoveRowsFails
<1> QED BY <1>1, <1>2, <1>3, <1>4, <1>6, <1>7, <1>8, <1>9, <1>10, <1>11, <1>12, <1>13, <1>14, <1>15
        DEF NodeNext, User

\* The row that a notification is about is found unless it is being added:
\* subscribeNodes subscribes the nodes before appendNode inserts them.
THEOREM RowsAreFoundOnceAdded == NodeSpec => []RowFoundOnceAdded
<1>1. NodeInit => RowIsThere /\ RowFoundOnceAdded
  BY DEF NodeInit, RowIsThere, RowFoundOnceAdded
<1>2. NodeInv /\ NodeInv' /\ RowIsThere /\ RowFoundOnceAdded /\ [NodeNext]_node_vars
        => (RowIsThere /\ RowFoundOnceAdded)'
  <2>1. CASE NodeNext
    BY <2>1, RowStep DEF RowInv
  <2>2. CASE UNCHANGED node_vars
    BY <2>2 DEF node_vars, RowIsThere, RowFoundOnceAdded
  <2> QED BY <2>1, <2>2
<1> QED BY <1>1, <1>2, NodeInvariant, PTL DEF NodeSpec
-----------------------------------------------------------------------------
(* Rows and subscriptions.                                                 *)

\* How many of the leaves that are being added are subscribed.
Progress == IF adding = Nothing THEN 0 ELSE Len(adding.leaves) - Len(adding.left)

\* What is left to subscribe is the end of what is being added.
LeftIsSuffix ==
    adding # Nothing =>
        /\ Len(adding.left) <= Len(adding.leaves)
        /\ \A i \in 1..Len(adding.left) :
              adding.left[i] = adding.leaves[Len(adding.leaves) - Len(adding.left) + i]

\* RowsKeepTheirSubscriptions, index by index.
Aligned ==
    /\ Len(tracked) = Len(rows) + Progress
    /\ \A i \in 1..Len(rows) : subs[tracked[i]].on = rows[i]
    /\ \A i \in 1..Progress : subs[tracked[Len(rows) + i]].on = adding.leaves[i]

TrackInv == LeftIsSuffix /\ (~refused => fault # "noSubscription" /\ Aligned)

\* Concatenation, index by index.
LEMMA Concatenation ==
    ASSUME NEW T, NEW a \in Seq(T), NEW b \in Seq(T)
    PROVE  /\ a \o b \in Seq(T) /\ Len(a \o b) = Len(a) + Len(b)
           /\ DOMAIN (a \o b) = 1..(Len(a) + Len(b))
           /\ \A i \in 1..Len(a) : (a \o b)[i] = a[i]
           /\ \A i \in 1..Len(b) : (a \o b)[Len(a) + i] = b[i]
OBVIOUS

\* How much is subscribed is a number, and the subscribed leaves are the first ones.
LEMMA ProgressIsANumber ==
    ASSUME NodeInv, TrackInv
    PROVE  /\ Progress \in Nat
           /\ adding # Nothing => /\ adding.leaves \in Seq(Objects) /\ adding.left \in Seq(Objects)
                                  /\ Progress <= Len(adding.leaves)
                                  /\ Len(adding.left) \in Nat /\ Len(adding.leaves) \in Nat
<1>1. CASE adding = Nothing
  BY <1>1 DEF Progress
<1>2. CASE adding # Nothing
  <2> DEFINE l == adding.leaves
             r == adding.left
  <2>1. l \in Seq(Objects) /\ r \in Seq(Objects) /\ Len(r) <= Len(l)
    BY <1>2 DEF NodeInv, AddingOK, TrackInv, LeftIsSuffix
  <2>2. Progress = Len(l) - Len(r)
    BY <1>2 DEF Progress
  <2> HIDE DEF l, r
  <2>3. Progress \in Nat /\ Progress <= Len(l) /\ Len(l) \in Nat /\ Len(r) \in Nat
    BY <2>1, <2>2
  <2> QED BY <2>1, <2>3 DEF l, r
<1> QED BY <1>1, <1>2

\* That is the property.
LEMMA AlignedMeansKept ==
    ASSUME NodeInv, TrackInv PROVE RowsKeepTheirSubscriptions
<1> SUFFICES ASSUME ~refused
             PROVE  [i \in DOMAIN tracked |-> subs[tracked[i]].on] = rows \o Subscribed
  BY DEF TrackInv, RowsKeepTheirSubscriptions
<1> DEFINE on == [i \in DOMAIN tracked |-> subs[tracked[i]].on]
<1>1. /\ rows \in Seq(Objects) /\ tracked \in Seq(DOMAIN subs)
      /\ Len(tracked) = Len(rows) + Progress
      /\ \A i \in 1..Len(rows) : subs[tracked[i]].on = rows[i]
      /\ \A i \in 1..Progress : subs[tracked[Len(rows) + i]].on = adding.leaves[i]
  BY DEF NodeInv, NodeTypeOK, TrackInv, Aligned
<1>2. /\ Subscribed \in Seq(Objects) /\ Len(Subscribed) = Progress /\ Progress \in Nat
      /\ \A i \in 1..Progress : Subscribed[i] = adding.leaves[i]
  <2>1. CASE adding = Nothing
    BY <2>1 DEF Subscribed, Progress
  <2>2. CASE adding # Nothing
    <3> DEFINE l == adding.leaves
               k == Len(adding.leaves) - Len(adding.left)
    <3>1. l \in Seq(Objects) /\ k \in 0..Len(l)
      BY <2>2 DEF NodeInv, AddingOK, TrackInv, LeftIsSuffix
    <3>2. Subscribed = SubSeq(l, 1, k) /\ Progress = k
      BY <2>2 DEF Subscribed, Progress
    <3> HIDE DEF l, k
    <3>3. /\ SubSeq(l, 1, k) \in Seq(Objects) /\ Len(SubSeq(l, 1, k)) = k
          /\ \A i \in 1..k : SubSeq(l, 1, k)[i] = l[i]
      BY <3>1
    <3>4. k \in Nat
      BY <3>1
    <3> QED BY <3>2, <3>3, <3>4 DEF l
  <2> QED BY <2>1, <2>2
<1>3. DOMAIN (rows \o Subscribed) = DOMAIN tracked
  <2>1. rows \o Subscribed \in Seq(Objects) /\ Len(rows \o Subscribed) = Len(tracked)
    BY <1>1, <1>2
  <2>2. DOMAIN tracked = 1..Len(tracked)
    BY <1>1
  <2> QED BY <2>1, <2>2
<1>4. ASSUME NEW i \in DOMAIN tracked PROVE on[i] = (rows \o Subscribed)[i]
  <2>1. CASE i <= Len(rows)
    BY <1>1, <1>2, <2>1
  <2>2. CASE i > Len(rows)
    <3> DEFINE k == i - Len(rows)
    <3>1. k \in 1..Progress /\ i = Len(rows) + k
      BY <1>1, <1>2, <2>2
    <3>2. (rows \o Subscribed)[Len(rows) + k] = Subscribed[k]
      <4>1. \A j \in 1..Len(Subscribed) : (rows \o Subscribed)[Len(rows) + j] = Subscribed[j]
        BY <1>1, <1>2, Concatenation
      <4> QED BY <1>2, <3>1, <4>1
    <3> HIDE DEF k
    <3>3. on[i] = subs[tracked[Len(rows) + k]].on
      BY <3>1
    <3>4. on[i] = Subscribed[k]
      BY <1>1, <1>2, <3>1, <3>3
    <3>5. i = Len(rows) + k
      BY <3>1
    <3>6. (rows \o Subscribed)[i] = Subscribed[k]
      BY <3>2, <3>5, Zenon
    <3> HIDE DEF on
    <3> QED BY <3>4, <3>6
  <2>3. i <= Len(rows) \/ i > Len(rows)
    BY <1>1
  <2> QED BY <2>1, <2>2, <2>3, Zenon
<1>5. rows \o Subscribed \in Seq(Objects)
  BY <1>1, <1>2
<1>6. rows \o Subscribed = [i \in DOMAIN tracked |-> (rows \o Subscribed)[i]]
  <2> DEFINE all == rows \o Subscribed
  <2>1. all \in Seq(Objects) /\ DOMAIN all = DOMAIN tracked
    BY <1>3, <1>5
  <2> HIDE DEF all
  <2>2. all = [i \in DOMAIN all |-> all[i]]
    BY <2>1
  <2> QED BY <2>1, <2>2 DEF all
<1> HIDE DEF on
<1>7. on = rows \o Subscribed
  BY <1>4, <1>6 DEF on
<1> QED BY <1>7 DEF on

\* Steps that leave the rows alone and what their subscriptions are about.
LEMMA SameTracks ==
    ASSUME NodeInv, TrackInv, UNCHANGED <<rows, tracked, adding, refused>>,
           ~refused => fault' # "noSubscription",
           \A s \in DOMAIN subs : subs'[s].on = subs[s].on
    PROVE  TrackInv'
<1>1. LeftIsSuffix' /\ Progress' = Progress
  BY DEF TrackInv, LeftIsSuffix, Progress
<1>2. ASSUME ~refused PROVE Aligned'
  <2>1. /\ Aligned /\ tracked \in Seq(DOMAIN subs) /\ rows \in Seq(Objects)
        /\ Progress \in Nat
    <3> QED BY <1>2, ProgressIsANumber DEF TrackInv, NodeInv, NodeTypeOK
  <2>2. /\ \A i \in 1..Len(tracked) : tracked[i] \in DOMAIN subs
        /\ Len(rows) \in Nat /\ Len(tracked) = Len(rows) + Progress
    BY <2>1 DEF Aligned
  <2>3. \A i \in 1..Len(rows) : subs'[tracked[i]].on = rows[i]
    <3>1. \A i \in 1..Len(rows) : i \in 1..Len(tracked)
      BY <2>1, <2>2
    <3> QED BY <2>1, <2>2, <3>1 DEF Aligned
  <2>4. \A i \in 1..Progress : subs'[tracked[Len(rows) + i]].on = adding.leaves[i]
    <3>1. \A i \in 1..Progress : Len(rows) + i \in 1..Len(tracked)
      BY <2>1, <2>2
    <3> QED BY <2>1, <2>2, <3>1 DEF Aligned
  <2> QED BY <1>1, <2>1, <2>3, <2>4 DEF Aligned
<1> QED BY <1>1, <1>2 DEF TrackInv

\* A range that is taken out of two sequences leaves equal places equal.
LEMMA WithoutAligns ==
    ASSUME NEW T, NEW s \in Seq(T), NEW last \in 1..Len(s), NEW first \in 1..last
    PROVE  /\ Without(s, first, last) \in Seq(T)
           /\ Len(Without(s, first, last)) = Len(s) - (last - first + 1)
           /\ \A i \in 1..(Len(s) - (last - first + 1)) :
                 Without(s, first, last)[i] = IF i < first THEN s[i] ELSE s[i + (last - first + 1)]
<1> DEFINE a == SubSeq(s, 1, first - 1)
           b == SubSeq(s, last + 1, Len(s))
<1>1. /\ a \in Seq(T) /\ Len(a) = first - 1
      /\ \A k \in 1..(first - 1) : a[k] = s[k]
  OBVIOUS
<1>2. /\ b \in Seq(T) /\ Len(b) = Len(s) - last
      /\ \A k \in 1..(Len(s) - last) : b[k] = s[last + k]
  OBVIOUS
<1>3. Without(s, first, last) = a \o b
  BY DEF Without
<1> HIDE DEF a, b
<1>0. first \in Nat /\ last \in Nat /\ Len(s) \in Nat /\ 1 <= first /\ first <= last /\ last <= Len(s)
  OBVIOUS
<1>4. /\ a \o b \in Seq(T) /\ Len(a \o b) = Len(a) + Len(b)
      /\ \A i \in 1..Len(a) : (a \o b)[i] = a[i]
      /\ \A i \in 1..Len(b) : (a \o b)[Len(a) + i] = b[i]
  <2>1. a \in Seq(T) /\ b \in Seq(T)
    BY <1>1, <1>2
  <2> QED BY <2>1, Concatenation
<1>5. ASSUME NEW i \in 1..(Len(s) - (last - first + 1))
      PROVE  (a \o b)[i] = IF i < first THEN s[i] ELSE s[i + (last - first + 1)]
  <2>1. CASE i < first
    <3>1. i \in 1..(first - 1) /\ i \in 1..Len(a)
      BY <1>0, <1>1, <2>1
    <3> QED BY <1>1, <1>4, <2>1, <3>1
  <2>2. CASE ~(i < first)
    <3> DEFINE k == i - (first - 1)
    <3>1. k \in 1..(Len(s) - last) /\ i = Len(a) + k /\ last + k = i + (last - first + 1)
      BY <1>0, <1>1, <2>2
    <3> HIDE DEF k
    <3>2. k \in 1..Len(b)
      BY <1>2, <3>1
    <3>3. (a \o b)[Len(a) + k] = b[k] /\ b[k] = s[last + k]
      BY <1>2, <1>4, <3>1, <3>2
    <3>4. (a \o b)[i] = s[i + (last - first + 1)]
      BY <3>1, <3>3
    <3> QED BY <2>2, <3>4
  <2> QED BY <2>1, <2>2
<1>6. Len(a) + Len(b) = Len(s) - (last - first + 1)
  BY <1>0, <1>1, <1>2
<1> QED BY <1>3, <1>4, <1>5, <1>6

\* One turn of subscribeNodes subscribes the next leaf.
LEMMA SubscribeLeafTracks ==
    ASSUME NodeInv, TrackInv, SubscribeLeaf PROVE TrackInv'
<1> DEFINE l == adding.leaves
           r == adding.left
           new == Len(subs')
<1>1. /\ adding # Nothing /\ adding \in Additions /\ r # <<>> /\ Runs
      /\ Subscribe(subs, Head(r), "rows")
      /\ tracked' = Append(tracked, new)
      /\ adding' = [adding EXCEPT !.left = Tail(r)]
      /\ UNCHANGED <<rows, refused, fault>>
  BY DEF SubscribeLeaf, LeavesLeft, NodeInv, AddingOK
<1>2. l \in Seq(Objects) /\ r \in Seq(Objects) /\ r # <<>> /\ Len(r) <= Len(l)
      /\ \A i \in 1..Len(r) : r[i] = l[Len(l) - Len(r) + i]
  BY <1>1 DEF TrackInv, LeftIsSuffix
<1>3. adding'.leaves = l /\ adding'.left = Tail(r) /\ adding' # Nothing
  <2>1. adding'.leaves = l /\ adding'.left = Tail(r)
    BY <1>1
  <2>2. Tail(r) \in Seq(Objects)
    BY <1>2
  <2>3. adding' \in Additions
    BY <1>1, <1>2, <2>2
  <2> QED BY <2>1, <2>3, NothingAssumption DEF NothingAssumption
<1>4. Progress = Len(l) - Len(r)
  BY <1>1 DEF Progress
<1>5. Progress' = Len(l) - Len(Tail(r))
  BY <1>3 DEF Progress
<1>6. /\ subs \in Seq(SubscriptionRecords) /\ tracked \in Seq(DOMAIN subs) /\ rows \in Seq(Objects)
  BY DEF NodeInv, NodeTypeOK
<1>7. Head(r) \in Objects
  BY <1>2
<1>8. /\ DOMAIN subs' = DOMAIN subs \cup {new}
      /\ \A s \in DOMAIN subs : subs'[s] = subs[s]
      /\ subs'[new].on = Head(r)
  BY <1>1, <1>6, <1>7, NewSubscription DEF NodeInv
<1>9. LeftIsSuffix <=> /\ Len(r) <= Len(l)
                       /\ \A i \in 1..Len(r) : r[i] = l[Len(l) - Len(r) + i]
  BY <1>1 DEF LeftIsSuffix
<1>10. LeftIsSuffix' <=> /\ Len(Tail(r)) <= Len(l)
                         /\ \A i \in 1..Len(Tail(r)) : Tail(r)[i] = l[Len(l) - Len(Tail(r)) + i]
  BY <1>3 DEF LeftIsSuffix
<1> HIDE DEF l, r, new
<1>11. /\ Len(Tail(r)) = Len(r) - 1 /\ Head(r) = r[1] /\ Len(r) >= 1
       /\ \A i \in 1..(Len(r) - 1) : Tail(r)[i] = r[i + 1]
  BY <1>2
<1>12. LeftIsSuffix'
  <2>1. Len(Tail(r)) <= Len(l)
    BY <1>2, <1>11
  <2>2. ASSUME NEW i \in 1..Len(Tail(r)) PROVE Tail(r)[i] = l[Len(l) - Len(Tail(r)) + i]
    <3>1. i + 1 \in 1..Len(r) /\ Tail(r)[i] = r[i + 1]
      BY <1>2, <1>11, <2>2
    <3>2. r[i + 1] = l[Len(l) - Len(r) + (i + 1)]
      BY <1>2, <3>1
    <3>3. Len(l) - Len(r) + (i + 1) = Len(l) - Len(Tail(r)) + i
      BY <1>2, <1>11, <2>2
    <3> QED BY <3>1, <3>2, <3>3
  <2> QED BY <1>10, <2>1, <2>2
<1>13. Head(r) = l[Progress'] /\ Progress' = Progress + 1 /\ Progress \in Nat
  <2>1. Progress' = Progress + 1 /\ Progress \in Nat
    BY <1>2, <1>4, <1>5, <1>11
  <2>2. r[1] = l[Len(l) - Len(r) + 1]
    BY <1>2, <1>11
  <2>3. Len(l) - Len(r) + 1 = Progress'
    BY <1>2, <1>4, <2>1
  <2> QED BY <1>11, <2>1, <2>2, <2>3
<1>14. ASSUME ~refused PROVE Aligned'
  <2>1. /\ Len(tracked) = Len(rows) + Progress
        /\ \A i \in 1..Len(rows) : subs[tracked[i]].on = rows[i]
        /\ \A i \in 1..Progress : subs[tracked[Len(rows) + i]].on = l[i]
    BY <1>14 DEF TrackInv, Aligned, l
  <2>2. /\ Len(tracked') = Len(tracked) + 1
        /\ tracked'[Len(tracked) + 1] = new
        /\ \A i \in 1..Len(tracked) : tracked'[i] = tracked[i] /\ subs'[tracked'[i]] = subs[tracked[i]]
    <3>1. /\ Len(tracked') = Len(tracked) + 1
          /\ tracked'[Len(tracked) + 1] = new
          /\ \A i \in 1..Len(tracked) : tracked'[i] = tracked[i] /\ tracked[i] \in DOMAIN subs
      BY <1>1, <1>6
    <3> QED BY <1>8, <3>1
  <2>3. Len(rows) \in Nat /\ Len(tracked') = Len(rows) + Progress'
    BY <1>6, <1>13, <2>1, <2>2
  <2>4. ASSUME NEW i \in 1..Len(rows) PROVE subs'[tracked'[i]].on = rows[i]
    <3>1. i \in 1..Len(tracked)
      BY <1>13, <2>1, <2>3
    <3> QED BY <2>1, <2>2, <3>1
  <2>5. ASSUME NEW i \in 1..Progress' PROVE subs'[tracked'[Len(rows) + i]].on = l[i]
    <3>1. CASE i \in 1..Progress
      <4>1. Len(rows) + i \in 1..Len(tracked)
        BY <2>1, <2>3, <1>13, <3>1
      <4> QED BY <2>1, <2>2, <3>1, <4>1
    <3>2. CASE i = Progress'
      <4>1. Len(rows) + i = Len(tracked) + 1
        BY <1>13, <2>1, <2>3, <3>2
      <4> QED BY <1>8, <1>13, <2>2, <3>2, <4>1
    <3> QED BY <1>13, <3>1, <3>2
  <2> QED BY <1>1, <1>3, <2>3, <2>4, <2>5 DEF Aligned
<1> QED BY <1>1, <1>12, <1>14 DEF TrackInv, Runs

\* appendNode inserts the rows when all leaves are subscribed, or has given up.
LEMMA RestOfAppendTracks ==
    ASSUME NodeInv, TrackInv, SubscribeRefused \/ InsertRows PROVE TrackInv'
<1>1. CASE SubscribeRefused
  <2>1. /\ adding \in Additions /\ adding' = [adding EXCEPT !.left = <<>>] /\ refused' = TRUE
    BY <1>1 DEF SubscribeRefused, LeavesLeft, NodeInv, AddingOK
  <2>2. adding'.left = <<>> /\ adding'.leaves = adding.leaves /\ adding.leaves \in Seq(Objects)
    BY <2>1
  <2>3. LeftIsSuffix'
    BY <2>2 DEF LeftIsSuffix
  <2> QED BY <2>1, <2>3 DEF TrackInv
<1>2. CASE InsertRows
  <2> DEFINE l == adding.leaves
  <2>1. /\ adding # Nothing /\ adding.left = <<>> /\ l \in Seq(Objects) /\ rows \in Seq(Objects)
        /\ rows' = rows \o l /\ adding' = Nothing
        /\ UNCHANGED <<subs, tracked, refused, fault>>
    BY <1>2 DEF InsertRows, NodeInv, NodeTypeOK, AddingOK
  <2>2. Progress = Len(l) - 0
    BY <2>1 DEF Progress
  <2>3. Progress' = 0
    BY <2>1 DEF Progress
  <2>4. LeftIsSuffix'
    BY <2>1 DEF LeftIsSuffix
  <2>5. ASSUME ~refused PROVE Aligned'
    <3>1. /\ Len(tracked) = Len(rows) + Progress
          /\ \A i \in 1..Len(rows) : subs[tracked[i]].on = rows[i]
          /\ \A i \in 1..Progress : subs[tracked[Len(rows) + i]].on = l[i]
      BY <2>5 DEF TrackInv, Aligned
    <3> HIDE DEF l
    <3>2. Len(rows) \in Nat /\ Len(l) \in Nat /\ Progress = Len(l)
      BY <2>1, <2>2
    <3>3. /\ Len(rows') = Len(rows) + Len(l)
          /\ \A i \in 1..Len(rows) : rows'[i] = rows[i]
          /\ \A i \in 1..Len(l) : rows'[Len(rows) + i] = l[i]
      BY <2>1, Concatenation
    <3>4. ASSUME NEW i \in 1..Len(rows') PROVE subs[tracked[i]].on = rows'[i]
      <4>1. CASE i \in 1..Len(rows)
        BY <3>1, <3>3, <4>1
      <4>2. CASE i > Len(rows)
        <5> DEFINE k == i - Len(rows)
        <5>1. k \in 1..Len(l) /\ i = Len(rows) + k
          BY <3>2, <3>3, <3>4, <4>2
        <5> HIDE DEF k
        <5> QED BY <3>1, <3>2, <3>3, <5>1
      <4> QED BY <3>2, <3>3, <4>1, <4>2
    <3>5. Len(tracked) = Len(rows') + 0
      BY <3>1, <3>2, <3>3
    <3> QED BY <2>1, <2>3, <3>4, <3>5 DEF Aligned
  <2> QED BY <2>1, <2>4, <2>5 DEF TrackInv
<1> QED BY <1>1, <1>2

\* removeRows takes the same range out of both.
LEMMA RemoveRowsTracks ==
    ASSUME NodeInv, TrackInv, NEW first \in DOMAIN rows, NEW last \in first..Len(rows),
           RemoveRows(first, last)
    PROVE  TrackInv'
<1> DEFINE k == last - first + 1
<1>1. /\ rows' = Without(rows, first, last) /\ tracked' = Without(tracked, first, last)
      /\ UNCHANGED <<subs, adding, refused, fault>> /\ adding = Nothing /\ last <= Len(tracked)
  BY DEF RemoveRows, AtRest
<1>2. rows \in Seq(Objects) /\ tracked \in Seq(DOMAIN subs)
  BY DEF NodeInv, NodeTypeOK
<1>3. /\ first \in 1..last /\ last \in 1..Len(rows) /\ last \in 1..Len(tracked)
      /\ Len(rows) \in Nat /\ Len(tracked) \in Nat
  BY <1>1, <1>2
<1>4. Progress = 0 /\ Progress' = 0 /\ LeftIsSuffix'
  BY <1>1 DEF Progress, LeftIsSuffix
<1>5. /\ Len(rows') = Len(rows) - k
      /\ \A i \in 1..(Len(rows) - k) : rows'[i] = IF i < first THEN rows[i] ELSE rows[i + k]
  <2>1. rows \in Seq(Objects) /\ last \in 1..Len(rows) /\ first \in 1..last
    BY <1>2, <1>3
  <2>2. /\ Len(Without(rows, first, last)) = Len(rows) - k
        /\ \A i \in 1..(Len(rows) - k) :
              Without(rows, first, last)[i] = IF i < first THEN rows[i] ELSE rows[i + k]
    BY <2>1, WithoutAligns
  <2> QED BY <1>1, <2>2
<1>6. /\ Len(tracked') = Len(tracked) - k
      /\ \A i \in 1..(Len(tracked) - k) : tracked'[i] = IF i < first THEN tracked[i] ELSE tracked[i + k]
  <2>1. tracked \in Seq(DOMAIN subs) /\ last \in 1..Len(tracked) /\ first \in 1..last
    BY <1>2, <1>3
  <2>2. /\ Len(Without(tracked, first, last)) = Len(tracked) - k
        /\ \A i \in 1..(Len(tracked) - k) :
              Without(tracked, first, last)[i] = IF i < first THEN tracked[i] ELSE tracked[i + k]
    BY <2>1, WithoutAligns
  <2> QED BY <1>1, <2>2
<1>7. k \in 1..Len(rows) /\ k = last - first + 1
  BY <1>3
<1> HIDE DEF k
<1>8. ASSUME ~refused PROVE Aligned'
  <2>1. Len(tracked) = Len(rows) /\ \A i \in 1..Len(rows) : subs[tracked[i]].on = rows[i]
    BY <1>2, <1>4, <1>8 DEF TrackInv, Aligned
  <2>2. ASSUME NEW i \in 1..Len(rows') PROVE subs[tracked'[i]].on = rows'[i]
    <3>1. i \in 1..(Len(rows) - k) /\ i \in 1..(Len(tracked) - k)
      BY <1>5, <2>1, <2>2
    <3>2. CASE i < first
      <4>1. i \in 1..Len(rows)
        BY <1>3, <3>1, <3>2
      <4> QED BY <1>5, <1>6, <2>1, <3>1, <3>2, <4>1
    <3>3. CASE ~(i < first)
      <4>1. i + k \in 1..Len(rows)
        <5>1. i \in Nat /\ 1 <= i /\ i <= Len(rows) - k /\ k \in Nat /\ Len(rows) \in Nat
          BY <1>3, <1>7, <3>1
        <5> QED BY <5>1
      <4>2. rows'[i] = rows[i + k] /\ tracked'[i] = tracked[i + k]
        BY <1>5, <1>6, <3>1, <3>3
      <4>3. subs[tracked[i + k]].on = rows[i + k]
        BY <2>1, <4>1
      <4> QED BY <1>1, <4>2, <4>3
    <3> QED BY <3>2, <3>3
  <2>3. Len(tracked') = Len(rows') + 0
    BY <1>3, <1>5, <1>6, <1>7, <2>1
  <2> QED BY <1>1, <1>4, <2>2, <2>3 DEF Aligned
<1> QED BY <1>1, <1>4, <1>8 DEF TrackInv

\* Every step keeps rows and subscriptions aligned.
LEMMA TrackStep ==
    ASSUME NodeInv, TrackInv, NodeNext PROVE TrackInv'
<1>0. NodeTypeOK
  BY DEF NodeInv
<1>1. ASSUME NEW n \in Ids, ServerChanges(n) PROVE TrackInv'
  <2>1. PICK sampled \in SUBSET Hearing(n) :
        subs' = [s \in DOMAIN subs |->
                    IF s \notin Hearing(n) THEN subs[s]
                    ELSE [subs[s] EXCEPT !.news = IF s \in sampled THEN "late"
                                                  ELSE IF @ = "none" THEN "new" ELSE @]]
    BY <1>1 DEF ServerChanges
  <2>2. \A s \in DOMAIN subs : subs'[s].on = subs[s].on
    BY <1>0, <2>1, SubsAreRecords DEF SubscriptionRecords
  <2> QED BY <1>1, <2>2, SameTracks DEF ServerChanges, Runs
<1>2. ASSUME NEW t \in DOMAIN subs, Notify(t) \/ DeleteDeferred(t) PROVE TrackInv'
  <2>1. \A s \in DOMAIN subs : subs'[s].on = subs[s].on
    BY <1>0, <1>2, SubsAreRecords DEF SubscriptionRecords, Notify, Delivered, DeleteDeferred
  <2>2. UNCHANGED <<rows, tracked, adding, refused>> /\ fault' # "noSubscription"
    BY <1>2 DEF Notify, DeleteDeferred, AtRest, Runs
  <2> QED BY <2>1, <2>2, SameTracks
<1>3. ASSUME NEW o \in Displayed, Paint(o) PROVE TrackInv'
  BY <1>3, SameTracks DEF Paint, AtRest, Runs
<1>4. ASSUME NEW why \in {"deletedNode", "deletedSubscription"}, Fails(why) PROVE TrackInv'
  BY <1>4, SameTracks DEF Fails
<1>5. ASSUME NEW n \in Ids, SelectNode(n) PROVE TrackInv'
  <2>1. /\ UNCHANGED <<subs, rows, tracked, refused, fault>> /\ Runs /\ adding = Nothing
        /\ \E f : adding' = [leaves |-> f, left |-> f]
    BY <1>5 DEF SelectNode, AtRest
  <2>2. PICK f : adding' = [leaves |-> f, left |-> f]
    BY <2>1
  <2>3. NodeInv'
    BY <1>5, SelectNodeInv
  <2>4. (adding' \in Additions /\ adding' # Nothing) \/ adding' = Nothing
    BY <2>3 DEF NodeInv, AddingOK
  <2>5. CASE adding' = Nothing
    BY <2>1, <2>5 DEF TrackInv, Aligned, LeftIsSuffix, Progress
  <2>6. CASE adding' \in Additions /\ adding' # Nothing
    <3>1. f \in Seq(Objects) /\ adding'.leaves = f /\ adding'.left = f
      BY <2>2, <2>6
    <3>2. Len(f) - Len(f) = 0 /\ Len(f) \in Nat
      BY <3>1
    <3>3. Progress' = 0 /\ Progress = 0
      BY <2>1, <2>6, <3>1, <3>2 DEF Progress
    <3>4. LeftIsSuffix'
      BY <3>1, <3>2 DEF LeftIsSuffix
    <3>5. ASSUME ~refused PROVE Aligned'
      <4>1. Aligned
        BY <3>5 DEF TrackInv
      <4>2. \A i \in 1..0 : FALSE
        OBVIOUS
      <4> QED BY <2>1, <3>3, <4>1, <4>2 DEF Aligned
    <3> QED BY <2>1, <3>4, <3>5 DEF TrackInv
  <2> QED BY <2>4, <2>5, <2>6
<1>6. ASSUME NEW n \in Ids, SetNode(n) PROVE TrackInv'
  BY <1>6, SetNodeInv, SameTracks DEF SetNode, AtRest, Runs
<1>7. ASSUME NEW first \in DOMAIN rows, NEW last \in first..Len(rows), RemoveRowsFails(first, last)
      PROVE  TrackInv'
  <2>1. CASE Fails("deletedNode")
    BY <1>4, <2>1
  <2>2. CASE last > Len(tracked) /\ Fails("noSubscription") /\ adding = Nothing
    <3>1. Len(rows) \in Nat /\ last <= Len(rows) /\ Len(tracked) \in Nat /\ last \in Nat
      BY <1>0 DEF NodeTypeOK
    <3>2. ASSUME ~refused PROVE FALSE
      <4>1. Len(tracked) = Len(rows)
        BY <2>2, <3>1, <3>2 DEF TrackInv, Aligned, Progress
      <4> QED BY <2>2, <3>1, <4>1
    <3> QED BY <2>2, <3>2, SameTracks DEF Fails
  <2> QED BY <1>7, <2>1, <2>2 DEF RemoveRowsFails, AtRest
<1>8. ASSUME NEW s \in DOMAIN subs, NotifyDeleted(s) PROVE TrackInv'
  BY <1>4, <1>8 DEF NotifyDeleted
<1>9. ASSUME NEW o \in Displayed, PaintDeleted(o) PROVE TrackInv'
  BY <1>4, <1>9 DEF PaintDeleted
<1>10. ASSUME NEW n \in Ids, SetNodeFails(n) \/ SelectDeleted(n) PROVE TrackInv'
  BY <1>4, <1>10 DEF SetNodeFails, SelectDeleted
<1> QED BY <1>1, <1>2, <1>3, <1>5, <1>6, <1>7, <1>8, <1>9, <1>10,
           SubscribeLeafTracks, RestOfAppendTracks, RemoveRowsTracks DEF NodeNext, User

\* m_subscriptions and m_nodes of a NodeViewModel have the same index for the
\* same node, whatever is added and removed (appendNode, subscribeNodes,
\* removeRows), until createSubscription is refused for the first time.
THEOREM SubscriptionsFollowRows == NodeSpec => []RowsKeepTheirSubscriptions
<1>1. NodeInit => TrackInv
  BY DEF NodeInit, TrackInv, LeftIsSuffix, Aligned, Progress
<1>2. NodeInv /\ TrackInv /\ [NodeNext]_node_vars => TrackInv'
  <2>1. CASE UNCHANGED node_vars
    BY <2>1 DEF node_vars, TrackInv, LeftIsSuffix, Aligned, Progress
  <2> QED BY <2>1, TrackStep
<1>3. NodeInv /\ TrackInv => RowsKeepTheirSubscriptions
  BY AlignedMeansKept
<1> QED BY <1>1, <1>2, <1>3, NodeInvariant, PTL DEF NodeSpec

=============================================================================
