------------------------------- MODULE NodeView -------------------------------
(***************************************************************************)
(* Two panels of a DataViewer that show nodes of the server: a NodeView,   *)
(* whose rows are the variables the user has added, and the AttributeView, *)
(* which shows the node that is selected.  Both work on the Node objects   *)
(* of the Connection, which cache what they have read, and hear of changes *)
(* through Subscriptions, which update that cache.  (A second NodeView     *)
(* would share Node objects with the first as the AttributeView does.)     *)
(*                                                                         *)
(* A Node object is named by the node it stands for and the node it was    *)
(* reached from.  Connection::getNode makes one object for each id and     *)
(* keeps it in m_nodes for ever; Node::getChildren makes further objects   *)
(* for the same ids and keeps them in its cache.  So an object is made at  *)
(* most once, and its address stays in those two places after qDeleteAll.  *)
(* Of the attributes of a node the model has one, which may be cached or   *)
(* not and, if it is, be older than the server's.                          *)
(*                                                                         *)
(* All code runs on the GUI thread.  Notifications come when the poll      *)
(* timer runs the client, and within every other request to the server,    *)
(* for the client handles what arrives while it waits for the answer.      *)
(* Using a deleted object or failing an assertion ends the program.        *)
(***************************************************************************)
EXTENDS Integers, Sequences, FiniteSets

CONSTANTS
    Ids,              \* the ids of the server's nodes
    Variables,        \* those with NodeClass VARIABLE
    Children,         \* the children of each node
    Nothing,          \* the null pointer
    MaxSubscriptions, \* bound: how many subscriptions are ever made
    MaxRows           \* bound: rows of the NodeView

ASSUME NodeViewAssumption ==
    /\ Variables \subseteq Ids
    /\ Children \in [Ids -> SUBSET Ids]
    /\ \A n \in Ids : \A c \in Children[n] : Children[c] = {}  \* bound: two levels
    /\ IsFiniteSet(Ids)
    /\ MaxSubscriptions \in Nat /\ MaxRows \in Nat

\* The Node objects: `of' the node they stand for, found `under' another one,
\* or made by getNode when that is the node itself.
Object(n, p) == [of |-> n, under |-> p]
Own(n)       == Object(n, n)
ChildObjects(n) == {Object(c, n) : c \in Children[n]}
Objects == {Own(n) : n \in Ids} \cup UNION {ChildObjects(n) : n \in Ids}

SubscriptionRecords == [on : Objects, owner : {"rows", "attributes"},
                        state : {"live", "dying", "gone"}, news : {"none", "new", "late"}]

\* What appendNode is adding.
Additions == [leaves : Seq(Objects), left : Seq(Objects)]

ASSUME NothingAssumption == Nothing \notin Nat /\ Nothing \notin Additions

VARIABLES
    life,        \* whether an object is not made yet, alive or deleted
    cache,       \* whether what an object has cached is what the server has
    browsed,     \* the objects that have their children cached
    subs,        \* the subscriptions, in the order they were made
    rows,        \* m_nodes of the NodeViewModel
    tracked,     \* its m_subscriptions
    shown,       \* m_node of the AttributeViewModel
    shown_sub,   \* its m_subscription
    adding,      \* the leaves appendNode is adding, and those left to subscribe
    refused,     \* whether createSubscription has ever returned it nullptr
    fault        \* what ended the program

heap_vars   == <<life, cache, browsed, subs>>
panel_vars  == <<rows, tracked>>
shown_vars  == <<shown, shown_sub>>
node_vars   == <<heap_vars, panel_vars, shown_vars, adding, refused, fault>>

Runs   == fault = "none"
AtRest == Runs /\ adding = Nothing

Members(s) == {s[i] : i \in DOMAIN s}

InForce(s) == subs[s].state # "gone"

Cached(o, state) == [cache EXCEPT ![o] = state]

-----------------------------------------------------------------------------
(* Faults: nothing but `fault' changes.                                    *)

Fails(why) ==
    /\ fault' = why
    /\ UNCHANGED <<heap_vars, panel_vars, shown_vars, adding, refused>>

-----------------------------------------------------------------------------
(* The server and the client library.                                      *)

Delivered(s) == [subs EXCEPT ![s].news = IF @ = "late" THEN "new" ELSE "none"]

Hearing(n) == {s \in DOMAIN subs : InForce(s) /\ subs[s].on.of = n}

\* What a subscription has to tell is new, or late when the server has a newer
\* value than the one that it has sampled and still sends first.
ServerChanges(n) ==
    /\ Runs
    /\ cache' = [o \in Objects |-> IF o.of = n /\ cache[o] = "current" THEN "old" ELSE cache[o]]
    /\ \E sampled \in SUBSET {s \in Hearing(n) : subs[s].news # "none"} :
        subs' = [s \in DOMAIN subs |->
                    IF s \notin Hearing(n) THEN subs[s]
                    ELSE [subs[s] EXCEPT !.news = IF s \in sampled THEN "late"
                                                  ELSE IF @ = "none" THEN "new" ELSE @]]
    /\ UNCHANGED <<life, browsed, panel_vars, shown_vars, adding, refused, fault>>

\* Faulty variant: the signal is emitted without an update of the cache.
NotifyWithoutUpdate(s) ==
    /\ Runs /\ InForce(s) /\ subs[s].news # "none"
    /\ life[subs[s].on] = "alive"
    /\ subs' = Delivered(s)
    /\ UNCHANGED <<life, cache, browsed, panel_vars, shown_vars, adding, refused, fault>>

\* The callback of subscribeDataChanged: updateNodeCache, then valueChanged,
\* whose slot in the NodeViewModel looks for the row; that of the
\* AttributeViewModel copes with whatever it hears of.
Notify(s) ==
    /\ Runs /\ InForce(s) /\ subs[s].news # "none"
    /\ life[subs[s].on] = "alive"
    /\ subs' = Delivered(s)
    /\ cache' = Cached(subs[s].on, IF subs[s].news = "late" THEN "old" ELSE "current")
    /\ fault' = IF subs[s].owner = "rows" /\ subs[s].on \notin Members(rows)
                THEN "noRow" ELSE fault
    /\ UNCHANGED <<life, browsed, panel_vars, shown_vars, adding, refused>>

\* updateNodeCache on an object that was deleted with its row.
NotifyDeleted(s) ==
    /\ Runs /\ InForce(s) /\ subs[s].news # "none"
    /\ life[subs[s].on] = "deleted"
    /\ Fails("deletedNode")

\* createSubscription: the server starts with a notification of what it has.
Subscribe(current, o, owner) ==
    /\ Len(current) < MaxSubscriptions
    /\ subs' = Append(current, [on |-> o, owner |-> owner, state |-> "live", news |-> "new"])

\* The event loop deletes what deleteLater was called for.
DeleteDeferred(s) ==
    /\ AtRest
    /\ subs[s].state = "dying"
    /\ subs' = [subs EXCEPT ![s].state = "gone", ![s].news = IF @ = "late" THEN "new" ELSE @]
    /\ UNCHANGED <<life, cache, browsed, panel_vars, shown_vars, adding, refused, fault>>

-----------------------------------------------------------------------------
(* The NodeView.                                                           *)

\* The object and what getChildren makes for it.
Reach(n) == {Own(n)} \cup ChildObjects(n)

\* Some order of the leaves: that of the stack in findLeafNodes is as good as any.
InOrder(S) == CHOOSE f \in [1..Cardinality(S) -> S] : Members(f) = S

\* Double click in the tree, selectNode up to the subscriptions: getNode and
\* findLeafNodes.  A node whose children cannot be read is left out, with all
\* that is below it.  What is read once is cached.
SelectNode(n) ==
    /\ AtRest
    /\ \A o \in Reach(n) : life[o] # "deleted"
    /\ \E readable \in SUBSET Reach(n) :
        LET found  == IF Own(n) \in readable THEN readable ELSE {}
            made   == IF Own(n) \in readable THEN Reach(n) ELSE {Own(n)}
            leaves == InOrder({o \in found : o.of \in Variables})
        IN
        /\ browsed \cap Reach(n) \subseteq readable
        /\ browsed' = browsed \cup found
        /\ life' = [o \in Objects |-> IF o \in made THEN "alive" ELSE life[o]]
        /\ Len(rows) + Len(leaves) <= MaxRows
        /\ adding' = [leaves |-> leaves, left |-> leaves]
    /\ UNCHANGED <<cache, subs, panel_vars, shown_vars, refused, fault>>

\* getNode finds a deleted object in m_nodes, or getChildren one in its cache.
SelectDeleted(n) ==
    /\ AtRest
    /\ \E o \in Reach(n) : life[o] = "deleted"
    /\ Fails("deletedNode")

LeavesLeft == Runs /\ adding # Nothing /\ adding.left # <<>>

\* One turn of the loop of subscribeNodes.
SubscribeLeaf ==
    /\ LeavesLeft
    /\ Subscribe(subs, Head(adding.left), "rows")
    /\ tracked' = Append(tracked, Len(subs'))
    /\ adding' = [adding EXCEPT !.left = Tail(@)]
    /\ UNCHANGED <<life, cache, browsed, rows, shown_vars, refused, fault>>

\* createSubscription returns nullptr: the leaves that are left get none.
SubscribeRefused ==
    /\ LeavesLeft
    /\ refused' = TRUE
    /\ adding' = [adding EXCEPT !.left = <<>>]
    /\ UNCHANGED <<heap_vars, panel_vars, shown_vars, fault>>

\* The rows are inserted after all of them are subscribed.
InsertRows ==
    /\ Runs /\ adding # Nothing /\ adding.left = <<>>
    /\ rows' = rows \o adding.leaves
    /\ adding' = Nothing
    /\ UNCHANGED <<heap_vars, tracked, shown_vars, refused, fault>>

\* qDeleteAll: what the nodes have cached goes with them.
DeleteNodes(S) ==
    /\ life'    = [o \in Objects |-> IF o \in S THEN "deleted" ELSE life[o]]
    /\ cache'   = [o \in Objects |-> IF o \in S THEN "unread" ELSE cache[o]]
    /\ browsed' = browsed \ S

Without(s, first, last) == SubSeq(s, 1, first - 1) \o SubSeq(s, last + 1, Len(s))

\* Faulty variant: the rows go but the nodes stay, for others may show them.
RemoveRowsKeepsNodes(first, last) ==
    /\ AtRest
    /\ last <= Len(tracked)
    /\ rows'    = Without(rows, first, last)
    /\ tracked' = Without(tracked, first, last)
    /\ UNCHANGED <<heap_vars, shown_vars, adding, refused, fault>>

\* Faulty variant: the end of the range of subscriptions is taken for its length.
RemoveRowsOffByOne(first, last) ==
    /\ AtRest
    /\ \A i \in first..last : life[rows[i]] = "alive"
    /\ \A i, j \in first..last : rows[i] = rows[j] => i = j
    /\ last <= Len(tracked)
    /\ DeleteNodes({rows[i] : i \in first..last})
    /\ rows'    = Without(rows, first, last)
    /\ tracked' = Without(tracked, first, last - 1)
    /\ UNCHANGED <<subs, shown_vars, adding, refused, fault>>

\* removeRows: the nodes are deleted, the subscriptions only dropped.
RemoveRows(first, last) ==
    /\ AtRest
    /\ \A i \in first..last : life[rows[i]] = "alive"
    /\ \A i, j \in first..last : rows[i] = rows[j] => i = j
    /\ last <= Len(tracked)
    /\ DeleteNodes({rows[i] : i \in first..last})
    /\ rows'    = Without(rows, first, last)
    /\ tracked' = Without(tracked, first, last)
    /\ UNCHANGED <<subs, shown_vars, adding, refused, fault>>

\* A node is deleted twice, or there are fewer subscriptions than rows.
RemoveRowsFails(first, last) ==
    /\ AtRest
    /\ IF \E i, j \in first..last :
              life[rows[i]] = "deleted" \/ (i # j /\ rows[i] = rows[j])
       THEN Fails("deletedNode")
       ELSE last > Len(tracked) /\ Fails("noSubscription")

-----------------------------------------------------------------------------
(* The AttributeView.                                                      *)

\* wrapCache: what is not cached is read from the server, which may fail.
Read(o) ==
    \/ UNCHANGED cache
    \/ cache[o] = "unread" /\ cache' = Cached(o, "current")

SubscriptionIsGone == shown_sub # Nothing /\ subs[shown_sub].state = "gone"

\* m_subscription once createSubscription has returned: what it was, if that
\* is nullptr.
SubscribeShown(n, current) ==
    \/ /\ Subscribe(current, Own(n), "attributes")
       /\ shown_sub' = Len(subs')
    \/ subs' = current /\ UNCHANGED shown_sub

\* Faulty variant: the old subscription is forgotten.
SetNodeKeepsSubscription(n) ==
    /\ AtRest /\ ~SubscriptionIsGone
    /\ life[Own(n)] # "deleted"
    /\ life'  = [life EXCEPT ![Own(n)] = "alive"]
    /\ shown' = Own(n)
    /\ Read(Own(n))
    /\ SubscribeShown(n, subs)
    /\ UNCHANGED <<browsed, panel_vars, adding, refused, fault>>

\* A click in the tree, or another current row in the NodeView, also when the
\* removal of rows makes another one current: setNode.  A notification that
\* arrives while it waits for the server might as well have come before.
SetNode(n) ==
    /\ AtRest /\ ~SubscriptionIsGone
    /\ life[Own(n)] # "deleted"
    /\ life'  = [life EXCEPT ![Own(n)] = "alive"]
    /\ shown' = Own(n)
    /\ Read(Own(n))
    /\ SubscribeShown(n, IF shown_sub = Nothing THEN subs
                         ELSE [subs EXCEPT ![shown_sub].state = "dying"])
    /\ UNCHANGED <<browsed, panel_vars, adding, refused, fault>>

\* deleteLater of a subscription that is deleted: m_subscription still points
\* to it, for no other has replaced it.
SetNodeFails(n) ==
    /\ AtRest /\ SubscriptionIsGone
    /\ life[Own(n)] # "deleted"
    /\ Fails("deletedSubscription")

-----------------------------------------------------------------------------
(* Painting reads the cached value through getDataValue.                   *)

Displayed == ({shown} \ {Nothing}) \cup Members(rows)

Paint(o) ==
    /\ AtRest
    /\ life[o] = "alive"
    /\ cache[o] = "unread" /\ cache' = Cached(o, "current")
    /\ UNCHANGED <<life, browsed, subs, panel_vars, shown_vars, adding, refused, fault>>

PaintDeleted(o) ==
    /\ AtRest
    /\ life[o] = "deleted"
    /\ Fails("deletedNode")

-----------------------------------------------------------------------------
NodeInit ==
    /\ life  = [o \in Objects |-> "none"]
    /\ cache = [o \in Objects |-> "unread"]
    /\ browsed = {} /\ subs = <<>>
    /\ rows = <<>> /\ tracked = <<>>
    /\ shown = Nothing /\ shown_sub = Nothing
    /\ adding = Nothing /\ refused = FALSE /\ fault = "none"

User ==
    \/ \E n \in Ids : SelectNode(n) \/ SetNode(n) \/ SetNodeFails(n) \/ SelectDeleted(n)
    \/ \E first \in DOMAIN rows : \E last \in first..Len(rows) :
           RemoveRows(first, last) \/ RemoveRowsFails(first, last)

NodeNext ==
    \/ \E n \in Ids : ServerChanges(n)
    \/ \E s \in DOMAIN subs : Notify(s) \/ NotifyDeleted(s) \/ DeleteDeferred(s)
    \/ \E o \in Displayed : Paint(o) \/ PaintDeleted(o)
    \/ SubscribeLeaf \/ SubscribeRefused \/ InsertRows
    \/ User

Notified(s) == s \in DOMAIN subs /\ (Notify(s) \/ NotifyDeleted(s))

\* The server publishes what it has sampled, and the timer polls for it.
NodeSpec ==
    /\ NodeInit /\ [][NodeNext]_node_vars
    /\ \A s \in 1..MaxSubscriptions : WF_node_vars(Notified(s))

-----------------------------------------------------------------------------
(* Properties.                                                             *)

NodeTypeOK ==
    /\ life \in [Objects -> {"none", "alive", "deleted"}]
    /\ cache \in [Objects -> {"unread", "current", "old"}]
    /\ subs \in Seq(SubscriptionRecords)
    /\ browsed \subseteq Objects
    /\ rows \in Seq(Objects) /\ tracked \in Seq(DOMAIN subs)
    /\ shown \in Objects \cup {Nothing} /\ shown_sub \in DOMAIN subs \cup {Nothing}
    /\ refused \in BOOLEAN
    /\ fault \in {"none", "deletedNode", "deletedSubscription", "noRow", "noSubscription"}

\* The rows that are being subscribed but not inserted yet.
Subscribed ==
    IF adding = Nothing THEN <<>>
    ELSE SubSeq(adding.leaves, 1, Len(adding.leaves) - Len(adding.left))

\* Row and subscription of the NodeView have the same index, however rows are
\* added and removed, so long as the server refuses no subscription
\* (appendNode, subscribeNodes, removeRows).
RowsKeepTheirSubscriptions ==
    ~refused =>
        /\ fault # "noSubscription"
        /\ [i \in DOMAIN tracked |-> subs[tracked[i]].on] = rows \o Subscribed

\* The assertion NodeViewModel.cpp:193, that the row of a notification is
\* found, can only fail while rows are being added.
RowFoundOnceAdded == fault = "noRow" => adding # Nothing

AllTold(o) == \A s \in DOMAIN subs : subs[s].on = o => subs[s].news = "none"

\* What a subscribed object has cached is what the server has, or one of its
\* subscriptions has still to correct it, whoever else has read, cached or
\* dropped it meanwhile (`Subscription updates the cache directly',
\* Node.hpp:278).  Only a subscription that was deleted before it has sent
\* what it had to tell may leave something older behind.
CacheIsFresh ==
    \A s \in DOMAIN subs :
        InForce(s) /\ life[subs[s].on] = "alive" /\ AllTold(subs[s].on)
            => cache[subs[s].on] = "current"

\* Selecting one node after the other leaves no subscription behind: a live
\* one of the AttributeView is its m_subscription, about the node it shows.
OneAttributeSubscription ==
    \A s \in DOMAIN subs :
        subs[s].owner = "attributes" /\ subs[s].state = "live"
            => s = shown_sub /\ subs[s].on = shown

\* A row or attribute that is subscribed comes to show what the server has
\* once nothing changes any more, or its subscription, the object or the
\* program ends, but for what a deleted subscription leaves behind.
DisplayCatchesUp ==
    \A o \in Objects :
        <>[][\A n \in Ids : ~ServerChanges(n)]_node_vars =>
            (\E s \in DOMAIN subs : InForce(s) /\ subs[s].on = o)
               ~> \/ cache[o] = "current" \/ life[o] = "deleted" \/ ~Runs
                  \/ \A s \in DOMAIN subs : InForce(s) => subs[s].on # o
                  \/ \E s \in DOMAIN subs : ~InForce(s) /\ subs[s].on = o /\ subs[s].news # "none"
=============================================================================
