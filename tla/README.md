# Verification of magnesia

magnesia is a Qt 6 client for OPC UA servers. This directory holds TLA+ models
of its own logic, the TLC configurations that check them on small instances and
proofs about them for every instance. `PROJECT.json` lists the components, the
runs, what each definition translates (`map`), the hazards of the code and the
properties that are aimed at each.

Paths below are relative to `src/src/magnesia/`.

## The system

| Component | State it keeps | Operations | Talks to |
|---|---|---|---|
| `StorageManager`, `SQLStorageManager` | the SQLite database: certificates, keys, pairs of them, recent connections with trust and revoked lists, layouts, key-value pairs, settings, and `TupleDeleteMonitor` | `storeX`, `deleteX`, `setKV`, `setXSetting`, `resetSetting`, getters, `migrate`, `handleDeleteMonitor` | emits `xChanged` synchronously; the slots call it back |
| `SettingsManager`, `settings.hpp` | definitions of settings per domain | `defineSettingDomain`, `setXSetting`, `getXSetting`, `resetSetting`, validation | storage; emits `settingChanged`, `settingDomainDefined`; passes on what the storage says of deleted settings |
| `Application`, activities | open activities, tabs, disambiguation numbers | `openActivity`, `closeActivity`, `focusActivity` | owns storage, settings, router |
| `Router` | static, dynamic and fallback handlers | `registerX`, `setStatic`, `setFallback`, `route` | URL handlers of activities |
| dataviewer `ConfigWidget` | the current `ConnectionBuilder`, three item models | find endpoints, connect, activate or remove a recent connection | storage, builder, opens a `DataViewer` |
| `DataViewer`, `LayoutSelectorModel` | the selected layout, a mirror of the stored layouts | select, save and delete layouts | storage, panel layout |
| `layout.cpp` | a tree of layouts and panels | split, wrap, unwrap, save, restore | panels |
| panels | tree, node, attribute, reference and log models | select node, subscribe, drop nodes | `Connection`, `Node`, `Subscription` |
| Settings and Certificate activities | widgets that mirror settings, certificates, keys | set, reset, delete, create | settings, storage, router |
| `Connection`, `ConnectionBuilder` | client, poll timer, cache of nodes; what to connect with | build, connect, poll, close, find endpoints on a pool thread | server, storage, settings |
| `Node`, `Subscription` | cached attributes of a node; monitored items | read, write, subscribe, update the cache | server |

Everything but `ConnectionBuilder::findEndpoints` runs on the GUI thread. The
hard part is therefore not threads but *re-entrancy and crashes*: a signal is a
synchronous call, its slots delete rows while the emission runs, those deletions
emit again; and every SQL statement commits on its own, so a call of several
statements can be cut anywhere.

What makes the components correct:

* storage: nothing dangles; a setting has exactly one value; every listener
  hears of every deletion, cascaded ones too, and never of one that did not
  happen; calls return; all this also after a kill;
* item models: they show what is stored, and touch nothing else;
* recent connections: activating one never loses it;
* connection set-up: the newest search wins, nobody connects without a builder, an
  endpoint is used with the server it came from;
* nodes and subscriptions: what is cached is what the server has or will be
  corrected, every row keeps its subscription, nothing is used after it was
  deleted;
* settings: a listener knows the value a setting has, an id that is read is the id of
  a row, the page shows what is stored;
* layout selector: it offers what is stored and is on the row it remembers;
* panel layout: the tree stays a tree, no panel goes with another, what is restored is
  what would be saved;
* database file: migrations are executed in order and once, also by several programs.

## The modules

**`Storage.tla`** models `SQLStorageManager.cpp`. One action is one SQL statement
or one step between signals. `todo` is the C++ call stack, head first: a frame
says what the program does next when control returns to it (`Drain`: the call of
`handleDeleteMonitor`; `DeliverAll`: its loop with the events it still holds in
memory; `Slots`: a signal being emitted; the `Insert...` frames: the remaining
statements of a store call). The objects are the tuples of the relations that
have a deletion trigger; `refs` and `typed` hold their foreign keys, `listed` the
two lists of a connection, `monitor` the bag of events in `TupleDeleteMonitor`.
`Doomed` is what `ON DELETE CASCADE` and the triggers of the ten setting
relations take along: three rounds, because the longest chain of foreign keys has
three links. Ids are given like SQLite gives them, highest plus one, so that the
id of a deleted row is reused. While the slots of a Deleted signal run they may
delete anything (`SlotMayCall`): the module makes no assumption on which slots
are connected. `known` is what the listeners were told. Data (PEM, URLs, JSON,
values) is left out, as are the getters.

**`ChangeFeed.tla`** is what `StorageManager.hpp` promises to a listener: objects
come and go, a removal is only told of what is gone, and whatever is still to be
told is told in the end. `StorageFeed.tla` states that `Storage` implements it,
by mapping `present` to `rows`, `told` to `known` and `running` to `up`.

**`Clients.tla`** composes the storage with the models that mirror it: the
`CertificateModel` and the `HistoricServerConnectionModel` of the `ConfigWidget`,
which lives in the tab that cannot be closed, and one `LayoutSelectorModel` per
`DataViewer`. The free slots of `Storage` become
the slots of the open models; a model answers a Deleted signal with `removeRow`,
which deletes the row from the storage *again*, inside the emission. The user
creates and deletes certificates, connects, activates and removes recent
connections, saves and removes layouts, closes viewers. A user
request that makes several storage calls keeps the rest in `handler`.
`Connection::connectAndRun` blocks until the server has answered and `connected`
is emitted in it, so connecting is one request.

**`ConnectionFlow.tla`** models Quick Connect: the current `ConnectionBuilder`, the
searches on the pool's threads (`search`, `endpoints`), the endpoint table with
its current and selected row, the Connect button, the combo box of certificates
and the certificate that a refused connection leaves in the builder
(`certificate`). A builder is the number of the press of Find Endpoints that made it,
and stands for its url, user and password. What an assertion excludes ends the
program (`app`), as in a debug build; in a release build it is undefined. The
selection model of Qt is modelled from its documentation: it emits
`selectionChanged` when a row is selected or deselected and nothing when the
model is reset.

**`NodeView.tla`** models two panels over one connection: the `NodeViewModel` with its
`rows` (`m_nodes`) and `tracked` (`m_subscriptions`), the `AttributeViewModel` with
`shown` (`m_node`) and `shown_sub` (`m_subscription`), the `Node` objects with
what they have cached (`life`, `cache`, `browsed`), and every `Subscription` ever
made (`subs`) with what the server has still to tell through it. A `Node` is
named by its id and the node it was found under, since `Connection::getNode` and
`Node::getChildren` each make an object of their own and keep it. Of the
attributes of a node there is one, the value. What is synchronous on the GUI
thread is one step, but for `subscribeNodes`: each request to the server may let
notifications in, and there it matters, so each leaf is a step. A notification
brings the value that the server had sampled: `late` if the server has a newer one
since, which it then sends too. Using a deleted object ends the program (`fault`).
The tree has two levels (`NodeViewAssumption`), and the monitored items of a
subscription are always created.

**`SettingsManager.tla`** models `SettingsManager.cpp` and `settings.cpp`: the
definitions of each domain (`defs`), the tuple of each setting (`stored`), the rows
that settings refer to, and what a listener of `settingChanged` and
`settingDomainDefined` has read (`told`). `Value` is `getSetting` with its default,
`Accepts` is `validate`, and a setting of an id that is no row ends the program, as
the refused foreign key does. `Storage` has the statements one by one; here a call is
one step, and what a deletion cascades to is any set of rows.

**`SettingsPage.tla`** is the Settings activity over it. `Widget` is what
`createSettingWidget` shows for a value: a spin box clamps it, a combo box without it
stays where it is. `onSettingChanged` builds nothing while the page is visible, for
the widget that was used shows the change already; the module has what each widget
shows (`shown`, `offered`, `listed`) and checks that this is so. Three details of
the code are in it: the Reset button of a number or a choice stores the default
after it has removed the value, since the widget reports the change; a value is
validated when it is set and not again when the domain is redefined with other
limits, so that the page may show a clamped value that is not the stored one; and a
restart is a redefinition. Left out: the 64-bit integer that a spin box takes as an
`int`, the rounding of a double, and layouts of other groups, which a setting can
be set to only by code that does not exist.

**`PanelTree.tla`** models the tree of panels in `layout.cpp`: `tree` is the tree of splitters with
`m_parent_layout`, who splits a wrapper, and the queue of `deleteLater()`
(`doomed`). The event loop deletes one object at a time (`DeleteNext`), and the
`childEvent` that follows adds an empty panel to the root, deletes an emptied layout
or merges the last widget of a layout into its parent. A click that was queued
before may be handled while a deletion is still to come (`MaxPending`), so that two
closes in one batch, which can bring a panel back, and a restore over a pending close,
which may leave a panel, happen. Of `restoreLayout` the module says what comes of it for the
tree, whatever is read and wherever it stops (`Restored`). A nested layout that cannot be
restored stays outside of the tree with what it holds, for nothing owns it; the history
variable `stranded` has these objects, for the properties. The handle of a splitter, which
is a child as well, and sizes are left out.

**`PanelLayout.tla`** adds the documents: a document is a tree of records, `SaveLayout` and
`RestoreLayout` recurse over it. `restoreLayout` adds to what is there before it is deleted,
and stops where a document cannot be read; a nested layout that it was restoring is then left
as it is, neither added nor deleted. A panel that was created for data it does not accept is
left without a wrapper in the same way (layout.cpp:341 to 353), but is no object of the model.
`ImplementsTree` is that this is a step of
`PanelTree`. A nested layout in a document has two widgets or more, or cannot be read: the
program writes no other, since its own nested layouts have two in every state
(`Filled`, below).

**`LayoutSelector.tla`** models the selector of layouts in several `DataViewer`s: a
`QComboBox`, its `LayoutSelectorModel` and `m_old_layout_index`. The combo box is
modelled from Qt's source: it moves its current row as rows are announced, and takes
that for a change of its index. The model announces a row that is off by one when a
layout is added, since it forgets the Default row in front; and a removal comes back
to the model through the storage's signal, which finds the row erased: the two are one
step here (`ModelRemoves`), for the second does nothing. With one
viewer a signal is about the row that the viewer has just saved or removed; with
several it is not, and that is why there are three.

**`Migration.tla`** models the constructor of `SQLStorageManager`: `migrate()` with
its two statements per migration, on one file that several programs of older and
newer builds open and that any of them may leave half done. `executed` is what the
file has, `version` its `user_version`. `Storage` begins where this ends.

`MCStorage.tla` (over `StorageFeed`), `MCClients.tla`, `MCNodeView.tla`, `MCSettings.tla` and
`MCPanelLayout.tla` give the bounds their values. The operators headed *Faulty
variant* are not part of the models: each is what one definition would be with a
plausible bug, and stands next to it to show that some property would notice.

## What the runs show

| Run | Bounds | Shows |
|---|---|---|
| `StorageSettings` | two settings, five types, one row of each relation, no kill | a Deleted signal is about something that is gone, even when slots delete again (`DeletedMeansGone`); `ListenersCaughtUp`, `TotalPartition` |
| `StorageCrash` | one kill anywhere, callers with stale ids, 2 certificates, 1 chain, 1 setting of two types | `TypeOK`, `ReferentialIntegrity`, `OneTypePerSetting`, `AnnouncedWithItsLists` |
| `StorageFeed` | one chain, setting and key-value pair, failing foreign keys | `ImplementsFeed`: the refinement, with its liveness; every cascaded deletion is told before the call returns (`DeletionsAreTold`, liveness) |
| `Clients` | the configuration widget, 2 viewers, 2 pairs, 2 connections, 1 layout | `ModelsInSync`, `NestingIsBounded` (no more than five frames, although eight are allowed), `SlotsKeepTheContract`, `RemovesNothingElse`, `ReplacedBeforeDeleted` |
| `ConnectionFlow` | 3 searches, 2 endpoints, 2 certificates | `ConnectHasABuilder`, `NewestIsShown`, `CurrentIsARow`, `SearchIsAnswered` (liveness) |
| `NodeView` | a variable with a property that is one too, 2 subscriptions, 2 rows | `RowsKeepTheirSubscriptions`, `RowFoundOnceAdded`, `CacheIsFresh`, `OneAttributeSubscription`, `DisplayCatchesUp` (liveness) |
| `SettingsPage` | 4 settings in 2 domains of which 3 or 4 are defined, 2 tables with 2 ids, 6 plus 2 definitions of domains | `PageIsUpToDate`, `NoRequestIsRefused`, `ListenersKnowValues` |
| `PanelLayout` | 4 layouts, 5 wrappers, 1 pending deletion, 4 documents, of which 2 cannot be read to the end and one strands two layouts | `TreeIsSound`, `NoIdleLayout`, `PanelsSurvive`; `RestoreIsExact`; `ImplementsTree`: restoring a document is a step of `PanelTree` |
| `LayoutSelector` | 3 viewers, ids up to 4 | `RowsFollowStorage`, `SelectionIsRestored`, `SavedIsSelected`, `RemoverDoesNotSave` |
| `Migration` | 3 programs, builds of 1 and 3 migrations, any number of kills | `ExecutedInOrder`, `OpenHasItsSchema`, `VersionGrows` |
| `ClientsOtherConnections` | as `Clients` | violated: `KeepsOtherConnections` |
| `MigrationKilled` | 1 program, 2 migrations | violated: `VersionIsFirstNotExecuted` |

Two runs show a disagreement of code and documentation:

* **The wrong table.** `CertificateModel::removeRows` deletes from the recent
  connections. Whoever deletes a certificate in the Settings activity while a
  `ConfigWidget` is open loses the connection with the same number as the pair.
* **A file that opens no more.** A kill between a migration and the update of
  `user_version` has the migration executed again at the next start. It creates what
  exists already, fails, and `terminate()` ends the program: at every start.

The models also reach these, for which there is no run of its own, since the step
that does it is plain to see in the model:

* `setXSetting` is two statements. A kill between them leaves a `Setting` tuple
  alone, which the class comment rules out ("total partition"): `TotalPartition`
  holds without a kill only.
* A kill between a DELETE and `handleDeleteMonitor` leaves the event in the
  database. The constructor does not look at it. The id is reused, the next deletion
  of anything announces the removal of the new row, and the item models delete it:
  `DeletedMeansGone` holds without a kill only.
* Select a row of the old endpoints while a new search runs: Connect is enabled.
  The answer resets the model, nothing is selected any more, Connect is still
  enabled, and it reads in front of the vector (`ConnectWithoutTarget`).
* The endpoints of the search before stay in the table, and can be used with the
  builder, url and user of the search that is running (`recorded`).
* `NodeViewModel::removeRows` deletes the nodes of the rows. The connection goes on
  handing them out, the callback of their subscription writes into their cache, and
  the AttributeView may be showing one of them (`NotifyDeleted`, `SelectDeleted`,
  `PaintDeleted`).
* A layout that is saved in one viewer moves the selection of another one that is on
  the last layout, and restores the new layout there, for the announced row is off
  by one (DataViewer.cpp:281). A layout that is removed in one viewer while it is
  the last and current one in another selects "<Save Layout>" there. Who removes
  a layout from the middle has the row of the next one selected and keeps the
  panels of the removed one: `m_old_layout_index` is the same number. Selecting that row
  again does nothing, since it is current (`SelectionIsRestored` is about other rows).
* A nested layout of which a child cannot be restored has no parent widget yet
  (layout.hpp:102) and is neither added to the splitter nor deleted (layout.cpp:293 to 297).
  It and what it holds are there until the program ends. They are no part of the tree:
  `NoIdleLayout` and the proofs say that the two never mix.
* `restoreLayout` gives the sizes of a document to the first widgets of the
  splitter, while those are still the ones that will be deleted; the TODO at
  layout.cpp:317 asks why layouts are not always restored exactly.
* `handleDeleteMonitor` empties the monitor before the first signal, although the
  comment on `TupleDeleteMonitor` says that an event stays until it is handled.
  Emptying it first is what keeps the nesting finite (`NestingIsBounded`, and its
  faulty variant), so it is the comment that should change.
* After a refused connection `build()` is called again on the same builder, which
  its documentation rules out (`ConnectRefused`, then `ConnectRequest`); and if the
  certificate of the first attempt was deleted meanwhile, it returns the null
  pointer that is asserted against (`ConnectWithLostCertificate`).
* When `createSubscription` fails, the AttributeView still points to the
  subscription it gave up, and gives it up again at the next selection, when it
  is deleted (`SetNodeFails`).
* The assertion that the row of a notification is found can fail: a notification
  that comes while `subscribeNodes` waits for the next subscription finds no row
  yet. `RowFoundOnceAdded` says that it fails in no other case.
* A comment says builders are never destroyed; they are when the program ends
  (`Exit`), and a thread of the pool may still use one.

### Why the bounds are enough

`Clients` has two pairs and two connections: one id is reused while another row
stays, two events wait in one drain, and an id of one relation is an id of the
other. Two viewers over one table are needed for a view to lose a row through
another view. `StorageCrash` has the longest chain of foreign keys, certificate, pair,
connection and setting, and like `StorageFeed`, where the setting is one of the
pair, a second certificate, so that a deletion takes some entries of a list and
leaves others. `StorageSettings` has one row of every relation a
setting can refer to: the ids are reused as soon as a row is gone, and two settings
may refer to the same row or to different ones.

One kill separates any two statements, and the second life already has everything a
third would have. Kills are in `Storage`; that a recent connection survives one is
`ReplacedBeforeDeleted` of `Clients`, which holds in every state and so in the one a
kill leaves. Five frames hold a delete call's loop, an emission and the same
inside it; that nothing deeper happens with the program's own listeners is
`NestingIsBounded`, checked with room for eight.

In `NodeView` two subscriptions are two rows of one selection, or a row and the
AttributeView on the same node, or one selection of the AttributeView after
another; refused subscriptions come on top. The variable with a property gives a
node that is a row as itself and as a child.

With three searches two may be late while a third is under way, and a connection
may come between.

`SettingsPage` has one setting per way of showing a value (text or check box, clamped,
choice, row), a domain whose definitions change limits, default and type, and one
whose second definition lacks a setting that has a value. Two ids let a row go and
another one stay. Three viewers of `LayoutSelector` are one that acts, one that
follows and one that asks for a name; with ids up to four there is a layout in
front of, at and behind the current row when one is removed. `PanelLayout` has as many
objects as its largest document and a split beside it; what does not fit is left out by
`RoomFor`. The builds of `Migration` are two migrations apart, so that one program can be
overtaken twice by another, and a third one can come in between.

### Fairness

`FairSpec` assumes weak fairness of `Progress`: a synchronous call runs until it
returns. It assumes strong fairness of `SlotsReturn`: an emission does not call
back for ever. For listeners in general that is an assumption; for the listeners
of this program it is *shown*: `SlotsKeepTheContract` is `FairSpec` itself, checked
of `Clients`, whose only fairness is that the GUI thread runs on. Nothing is
assumed of users, kills and restarts. `FlowSpec` assumes that a started search
ends, for the client's request has a timeout and the pool runs what it is given,
and that the event loop delivers what was posted. `NodeSpec` assumes that what a
subscription has to tell arrives, for the server publishes and the timer of
`Connection` polls. `DisplayCatchesUp` only speaks of a server whose values have
stopped changing.

## What is proved

Every theorem holds for all values of the constants that the named assumptions of the
modules allow (`StorageAssumption`, `ClientsAssumption`, `FlowAssumption`,
`NodeViewAssumption` and `NothingAssumption`, `SettingsAssumption`, `SelectorAssumption`,
`MigrationAssumption`, `TreeAssumption`): any number of rows, viewers, searches, nodes,
settings, programs, panels.
There is one lemma per group of actions, and in it one step per action.

**`StorageProofs.tla`**: `StorageTyped` (`TypeOK`), `StorageIsSound` (`Integrity`), and from
it `NothingDangles` (`ReferentialIntegrity`) and `SettingsHaveOneValue`
(`OneTypePerSetting`), kills and stale ids included. `ReferentialIntegrity` is not
inductive alone, for two reasons, and `Integrity` adds what is missing:

* that three rounds of referrers close the cascade holds only because foreign
  keys go from settings to connections to pairs to certificates and not in
  circles: `Layered` (lemma `CascadeIsClosed`);
* between the statements of a call the program relies on rows it inserted
  before: `InsertsAreSafe` says that a call that is inserting list entries or a
  setting value is alone on the stack and its row still there.

Its second half is about what listeners are told. `SignalsAreSound` has the invariant, `FeedInv`, which adds to `Integrity`

* `OneMode`: all frames of the stack belong to deletions or none does, for only a
  deletion's slots call back, and they only delete;
* `MonitorIsRead`: the monitor is empty but between a DELETE and its
  `handleDeleteMonitor`, so that no other loop takes its events;
* `ToldIsGone`: what is in the monitor, in a loop or being told as deleted is not in
  the tables, which stays true since nothing is stored meanwhile (`OneMode`);
* `NothingIsMissed`: what differs between the tables and what the listeners know is
  still on the stack or in the monitor.

The last three need that no process was killed (`crashes = 0`), and are false
otherwise, for a kill leaves events in the monitor: see above. From it follow, without a
kill, `DeletedIsGone` (`DeletedMeansGone`) and `ListenersCatchUp` (`ListenersCaughtUp`),
and `StorageFollowsFeed`: the storage starts as `ChangeFeed` does and each of its steps is a
step of `ChangeFeed` or changes nothing it shows. That is the refinement
without its fairness. `SettingsHaveAValue` (`TotalPartition`) also needs that no caller
passes the id of a row that is gone (`~StaleIds`); its invariant, `PartitionInv`, says that a
`Setting` without a value is the one whose second statement is on the stack.
`ConnectionsComeWithTheirLists` (`AnnouncedWithItsLists`) holds with kills too: `ListsInv`
says, for each point of storeHistoricServerConnection, what is stored of the two lists and
what is left to store, and a new connection has no lists since `ReferentialIntegrity` left
none under its id.

**`ClientProofs.tla`** proves every safety property of the run `Clients`, for any number of
rows and viewers. `ClientsAreSound` has the invariant, `ClientInv`; its parts are

* `StackShape`: a call that stores has at most five frames and is called back by nobody
  (`StoringStack`); otherwise the stack is emissions in loops in emissions
  (`DeletionStack`), as many as `waiting` has sets of views, and what is told inside an
  emission is what its slots have deleted (`NestingInv`). Since only `CertificateModel`
  deletes something that is still there, and that a connection, the third level would need
  an object that is a certificate pair and a connection: `CallsNestTwice`
  (`NestingIsBounded`);
* `EmissionsInv`: only open views that show the object are called;
* `SyncInv`: a model shows its table but for what it is still to be told, which is in
  the monitor, in a loop, announced later, or in an emission that has not called it yet.
  At rest nothing of that is left: `ModelsShowTheTables` (`ModelsInSync`);
* `HandlerInv`: a connection that waits to be replaced is there, its successor too, with the
  same certificate: `ActivationsLoseNothing` (`ReplacedBeforeDeleted`).

`HearingRemovesNothing` is `RemovesNothingElse`, `ClientsTypeCorrect` is `ClientTypeOK`, and
`ClientsUseTheStorage` says that behaviours of the clients are behaviours of `Storage`, so
that all of the above holds with the program's own listeners. `ClientInv` also shows
that they never come to `MaxDepth` if that is eight.

**`FlowProofs.tla`**: `FlowTyped`, `BuilderIsThere` (`ConnectHasABuilder`), `TableIsRight`
(`NewestIsShown`) and `IndexIsARow` (`CurrentIsARow`). The invariant adds that searches are
made in order, so that a new one cannot be one that was shown, and that the table has the
endpoints of a search that was shown, so that no thread changes its rows.

**`NodeProofs.tla`**: `NodeTyped`, `CachesAreFresh` (`CacheIsFresh`),
`AttributesAreSubscribedOnce` (`OneAttributeSubscription`), `RowsAreFoundOnceAdded`
(`RowFoundOnceAdded`) and `SubscriptionsFollowRows` (`RowsKeepTheirSubscriptions`).
`NodeInv` adds that only objects that were made are subscribed and that the leaves being
added are alive, so that no selection revives a subscribed object; `RowIsThere`, that what
the NodeView has subscribed is a row or about to become one for as long as it is alive.
That rows and subscriptions stay at the same indices is about sequences: adding appends to
both, and removing takes the same positions out of both.

**`SettingsProofs.tla`** proves all properties of the run `SettingsPage`: `SettingsTyped`,
`PageShowsWhatIsStored` (`PageIsUpToDate`), `PageNeverEndsTheProgram` (`NoRequestIsRefused`)
and `ListenersFollow` (`ListenersKnowValues`). `SettingsInv`
adds that the page offers exactly the rows there are, which is what keeps a choice from
being refused, and that every id in a tuple has its row. Its main lemma, `ShowsValid`, is
that a widget shows any valid value as it is: the page may trust the widget only for that
reason.

**`LayoutSelectorProofs.tla`** proves all properties of the run `LayoutSelector` and
`SelectorTyped`. `SelectorInv` adds that the stored ids are ascending, so that an id has one
row, that a selector that asks for a name is on the row to save, and that otherwise
`m_old_layout_index` is the current row: `SelectorRestores` (`SelectionIsRestored`) rests on it.

**`MigrationProofs.tla`** proves all properties of the run `Migration`. `MigrationInv` adds
that a program between its two statements is the only one, since the migration that is next
for the others is already there, and that one that is open knows no more migrations than the
version says.

**`PanelTreeProofs.tla`** proves `TreeIsAlwaysSound` (`TreeIsSound`), `NoLayoutStaysIdle`
(`NoIdleLayout`) and `PanelsAlwaysSurvive` (`PanelsSurvive`) of `PanelTree`, for any finite
number of layouts and wrappers and any number of pending deletions, and with a restore of
whatever `Restored` allows. The assertions of `split()` and `childEvent()` rest on them.
`TreeIsInvariant` has the invariant, `TreeInv`:

* `Structure`: every object there is, in the tree or not, is in at most one layout, which is
  its `m_parent_layout` or the one that splits it. `TreeIsSound` says so of the tree alone,
  which is not enough: a layout that was merged away still has the wrapper whose panel moved
  on, and its destruction must not touch the tree;
* `Leftovers`: what is outside of the tree is about to be deleted, or was left by a restore
  that failed. What is about to be deleted is a layout that was merged away, with no parent and
  nothing but wrappers in it (`LooseLayouts`), or a wrapper that was replaced, or one in such a
  layout (`LooseWrappers`): when the event loop has caught up nothing of it is left. What failed
  restores have left (`stranded`) holds nothing else, is held by nothing else and is never
  deleted (`Apart`);
* `Filled`: every layout of the tree but the root has two widgets or more, and each leads to
  a wrapper. So one removal leaves at most one layout to fold, the one that gets the
  child event, and what moves up into its parent is not empty.

Inside a step this does not hold for the one layout that is being filled or emptied:
`FilledBut` is `Filled` without it, and the lemmas of the operations (`Destroyed`,
`DestroyedRest`, `WidgetInserted`, `InsertedBut`, `Merged`, `MergedInv`, `PlacedRest`) are put together by
the ones of the steps (`ChildRemovedInv`, `DeletedInv`, `SplitNextToInv`, `SplitInPlaceInv`,
`RestoredInv`). What is reached from a layout (`Below`) is the least set that has it and is
closed under `Widgets` (`BelowIsClosed`, `BelowIsLeast`), so these lemmas need no induction
over trees. For `PanelsAlwaysSurvive` each step is shown to take the wrappers that stay to
wrappers that stay, one to one and with the same panel (`Kept`): the wrapper of a panel that
is moved goes to the new one.

That these are about the program's own `restoreLayout` is `ImplementsTree`, which TLC checks.

Induction over numbers is used in `PanelTreeProofs` and `SettingsProofs` only. It is taken
from `WFMin` of the library, about the least number of a set, which has no operator as a
parameter.

Only model-checked:

* liveness: `DeletionsAreTold`, the fairness in `ImplementsFeed` and in
  `SlotsKeepTheContract`, `SearchIsAnswered`, `DisplayCatchesUp`. The prover has neither
  `ENABLED` nor fairness rules;
* `RestoreIsExact` and `ImplementsTree`: `SaveLayout` and `RestoreLayout` are recursive
  operators over documents, for which the prover has no rule.

## What is not modelled

* SQL getters other than those of settings, which change nothing, and the contents of rows.
* Two processes that work on one database once it is migrated: each drains the
  deletion events of the other, and every item model relies on being the only one.
* The lists of a connection as they are *read*: the statements bind the id under
  a name the query does not have, and what comes back is up to the Qt driver.
* Cryptography, OPC UA value types, logging, the About activity, the build.
* `Router` and the tabs of `Application`. Handlers are registered at start, and the one url
  that is routed is `certificate:`; focus and the numbers behind equal titles are read by
  nothing else. (That url is routed with the id of a pair, Certificate.cpp:205, where the
  viewer expects the id of a certificate, Certificate.cpp:36.)
* The TreeView, ReferenceView and LogView panels, which only read.

## Plan

1. Done: the modules and the proofs above.
2. `NodeView` further: deeper trees, subscriptions whose monitored items fail, which
   getter caches which attribute.
3. Two processes that share the deletion monitor.
4. The poll timer and the closing of a `Connection`.
5. Saving and restoring by recursive functions over the depth of a document, so that
   `RestoreIsExact` and `ImplementsTree` can be proved.
