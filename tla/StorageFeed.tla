----------------------------- MODULE StorageFeed -----------------------------
(* Storage implements ChangeFeed: the tables are what is present, `known'  *)
(* is what the listeners were told.                                        *)
EXTENDS Storage

Feed == INSTANCE ChangeFeed WITH present <- rows, told <- known, running <- up

\* The storage keeps the promise of its interface: it never tells a removal of
\* a live object, tells every cascaded one, and every caller hears of it.
ImplementsFeed == Feed!Spec
=============================================================================
