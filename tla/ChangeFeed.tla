------------------------------ MODULE ChangeFeed ------------------------------
(***************************************************************************)
(* What StorageManager promises to whoever connects to its xChanged        *)
(* signals (StorageManager.hpp): objects come and go, every change is      *)
(* told, a removal is only told of an object that is gone, and the         *)
(* listeners catch up.  Storage is shown to implement it.                  *)
(***************************************************************************)
CONSTANT Objects

VARIABLES
    present,   \* the objects that are stored
    told,      \* the objects the listeners believe to be stored
    running

feed == <<present, told, running>>

Init == present = {} /\ told = {} /\ running = TRUE

\* A store call: the object is there at once, its signal may come later.
Add(o) ==
    /\ running
    /\ present' = present \cup {o}
    /\ told' \in {told, told \cup {o}}
    /\ UNCHANGED running

\* A delete call takes along whatever depends on the object.
Remove(S) ==
    /\ running
    /\ S \subseteq present
    /\ present' = present \ S
    /\ UNCHANGED <<told, running>>

TellAdded(o) ==
    /\ running
    /\ o \in present \ told
    /\ told' = told \cup {o}
    /\ UNCHANGED <<present, running>>

TellRemoved(o) ==
    /\ running
    /\ o \notin present
    /\ told' = told \ {o}
    /\ UNCHANGED <<present, running>>

\* The program ends; what is stored stays.
End ==
    /\ running
    /\ running' = FALSE
    /\ told' = {}
    /\ UNCHANGED present

\* The program starts; its listeners read what is stored.
Start ==
    /\ ~running
    /\ running' = TRUE
    /\ told' = present
    /\ UNCHANGED present

Tell == \E o \in Objects : TellAdded(o) \/ TellRemoved(o)

Next ==
    \/ \E o \in Objects : Add(o)
    \/ \E S \in SUBSET Objects : Remove(S)
    \/ Tell
    \/ End
    \/ Start

Spec == Init /\ [][Next]_feed /\ WF_feed(Tell)
=============================================================================
