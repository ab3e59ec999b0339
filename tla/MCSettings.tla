----------------------------- MODULE MCSettings -----------------------------
(***************************************************************************)
(* A page with two domains: a number and a choice in one, a certificate    *)
(* and a layout in the other.  The first domain is defined with other      *)
(* limits and another type as well, the second one also without a setting. *)
(***************************************************************************)
EXTENDS SettingsPage, TLC

MCKeys == {"interval", "mode", "certificate", "layout"}

MCDomainOf ==
    [k \in MCKeys |-> IF k \in {"interval", "mode"} THEN "general" ELSE "defaults"]

MCTables == {"Certificate", "Layout"}

Limits(kind, valid, default) == [kind |-> kind, valid |-> valid, default |-> default]

RefersTo(kind) == [kind |-> kind, valid |-> Ids, default |-> None]

MCPlans ==
    {[domain |-> "general", settings |-> s] :
        s \in {("interval" :> i) @@ ("mode" :> m) :
                  i \in {Limits("Int", {0, 1, 2}, 0), Limits("Int", {0, 1}, 1),
                         Limits("String", Values, 0)},
                  m \in {Limits("Enum", {0, 1, 2}, 2), Limits("Boolean", {0, 1}, 0)}}}
        \cup
    {[domain |-> "defaults",
      settings |-> [k \in {"certificate", "layout"} |->
                       RefersTo(IF k = "layout" THEN "Layout" ELSE "Certificate")]],
     [domain |-> "defaults",
      settings |-> [k \in {"layout"} |-> RefersTo("Layout")]]}

=============================================================================
