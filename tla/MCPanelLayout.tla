---------------------------- MODULE MCPanelLayout ----------------------------
(***************************************************************************)
(* A layout nested twice, as the default one is; one that is side by side; *)
(* one of another version of the program with a panel that is unknown now; *)
(* and two that fail in a nested layout, after a panel was added to the    *)
(* root: the second has another layout in the one that fails.              *)
(***************************************************************************)
EXTENDS PanelLayout

MCDefault ==
    LayoutDoc("Horizontal",
        <<LayoutDoc("Vertical",
              <<PanelDoc("tree"), LayoutDoc("Horizontal", <<PanelDoc("tree"), EmptyDoc>>)>>)>>)

MCDocuments ==
    {MCDefault,
     LayoutDoc("Vertical", <<PanelDoc("tree"), PanelDoc("removed")>>),
     LayoutDoc("Vertical",
        <<PanelDoc("tree"), LayoutDoc("Horizontal", <<PanelDoc("tree"), Unreadable>>)>>),
     LayoutDoc("Vertical",
        <<PanelDoc("tree"),
          LayoutDoc("Horizontal", <<LayoutDoc("Vertical", <<EmptyDoc, EmptyDoc>>), Unreadable>>)>>)}

\* No identity is told apart from another but for the root's.
Identities == Permutations(Wrappers) \cup Permutations(Layouts \ {Root})

=============================================================================
