-------------------------------- MODULE Panel --------------------------------
(***************************************************************************)
(* The two panels of the file manager, 9_homework/2: what a key does to    *)
(* the listing, the selected entry and the first line shown.  A path is    *)
(* its depth below "/"; the file system is not this code: a directory can  *)
(* be opened or not, its listing is any of Listings, in any order and even *)
(* empty, and an entry may have gone since it was read.                    *)
(***************************************************************************)
EXTENDS Naturals, Sequences

CONSTANTS Listings,   \* the listings readdir may give
          Rows,       \* visible_rows: the height of a window less its border
          MaxDepth    \* bound: how deep the directories are nested

\* A terminal of at least four lines.
ASSUME PanelAssumption ==
    /\ Rows \in Nat \ {0}
    /\ MaxDepth \in Nat
    /\ Listings \subseteq Seq({".", "..", "file", "directory"})

VARIABLES depth, items, selected, scroll,   \* each panel
          active                            \* the panel the keys go to

panelVars == <<depth, items, selected, scroll, active>>

Sides   == {"left", "right"}
Entries == {".", "..", "file", "directory"}

PanelTypeOK ==
    /\ depth \in [Sides -> Nat]
    /\ items \in [Sides -> Seq(Entries)]
    /\ selected \in [Sides -> Nat]
    /\ scroll \in [Sides -> Nat]
    /\ active \in Sides

Other(p) == IF p = "left" THEN "right" ELSE "left"
Count(p) == Len(items[p])

\* panel_init and panel_load of the working directory, which may not be readable.
PanelInit ==
    /\ depth \in [Sides -> 0 .. MaxDepth] /\ depth["left"] = depth["right"]
    /\ items \in [Sides -> Listings \cup {<<>>}]
    /\ selected = [p \in Sides |-> 0]
    /\ scroll = [p \in Sides |-> 0]
    /\ active = "left"

\* panel_load: the old listing goes; if the directory cannot be opened nothing else
\* changes.
Load(p) ==
    \/ /\ \E l \in Listings : items' = [items EXCEPT ![p] = l]
       /\ selected' = [selected EXCEPT ![p] = 0]
       /\ scroll' = [scroll EXCEPT ![p] = 0]
    \/ items' = [items EXCEPT ![p] = <<>>] /\ UNCHANGED <<selected, scroll>>

\* panel_move_up.
Up(p) ==
    LET s == IF selected[p] > 0 THEN selected[p] - 1 ELSE selected[p]
    IN  /\ selected' = [selected EXCEPT ![p] = s]
        /\ scroll' = IF s < scroll[p] THEN [scroll EXCEPT ![p] = @ - 1] ELSE scroll
        /\ UNCHANGED <<depth, items, active>>

\* Mutant of Down: the list scrolls one line late.
DownLate(p) ==
    LET s == IF selected[p] + 1 < Count(p) THEN selected[p] + 1 ELSE selected[p]
    IN  /\ selected' = [selected EXCEPT ![p] = s]
        /\ scroll' = IF s > scroll[p] + Rows THEN [scroll EXCEPT ![p] = @ + 1] ELSE scroll
        /\ UNCHANGED <<depth, items, active>>

\* panel_move_down; the comparison of the code is with count - 1, which is -1 in an
\* empty panel.
Down(p) ==
    LET s == IF selected[p] + 1 < Count(p) THEN selected[p] + 1 ELSE selected[p]
    IN  /\ selected' = [selected EXCEPT ![p] = s]
        /\ scroll' = IF s >= scroll[p] + Rows THEN [scroll EXCEPT ![p] = @ + 1] ELSE scroll
        /\ UNCHANGED <<depth, items, active>>

\* panel_go_up: the last part of the path is cut off, unless it is "/".
GoUp(p) ==
    /\ depth[p] > 0
    /\ depth' = [depth EXCEPT ![p] = @ - 1]
    /\ Load(p)
    /\ UNCHANGED active

\* panel_enter; in an empty panel, on "." and on anything but a directory it does
\* nothing.
Enter(p) ==
    /\ Count(p) > 0
    /\ LET name == items[p][selected[p] + 1]
       IN  \/ name = ".." /\ GoUp(p)
           \/ /\ name = "directory" /\ depth[p] < MaxDepth
              /\ depth' = [depth EXCEPT ![p] = @ + 1]
              /\ Load(p)
              /\ UNCHANGED active

Tab == active' = Other(active) /\ UNCHANGED <<depth, items, selected, scroll>>

PanelNext == Tab \/ Up(active) \/ Down(active) \/ GoUp(active) \/ Enter(active)

PanelSpec == PanelInit /\ [][PanelNext]_panelVars

\* Whatever keys are pressed and whichever directories cannot be opened, the selected
\* line is one of those the window shows, and in a panel with entries it is an entry:
\* a failed opendir leaves selected and scroll as they were in another listing, with a
\* count of 0 (server.c:27-50, 56-72, 94-97).
SelectionVisible ==
    \A p \in Sides :
        /\ scroll[p] <= selected[p] /\ selected[p] < scroll[p] + Rows
        /\ Count(p) > 0 => selected[p] < Count(p)
=============================================================================
