------------------------------- MODULE MCScreen -------------------------------
(* Screen.tla for TLC: the two dashboards of the repository with their floor of *)
(* 12 rows, which are squeezed and stretched but never lose a panel, two with a *)
(* low floor, which do, and dashboards at either side of Validate's rules.      *)
EXTENDS Screen

panel(t, reserved, rank, n) ==
    [type |-> t, reserve |-> reserved, elastic |-> rank, fields |-> n, bind |-> FALSE,
     binds |-> 0, dedupe |-> FALSE, columns |-> <<>>, wellFormed |-> TRUE]
table(rank, cols) ==
    [panel("table", FALSE, rank, 0) EXCEPT
        !.binds = 4, !.dedupe = TRUE,
        !.columns = [i \in DOMAIN cols |-> [width |-> cols[i][1], minCols |-> cols[i][2]]]]
Alert == panel("alert_strip", TRUE, 0, 0)
Status == panel("status_bar", TRUE, 0, 0)

\* dashboards/radar.toml, dashboards/home.toml
contacts == <<<<9, 0>>, <<6, 0>>, <<8, 0>>, <<4, 0>>, <<6, 56>>, <<5, 80>>>>
radar == <<Alert, table(2, contacts), panel("detail", FALSE, 3, 8), Status>>
home == <<panel("decisions", FALSE, 1, 0), panel("detail", FALSE, 0, 8),
          panel("chart", FALSE, 0, 0), panel("detail", FALSE, 2, 7), Status>>

\* An elastic chart under a capped panel of higher rank, two panels of equal
\* DropRank, and a reserved panel that gives rows up.
crowded == <<Alert, panel("chart", FALSE, 1, 0), panel("detail", FALSE, 2, 3),
             panel("detail", FALSE, 0, 5), panel("decisions", TRUE, 0, 0), Status>>

\* No reserved panel at the end, and a table that fills its width to the cell.
open == <<table(2, <<<<20, 0>>, <<23, 0>>, <<11, 56>>>>), panel("chart", FALSE, 0, 0),
          panel("decisions", FALSE, 3, 0)>>

\* Columns that fit at the floor and not where one more appears; none that can be
\* stretched; one that can, but not for certain.
wide == <<Alert, table(2, <<<<20, 0>>, <<23, 0>>, <<13, 56>>>>), Status>>
stiff == <<Alert, table(0, contacts), Status>>
frail == <<panel("detail", FALSE, 1, 4), Status>>

\* A table of which no column is there at the floor; a union that needs a key and has
\* none, and one that Validate does not count as such.
blind == <<table(2, <<<<20, 56>>>>), Status>>
keyless == [open EXCEPT ![1].binds = 2, ![1].dedupe = FALSE]
paired == [open EXCEPT ![1].bind = TRUE, ![1].binds = 1, ![1].dedupe = FALSE]

board(p, least) == [cols |-> 80, rows |-> 25, minCols |-> 44, minRows |-> least, panels |-> p,
                   wellFormed |-> TRUE]

MCDashboards ==
    {board(p, 12) : p \in {radar, home, wide, stiff, frail, blind}} \cup
    {board(p, 2) : p \in {crowded, keyless, paired}} \cup
    {board(radar, 0), [board(home, 12) EXCEPT !.rows = 11],
     [board(home, 12) EXCEPT !.wellFormed = FALSE]}

MCSizes ==
    [w : {46}, h : {0, 5, 6, 7, 8, 9, 10, 11, 12, 14, 16, 17, 18, 19, 20, 25, 32}]
        \cup [w : {58, 64, 82}, h : {7, 9, 25, 32}] \cup [w : {45}, h : {25}]

MCSnapshots == [contacts : {0, 1, 9}, fired : {0, 3}]
===============================================================================
