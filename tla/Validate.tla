------------------------------- MODULE Validate -------------------------------
(***************************************************************************)
(* internal/config/validate.go: what a dashboard must be for the daemon to *)
(* start with it, and internal/layout's columns of a table, which the      *)
(* width budget is about.                                                  *)
(*                                                                         *)
(* A panel's texts - bindings, guards, templates, conditions, ramps - are  *)
(* well formed or not, and so are the dashboard's own, its name and its    *)
(* glyphs; that is one fact here of each.                                  *)
(***************************************************************************)
EXTENDS Integers, Sequences, FiniteSets, Functions

Column == [width : Nat, minCols : Nat]

Panel == [type : STRING, reserve : BOOLEAN, elastic : Nat, fields : Nat,
          bind : BOOLEAN, binds : Nat, dedupe : BOOLEAN, columns : Seq(Column), wellFormed : BOOLEAN]

Dashboard == [cols : Int, rows : Int, minCols : Int, minRows : Int,
              panels : Seq(Panel), wellFormed : BOOLEAN]

-------------------------------------------------------------------------------
(* A table's columns: each is there from the width it names, and one cell       *)
(* separates two of them.                                                       *)

ActiveColumns(columns, w) == {i \in DOMAIN columns : columns[i].minCols <= w}

ColumnsNeed(columns, w) ==
    LET active == ActiveColumns(columns, w)
    IN  SumFunctionOnSet([i \in active |-> columns[i].width], active)
            + (IF active = {} THEN 0 ELSE Cardinality(active) - 1)

\* The widths at which the set of columns changes, and the smallest there is.
Breakpoints(columns, floor) ==
    {floor} \cup ({columns[i].minCols : i \in DOMAIN columns} \ {0})

\* Checked at the floor only, as if columns could but vanish.
validateWidthBudget_FloorOnly(columns, floor) == ColumnsNeed(columns, floor) <= floor

validateWidthBudget(columns, floor) ==
    \A w \in Breakpoints(columns, floor) : ColumnsNeed(columns, w) <= w

-------------------------------------------------------------------------------

ElasticSeen(d) == \E i \in DOMAIN d.panels : d.panels[i].elastic > 0

elasticSurvives(d) ==
    \E i \in DOMAIN d.panels :
        /\ d.panels[i].elastic > 0
        /\ ~(d.panels[i].type = "detail" /\ d.minRows < 24)

\* What is wrong with a table.  `bind` is not counted among the collections that need
\* a key, although buildTable puts it before them.
TableErrors(p, floor) ==
    (IF p.binds > 1 /\ ~p.dedupe THEN {"no dedupe key"} ELSE {}) \cup
    (IF validateWidthBudget(p.columns, floor) THEN {} ELSE {"too wide"})

PanelErrors(p, floor) ==
    (IF p.wellFormed THEN {} ELSE {"malformed"}) \cup
    (IF p.type = "" THEN {"no type"} ELSE {}) \cup
    (IF p.type = "table" THEN TableErrors(p, floor) ELSE {})

\* Every rule runs: the set of all that is wrong.
DashboardErrors(d) ==
    LET wrong == [minimum |-> d.minCols <= 0 \/ d.minRows <= 0,
                  target  |-> d.cols < d.minCols \/ d.rows < d.minRows,
                  named   |-> ~d.wellFormed,
                  empty   |-> d.panels = <<>>,
                  trapped |-> ~ElasticSeen(d),
                  dropped |-> ElasticSeen(d) /\ ~elasticSurvives(d)]
    IN  {rule \in DOMAIN wrong : wrong[rule]}

Errors(d) ==
    DashboardErrors(d) \cup
    UNION {PanelErrors(d.panels[i], d.minCols) : i \in DOMAIN d.panels}

\* Load: a dashboard with an error is fatal, before anything else starts.
Loads(d) == Errors(d) = {}
===============================================================================
