-------------------------------- MODULE Screen --------------------------------
(***************************************************************************)
(* internal/server/session.go, internal/model/build.go: one client's       *)
(* screen.  The session's Bubble Tea model is told of new terminal sizes   *)
(* and new snapshots, one message at a time, and after each of them View   *)
(* renders the whole frame: Build turns panels and snapshot into what the  *)
(* solver needs, the chrome's rows are subtracted, Solve divides the rest, *)
(* and every widget fills the rows it was given.                           *)
(*                                                                         *)
(* The dashboard is one Load accepted.  A panel of a type buildPanel does  *)
(* not know is passed over by Build: there are none in the dashboards here.*)
(*                                                                         *)
(* A key leaves the session as it is: q, esc and ctrl+c end its program,   *)
(* and what follows is in Sessions.tla.                                    *)
(*                                                                         *)
(* A line's text is left out; a frame is the number of its lines, whose    *)
(* they are, and how much of a panel's data is in them.  Widgets return as *)
(* many lines as they are asked for (fit, in widget/widget.go).            *)
(***************************************************************************)
EXTENDS Layout, Validate

CONSTANTS
    Dashboards,     \* what may be configured, errors included
    Sizes,          \* terminal sizes, width and height
    Snapshots       \* what may be published: contacts and fired decisions

VARIABLES
    dash,       \* s.Dash
    size,       \* s.w and s.h
    snap,       \* s.snap
    view        \* "empty", "refusal", "frame": what View returns, or is computing

sessionVars == <<dash, size, snap, view>>
vars == <<solveVars, sessionVars>>

Types == {"alert_strip", "table", "detail", "chart", "decisions", "status_bar"}

ASSUME ScreenAssumption ==
    /\ \A d \in Dashboards :
          /\ d \in Dashboard
          /\ \A i \in DOMAIN d.panels : d.panels[i].type \in Types \cup {""}
    /\ Sizes \subseteq [w : Nat, h : Nat]
    /\ Snapshots \subseteq [contacts : Nat, fired : Nat]

-------------------------------------------------------------------------------
(* Build *)

dropRank(type) ==
    CASE type = "detail" -> 20
      [] type = "table"  -> 30
      [] OTHER           -> 40

AtLeastOne(k) == IF k = 0 THEN 1 ELSE k

\* The contacts of a table; one without a binding has none, and no note of how
\* many there are.
Bound(p) == p.bind \/ p.binds > 0
Contacts(p, sn) == IF Bound(p) THEN sn.contacts ELSE 0
NoteLines(p) == IF Bound(p) THEN 1 ELSE 0

\* The contacts, their header and the note.
TableRows(p, sn) == Contacts(p, sn) + 2

\* buildPanel: what a panel asks for, given a snapshot.
SpecOf(p, sn) ==
    LET spec == [reserve |-> p.reserve, min |-> 1, nat |-> 1, elastic |-> p.elastic,
                 max |-> 0, drop |-> dropRank(p.type), rule |-> FALSE]
        ask(min, nat, max) == [spec EXCEPT !.min = min, !.nat = nat, !.max = max]
        ruled(s) == [s EXCEPT !.rule = TRUE]
        record == (p.fields + 1) \div 2 + 1
        fired == AtLeastOne(sn.fired)
    IN  CASE p.type = "alert_strip" -> spec
          [] p.type = "table"       -> ruled(ask(3, TableRows(p, sn), TableRows(p, sn)))
          [] p.type = "detail"      -> ruled(ask(2, record, record))
          [] p.type = "chart"       -> [ruled(ask(3, 8, 0)) EXCEPT !.drop = 10]
          [] p.type = "decisions"   -> ask(1, fired, fired)
          [] p.type = "status_bar"  -> [ruled(spec) EXCEPT !.reserve = TRUE]

Build(d, sn) == [i \in DOMAIN d.panels |-> SpecOf(d.panels[i], sn)]

Rules(built) == Cardinality({i \in DOMAIN built : built[i].rule})

-------------------------------------------------------------------------------
(* Widgets: how much of its data a panel draws in w columns and h rows.         *)

AtMost(k, bound) == IF k > bound THEN bound ELSE k

\* Contacts, fields or decisions: what there is to show, and what is drawn.
Items(p, sn) ==
    CASE p.type = "table"     -> Contacts(p, sn)
      [] p.type = "detail"    -> p.fields
      [] p.type = "decisions" -> sn.fired
      [] OTHER                -> 0

FieldsPerLine(w) == IF w < 62 THEN 1 ELSE 2

\* A table of which no column is there at this width is blank.
ItemsDrawn(p, sn, w, h) ==
    CASE p.type = "table"     -> IF ActiveColumns(p.columns, w) = {} THEN 0
                                 ELSE AtMost(Contacts(p, sn), h - 1 - NoteLines(p))
      [] p.type = "detail"    -> AtMost(p.fields, h * FieldsPerLine(w))
      [] p.type = "decisions" -> AtMost(sn.fired, h)
      [] OTHER                -> 0

\* The cells a row of the table gives its column i: the marker comes first, each
\* column after the one before and a separator, and the row ends where it ends.
CellsDrawn(columns, i, w) ==
    LET before == {j \in ActiveColumns(columns, w) : j < i}
        start == 1 + SumFunctionOnSet([j \in before |-> columns[j].width + 1], before)
    IN  AtMost(columns[i].width, IF start > w THEN 0 ELSE w - start)

-------------------------------------------------------------------------------
(* Update and View *)

NoSpecs == <<>>

Init ==
    /\ dash \in {d \in Dashboards : Loads(d)}
    /\ size = [w |-> 0, h |-> 0]
    /\ snap \in Snapshots
    /\ view = "empty"
    /\ specs = NoSpecs
    /\ rows = 0
    /\ live = {}
    /\ height = [i \in {} |-> 0]
    /\ used = 0
    /\ pending = {}
    /\ step = "solved"

\* View is not running.
AtRest == step \in {"solved", "refused"}

\* The chrome is drawn on top of the grid instead of being subtracted from it.
View_IgnoresRules(z, sn) ==
    IF z.w = 0 \/ z.h = 0
    THEN view' = "empty" /\ UNCHANGED solveVars
    ELSE IF z.w - 2 < dash.minCols \/ z.h - 2 < dash.minRows
    THEN view' = "refusal" /\ UNCHANGED solveVars
    ELSE view' = "frame" /\ Begin(Build(dash, sn), z.h - 2)

\* The borders are taken from the rows once more before the floor is compared.
View_BordersTwice(z, sn) ==
    LET built == Build(dash, sn)
        innerH == z.h - 2 - Rules(built)
    IN  IF z.w = 0 \/ z.h = 0
        THEN view' = "empty" /\ UNCHANGED solveVars
        ELSE IF z.w - 2 < dash.minCols \/ innerH - 2 < dash.minRows
        THEN view' = "refusal" /\ UNCHANGED solveVars
        ELSE view' = "frame" /\ Begin(built, innerH)

\* View, up to the call of Solve.
View(z, sn) ==
    LET built == Build(dash, sn)
        innerW == z.w - 2
        innerH == z.h - 2 - Rules(built)
    IN  IF z.w = 0 \/ z.h = 0
        THEN view' = "empty" /\ UNCHANGED solveVars
        ELSE IF innerW < dash.minCols \/ innerH < dash.minRows
        THEN view' = "refusal" /\ UNCHANGED solveVars
        ELSE view' = "frame" /\ Begin(built, innerH)

WindowSize ==
    /\ AtRest
    /\ \E z \in Sizes : size' = z /\ View(z, snap)
    /\ UNCHANGED <<dash, snap>>

FrameMsg ==
    /\ AtRest
    /\ \E sn \in Snapshots : snap' = sn /\ View(size, sn)
    /\ UNCHANGED <<dash, size>>

Next ==
    \/ WindowSize \/ FrameMsg
    \/ Drop /\ UNCHANGED sessionVars
    \/ Dropped /\ UNCHANGED sessionVars
    \/ Squeeze /\ UNCHANGED sessionVars
    \/ Squeezed /\ UNCHANGED sessionVars
    \/ Grow /\ UNCHANGED sessionVars
    \/ Grown /\ UNCHANGED sessionVars

Spec == Init /\ [][Next]_vars

\* The session's goroutine runs.
FairSpec == Spec /\ WF_vars(Solve /\ UNCHANGED sessionVars)

-------------------------------------------------------------------------------

\* The terminal shows a frame, not a refusal.
Shown == view = "frame" /\ step = "solved"

\* The lines of that frame: borders, the rules of the panels placed, and the grid.
Lines == 2 + Rules([i \in live |-> specs[i]]) + sumHeight(live) + Gap

\* Every row of the grid belongs to one region, panel or gap.  No frame is higher than
\* the terminal, and one of which no panel was dropped is as high.
EveryRowAssigned ==
    Shown =>
        /\ \A r \in 0 .. rows - 1 :
              Cardinality({g \in Regions : g.y <= r /\ r < g.y + g.h}) = 1
        /\ \A g \in Regions : g.y >= 0 /\ g.y + g.h <= rows
        /\ Lines <= size.h
        /\ live = DOMAIN specs => Lines = size.h

\* A frame has exactly as many lines as the terminal, as the comment on View says: "there
\* are exactly s.h of them, because the widgets guarantee it and the solver assigns every
\* row".  View takes a row for the rule of every panel before it knows which are dropped.
ExactlyFills == Shown => Lines = size.h

\* A reserved panel is in every frame, with its minimum at least, and those at the
\* end of the dashboard at the bottom of the frame.
ReservedStay ==
    Shown =>
        /\ \A i \in DOMAIN specs : specs[i].reserve => i \in live
        /\ \A i \in live : height[i] >= minOf(specs[i])
        /\ specs[Len(specs)].reserve =>
              \E g \in Regions : g.panel = Len(specs) /\ g.y + g.h = rows

\* One order decides who gives way.  A dropped panel comes before all that stay and
\* could go, and with the last one dropped still in, the minimums would not fit;
\* a panel has less than it would like only if those before it are at their minimum.
ImportanceDecides ==
    Shown =>
        LET dropped == DOMAIN specs \ live
        IN  /\ \A d \in dropped, i \in live : ~specs[i].reserve => Before(d, i)
            /\ \A d \in dropped :
                  (\A e \in dropped : Before(e, d)) => sumMin(live \cup {d}) > rows
            /\ \A i \in live :
                  height[i] < Natural(specs[i]) =>
                      \A j \in live \ {i} :
                          Before(j, i) => height[j] = minOf(specs[j])

AtCap(i) == specs[i].max > 0 /\ height[i] >= specs[i].max

\* No row is lost to a panel that has no use for it, nor left in the gap while an
\* elastic panel could use it, nor given to one panel before another of higher rank.
SpaceNotTrapped ==
    Shown =>
        /\ Gap > 0 => \A i \in live : specs[i].elastic > 0 => AtCap(i)
        /\ \A i \in live :
              height[i] > Natural(specs[i]) =>
                  /\ specs[i].max > 0 => height[i] <= specs[i].max
                  /\ \A j \in live : specs[j].elastic > specs[i].elastic => AtCap(j)

\* Every View that has built its panels ends, whatever they ask for: the solver's loops
\* never keep a session from answering.
ViewEnds == ~AtRest ~> AtRest

\* What View turns away has less than the floor within the borders and a rule for each
\* panel that has one.
TooSmall ==
    LET titled == {i \in DOMAIN dash.panels :
                      dash.panels[i].type \in {"table", "detail", "chart", "status_bar"}}
    IN  size.w < dash.minCols + 2 \/ size.h < dash.minRows + 2 + Cardinality(titled)

\* What the solver refuses has what is reserved to hold and no rows for it; or, of a
\* dashboard without reserved panels, not the rows of the panel that would go last.
NothingFits ==
    LET reserved == {i \in DOMAIN specs : specs[i].reserve}
    IN  IF reserved = {}
        THEN \A i \in DOMAIN specs :
                 (\A j \in DOMAIN specs : Before(j, i)) => minOf(specs[i]) > rows
        ELSE sumMin(reserved) > rows

\* A terminal is turned away only when it must be: by View when it is below the floor,
\* and by the solver, which sees none below it, when no frame can be divided.
RefusedForCause ==
    /\ view = "refusal" => TooSmall
    /\ step = "refused" => rows >= dash.minRows /\ NothingFits

\* Who has the rows it asked for shows all it has, at the widths its shape is made for:
\* a table every contact where a column of it is there, a record every field where two
\* go on a line, the decisions every one that fired.  (A table without a column is
\* blank, and a record below 62 columns is sized for two fields a line and draws one.)
RowsShown(i) ==
    LET p == dash.panels[i]
        w == size.w - 2
    IN  /\ height[i] >= Natural(specs[i])
        /\ p.type = "table" => ActiveColumns(p.columns, w) # {}
        /\ p.type = "detail" => FieldsPerLine(w) = 2
        => ItemsDrawn(p, snap, w, height[i]) = Items(p, snap)

\* Each column that is there has its cells, at every width.  The budget has no cell for
\* the marker before them: where the columns need the width to the last cell, the last
\* column loses that one, and no other column loses any.
CellsShown(i) ==
    LET columns == dash.panels[i].columns
        w == size.w - 2
        active == ActiveColumns(columns, w)
    IN  dash.panels[i].type = "table" =>
            \A c \in active :
                CellsDrawn(columns, c, w) >=
                    IF ColumnsNeed(columns, w) = w /\ ~\E k \in active : k > c
                    THEN columns[c].width - 1
                    ELSE columns[c].width

\* Of an accepted dashboard what fits is drawn: the data of a panel that has its rows,
\* and the columns of a table at every width its breakpoints leave unchecked.
DrawnWhole == Shown => \A i \in live : RowsShown(i) /\ CellsShown(i)

===============================================================================
