-------------------------------- MODULE Panels --------------------------------
(***************************************************************************)
(* internal/model/build.go, internal/config/validate.go: what a dashboard  *)
(* subscribes to, and what its panels show of a snapshot.                  *)
(*                                                                         *)
(* Home Assistant is external: entities change one at a time, each to any  *)
(* of the values it is given.  A snapshot has the entities the dashboard   *)
(* subscribes to, and is taken to be up to date: how it comes to be is     *)
(* Mirror.tla's subject.  A frame's panels are functions of the snapshot.  *)
(*                                                                         *)
(* A dashboard is one alert strip, one table, one detail panel, one list   *)
(* of decisions and the live series of its charts, each of which may be    *)
(* empty.                                                                  *)
(***************************************************************************)
EXTENDS Bindings, SequencesExt

CONSTANTS
    Dashboards,     \* what may be configured
    Possible        \* per entity of Home Assistant's: what it may be, or Absent

CONSTANTS
    Absent,         \* Home Assistant has no such entity
    Chars(_),       \* how a leaf is written
    MaxReplacements \* the bound of the replacements of one placeholder

\* The collections a table shows: the one it is bound to, and those of its union.
tableBinds(d) == d.bind \o d.binds

\* The schema of a dashboard, and the rule of Validate about unions, which does not
\* count the collection in d.bind.
ASSUME DashboardsAssumption ==
    \A d \in Dashboards :
        /\ d.bind = <<>> \/ d.bind = <<d.bind[1]>>
        /\ d.binds \in Seq(ToSet(d.binds))
        /\ d.dedupe = "" => Len(d.binds) <= 1
        /\ d.sort.hysteresis \in Nat
        /\ d.source = <<>> \/ d.source = <<d.source[1]>>
        /\ \A f \in ToSet(d.fields) : f.guard = <<>> \/ f.guard = <<f.guard[1]>>

VARIABLES
    dash,       \* the dashboard
    world,      \* Home Assistant's entities
    frame       \* what the panels show

vars == <<dash, world, frame>>

-------------------------------------------------------------------------------
(* Subscriptions, and the snapshot of what was subscribed to *)

panelBindings(d) ==
    {b.entity : b \in ToSet(d.bind) \cup ToSet(d.binds) \cup {f.bind : f \in ToSet(d.fields)}
                          \cup {c.bind : c \in ToSet(d.decisions)} \cup ToSet(d.series)
                          \cup ToSet(d.source) \cup {d.vars[x] : x \in DOMAIN d.vars}}

guards(d) == {g.entity : g \in UNION {ToSet(f.guard) : f \in ToSet(d.fields)}}

\* The entities the guards refer to are left to the user to bind.
Subscriptions_NoGuards(d) == panelBindings(d)

\* A guard's entity is subscribed to even if nothing shows it.
Subscriptions(d) == panelBindings(d) \cup guards(d)

\* Of the entities w, those that were subscribed to and exist.
Snapshot(d, w) ==
    [e \in {x \in Subscriptions(d) \cap DOMAIN w : w[x] # Absent} |-> w[e]]

\* An entity has a state, and those the dashboards name are entities.
ASSUME EntitiesAssumption ==
    /\ \A e \in DOMAIN Possible : \A p \in Possible[e] :
          p.state.is \in {"num", "text"}
    /\ \A d \in Dashboards : Subscriptions(d) \subseteq DOMAIN Possible

-------------------------------------------------------------------------------
(* buildTable *)

Has(rec, name) == name \in DOMAIN rec.of /\ rec.of[name].is = "num"

\* Only the order of the hex codes matters: they are numbers here.
Hex(rec) == rec.of.hex.v

SameKey(r, s, name) ==
    name \in DOMAIN r.of \cap DOMAIN s.of /\ r.of[name].is = "text" /\ r.of[name] = s.of[name]

\* The collections a table may be given.
Collections(d) ==
    {l \in UNION {{Follow(b.path, Map(p.attrs)) : p \in Possible[b.entity]} : b \in ToSet(tableBinds(d))} :
        l.is = "list"}

\* A collection lists a contact once, and the key its table dedupes by tells contacts
\* apart as the hex code does.  Keys that are bucketed are not negative: the bucket about
\* zero is twice as wide as the hysteresis.
ASSUME ContactsAssumption ==
    \A d \in Dashboards :
        LET contacts == UNION {ToSet(l.of) : l \in Collections(d)}
        IN  /\ \A l \in Collections(d) :
                  /\ l.of \in Seq(ToSet(l.of))
                  /\ \A i, j \in DOMAIN l.of : Hex(l.of[i]) = Hex(l.of[j]) => i = j
            /\ \A r \in contacts :
                  /\ r.is = "map" /\ Hex(r) \in Int
                  /\ Has(r, d.sort.key) =>
                        /\ r.of[d.sort.key].v \in Int
                        /\ d.sort.hysteresis > 0 => r.of[d.sort.key].v >= 0
            /\ \A r, s \in contacts :
                  SameKey(r, s, d.dedupe) <=> d.dedupe # "" /\ Hex(r) = Hex(s)

\* A contact is shown once per collection it is in.
Union_Unkeyed(colls, dedupe) == FlattenSeq(colls)

\* The records of all collections, in order; one whose key was seen is left out.
Union(colls, dedupe) ==
    LET recs == FlattenSeq(colls)
    IN  Picked(recs, {k \in DOMAIN recs :
                         \A j \in 1 .. k - 1 : ~SameKey(recs[j], recs[k], dedupe)})

\* The number of the bucket is rounded towards zero.
Bucketed(sort, k) ==
    LET h == sort.hysteresis
    IN  IF h = 0 THEN k ELSE IF k >= 0 THEN (k \div h) * h ELSE -((-k \div h) * h)
Key(sort, rec) == Bucketed(sort, rec.of[sort.key].v)

\* A missing key counts as zero.
Less_MissingIsZero(sort, r, s) ==
    LET key(x) == IF Has(x, sort.key) THEN Key(sort, x) ELSE 0
    IN  IF key(r) = key(s) THEN Hex(r) < Hex(s)
        ELSE IF sort.dir = "desc" THEN key(r) > key(s) ELSE key(r) < key(s)

\* The tie-break is missing.
Less_NoTieBreak(sort, r, s) ==
    CASE ~Has(r, sort.key) -> FALSE
      [] Has(r, sort.key) /\ ~Has(s, sort.key) -> TRUE
      [] OTHER -> IF sort.dir = "desc" THEN Key(sort, r) > Key(sort, s)
                  ELSE Key(sort, r) < Key(sort, s)

\* The order of sortRecords.  Contacts without the key come last; hex breaks ties.
Less(sort, r, s) ==
    CASE ~Has(r, sort.key) /\ ~Has(s, sort.key) -> Hex(r) < Hex(s)
      [] ~Has(r, sort.key) /\ Has(s, sort.key)  -> FALSE
      [] Has(r, sort.key) /\ ~Has(s, sort.key)  -> TRUE
      [] OTHER ->
            IF Key(sort, r) = Key(sort, s) THEN Hex(r) < Hex(s)
            ELSE IF sort.dir = "desc" THEN Key(sort, r) > Key(sort, s)
            ELSE Key(sort, r) < Key(sort, s)

\* Records neither of which is less stay in the order they came in.
Ahead(recs, sort, i, j) ==
    \/ Less(sort, recs[i], recs[j])
    \/ ~Less(sort, recs[j], recs[i]) /\ i < j

\* A record's place is the number of those ahead of it.
sortRecords(recs, sort) ==
    LET place(n) == CHOOSE i \in DOMAIN recs :
                        Cardinality({j \in DOMAIN recs : Ahead(recs, sort, j, i)}) = n - 1
    IN  IF sort.key = "" THEN recs ELSE [n \in DOMAIN recs |-> recs[place(n)]]

buildTable(d, sn) ==
    LET binds == tableBinds(d)
        colls == [k \in DOMAIN binds |-> Rows(Resolve(sn, binds[k]))]
    IN  sortRecords(Union(colls, d.dedupe), d.sort)

-------------------------------------------------------------------------------
(* buildAlertStrip.  A text is a sequence of pieces, of which braces are some.   *)
(* A template is given by its words, of which some are variables.              *)

variable(x) == [is |-> "variable", v |-> x]

Placeholder(x) == <<Text("{"), Text(x), Text("}")>>

Template(words) ==
    FlattenSeq([k \in DOMAIN words |->
        IF words[k].is = "variable" THEN Placeholder(words[k].v) ELSE <<words[k]>>])

\* Where old first stands in text, zero if it does not.
indexOf(text, old) ==
    LET places == {i \in 1 .. Len(text) - Len(old) + 1 : SubSeq(text, i, i + Len(old) - 1) = old}
    IN  IF places = {} THEN 0 ELSE Min(places)

\* The text with new in place of the first old.
Replaced(text, old, new) ==
    LET i == indexOf(text, old)
    IN  IF i = 0 THEN text
        ELSE SubSeq(text, 1, i - 1) \o new \o SubSeq(text, i + Len(old), Len(text))

\* No text: the replacement does not come to an end.
Endless == <<[is |-> "endless"]>>

\* Only the first old is replaced.
replaceAll_Once(text, old, new) == Replaced(text, old, new)

\* What was put in is searched again, from the start of the text.  A replacement that has
\* not ended after MaxReplacements is taken not to end.
replaceAll(text, old, new) ==
    LET after[n \in 0 .. MaxReplacements] ==
            IF n = 0 THEN text ELSE Replaced(after[n - 1], old, new)
        last == after[MaxReplacements]
    IN  IF indexOf(last, old) = 0 THEN last ELSE Endless

\* What takes a placeholder's place.
Spelled(v) == IF Usable(v) THEN Chars(v.str) ELSE Chars(Text("-"))

\* The variables are in a map: they are expanded in any order.
expand(tmpl, vs, sn) ==
    LET expanded(order) ==
            LET text[k \in 0 .. Len(order)] ==
                    IF k = 0 THEN tmpl
                    ELSE replaceAll(text[k - 1], Placeholder(order[k]),
                                    Spelled(Resolve(sn, vs[order[k]])))
            IN  text[Len(order)]
    IN  {expanded(order) : order \in SetToSeqs(DOMAIN vs)}

\* The source has a value, and its text says so.
Alerting(d, sn) ==
    /\ d.source # <<>>
    /\ LET v == Resolve(sn, d.source[1])
       IN  Usable(v) /\ v.str \in {Text("on"), Text("true")}

\* The name Home Assistant gives the entity behind the alert, if it gives one.
FriendlyName(d, sn) ==
    LET got == Under(Map(sn[d.source[1].entity].attrs), "friendly_name")
    IN  IF got.is = "text" THEN {got} ELSE {}

\* What the strip may show.  The nominal text is expanded also when a name takes its
\* place.
buildAlertStrip(d, sn) ==
    LET active == Alerting(d, sn)
        Message(t) == IF ~active \/ t = Endless \/ FriendlyName(d, sn) = {}
                      THEN t
                      ELSE SetToSeq(FriendlyName(d, sn))
    IN  {[active |-> active, text |-> Message(t)] : t \in expand(Template(d.nominal), d.vars, sn)}

-------------------------------------------------------------------------------
(* buildDetail, buildDecisions, TrackedSeries *)

buildDetail(d, sn) ==
    [k \in DOMAIN d.fields |->
        LET f == d.fields[k]
        IN  Cell(Guarded(sn, f.bind, f.guard), f.format)]

\* The value's kind is not looked at.
buildDecisions_AnyKind(d, sn) ==
    {k \in DOMAIN d.decisions : Test(d.decisions[k], Resolve(sn, d.decisions[k].bind))}

\* The decisions that show, which buildDecisions makes the lines of.
buildDecisions(d, sn) ==
    {k \in DOMAIN d.decisions :
        LET v == Resolve(sn, d.decisions[k].bind)
        IN  Usable(v) /\ Test(d.decisions[k], v)}

\* What a publish puts into the live series: at most one sample each.
TrackedSeries(d, sn) ==
    [k \in DOMAIN d.series |->
        LET v == Resolve(sn, d.series[k])
        IN  IF Usable(v) THEN {v.num} ELSE {}]

\* The frames that may come of a snapshot.
Build(d, sn) ==
    {[rows |-> buildTable(d, sn), cells |-> buildDetail(d, sn), strip |-> strip,
      fired |-> buildDecisions(d, sn), charted |-> TrackedSeries(d, sn)] :
        strip \in buildAlertStrip(d, sn)}

-------------------------------------------------------------------------------

Init ==
    /\ dash \in Dashboards
    /\ world = [e \in DOMAIN Possible |-> Absent]
    /\ frame \in Build(dash, Snapshot(dash, world))

\* View has returned.
Answers == frame.strip.text # Endless

\* One of the entities the dashboard names changes, and the frame is built anew.
Update ==
    /\ Answers
    /\ \E e \in panelBindings(dash) \cup guards(dash) :
          \E now \in Possible[e] \cup {Absent} :
             LET w == [world EXCEPT ![e] = now]
             IN  world' = w /\ frame' \in Build(dash, Snapshot(dash, w))
    /\ UNCHANGED dash

Next == Update

Spec == Init /\ [][Next]_vars

-------------------------------------------------------------------------------

\* What b names in Home Assistant, Missing if it has no value for it.
Named(b) ==
    IF world[b.entity] = Absent \/ world[b.entity].state \in {Text(t) : t \in {"unavailable", "unknown", ""}}
    THEN Missing
    ELSE IF b.path = <<>> THEN world[b.entity].state
    ELSE Follow(b.path, Map(world[b.entity].attrs))

\* The table has every contact that is in any of its collections, whatever collections
\* share it; a collection that is unavailable takes only its own away.  It has none twice
\* if it dedupes, or shows one collection; Validate lets through another table, of one
\* collection in d.bind and one in d.binds, and that shows a contact twice they share.
TableComplete ==
    LET t == frame.rows
        binds == tableBinds(dash)
        listed(b) == IF Named(b).is = "list" THEN {Hex(r) : r \in ToSet(Named(b).of)} ELSE {}
    IN  /\ {Hex(r) : r \in ToSet(t)} = UNION {listed(b) : b \in ToSet(binds)}
        /\ dash.dedupe # "" \/ Len(binds) <= 1 =>
              \A i, j \in DOMAIN t : Hex(t[i]) = Hex(t[j]) => i = j

\* Contacts of unknown distance come last; the others are in order, but for two that
\* are less than the hysteresis apart.
NearestFirst ==
    LET t == frame.rows
        key == dash.sort.key
        far(r) == IF dash.sort.dir = "desc" THEN -r.of[key].v ELSE r.of[key].v
    IN  key # "" =>
            \A i, j \in DOMAIN t :
                i < j /\ Has(t[j], key) =>
                    /\ Has(t[i], key)
                    /\ \/ far(t[i]) <= far(t[j])
                       \/ far(t[i]) - far(t[j]) < dash.sort.hysteresis

\* The rows of two contacts do not change places while what they show stays the same,
\* whatever comes, goes or moves around them, and in whatever order Home Assistant lists
\* them.
HoldStill(t, now) ==
    \A i, j \in DOMAIN t : \A k, l \in DOMAIN now :
        i < j /\ Hex(t[i]) # Hex(t[j]) /\ now[k] = t[i] /\ now[l] = t[j] => k < l
RowsHoldStill == [][dash.sort.key # "" => HoldStill(frame.rows, frame.rows')]_vars

\* While its source is on the strip alerts; what it does once the source is off again is
\* left open, as the hold that widget.AlertStrip speaks of is nowhere implemented.  As
\* long as no value has a brace in it the strip shows its template with every variable's
\* value in its places, or that there is none, whatever order the variables are expanded
\* in, or an alert's name; and no session is lost in the template.
StripIsKnown ==
    LET spelled(x) == LET v == Named(dash.vars[x])
                      IN  CASE v = Missing -> Chars(Text("-"))
                            [] v.is \in {"num", "text"} -> Chars(v)
                            [] OTHER -> <<>>
        words == dash.nominal
        filled == FlattenSeq([k \in DOMAIN words |->
                      IF words[k].is = "variable" THEN spelled(words[k].v) ELSE <<words[k]>>])
        name(b) == Under(Map(world[b.entity].attrs), "friendly_name")
    IN  /\ \A b \in ToSet(dash.source) :
              Named(b) \in {Text("on"), Text("true")} => frame.strip.active
        /\ (\A x \in DOMAIN dash.vars : {Text("{"), Text("}")} \cap ToSet(spelled(x)) = {}) =>
              \/ frame.strip.text = filled
              \/ frame.strip.active /\ frame.strip.text = <<name(dash.source[1])>>

\* A field shows content exactly when Home Assistant has the value, and one for the
\* guard: an indicator is never shown for a value that is there, nor content for one that
\* is not, and no guard that nothing else subscribes to keeps a value from being shown.
\* An attribute that is null is there; the number that is shown for it, and for a text,
\* is what NumbersAreNamed is about.
ShownIsKnown ==
    \A k \in DOMAIN dash.fields :
        LET f == dash.fields[k]
        IN  frame.cells[k] # Indicator <=>
              Named(f.bind) # Missing /\ \A g \in ToSet(f.guard) : Named(g) # Missing

\* A decision does not show without a value.  One whose condition has a text shows
\* exactly when the value is that text, or is not; one whose condition has a number shows
\* for a number exactly when that meets the condition.  What it makes of a value that is
\* no number is what NumbersAreNamed is about.
DecisionsAreFounded ==
    \A k \in DOMAIN dash.decisions :
        LET c == dash.decisions[k]
            v == Named(c.bind)
        IN  /\ v = Missing => k \notin frame.fired
            /\ v # Missing /\ c.want.is = "text" =>
                  (k \in frame.fired <=> \/ c.op = "==" /\ v = c.want
                                         \/ c.op = "!=" /\ v # c.want)
            /\ v.is = "num" /\ c.want.is = "num" =>
                  (k \in frame.fired <=> Compare(c.op, v.v, c.want.v))

\* What the comment on Value.Num says: a number is only meaningful if the binding is
\* numeric.  No number is shown, charted or compared that its binding does not name.
NumbersAreNamed ==
    /\ \A k \in DOMAIN dash.fields :
          frame.cells[k] # Indicator /\ frame.cells[k].shows = "number" =>
              Named(dash.fields[k].bind) = Num(frame.cells[k].v)
    /\ \A k \in DOMAIN dash.series : \A n \in frame.charted[k] : Named(dash.series[k]) = Num(n)
    /\ \A k \in frame.fired :
          LET c == dash.decisions[k]
          IN  c.want.is = "num" => Named(c.bind).is = "num"

===============================================================================
