------------------------------- MODULE MCPanels -------------------------------
(* Panels.tla for TLC: a table of two collections sorted exactly, one of them  *)
(* sorted the other way in buckets of two, the strip of radar.toml, and a      *)
(* dashboard with the kinds of binding home.toml and radar.toml have.  A state *)
(* is any text, one that is a placeholder too, or has one in it.               *)
EXTENDS Panels, Paths

bind(e, path) == [entity |-> e, path |-> path]

sortBy(key, dir, h) == [key |-> key, dir |-> dir, hysteresis |-> h]

radar(entities, dedupe, sort) ==
    [bind |-> <<>>, binds |-> [k \in DOMAIN entities |-> bind(entities[k], <<all("aircraft")>>)],
     dedupe |-> dedupe, sort |-> sort, fields |-> <<>>, decisions |-> <<>>, series |-> <<>>,
     source |-> <<>>, nominal |-> <<>>, vars |-> [x \in {} |-> <<>>]]

\* The strip of radar.toml.
alert ==
    [radar(<<>>, "", sortBy("", "asc", 0)) EXCEPT
        !.source = <<bind("close", <<>>)>>,
        !.nominal = <<variable("flagged"), Text("of"), variable("tracked"), Text("and"),
                      variable("flagged")>>,
        !.vars = [x \in {"flagged", "tracked"} |-> bind(x, <<>>)]]

shown(b, format, guard) == [bind |-> b, format |-> format, guard |-> guard]
when(b, op, want) == [bind |-> b, op |-> op, want |-> want]

templow == bind("forecast", <<element("daily", 0), field("templow")>>)

home ==
    [radar(<<>>, "", sortBy("", "asc", 0)) EXCEPT
     !.fields = << shown(bind("nearest", <<>>), "number", <<>>),
                   shown(bind("nearest", <<field("alt")>>), "number", <<>>),
                   shown(bind("lightning", <<>>), "number", <<bind("last", <<>>)>>),
                   shown(templow, "", <<>>) >>,
     !.decisions = << when(templow, "<", Num(32)), when(templow, "!=", Num(40)),
                      when(bind("gust", <<>>), ">", Num(25)), when(bind("gust", <<>>), ">=", Num(30)),
                      when(bind("gust", <<>>), "==", Num(0)), when(bind("gust", <<>>), "<=", Num(0)),
                      when(bind("gust", <<>>), "==", Text("calm")),
                      when(bind("gust", <<>>), "!=", Text("calm")) >>,
     !.series = << bind("gust", <<>>) >>]

MCDashboards ==
    { radar(<<"military", "interesting">>, "hex", sortBy("distance", "asc", 0)),
      radar(<<"interesting", "military">>, "hex", sortBy("distance", "desc", 2)),
      radar(<<"military">>, "", sortBy("", "asc", 0)),
      \* Validate lets through a union without a key, if half of it is in bind.
      [radar(<<"interesting">>, "", sortBy("distance", "asc", 0)) EXCEPT
          !.bind = <<bind("military", <<all("aircraft")>>)>>],
      home, alert }

-------------------------------------------------------------------------------

\* Of what a text is written with only the placeholders matter.
MCChars(leaf) ==
    CASE leaf = Text("{flagged}")    -> Placeholder("flagged")
      [] leaf = Text("{tracked}")    -> Placeholder("tracked")
      [] leaf = Text("in {tracked}") -> <<Text("in")>> \o Placeholder("tracked")
      [] leaf = Null                 -> <<>>
      [] OTHER                       -> <<leaf>>

none == [a \in {} |-> a]
entity(state, attrs) == [state |-> state, attrs |-> attrs]
gone == {entity(Text("unavailable"), none), entity(Text("unknown"), none)}

\* Contacts 1 to 3, of which some can be at one of two distances, or nobody knows where.
contact(h) == Map([hex |-> Text(h)])
contactAt(h, d) == Map([hex |-> Text(h), distance |-> Num(d)])
contacts == {contact(1), contactAt(1, 2), contactAt(2, 2), contactAt(2, 1), contactAt(3, 3), contact(3)}

lists == {<<>>} \cup {<<r>> : r \in contacts}
            \cup {l \in {<<r, s>> : r, s \in contacts} : Hex(l[1]) # Hex(l[2])}

collection(l, count) == entity(Num(count), [aircraft |-> List(l)])
collections == {collection(l, Len(l)) : l \in lists} \cup gone

low(t) == entity(Text("ok"), [daily |-> List(<<Map([templow |-> t]), Map(none)>>)])

MCPossible ==
    [military    |-> collections,
     interesting |-> collections,
     close       |-> {entity(Text(s), a) : s \in {"on", "off"}, a \in {none, [friendly_name |-> Text("near")]}}
                         \cup gone,
     flagged     |-> {entity(Num(2), none), entity(Text("{tracked}"), none)} \cup gone,
     tracked     |-> {entity(t, none) : t \in {Num(94), Text("{flagged}"), Text("in {tracked}")}} \cup gone,
     nearest     |-> {entity(Num(9), [alt |-> Num(300)]), entity(Num(9), [alt |-> Null]),
                      entity(Num(9), none)} \cup gone,
     lightning   |-> {entity(Num(0), none)} \cup gone,
     last        |-> {entity(Num(5), none)} \cup gone,
     forecast    |-> {low(Num(30)), low(Num(40)), entity(Text("ok"), [daily |-> List(<<Map(none)>>)]),
                      entity(Text("ok"), [daily |-> List(<<>>)]), entity(Text("ok"), none)},
     gust        |-> {entity(Num(30), none), entity(Num(0), none), entity(Text("calm"), none)} \cup gone]
===============================================================================
