----------------------------- MODULE PanelsProofs -----------------------------
(***************************************************************************)
(* What the panels show is known, complete and in order, for every         *)
(* dashboard, every Home Assistant and every way of walking a path.        *)
(***************************************************************************)
EXTENDS Panels, FiniteSetTheorems, NaturalsInduction, WellFoundedInduction, TLAPS

-------------------------------------------------------------------------------
(* Induction over numbers *)

LEMMA NumberInduction ==
  ASSUME NEW Good \in SUBSET Nat,
         \A k \in Nat : (\A j \in 0 .. k - 1 : j \in Good) => k \in Good
  PROVE  Good = Nat
<1> DEFINE R == {p \in Nat \X Nat : p[1] < p[2]}
           Bad == Nat \ Good
<1>1. SUFFICES ASSUME Bad # {} PROVE FALSE
  OBVIOUS
<1>2. R = OpToRel(<, Nat)
  BY DEF OpToRel
<1>3. IsWellFoundedOn(R, Nat)
  BY <1>2, NatLessThanWellFounded
<1>4. \A x, y \in Nat : <<y, x>> \in R <=> y < x
  OBVIOUS
<1>5. Bad \subseteq Nat
  OBVIOUS
<1> HIDE DEF R, Bad
<1>6. PICK k \in Bad : \A j \in Bad : ~(<<j, k>> \in R)
  BY <1>1, <1>3, <1>5, WFMin, Zenon
<1>7. k \in Nat /\ \A j \in 0 .. k - 1 : j \in Nat /\ <<j, k>> \in R
  BY <1>4, <1>5, <1>6
<1>8. \A j \in 0 .. k - 1 : j \in Good
  BY <1>6, <1>7 DEF Bad
<1> QED
  BY <1>6, <1>7, <1>8 DEF Bad

-------------------------------------------------------------------------------
(* The invariant: the frame is one that may come of what there is *)

Seen == Snapshot(dash, world)

IInv ==
    /\ dash \in Dashboards
    /\ DOMAIN world = DOMAIN Possible
    /\ \A e \in DOMAIN world : world[e] = Absent \/ world[e] \in Possible[e]
    /\ frame \in Build(dash, Seen)

LEMMA InitIInv == Init => IInv
BY DEF Init, IInv, Seen

LEMMA NextIInv == IInv /\ [Next]_vars => IInv'
<1> SUFFICES ASSUME IInv, [Next]_vars PROVE IInv'
  OBVIOUS
<1>1. CASE Update
  <2>0. PICK e \in panelBindings(dash) \cup guards(dash) :
           \E now \in Possible[e] \cup {Absent} :
              /\ world' = [world EXCEPT ![e] = now]
              /\ frame' \in Build(dash, Snapshot(dash, [world EXCEPT ![e] = now]))
    BY <1>1 DEF Update
  <2>1. PICK now \in Possible[e] \cup {Absent} :
           /\ world' = [world EXCEPT ![e] = now]
           /\ frame' \in Build(dash, Snapshot(dash, [world EXCEPT ![e] = now]))
    BY <2>0
  <2>2. dash' = dash
    BY <1>1 DEF Update
  <2>3. e \in DOMAIN world
    BY <2>1, EntitiesAssumption DEF IInv, Subscriptions
  <2>4. /\ DOMAIN world' = DOMAIN world
        /\ \A x \in DOMAIN world : world'[x] = IF x = e THEN now ELSE world[x]
    BY <2>1, <2>3 
  <2>5. frame' \in Build(dash', Snapshot(dash', world'))
    BY <2>1, <2>2, Zenon
  <2> QED
    BY <2>1, <2>2, <2>4, <2>5, Zenon DEF IInv, Seen
<1>2. CASE UNCHANGED vars
  BY <1>2, Zenon DEF vars, IInv, Seen
<1> QED
  BY <1>1, <1>2 DEF Next

LEMMA SpecIInv == Spec => []IInv
<1>1. Init => IInv
  BY InitIInv
<1>2. IInv /\ [Next]_vars => IInv'
  BY NextIInv
<1> QED
  BY <1>1, <1>2, PTL DEF Spec

\* The parts of a frame.
LEMMA FrameParts ==
  ASSUME IInv
  PROVE  /\ frame.rows = buildTable(dash, Seen)
         /\ frame.cells = buildDetail(dash, Seen)
         /\ frame.fired = buildDecisions(dash, Seen)
<1>1. PICK strip \in buildAlertStrip(dash, Seen) :
         frame = [rows |-> buildTable(dash, Seen), cells |-> buildDetail(dash, Seen),
                  strip |-> strip, fired |-> buildDecisions(dash, Seen),
                  charted |-> TrackedSeries(dash, Seen)]
  BY Zenon DEF IInv, Build
<1> HIDE DEF Seen
<1> QED
  BY <1>1

-------------------------------------------------------------------------------
(* Values *)

\* An entity that was subscribed to is seen as Home Assistant has it.
LEMMA SeenAsIs ==
  ASSUME IInv, NEW e \in Subscriptions(dash)
  PROVE  /\ e \in DOMAIN world
         /\ e \in DOMAIN Seen <=> world[e] # Absent
         /\ world[e] # Absent => /\ Seen[e] = world[e]
                                 /\ world[e].state.is \in {"num", "text"}
<1>1. e \in DOMAIN Possible
  BY EntitiesAssumption DEF IInv
<1> QED
  BY <1>1, EntitiesAssumption DEF IInv, Seen, Snapshot

\* A value is usable if Home Assistant has one, and what it is made of.
LEMMA ValueOf ==
  ASSUME IInv, NEW b, b.entity \in Subscriptions(dash)
  PROVE  LET v     == Resolve(Seen, b)
             named == Named(b)
         IN  /\ Usable(v) <=> named # Missing
             /\ ~Usable(v) => v.attr = Null
             /\ Usable(v) => /\ b.entity \in DOMAIN Seen
                             /\ Seen[b.entity] = world[b.entity]
                             /\ named.is \in {"num", "text"} => v.str = named
                             /\ named.is \notin {"num", "text"} => v.str = Null
                             /\ named.is = "num" => v.num = named.v
             /\ Usable(v) /\ b.path = <<>> => v.attr = Null /\ named.is \in {"num", "text"}
             /\ Usable(v) /\ b.path # <<>> => v.attr = named
<1> DEFINE e == b.entity
           ent == world[e]
           out == ent = Absent \/ ent.state \in {Text("unavailable"), Text("unknown"), Text("")}
           got == Follow(b.path, Map(ent.attrs))
           v == Resolve(Seen, b)
           named == Named(b)
<1>0. \A u : u = Unusable("unavailable") \/ u = Unusable("unknown") => ~Usable(u) /\ u.attr = Null
  BY DEF Unusable, value, Usable
<1>1. /\ e \in DOMAIN Seen <=> ent # Absent
      /\ ent # Absent => Seen[e] = ent /\ ent.state.is \in {"num", "text"}
  BY SeenAsIs
<1>2. named = IF out THEN Missing ELSE IF b.path = <<>> THEN ent.state ELSE got
  <2>1. {Text(t) : t \in {"unavailable", "unknown", ""}} =
           {Text("unavailable"), Text("unknown"), Text("")}
    OBVIOUS
  <2> QED
    BY <2>1, Zenon DEF Named
<1>3. \A t : Text(t) # Missing /\ Missing.is = "missing" /\ Null.is = "null"
  BY DEF Text, Missing, Null
<1>4. CASE out
  <2>1. v \in {Unusable("unavailable"), Unusable("unknown")}
    BY <1>1, <1>4 DEF Resolve
  <2>2. ~Usable(v) /\ v.attr = Null
    BY <1>0, <2>1
  <2>3. named = Missing
    BY <1>2, <1>4
  <2> QED
    BY <2>2, <2>3
<1>5. CASE ~out /\ b.path = <<>>
  <2>1. v = value("valid", ent.state, ParseOr(ent.state, NoNumber), Null)
    BY <1>1, <1>5 DEF Resolve
  <2>2. named = ent.state /\ named # Missing
    BY <1>1, <1>2, <1>3, <1>5
  <2>3. /\ Usable(v) /\ v.str = named /\ v.attr = Null
        /\ named.is = "num" => v.num = named.v
    BY <2>1, <2>2 DEF value, Usable, ParseOr
  <2> QED
    BY <1>1, <1>5, <2>2, <2>3
<1>6. CASE ~out /\ b.path # <<>>
  <2>1. named = got
    BY <1>2, <1>6
  <2>2. v = IF got = Missing THEN Unusable("unavailable") ELSE OfAttribute(ent, got)
    BY <1>1, <1>6 DEF Resolve
  <2>3. CASE got = Missing
    <3>1. v = Unusable("unavailable") /\ named = Missing
      BY <2>1, <2>2, <2>3
    <3>2. ~Usable(v) /\ v.attr = Null
      BY <1>0, <3>1
    <3> QED
      BY <3>1, <3>2
  <2>4. CASE got # Missing
    <3>1. v = value("valid", IF got.is \in {"num", "text"} THEN got ELSE Null,
                    ParseOr(got, ParseOr(ent.state, NoNumber)), got)
      BY <2>2, <2>4 DEF OfAttribute
    <3>2. /\ v.kind = "valid" /\ v.attr = got
          /\ v.str = IF got.is \in {"num", "text"} THEN got ELSE Null
          /\ v.num = ParseOr(got, ParseOr(ent.state, NoNumber))
      BY <3>1 DEF value
    <3> QED
      BY <1>1, <1>6, <2>1, <2>4, <3>2 DEF Usable, ParseOr
  <2> QED
    BY <2>3, <2>4
<1> QED
  BY <1>4, <1>5, <1>6

Binds == tableBinds(dash)

\* The collections of the table are those the dashboard has.
LEMMA BindsType ==
  ASSUME IInv
  PROVE  /\ Binds \in Seq(ToSet(Binds))
         /\ ToSet(Binds) \subseteq ToSet(dash.bind) \cup ToSet(dash.binds)
<1>1. dash.bind = <<>> \/ dash.bind = <<dash.bind[1]>>
  BY DashboardsAssumption, Zenon DEF IInv
<1>2. dash.binds \in Seq(ToSet(dash.binds))
  BY DashboardsAssumption, Zenon DEF IInv
<1> DEFINE one == dash.bind
           more == dash.binds
           S == ToSet(one) \cup ToSet(more)
<1>3. one \in Seq(S)
  <2>1. CASE one = <<>>
    BY <2>1
  <2>2. CASE one = <<one[1]>>
    <3>1. PICK e : one = <<e>>
      BY <2>2, Zenon
    <3>2. DOMAIN one = {1} /\ one[1] = e
      BY <3>1
    <3>3. e \in S
      BY <3>2 DEF ToSet
    <3> HIDE DEF S
    <3> QED
      BY <3>1, <3>3
  <2> QED
    BY <1>1, <2>1, <2>2
<1>4. more \in Seq(S)
  BY <1>2
<1> HIDE DEF one, more, S
<1> DEFINE b == one \o more
<1>5. b \in Seq(S)
  BY <1>3, <1>4
<1>6. b \in Seq(ToSet(b))
  <2> HIDE DEF b
  <2>1. DOMAIN b = 1 .. Len(b) /\ Len(b) \in Nat
    BY <1>5
  <2>2. \A k \in 1 .. Len(b) : b[k] \in ToSet(b)
    BY <2>1 DEF ToSet
  <2>3. b = [k \in 1 .. Len(b) |-> b[k]]
    BY <1>5
  <2>4. b \in [1 .. Len(b) -> ToSet(b)]
    BY <2>2, <2>3
  <2> QED
    BY <2>1, <2>4
<1>7. ToSet(b) \subseteq S
  <2> HIDE DEF b
  <2> QED
    BY <1>5 DEF ToSet
<1> QED
  BY <1>6, <1>7, Zenon DEF Binds, tableBinds, b, S, one, more

\* What a dashboard's bindings name is subscribed to.
LEMMA Subscribed ==
  ASSUME IInv
  PROVE  /\ \A b \in ToSet(Binds) : b.entity \in Subscriptions(dash)
         /\ \A k \in DOMAIN dash.fields :
               /\ dash.fields[k].bind.entity \in Subscriptions(dash)
               /\ \A g \in ToSet(dash.fields[k].guard) : g.entity \in Subscriptions(dash)
         /\ \A k \in DOMAIN dash.decisions : dash.decisions[k].bind.entity \in Subscriptions(dash)
<1>1. \A k \in DOMAIN dash.fields : dash.fields[k] \in ToSet(dash.fields)
  BY DEF ToSet
<1>2. \A k \in DOMAIN dash.decisions : dash.decisions[k] \in ToSet(dash.decisions)
  BY DEF ToSet
<1>3. \A b \in ToSet(Binds) : b \in ToSet(dash.bind) \cup ToSet(dash.binds)
  BY BindsType
<1> QED
  BY <1>1, <1>2, <1>3 DEF Subscriptions, panelBindings, guards

-------------------------------------------------------------------------------
(* Fields and decisions *)

LEMMA CellShows ==
  ASSUME NEW v, NEW format
  PROVE  Cell(v, format) # Indicator <=> Usable(v)
BY DEF Cell, Indicator

\* A field shows content just when Home Assistant has its value and its guard's.
LEMMA FieldsAreKnown ==
  ASSUME IInv, NEW k \in DOMAIN dash.fields
  PROVE  frame.cells[k] # Indicator <=>
            /\ Named(dash.fields[k].bind) # Missing
            /\ \A g \in ToSet(dash.fields[k].guard) : Named(g) # Missing
<1> DEFINE f == dash.fields[k]
<1>1. frame.cells[k] = Cell(Guarded(Seen, f.bind, f.guard), f.format)
  BY FrameParts DEF buildDetail
<1>2. Usable(Resolve(Seen, f.bind)) <=> Named(f.bind) # Missing
  BY ValueOf, Subscribed
<1>3. \A g \in ToSet(f.guard) : Usable(Resolve(Seen, g)) <=> Named(g) # Missing
  BY ValueOf, Subscribed
<1>4. ~Usable(Unusable("unavailable"))
  BY DEF Usable, Unusable, value
<1>5. f.guard = <<>> \/ f.guard = <<f.guard[1]>>
  BY DashboardsAssumption DEF IInv, ToSet
<1> HIDE DEF f
<1>6. CASE f.guard = <<>>
  <2>1. ToSet(f.guard) = {}
    BY <1>6 DEF ToSet
  <2>2. Guarded(Seen, f.bind, f.guard) = Resolve(Seen, f.bind)
    BY <1>6 DEF Guarded
  <2>3. frame.cells[k] # Indicator <=> Usable(Resolve(Seen, f.bind))
    BY <1>1, <2>2, CellShows
  <2> QED
    BY <1>2, <2>1, <2>3 DEF f
<1>7. CASE f.guard = <<f.guard[1]>>
  <2>1. ToSet(f.guard) = {f.guard[1]} /\ f.guard # <<>>
    <3>1. \A g : ToSet(<<g>>) = {g} /\ <<g>> # <<>>
      BY DEF ToSet
    <3> QED
      BY <1>7, <3>1, Zenon
  <2>2. Guarded(Seen, f.bind, f.guard) =
           IF ~Usable(Resolve(Seen, f.guard[1])) THEN Unusable("unavailable")
           ELSE Resolve(Seen, f.bind)
    BY <2>1 DEF Guarded
  <2>3. frame.cells[k] # Indicator <=> Usable(Guarded(Seen, f.bind, f.guard))
    BY <1>1, CellShows
  <2> QED
    BY <1>2, <1>3, <1>4, <2>1, <2>2, <2>3 DEF f
<1> QED
  BY <1>5, <1>6, <1>7

\* A decision never shows without a value.  About a text it shows exactly when the value
\* is that text, or is not; about a number, if the value is one, exactly when that meets
\* the condition.
THEOREM DecisionsFounded == Spec => []DecisionsAreFounded
<1>1. IInv => DecisionsAreFounded
  <2> SUFFICES ASSUME IInv, NEW k \in DOMAIN dash.decisions
               PROVE  LET c == dash.decisions[k]
                          v == Named(c.bind)
                      IN  /\ v = Missing => k \notin frame.fired
                          /\ v # Missing /\ c.want.is = "text" =>
                                (k \in frame.fired <=> \/ c.op = "==" /\ v = c.want
                                                       \/ c.op = "!=" /\ v # c.want)
                          /\ v.is = "num" /\ c.want.is = "num" =>
                                (k \in frame.fired <=> Compare(c.op, v.v, c.want.v))
    BY Zenon DEF DecisionsAreFounded
  <2> DEFINE c == dash.decisions[k]
             v == Resolve(Seen, c.bind)
             named == Named(c.bind)
  <2>1. k \in frame.fired <=> Usable(v) /\ Test(c, v)
    BY FrameParts DEF buildDecisions
  <2>2. /\ Usable(v) <=> named # Missing
        /\ Usable(v) => /\ named.is \in {"num", "text"} => v.str = named
                        /\ named.is \notin {"num", "text"} => v.str = Null
                        /\ named.is = "num" => v.num = named.v
    <3>1. c.bind.entity \in Subscriptions(dash)
      BY Subscribed
    <3> HIDE DEF c
    <3> QED
      BY <3>1, ValueOf
  <2>3. Missing.is = "missing" /\ Null.is = "null"
    BY DEF Missing, Null
  <2> HIDE DEF c, v, named
  <2>4. ASSUME named.is = "num", c.want.is = "num"
        PROVE  Test(c, v) <=> Compare(c.op, named.v, c.want.v)
    <3>1. v.str = named /\ v.num = named.v /\ v.str # Null
      BY <2>2, <2>3, <2>4
    <3>2. c.want.is # "text"
      BY <2>4
    <3> QED
      BY <3>1, <3>2, Zenon DEF Test
  <2>5. named.is = "num" => named # Missing
    BY <2>3
  <2>6. ASSUME named # Missing, c.want.is = "text"
        PROVE  Test(c, v) <=> \/ c.op = "==" /\ named = c.want
                              \/ c.op = "!=" /\ named # c.want
    <3>1. Test(c, v) <=> Same(c.op, v.str, c.want)
      BY <2>6, Zenon DEF Test
    <3>2. v.str = c.want <=> named = c.want
      <4>1. CASE named.is \in {"num", "text"}
        BY <2>2, <2>6, <4>1
      <4>2. CASE named.is \notin {"num", "text"}
        BY <2>2, <2>3, <2>6, <4>2
      <4> QED
        BY <4>1, <4>2
    <3> QED
      BY <3>1, <3>2, Zenon DEF Same
  <2> QED
    BY <2>1, <2>2, <2>4, <2>5, <2>6, Zenon DEF c, named
<1> QED
  BY <1>1, SpecIInv, PTL

\* Fields show what is known and nothing else.
THEOREM OnlyTheKnownIsShown == Spec => []ShownIsKnown
<1>1. IInv => ShownIsKnown
  BY FieldsAreKnown, Zenon DEF ShownIsKnown
<1> QED
  BY <1>1, SpecIInv, PTL

-------------------------------------------------------------------------------
(* Places in an order *)

\* The members of D that come before i in the order R.
Before(D, R, i) == {j \in D : <<j, i>> \in R}
Rank(D, R, i) == Cardinality(Before(D, R, i))

\* A finite set in a strict total order R has one element for each number of
\* predecessors.
LEMMA Ranks ==
  ASSUME NEW D, IsFiniteSet(D), NEW R,
         \A i \in D : <<i, i>> \notin R,
         \A i, j, k \in D : <<i, j>> \in R /\ <<j, k>> \in R => <<i, k>> \in R,
         \A i, j \in D : i # j => <<i, j>> \in R \/ <<j, i>> \in R
  PROVE  /\ \A i \in D : Rank(D, R, i) \in 0 .. Cardinality(D) - 1
         /\ \A i, j \in D : <<i, j>> \in R => Rank(D, R, i) < Rank(D, R, j)
         /\ \A n \in 0 .. Cardinality(D) - 1 : \E i \in D : Rank(D, R, i) = n
<1> DEFINE before(i) == {j \in D : <<j, i>> \in R}
           rank(i) == Cardinality(before(i))
           N == Cardinality(D)
           f == [i \in D |-> rank(i)]
<1>1. N \in Nat
  BY FS_CardinalityType
<1>2. \A i \in D : IsFiniteSet(before(i)) /\ rank(i) \in Nat
  <2> SUFFICES ASSUME NEW i \in D PROVE IsFiniteSet(before(i)) /\ rank(i) \in Nat
    OBVIOUS
  <2>1. before(i) \in SUBSET D
    OBVIOUS
  <2> HIDE DEF before
  <2> QED
    BY <2>1, FS_Subset, FS_CardinalityType
<1>3. \A i, j \in D : <<i, j>> \in R => rank(i) < rank(j)
  <2> SUFFICES ASSUME NEW i \in D, NEW j \in D, <<i, j>> \in R PROVE rank(i) < rank(j)
    OBVIOUS
  <2>1. before(i) \subseteq before(j) /\ i \in before(j) /\ i \notin before(i)
    OBVIOUS
  <2> HIDE DEF before
  <2>2. /\ rank(i) <= rank(j)
        /\ rank(j) = rank(i) => before(j) = before(i)
    BY <1>2, <2>1, FS_Subset
  <2> QED
    BY <1>2, <2>1, <2>2
<1>4. \A i \in D : rank(i) \in 0 .. N - 1
  <2> SUFFICES ASSUME NEW i \in D PROVE rank(i) \in 0 .. N - 1
    OBVIOUS
  <2>1. before(i) \subseteq D /\ i \notin before(i)
    OBVIOUS
  <2> HIDE DEF before
  <2>2. rank(i) <= N /\ (N = rank(i) => D = before(i))
    BY <2>1, FS_Subset
  <2>3. rank(i) # N
    BY <2>1, <2>2
  <2> QED
    BY <1>1, <1>2, <2>2, <2>3
<1> HIDE DEF rank, N
<1>5. f \in Injection(D, 0 .. N - 1)
  <2>1. f \in [D -> 0 .. N - 1]
    BY <1>4
  <2>2. \A i, j \in D : f[i] = f[j] => i = j
    <3> SUFFICES ASSUME NEW i \in D, NEW j \in D, f[i] = f[j], i # j PROVE FALSE
      OBVIOUS
    <3>1. rank(i) = rank(j) /\ rank(i) \in Nat /\ rank(j) \in Nat
      BY <1>4
    <3>2. rank(i) < rank(j) \/ rank(j) < rank(i)
      BY <1>3
    <3> QED
      BY <3>1, <3>2
  <2> QED
    BY <2>1, <2>2 DEF Injection, IsInjective
<1>6. IsFiniteSet(0 .. N - 1) /\ Cardinality(0 .. N - 1) = N
  BY <1>1, FS_Interval
<1> HIDE DEF f
<1>7. f \in Surjection(D, 0 .. N - 1)
  BY <1>5, <1>6, FS_Injection DEF N
<1>8. \A n \in 0 .. N - 1 : \E i \in D : rank(i) = n
  <2>1. \A n \in 0 .. N - 1 : \E i \in D : f[i] = n
    BY <1>7 DEF Surjection
  <2> QED
    BY <2>1 DEF f
<1>9. \A i \in D : Rank(D, R, i) = rank(i)
  BY Zenon DEF Rank, Before, rank, before
<1> HIDE DEF rank
<1> QED
  BY <1>3, <1>4, <1>8, <1>9 DEF N

\* t has the elements of s at the places in S, in the order of s.
Keeps(t, s, S) ==
    \E p \in [DOMAIN t -> S] :
        /\ \A n \in DOMAIN t : t[n] = s[p[n]]
        /\ \A m, n \in DOMAIN t : m < n => p[m] < p[n]
        /\ \A k \in S : \E n \in DOMAIN t : p[n] = k

\* What is picked is picked in order, and all of it is.
LEMMA PickedInOrder ==
  ASSUME NEW s, NEW S \in SUBSET Nat, IsFiniteSet(S)
  PROVE  /\ Picked(s, S) \in Seq({s[k] : k \in S})
         /\ Keeps(Picked(s, S), s, S)
<1> DEFINE N == Cardinality(S)
           rank(k) == Cardinality({i \in S : i < k})
           place(n) == CHOOSE k \in S : rank(k) = n - 1
           R == {q \in Nat \X Nat : q[1] < q[2]}
           p == [n \in 1 .. N |-> place(n)]
           t == Picked(s, S)
<1>0. \A k \in S : k \in Nat
  OBVIOUS
<1>1. N \in Nat
  BY FS_CardinalityType
<1>2. \A k \in S : {i \in S : <<i, k>> \in R} = {i \in S : i < k}
  OBVIOUS
<1>3. /\ \A k \in S : rank(k) \in 0 .. N - 1
      /\ \A i, k \in S : i < k => rank(i) < rank(k)
      /\ \A n \in 0 .. N - 1 : \E k \in S : rank(k) = n
  <2>1. \A i, k \in S : <<i, k>> \in R <=> i < k
    OBVIOUS
  <2>2. /\ \A i \in S : <<i, i>> \notin R
        /\ \A i, j, k \in S : <<i, j>> \in R /\ <<j, k>> \in R => <<i, k>> \in R
        /\ \A i, j \in S : i # j => <<i, j>> \in R \/ <<j, i>> \in R
    OBVIOUS
  <2> HIDE DEF R
  <2>3. /\ \A k \in S : Rank(S, R, k) \in 0 .. N - 1
        /\ \A i, k \in S : <<i, k>> \in R => Rank(S, R, i) < Rank(S, R, k)
        /\ \A n \in 0 .. N - 1 : \E k \in S : Rank(S, R, k) = n
    BY <2>2, Ranks
  <2>4. \A k \in S : Rank(S, R, k) = rank(k)
    BY <1>2, Zenon DEF Rank, Before
  <2> HIDE DEF rank, N
  <2>5. \A k \in S : rank(k) \in 0 .. N - 1
    BY <2>3, <2>4
  <2>6. \A i, k \in S : i < k => rank(i) < rank(k)
    <3> SUFFICES ASSUME NEW i \in S, NEW k \in S, i < k PROVE rank(i) < rank(k)
      OBVIOUS
    <3>1. Rank(S, R, i) < Rank(S, R, k)
      BY <2>1, <2>3
    <3> QED
      BY <2>4, <3>1
  <2>7. \A n \in 0 .. N - 1 : \E k \in S : rank(k) = n
    BY <2>3, <2>4, Zenon
  <2> QED
    BY <2>5, <2>6, <2>7
<1> HIDE DEF rank
<1>4. \A n \in 1 .. N : place(n) \in S /\ rank(place(n)) = n - 1
  <2> SUFFICES ASSUME NEW n \in 1 .. N PROVE place(n) \in S /\ rank(place(n)) = n - 1
    OBVIOUS
  <2>1. n - 1 \in 0 .. N - 1
    BY <1>1
  <2>2. \E k \in S : rank(k) = n - 1
    BY <1>3, <2>1
  <2> QED
    BY <2>2
<1>5. t = [n \in 1 .. N |-> s[place(n)]]
  BY Zenon DEF Picked, rank
<1> HIDE DEF place, t, N
<1>6. DOMAIN t = 1 .. N
  BY <1>5
<1>7. t \in Seq({s[k] : k \in S})
  <2>1. t \in [1 .. N -> {s[k] : k \in S}]
    BY <1>4, <1>5
  <2> QED
    BY <1>1, <2>1
<1>8. p \in [DOMAIN t -> S] /\ \A n \in DOMAIN t : t[n] = s[p[n]]
  BY <1>4, <1>5, <1>6
<1>9. \A m, n \in DOMAIN t : m < n => p[m] < p[n]
  <2> SUFFICES ASSUME NEW m \in 1 .. N, NEW n \in 1 .. N, m < n, ~(place(m) < place(n))
               PROVE  FALSE
    BY <1>6
  <2>1. rank(place(m)) = m - 1 /\ rank(place(n)) = n - 1 /\ place(m) \in S /\ place(n) \in S
    BY <1>4
  <2>2. place(m) # place(n)
    BY <1>1, <2>1
  <2>3. place(n) < place(m)
    <3>1. place(m) \in Nat /\ place(n) \in Nat
      BY <1>0, <2>1, Zenon
    <3> QED
      BY <2>2, <3>1
  <2>4. rank(place(n)) < rank(place(m))
    BY <1>3, <2>1, <2>3
  <2> QED
    BY <1>1, <2>1, <2>4
<1>10. \A k \in S : \E n \in DOMAIN t : p[n] = k
  <2> SUFFICES ASSUME NEW k \in S PROVE \E n \in 1 .. N : place(n) = k
    BY <1>6
  <2>1. rank(k) \in 0 .. N - 1
    BY <1>3
  <2>2. rank(k) + 1 \in 1 .. N
    BY <1>1, <2>1
  <2>3. place(rank(k) + 1) \in S /\ rank(place(rank(k) + 1)) = rank(k)
    BY <1>4, <2>1, <2>2
  <2>4. place(rank(k) + 1) = k
    <3> SUFFICES ASSUME place(rank(k) + 1) # k PROVE FALSE
      OBVIOUS
    <3>0. place(rank(k) + 1) \in Nat /\ k \in Nat
      BY <1>0, <2>3, Zenon
    <3>1. place(rank(k) + 1) < k \/ k < place(rank(k) + 1)
      BY <3>0
    <3>2. rank(k) \in Nat /\ ~(rank(k) < rank(k))
      BY <1>1, <2>1
    <3> QED
      BY <1>3, <2>3, <3>1, <3>2
  <2> QED
    BY <2>2, <2>4
<1> HIDE DEF p
<1>11. Keeps(t, s, S)
  BY <1>8, <1>9, <1>10 DEF Keeps
<1> QED
  BY <1>7, <1>11 DEF t

-------------------------------------------------------------------------------
(* The collections of a table, one after the other *)

\* The first m of seqs, each appended to those before it.
Flattening(f, seqs, m) ==
    f = [i \in 1 .. m |-> IF i = 1 THEN seqs[i] ELSE f[i - 1] \o seqs[i]]

LEMMA FlatteningExists ==
  ASSUME NEW seqs, NEW m \in Nat
  PROVE  \E f : Flattening(f, seqs, m)
<1> DEFINE Good == {k \in Nat : \E f : Flattening(f, seqs, k)}
           next(t, k) == t \o seqs[k]
<1>1. ASSUME NEW k \in Nat, \A j \in 0 .. k - 1 : j \in Good
      PROVE  k \in Good
  <2>1. CASE k = 0
    <3> DEFINE f == [j \in 1 .. 0 |-> seqs[j]]
    <3>1. f = [j \in 1 .. 0 |-> IF j = 1 THEN seqs[j] ELSE f[j - 1] \o seqs[j]]
      OBVIOUS
    <3> QED
      BY <2>1, <3>1 DEF Flattening
  <2>2. CASE k # 0
    <3>1. k - 1 \in 0 .. k - 1 /\ k - 1 \in Nat
      BY <2>2
    <3>2. PICK e : Flattening(e, seqs, k - 1)
      BY <1>1, <3>1
    <3> DEFINE f == [j \in 1 .. k |-> IF j = k THEN IF k = 1 THEN seqs[1] ELSE next(e[k - 1], k)
                                     ELSE e[j]]
    <3> HIDE DEF next
    <3>3. e = [j \in 1 .. k - 1 |-> IF j = 1 THEN seqs[j] ELSE next(e[j - 1], j)]
      BY <3>2, Zenon DEF Flattening, next
    <3>4. \A j \in 1 .. k : f[j] = IF j = 1 THEN seqs[j] ELSE next(f[j - 1], j)
      <4> SUFFICES ASSUME NEW j \in 1 .. k
                   PROVE  f[j] = IF j = 1 THEN seqs[j] ELSE next(f[j - 1], j)
        OBVIOUS
      <4>1. CASE j = k
        BY <2>2, <4>1
      <4>2. CASE j # k
        <5>1. j \in 1 .. k - 1 /\ (j # 1 => j - 1 \in 1 .. k /\ j - 1 # k)
          BY <4>2
        <5>2. e[j] = IF j = 1 THEN seqs[j] ELSE next(e[j - 1], j)
          BY <3>3, <5>1
        <5> QED
          BY <4>2, <5>1, <5>2
      <4> QED
        BY <4>1, <4>2
    <3>5. f = [j \in 1 .. k |-> IF j = 1 THEN seqs[j] ELSE next(f[j - 1], j)]
      BY <3>4
    <3>6. Flattening(f, seqs, k)
      BY <3>5, Zenon DEF Flattening, next
    <3> QED
      BY <3>6
  <2> QED
    BY <2>1, <2>2
<1>2. Good \in SUBSET Nat
  OBVIOUS
<1> HIDE DEF Good
<1>3. Good = Nat
  BY <1>1, <1>2, NumberInduction
<1> QED
  BY <1>3 DEF Good

\* What two sequences have, one after the other.
LEMMA Joined ==
  ASSUME NEW R, NEW s \in Seq(R), NEW t \in Seq(R)
  PROVE  s \o t \in Seq(R) /\ ToSet(s \o t) = ToSet(s) \cup ToSet(t)
<1>1. /\ Len(s \o t) = Len(s) + Len(t) /\ Len(s) \in Nat /\ Len(t) \in Nat
      /\ \A i \in 1 .. Len(s) : (s \o t)[i] = s[i]
      /\ \A i \in 1 .. Len(t) : (s \o t)[Len(s) + i] = t[i]
  OBVIOUS
<1>2. s \o t \in Seq(R)
  OBVIOUS
<1>3. ToSet(s) \cup ToSet(t) \subseteq ToSet(s \o t)
  <2>1. \A i \in 1 .. Len(s) : i \in 1 .. Len(s \o t)
    BY <1>1
  <2>2. \A i \in 1 .. Len(t) : Len(s) + i \in 1 .. Len(s \o t)
    BY <1>1
  <2> DEFINE st == s \o t
  <2>3. DOMAIN s = 1 .. Len(s) /\ DOMAIN t = 1 .. Len(t) /\ DOMAIN st = 1 .. Len(st)
    BY <1>2
  <2> HIDE DEF st
  <2>4. \A i \in DOMAIN s : s[i] = st[i] /\ i \in DOMAIN st
    BY <1>1, <2>1, <2>3, Zenon DEF st
  <2>5. \A i \in DOMAIN t : t[i] = st[Len(s) + i] /\ Len(s) + i \in DOMAIN st
    BY <1>1, <2>2, <2>3, Zenon DEF st
  <2>6. ToSet(s) \subseteq ToSet(st) /\ ToSet(t) \subseteq ToSet(st)
    BY <2>4, <2>5, Zenon DEF ToSet
  <2> QED
    BY <2>6, Zenon DEF st
<1>4. ToSet(s \o t) \subseteq ToSet(s) \cup ToSet(t)
  <2> SUFFICES ASSUME NEW i \in 1 .. Len(s \o t)
               PROVE  (s \o t)[i] \in ToSet(s) \cup ToSet(t)
    BY <1>2 DEF ToSet
  <2>1. CASE i <= Len(s)
    <3>1. i \in 1 .. Len(s)
      BY <1>1, <2>1
    <3> QED
      BY <1>1, <3>1 DEF ToSet
  <2>2. CASE ~(i <= Len(s))
    <3>1. i - Len(s) \in 1 .. Len(t) /\ Len(s) + (i - Len(s)) = i
      BY <1>1, <2>2
    <3> QED
      BY <1>1, <3>1 DEF ToSet
  <2> QED
    BY <2>1, <2>2
<1> QED
  BY <1>2, <1>3, <1>4

LEMMA Flattened ==
  ASSUME NEW R, NEW seqs \in Seq(Seq(R))
  PROVE  /\ FlattenSeq(seqs) \in Seq(R)
         /\ ToSet(FlattenSeq(seqs)) = UNION {ToSet(seqs[k]) : k \in DOMAIN seqs}
         /\ Len(seqs) = 1 => FlattenSeq(seqs) = seqs[1]
<1> DEFINE L == Len(seqs)
           f == CHOOSE g : Flattening(g, seqs, L)
           upTo(k) == UNION {ToSet(seqs[i]) : i \in 1 .. k}
           Good == {k \in Nat : k \in 1 .. L => f[k] \in Seq(R) /\ ToSet(f[k]) = upTo(k)}
<1>1. L \in Nat /\ DOMAIN seqs = 1 .. L /\ \A k \in 1 .. L : seqs[k] \in Seq(R)
  OBVIOUS
<1>2. CASE L = 0
  <2>1. seqs = <<>>
    BY <1>2
  <2>2. FlattenSeq(seqs) = <<>>
    BY <2>1 DEF FlattenSeq
  <2>3. ToSet(<<>>) = {} /\ DOMAIN seqs = {}
    BY <2>1 DEF ToSet
  <2> QED
    BY <1>2, <2>2, <2>3
<1>3. CASE L # 0
  <2>1. FlattenSeq(seqs) = f[L]
    BY <1>3, Zenon DEF FlattenSeq, Flattening
  <2>2. Flattening(f, seqs, L)
    <3>1. \E g : Flattening(g, seqs, L)
      BY <1>1, FlatteningExists
    <3> QED
      BY <3>1, Zenon
  <2> HIDE DEF f, L
  <2>3. \A k \in 1 .. L : f[k] = IF k = 1 THEN seqs[k] ELSE f[k - 1] \o seqs[k]
    BY <2>2 DEF Flattening
  <2>4. ASSUME NEW k \in Nat, \A j \in 0 .. k - 1 : j \in Good
        PROVE  k \in Good
    <3>1. CASE k \notin 1 .. L
      BY <3>1
    <3>2. CASE k = 1 /\ k \in 1 .. L
      <4>1. f[1] = seqs[1] /\ seqs[1] \in Seq(R)
        BY <1>1, <2>3, <3>2
      <4>2. upTo(1) = ToSet(seqs[1])
        <5>1. 1 .. 1 = {1}
          OBVIOUS
        <5> QED
          BY <5>1
      <4> QED
        BY <3>2, <4>1, <4>2
    <3>3. CASE k # 1 /\ k \in 1 .. L
      <4>1. k - 1 \in 0 .. k - 1 /\ k - 1 \in 1 .. L
        BY <1>1, <3>3
      <4>2. f[k - 1] \in Seq(R) /\ ToSet(f[k - 1]) = upTo(k - 1)
        BY <2>4, <4>1
      <4>3. f[k] = f[k - 1] \o seqs[k] /\ seqs[k] \in Seq(R)
        BY <1>1, <2>3, <3>3
      <4>4. f[k] \in Seq(R) /\ ToSet(f[k]) = ToSet(f[k - 1]) \cup ToSet(seqs[k])
        BY <4>2, <4>3, Joined
      <4>5. upTo(k) = upTo(k - 1) \cup ToSet(seqs[k])
        <5>1. 1 .. k = (1 .. k - 1) \cup {k}
          BY <1>1, <3>3
        <5> QED
          BY <5>1
      <4> QED
        BY <4>2, <4>4, <4>5
    <3> QED
      BY <3>1, <3>2, <3>3
  <2>5. Good \in SUBSET Nat
    OBVIOUS
  <2> HIDE DEF Good
  <2>6. L \in Good
    BY <1>1, <2>4, <2>5, NumberInduction
  <2>7. f[L] \in Seq(R) /\ ToSet(f[L]) = upTo(L)
    BY <1>1, <1>3, <2>6 DEF Good
  <2>8. L = 1 => f[L] = seqs[1]
    BY <2>3
  <2> QED
    BY <1>1, <2>1, <2>7, <2>8 DEF L
<1> QED
  BY <1>2, <1>3

-------------------------------------------------------------------------------
(* The contacts of a table *)

Contacts == UNION {ToSet(l.of) : l \in Collections(dash)}

\* The contacts Home Assistant lists under b.
ListedBy(b) == IF Named(b).is = "list" THEN ToSet(Named(b).of) ELSE {}

Distinct(t) == \A i, j \in DOMAIN t : Hex(t[i]) = Hex(t[j]) => i = j

\* The table leaves out contacts it has.
Deduped == dash.dedupe # ""

\* No contact is in two collections of the table, or it leaves out those it has.
Once == Deduped \/ Len(Binds) <= 1

\* What is known of contacts.
LEMMA ContactFacts ==
  ASSUME IInv
  PROVE  /\ \A l \in Collections(dash) : l.of \in Seq(ToSet(l.of)) /\ Distinct(l.of)
         /\ \A r \in Contacts :
               /\ r.is = "map" /\ Hex(r) \in Int
               /\ Has(r, dash.sort.key) =>
                     /\ r.of[dash.sort.key].v \in Int
                     /\ dash.sort.hysteresis > 0 => r.of[dash.sort.key].v >= 0
         /\ \A r, s \in Contacts :
               SameKey(r, s, dash.dedupe) <=> Deduped /\ Hex(r) = Hex(s)
BY ContactsAssumption, Zenon DEF IInv, Contacts, Distinct, Deduped

\* The rows of a collection are the contacts it lists, each once.
LEMMA RowsAreListed ==
  ASSUME IInv, NEW b \in ToSet(Binds)
  PROVE  LET rows == Rows(Resolve(Seen, b))
         IN  /\ rows \in Seq(Contacts)
             /\ ToSet(rows) = ListedBy(b)
             /\ Distinct(rows)
<1> DEFINE v == Resolve(Seen, b)
           rows == Rows(v)
           named == Named(b)
<1>1. b.entity \in Subscriptions(dash)
  BY Subscribed
<1>2. /\ Usable(v) <=> named # Missing
      /\ ~Usable(v) => v.attr = Null
      /\ Usable(v) /\ b.path = <<>> => v.attr = Null /\ named.is \in {"num", "text"}
      /\ Usable(v) /\ b.path # <<>> => v.attr = named
  BY <1>1, ValueOf
<1>3. Missing.is = "missing" /\ Null.is = "null"
  BY DEF Missing, Null
<1>4. CASE named.is = "list"
  <2>1. named # Missing /\ b.path # <<>> /\ v.attr = named
    <3> HIDE DEF v, named
    <3> QED
      BY <1>2, <1>3, <1>4
  <2>2. named = Follow(b.path, Map(world[b.entity].attrs)) /\ world[b.entity] # Absent
    BY <2>1, Zenon DEF Named
  <2>3. world[b.entity] \in Possible[b.entity]
    BY <1>1, <2>2, SeenAsIs DEF IInv
  <2>4. named \in Collections(dash)
    <3>1. named \in {Follow(b.path, Map(q.attrs)) : q \in Possible[b.entity]}
      BY <2>2, <2>3
    <3> QED
      BY <1>4, <3>1, Zenon DEF Collections, Binds
  <2>5. named.of \in Seq(ToSet(named.of)) /\ Distinct(named.of)
    BY <2>4, ContactFacts
  <2>6. ToSet(named.of) \subseteq Contacts
    BY <2>4 DEF Contacts
  <2> DEFINE s == named.of
             S == {k \in DOMAIN s : s[k].is = "map"}
  <2> HIDE DEF named
  <2>7. \A k \in DOMAIN s : s[k] \in ToSet(s)
    BY DEF ToSet
  <2>8. S = DOMAIN s
    BY <2>6, <2>7, ContactFacts
  <2>9. rows = Picked(s, DOMAIN s)
    BY <1>4, <2>1, <2>8, Zenon DEF Rows
  <2>10. DOMAIN s \in SUBSET Nat /\ IsFiniteSet(DOMAIN s)
    <3>1. DOMAIN s = 1 .. Len(s) /\ Len(s) \in Nat
      BY <2>5
    <3> HIDE DEF s
    <3>2. IsFiniteSet(1 .. Len(s))
      BY <3>1, FS_Interval
    <3> QED
      BY <3>1, <3>2
  <2> HIDE DEF s, S, rows
  <2>11. rows \in Seq({s[k] : k \in DOMAIN s})
    BY <2>9, <2>10, PickedInOrder
  <2>12. PICK p \in [DOMAIN rows -> DOMAIN s] :
            /\ \A n \in DOMAIN rows : rows[n] = s[p[n]]
            /\ \A m, n \in DOMAIN rows : m < n => p[m] < p[n]
            /\ \A k \in DOMAIN s : \E n \in DOMAIN rows : p[n] = k
    <3>1. Keeps(rows, s, DOMAIN s)
      BY <2>9, <2>10, PickedInOrder
    <3> QED
      BY <3>1, Zenon DEF Keeps
  <2>13. {s[k] : k \in DOMAIN s} = ToSet(s)
    BY DEF ToSet
  <2>14. rows \in Seq(Contacts)
    <3>1. ToSet(s) \subseteq Contacts
      BY <2>6 DEF s
    <3> QED
      BY <2>11, <2>13, <3>1
  <2>15. ToSet(rows) = ToSet(s)
    <3>1. \A n \in DOMAIN rows : rows[n] \in ToSet(s)
      BY <2>12 DEF ToSet
    <3>2. \A k \in DOMAIN s : s[k] \in ToSet(rows)
      BY <2>12 DEF ToSet
    <3> QED
      BY <3>1, <3>2 DEF ToSet
  <2>16. Distinct(rows)
    <3> SUFFICES ASSUME NEW i \in DOMAIN rows, NEW j \in DOMAIN rows,
                        Hex(rows[i]) = Hex(rows[j]), i # j
                 PROVE  FALSE
      BY Zenon DEF Distinct
    <3>1. p[i] = p[j]
      <4>1. \A k, l \in DOMAIN s : Hex(s[k]) = Hex(s[l]) => k = l
        BY <2>5, Zenon DEF Distinct, s
      <4>2. Hex(s[p[i]]) = Hex(s[p[j]])
        BY <2>12, Zenon
      <4> QED
        BY <2>12, <4>1, <4>2
    <3>2. i \in Nat /\ j \in Nat /\ p[i] \in Nat /\ p[j] \in Nat
      BY <2>10, <2>12, <2>14
    <3>3. i < j \/ j < i
      BY <3>2
    <3> QED
      BY <2>12, <3>1, <3>2, <3>3
  <2>17. ListedBy(b) = ToSet(s)
    BY <1>4, Zenon DEF ListedBy, s, named
  <2> QED
    BY <2>14, <2>15, <2>16, <2>17 DEF rows
<1>5. CASE named.is # "list"
  <2>1. v.attr.is # "list"
    <3> HIDE DEF v, named
    <3> QED
      BY <1>2, <1>3, <1>5
  <2>2. rows = <<>>
    BY <2>1 DEF Rows
  <2>3. ListedBy(b) = {}
    BY <1>5 DEF ListedBy
  <2>4. <<>> \in Seq(Contacts) /\ ToSet(<<>>) = {} /\ Distinct(<<>>)
    BY DEF ToSet, Distinct
  <2> QED
    BY <2>2, <2>3, <2>4, Zenon
<1> QED
  BY <1>4, <1>5

-------------------------------------------------------------------------------
(* The union of the collections *)

Given == Union([k \in DOMAIN Binds |-> Rows(Resolve(Seen, Binds[k]))], dash.dedupe)

\* Each contact of a collection is in the union, and none twice.
LEMMA UnionIsWhole ==
  ASSUME IInv
  PROVE  /\ Given \in Seq(Contacts)
         /\ {Hex(r) : r \in ToSet(Given)} =
               UNION {{Hex(r) : r \in ListedBy(b)} : b \in ToSet(Binds)}
         /\ Once => Distinct(Given)
<1>0. PICK binds : binds = Binds
  OBVIOUS
<1> DEFINE colls == [k \in DOMAIN binds |-> Rows(Resolve(Seen, binds[k]))]
           recs == FlattenSeq(colls)
           S == {k \in DOMAIN recs :
                    \A j \in 1 .. k - 1 : ~SameKey(recs[j], recs[k], dash.dedupe)}
           u == Picked(recs, S)
<1>1. binds \in Seq(ToSet(binds)) /\ (Once /\ ~Deduped => Len(binds) <= 1)
  BY <1>0, BindsType, Zenon DEF Once
<1>2. DOMAIN binds = 1 .. Len(binds) /\ Len(binds) \in Nat /\ \A k \in DOMAIN binds : binds[k] \in ToSet(binds)
  <2>1. \A k \in DOMAIN binds : binds[k] \in ToSet(binds)
    BY DEF ToSet
  <2> QED
    BY <1>1, <2>1
<1>3. \A k \in DOMAIN binds : /\ colls[k] \in Seq(Contacts)
                          /\ ToSet(colls[k]) = ListedBy(binds[k])
                          /\ Distinct(colls[k])
  BY <1>0, <1>2, RowsAreListed
<1>4. colls \in Seq(Seq(Contacts)) /\ Len(colls) = Len(binds) /\ DOMAIN colls = DOMAIN binds
  <2>1. colls \in [1 .. Len(binds) -> Seq(Contacts)]
    <3> HIDE DEF Contacts
    <3> QED
      BY <1>2, <1>3
  <2> HIDE DEF colls
  <2> QED
    BY <1>2, <2>1
<1>5. Given = u
  BY <1>0, Zenon DEF Given, Union
<1> HIDE DEF colls
<1>6. /\ recs \in Seq(Contacts)
      /\ ToSet(recs) = UNION {ToSet(colls[k]) : k \in DOMAIN colls}
      /\ Len(colls) = 1 => recs = colls[1]
  BY <1>4, Flattened
<1>7. ToSet(recs) = UNION {ListedBy(b) : b \in ToSet(binds)}
  <2>1. UNION {ToSet(colls[k]) : k \in DOMAIN colls} = UNION {ListedBy(binds[k]) : k \in DOMAIN binds}
    BY <1>3, <1>4
  <2>2. UNION {ListedBy(binds[k]) : k \in DOMAIN binds} = UNION {ListedBy(b) : b \in ToSet(binds)}
    BY DEF ToSet
  <2> QED
    BY <1>6, <2>1, <2>2
<1> HIDE DEF recs
<1>8. DOMAIN recs = 1 .. Len(recs) /\ Len(recs) \in Nat /\ \A k \in DOMAIN recs : recs[k] \in Contacts
  BY <1>6
<1>9. S \in SUBSET Nat /\ IsFiniteSet(S)
  <2>1. IsFiniteSet(DOMAIN recs)
    BY <1>8, FS_Interval
  <2>2. IsFiniteSet(S)
    BY <2>1, FS_Subset
  <2> QED
    BY <1>8, <2>2
<1>10. \A j, k \in DOMAIN recs :
          SameKey(recs[j], recs[k], dash.dedupe) <=> Deduped /\ Hex(recs[j]) = Hex(recs[k])
  BY <1>8, ContactFacts
<1>11. Once /\ ~Deduped => Distinct(recs)
  <2> SUFFICES ASSUME Once, ~Deduped PROVE Distinct(recs)
    OBVIOUS
  <2>1. CASE Len(binds) = 0
    <3>1. DOMAIN colls = {}
      <4>1. 1 .. Len(binds) = {}
        BY <2>1
      <4> QED
        BY <1>2, <1>4, <4>1, Zenon
    <3>2. ToSet(recs) = {}
      BY <1>6, <3>1
    <3>3. DOMAIN recs = {}
      BY <3>2 DEF ToSet
    <3> QED
      BY <3>3 DEF Distinct
  <2>2. CASE Len(binds) = 1
    <3>1. recs = colls[1]
      BY <1>4, <1>6, <2>2, Zenon
    <3>2. 1 \in DOMAIN binds
      BY <1>2, <2>2
    <3> QED
      BY <1>3, <3>1, <3>2, Zenon
  <2>3. Len(binds) <= 1
    BY <1>1, Zenon
  <2>4. Len(binds) = 0 \/ Len(binds) = 1
    BY <1>2, <2>3
  <2> QED
    BY <2>1, <2>2, <2>4, Zenon
<1>12. u \in Seq({recs[k] : k \in S})
  BY <1>9, PickedInOrder
<1>13. PICK p \in [DOMAIN u -> S] :
          /\ \A n \in DOMAIN u : u[n] = recs[p[n]]
          /\ \A m, n \in DOMAIN u : m < n => p[m] < p[n]
          /\ \A k \in S : \E n \in DOMAIN u : p[n] = k
  <2> HIDE DEF S
  <2> QED
    <3>1. Keeps(u, recs, S)
      BY <1>9, PickedInOrder
    <3> HIDE DEF u
    <3> QED
      BY <3>1, Zenon DEF Keeps
<1>14. \A k \in S : k \in DOMAIN recs /\ \A j \in 1 .. k - 1 : ~SameKey(recs[j], recs[k], dash.dedupe)
  OBVIOUS
<1> HIDE DEF u
<1>15. u \in Seq(Contacts)
  <2>1. {recs[k] : k \in S} \subseteq Contacts
    BY <1>8, <1>14
  <2> HIDE DEF S
  <2> QED
    BY <1>12, <2>1
<1>16. ToSet(u) \subseteq ToSet(recs)
  <2>1. \A n \in DOMAIN u : u[n] = recs[p[n]] /\ p[n] \in DOMAIN recs
    BY <1>13, <1>14
  <2> QED
    BY <2>1 DEF ToSet
<1>17. \A k \in DOMAIN recs : \E r \in ToSet(u) : Hex(r) = Hex(recs[k])
  <2> SUFFICES ASSUME NEW k \in DOMAIN recs PROVE \E r \in ToSet(u) : Hex(r) = Hex(recs[k])
    OBVIOUS
  <2> DEFINE Good == {i \in Nat : i \in DOMAIN recs => \E r \in ToSet(u) : Hex(r) = Hex(recs[i])}
  <2>1. ASSUME NEW i \in Nat, \A j \in 0 .. i - 1 : j \in Good PROVE i \in Good
    <3> SUFFICES ASSUME i \in DOMAIN recs PROVE \E r \in ToSet(u) : Hex(r) = Hex(recs[i])
      OBVIOUS
    <3>1. CASE i \in S
      <4>1. PICK n \in DOMAIN u : p[n] = i
        BY <1>13, <3>1
      <4>2. u[n] = recs[i] /\ u[n] \in ToSet(u)
        BY <1>13, <4>1 DEF ToSet
      <4> QED
        BY <4>2, Zenon
    <3>2. CASE i \notin S
      <4>1. PICK j \in 1 .. i - 1 : SameKey(recs[j], recs[i], dash.dedupe)
        BY <3>2
      <4>2. j \in DOMAIN recs /\ j \in 0 .. i - 1 /\ j \in Nat
        BY <1>8
      <4>3. Hex(recs[j]) = Hex(recs[i])
        BY <1>10, <4>1, <4>2
      <4>4. \E r \in ToSet(u) : Hex(r) = Hex(recs[j])
        BY <2>1, <4>2
      <4> QED
        BY <4>3, <4>4, Zenon
    <3> QED
      BY <3>1, <3>2
  <2>2. Good \in SUBSET Nat
    OBVIOUS
  <2> HIDE DEF Good
  <2>3. k \in Nat /\ k \in Good
    BY <1>8, <2>1, <2>2, NumberInduction
  <2> QED
    BY <2>3 DEF Good
<1>18. {Hex(r) : r \in ToSet(u)} = {Hex(r) : r \in ToSet(recs)}
  <2>1. \A r \in ToSet(recs) : \E q \in ToSet(u) : Hex(q) = Hex(r)
    BY <1>17 DEF ToSet
  <2> QED
    BY <1>16, <2>1
<1>19. {Hex(r) : r \in ToSet(recs)} = UNION {{Hex(r) : r \in ListedBy(b)} : b \in ToSet(binds)}
  BY <1>7
<1>20. Once => Distinct(u)
  <2> SUFFICES ASSUME Once PROVE Distinct(u)
    OBVIOUS
  <2>1. \A i, j \in DOMAIN u : i < j => Hex(u[i]) # Hex(u[j])
    <3> SUFFICES ASSUME NEW i \in DOMAIN u, NEW j \in DOMAIN u, i < j PROVE Hex(u[i]) # Hex(u[j])
      OBVIOUS
    <3>1. /\ p[i] < p[j] /\ u[i] = recs[p[i]] /\ u[j] = recs[p[j]]
          /\ p[i] \in S /\ p[j] \in S /\ p[i] \in DOMAIN recs /\ p[j] \in DOMAIN recs
      BY <1>13, <1>14
    <3>2. p[i] \in 1 .. p[j] - 1
      BY <1>8, <3>1
    <3>3. ~SameKey(recs[p[i]], recs[p[j]], dash.dedupe)
      BY <1>14, <3>1, <3>2
    <3>4. CASE Deduped
      BY <1>10, <3>1, <3>3, <3>4
    <3>5. CASE ~Deduped
      <4>1. p[i] # p[j]
        BY <1>8, <3>1
      <4> QED
        BY <1>11, <3>1, <3>5, <4>1, Zenon DEF Distinct
    <3> QED
      BY <3>4, <3>5
  <2>2. \A i \in DOMAIN u : i \in Nat
    BY <1>15
  <2>3. \A i, j \in DOMAIN u : i = j \/ i < j \/ j < i
    BY <2>2
  <2> QED
    BY <2>1, <2>3, Zenon DEF Distinct
<1> QED
  BY <1>0, <1>5, <1>15, <1>18, <1>19, <1>20

-------------------------------------------------------------------------------
(* The order of the rows *)

Sorting == dash.sort
Known(r) == Has(r, Sorting.key)
Precedes(r, s) == Less(Sorting, r, s)

\* The table is sorted.
Sorted == dash.sort.key # ""

\* The number a contact is ordered by.
Distance(r) == IF Sorting.dir = "desc" THEN -Key(Sorting, r) ELSE Key(Sorting, r)

LEMMA KeyType ==
  ASSUME IInv, NEW r \in Contacts, Known(r)
  PROVE  Key(Sorting, r) \in Int /\ Distance(r) \in Int
<1>1. Sorting.hysteresis \in Nat
  BY DashboardsAssumption DEF IInv, Sorting
<1>2. r.of[Sorting.key].v \in Int
  BY ContactFacts DEF Known, Sorting
<1>3. Key(Sorting, r) \in Int
  BY <1>1, <1>2 DEF Key, Bucketed
<1> QED
  BY <1>3 DEF Distance

\* Known before unknown, then by distance, then by hex.
LEMMA PrecedesIs ==
  ASSUME IInv, NEW r \in Contacts, NEW s \in Contacts
  PROVE  Precedes(r, s) <=>
            \/ Known(r) /\ ~Known(s)
            \/ Known(r) /\ Known(s) /\ Distance(r) < Distance(s)
            \/ Known(r) /\ Known(s) /\ Distance(r) = Distance(s) /\ Hex(r) < Hex(s)
            \/ ~Known(r) /\ ~Known(s) /\ Hex(r) < Hex(s)
<1>1. CASE ~Known(r) \/ ~Known(s)
  BY <1>1 DEF Precedes, Less, Known
<1>2. CASE Known(r) /\ Known(s)
  <2>1. Key(Sorting, r) \in Int /\ Key(Sorting, s) \in Int
    BY <1>2, KeyType
  <2>2. Precedes(r, s) <=>
           IF Key(Sorting, r) = Key(Sorting, s) THEN Hex(r) < Hex(s)
           ELSE IF Sorting.dir = "desc" THEN Key(Sorting, r) > Key(Sorting, s)
           ELSE Key(Sorting, r) < Key(Sorting, s)
    BY <1>2 DEF Precedes, Less, Known
  <2> QED
    BY <1>2, <2>1, <2>2 DEF Distance
<1> QED
  BY <1>1, <1>2

\* It is an order, in which contacts that are not told apart have the same hex.
LEMMA PrecedesOrders ==
  ASSUME IInv, NEW r \in Contacts, NEW s \in Contacts
  PROVE  /\ ~(Precedes(r, s) /\ Precedes(s, r))
         /\ Precedes(r, s) \/ Precedes(s, r) \/ Hex(r) = Hex(s)
         /\ \A q \in Contacts : Precedes(r, s) => Precedes(r, q) \/ Precedes(q, s)
<1>1. \A q \in Contacts : Hex(q) \in Int /\ (Known(q) => Distance(q) \in Int)
  BY ContactFacts, KeyType
<1>2. \A x, y \in Contacts : Precedes(x, y) <=>
            \/ Known(x) /\ ~Known(y)
            \/ Known(x) /\ Known(y) /\ Distance(x) < Distance(y)
            \/ Known(x) /\ Known(y) /\ Distance(x) = Distance(y) /\ Hex(x) < Hex(y)
            \/ ~Known(x) /\ ~Known(y) /\ Hex(x) < Hex(y)
  BY PrecedesIs
<1>3. ~(Precedes(r, s) /\ Precedes(s, r))
  BY <1>1, <1>2
<1>4. Precedes(r, s) \/ Precedes(s, r) \/ Hex(r) = Hex(s)
  BY <1>1, <1>2
<1>5. ASSUME NEW q \in Contacts, Precedes(r, s) PROVE Precedes(r, q) \/ Precedes(q, s)
  BY <1>1, <1>2, <1>5
<1> QED
  BY <1>3, <1>4, <1>5

\* t has each of the elements of u, as often.
Permutes(t, u) ==
    \E p \in [DOMAIN t -> DOMAIN u] :
        /\ \A n \in DOMAIN t : t[n] = u[p[n]]
        /\ \A m, n \in DOMAIN t : p[m] = p[n] => m = n
        /\ \A k \in DOMAIN u : \E n \in DOMAIN t : p[n] = k

\* The sorted records are the records, with none before one that precedes it.
LEMMA SortedInOrder ==
  ASSUME IInv, NEW recs \in Seq(Contacts), Sorted
  PROVE  LET t == sortRecords(recs, Sorting)
         IN  /\ t \in Seq(Contacts)
             /\ Permutes(t, recs)
             /\ \A m, n \in DOMAIN t : m < n => ~Precedes(t[n], t[m])
<1> DEFINE D == DOMAIN recs
           N == Len(recs)
           ahead(i, j) == Ahead(recs, Sorting, i, j)
           rank(i) == Cardinality({j \in D : ahead(j, i)})
           place(n) == CHOOSE i \in D : rank(i) = n - 1
           R == {q \in D \X D : ahead(q[1], q[2])}
           p == [n \in D |-> place(n)]
           t == sortRecords(recs, Sorting)
<1>1. D = 1 .. N /\ N \in Nat /\ \A i \in D : recs[i] \in Contacts /\ i \in Nat
  OBVIOUS
<1> HIDE DEF D, N
<1>2. IsFiniteSet(D) /\ Cardinality(D) = N
  BY <1>1, FS_Interval
<1>3. \A i, j \in D : ahead(i, j) <=>
         Precedes(recs[i], recs[j]) \/ (~Precedes(recs[j], recs[i]) /\ i < j)
  BY DEF Ahead, Precedes
<1> HIDE DEF ahead
<1>4. \A i \in D : ~ahead(i, i)
  BY <1>1, <1>3, PrecedesOrders
<1>5. \A i, j \in D : i # j => ahead(i, j) \/ ahead(j, i)
  <2> SUFFICES ASSUME NEW i \in D, NEW j \in D, i # j PROVE ahead(i, j) \/ ahead(j, i)
    OBVIOUS
  <2>1. i < j \/ j < i
    BY <1>1
  <2> QED
    BY <1>3, <2>1
<1>6. \A i, j, k \in D : ahead(i, j) /\ ahead(j, k) => ahead(i, k)
  <2> SUFFICES ASSUME NEW i \in D, NEW j \in D, NEW k \in D, ahead(i, j), ahead(j, k)
               PROVE  ahead(i, k)
    OBVIOUS
  <2> DEFINE x == recs[i]
             y == recs[j]
             z == recs[k]
  <2>1. x \in Contacts /\ y \in Contacts /\ z \in Contacts
    BY <1>1
  <2> HIDE DEF x, y, z
  <2>2. /\ ~(Precedes(x, y) /\ Precedes(y, x))
        /\ ~(Precedes(y, z) /\ Precedes(z, y))
        /\ Precedes(z, x) => Precedes(z, y) \/ Precedes(y, x)
        /\ Precedes(x, y) => Precedes(x, z) \/ Precedes(z, y)
        /\ Precedes(y, z) => Precedes(y, x) \/ Precedes(x, z)
    BY <2>1, PrecedesOrders
  <2>3. Precedes(x, y) \/ (~Precedes(y, x) /\ i < j)
    BY <1>3 DEF x, y
  <2>4. Precedes(y, z) \/ (~Precedes(z, y) /\ j < k)
    BY <1>3 DEF y, z
  <2>5. i < j /\ j < k => i < k
    BY <1>1
  <2>6. Precedes(x, z) \/ (~Precedes(z, x) /\ i < k)
    BY <2>2, <2>3, <2>4, <2>5
  <2> QED
    BY <1>3, <2>6 DEF x, z
<1>7. \A i, j \in D : <<i, j>> \in R <=> ahead(i, j)
  OBVIOUS
<1>8. /\ \A i \in D : rank(i) \in 0 .. N - 1
      /\ \A i, j \in D : ahead(i, j) => rank(i) < rank(j)
      /\ \A n \in 0 .. N - 1 : \E i \in D : rank(i) = n
  <2> HIDE DEF R
  <2>0. /\ \A i \in D : <<i, i>> \notin R
        /\ \A i, j, k \in D : <<i, j>> \in R /\ <<j, k>> \in R => <<i, k>> \in R
        /\ \A i, j \in D : i # j => <<i, j>> \in R \/ <<j, i>> \in R
    BY <1>4, <1>5, <1>6, <1>7, Zenon
  <2>1. /\ \A i \in D : Rank(D, R, i) \in 0 .. N - 1
        /\ \A i, j \in D : <<i, j>> \in R => Rank(D, R, i) < Rank(D, R, j)
        /\ \A n \in 0 .. N - 1 : \E i \in D : Rank(D, R, i) = n
    BY <1>2, <2>0, Ranks
  <2>2. \A i \in D : {j \in D : <<j, i>> \in R} = {j \in D : ahead(j, i)}
    BY <1>7
  <2>3. \A i \in D : Rank(D, R, i) = rank(i)
    BY <2>2, Zenon DEF Rank, Before
  <2> HIDE DEF rank
  <2>4. \A i, j \in D : ahead(i, j) => rank(i) < rank(j)
    <3> SUFFICES ASSUME NEW i \in D, NEW j \in D, ahead(i, j) PROVE rank(i) < rank(j)
      OBVIOUS
    <3>1. Rank(D, R, i) < Rank(D, R, j)
      BY <1>7, <2>1, Zenon
    <3> QED
      BY <2>3, <3>1
  <2> QED
    BY <2>1, <2>3, <2>4, Zenon
<1>9. t = [n \in D |-> recs[place(n)]]
  BY Zenon DEF sortRecords, D, ahead, Sorted, Sorting
<1> HIDE DEF rank
<1>10. \A n \in D : place(n) \in D /\ rank(place(n)) = n - 1
  <2> SUFFICES ASSUME NEW n \in D PROVE place(n) \in D /\ rank(place(n)) = n - 1
    OBVIOUS
  <2>1. n - 1 \in 0 .. N - 1
    BY <1>1
  <2>2. \E i \in D : rank(i) = n - 1
    BY <1>8, <2>1
  <2> QED
    BY <2>2
<1> HIDE DEF place, t
<1>11. t \in Seq(Contacts) /\ DOMAIN t = D
  <2>1. t \in [1 .. N -> Contacts]
    <3> HIDE DEF Contacts
    <3> QED
      BY <1>1, <1>9, <1>10
  <2> QED
    BY <1>1, <1>9, <2>1
<1>12. p \in [DOMAIN t -> D] /\ \A n \in DOMAIN t : t[n] = recs[p[n]] /\ rank(p[n]) = n - 1
  BY <1>9, <1>10, <1>11
<1> HIDE DEF p
<1>13. \A m, n \in DOMAIN t : p[m] = p[n] => m = n
  <2> SUFFICES ASSUME NEW m \in D, NEW n \in D, p[m] = p[n] PROVE m = n
    BY <1>11
  <2>1. m - 1 = n - 1
    BY <1>11, <1>12
  <2> QED
    BY <1>1, <2>1
<1>14. \A i, j \in D : rank(i) = rank(j) => i = j
  <2> SUFFICES ASSUME NEW i \in D, NEW j \in D, rank(i) = rank(j), i # j PROVE FALSE
    OBVIOUS
  <2>1. rank(i) < rank(j) \/ rank(j) < rank(i)
    BY <1>5, <1>8
  <2>2. rank(i) \in Int /\ rank(j) \in Int
    BY <1>8
  <2> QED
    BY <2>1, <2>2
<1>15. \A k \in D : \E n \in DOMAIN t : p[n] = k
  <2> SUFFICES ASSUME NEW k \in D PROVE \E n \in D : p[n] = k
    BY <1>11
  <2>1. rank(k) \in 0 .. N - 1
    BY <1>8
  <2>2. rank(k) + 1 \in D /\ (rank(k) + 1) - 1 = rank(k)
    BY <1>1, <2>1
  <2>3. p[rank(k) + 1] \in D /\ rank(p[rank(k) + 1]) = rank(k)
    BY <1>11, <1>12, <2>2
  <2> QED
    BY <1>14, <2>2, <2>3
<1>16. \A m, n \in DOMAIN t : m < n => ~Precedes(t[n], t[m])
  <2> SUFFICES ASSUME NEW m \in D, NEW n \in D, m < n PROVE ~Precedes(t[n], t[m])
    BY <1>11
  <2>1. /\ rank(p[m]) = m - 1 /\ rank(p[n]) = n - 1 /\ p[m] \in D /\ p[n] \in D
        /\ t[m] = recs[p[m]] /\ t[n] = recs[p[n]]
    BY <1>11, <1>12
  <2>2. ~ahead(p[n], p[m])
    <3> SUFFICES ASSUME ahead(p[n], p[m]) PROVE FALSE
      OBVIOUS
    <3>1. rank(p[n]) < rank(p[m])
      BY <1>8, <2>1
    <3> QED
      BY <1>1, <2>1, <3>1
  <2> QED
    BY <1>3, <2>1, <2>2
<1>17. Permutes(t, recs)
  BY <1>12, <1>13, <1>15, Zenon DEF Permutes, D
<1> QED
  BY <1>11, <1>16, <1>17 DEF t

-------------------------------------------------------------------------------
(* The table *)

\* The rows of the frame, as the properties need them.
Ordered ==
    /\ frame.rows \in Seq(Contacts)
    /\ Once => Distinct(frame.rows)
    /\ Sorted =>
          \A m, n \in DOMAIN frame.rows : m < n => ~Precedes(frame.rows[n], frame.rows[m])

LEMMA RowsOrdered ==
  IInv => /\ Ordered
          /\ {Hex(r) : r \in ToSet(frame.rows)} =
                UNION {{Hex(r) : r \in ListedBy(b)} : b \in ToSet(Binds)}
<1> SUFFICES ASSUME IInv
             PROVE  /\ Ordered
                    /\ {Hex(r) : r \in ToSet(frame.rows)} =
                          UNION {{Hex(r) : r \in ListedBy(b)} : b \in ToSet(Binds)}
  OBVIOUS
<1> DEFINE t == frame.rows
           u == Given
<1>1. t = sortRecords(u, Sorting)
  BY FrameParts, Zenon DEF buildTable, Given, Sorting, Binds
<1>2. /\ u \in Seq(Contacts)
      /\ {Hex(r) : r \in ToSet(u)} =
            UNION {{Hex(r) : r \in ListedBy(b)} : b \in ToSet(Binds)}
      /\ Once => Distinct(u)
  BY UnionIsWhole
<1> HIDE DEF u, t
<1>3. CASE ~Sorted
  <2>1. t = u
    BY <1>1, <1>3, Zenon DEF sortRecords, Sorted, Sorting
  <2> QED
    BY <1>2, <1>3, <2>1 DEF Ordered, t
<1>4. CASE Sorted
  <2>1. /\ t \in Seq(Contacts)
        /\ \A m, n \in DOMAIN t : m < n => ~Precedes(t[n], t[m])
    BY <1>1, <1>2, <1>4, SortedInOrder
  <2>2. PICK p \in [DOMAIN t -> DOMAIN u] :
           /\ \A n \in DOMAIN t : t[n] = u[p[n]]
           /\ \A m, n \in DOMAIN t : p[m] = p[n] => m = n
           /\ \A k \in DOMAIN u : \E n \in DOMAIN t : p[n] = k
    <3>1. Permutes(t, u)
      BY <1>1, <1>2, <1>4, SortedInOrder
    <3> QED
      BY <3>1, Zenon DEF Permutes
  <2>3. ToSet(t) = ToSet(u)
    <3>1. \A n \in DOMAIN t : t[n] \in ToSet(u)
      BY <2>2 DEF ToSet
    <3>2. \A k \in DOMAIN u : u[k] \in ToSet(t)
      BY <2>2 DEF ToSet
    <3> QED
      BY <3>1, <3>2 DEF ToSet
  <2>4. Once => Distinct(t)
    <3> SUFFICES ASSUME Once PROVE Distinct(t)
      OBVIOUS
    <3>1. \A k, l \in DOMAIN u : Hex(u[k]) = Hex(u[l]) => k = l
      BY <1>2, Zenon DEF Distinct
    <3>2. \A m, n \in DOMAIN t : Hex(t[m]) = Hex(t[n]) => m = n
      <4> SUFFICES ASSUME NEW m \in DOMAIN t, NEW n \in DOMAIN t, Hex(t[m]) = Hex(t[n])
                   PROVE  m = n
        OBVIOUS
      <4>1. Hex(u[p[m]]) = Hex(u[p[n]])
        BY <2>2, Zenon
      <4>2. p[m] = p[n]
        BY <2>2, <3>1, <4>1
      <4> QED
        BY <2>2, <4>2
    <3> QED
      BY <3>2, Zenon DEF Distinct
  <2>5. {Hex(r) : r \in ToSet(t)} = {Hex(r) : r \in ToSet(u)}
    BY <2>3, Zenon
  <2> QED
    BY <1>2, <1>4, <2>1, <2>4, <2>5 DEF Ordered, t
<1> QED
  BY <1>3, <1>4

\* Every contact of every collection is in the table, whatever else there is, and none
\* twice if the table dedupes or shows one collection.
THEOREM TableIsComplete == Spec => []TableComplete
<1>1. IInv => TableComplete
  <2> SUFFICES ASSUME IInv PROVE TableComplete
    OBVIOUS
  <2> DEFINE listed(b) == IF Named(b).is = "list" THEN {Hex(r) : r \in ToSet(Named(b).of)} ELSE {}
  <2>1. \A b : listed(b) = {Hex(r) : r \in ListedBy(b)}
    BY DEF ListedBy
  <2>2. UNION {listed(b) : b \in ToSet(Binds)} =
           UNION {{Hex(r) : r \in ListedBy(b)} : b \in ToSet(Binds)}
    <3> HIDE DEF listed
    <3> QED
      BY <2>1
  <2>3. {Hex(r) : r \in ToSet(frame.rows)} = UNION {listed(b) : b \in ToSet(Binds)}
    BY <2>2, RowsOrdered, Zenon
  <2>4. Once => \A i, j \in DOMAIN frame.rows : Hex(frame.rows[i]) = Hex(frame.rows[j]) => i = j
    BY RowsOrdered, Zenon DEF Ordered, Distinct
  <2> QED
    BY <2>3, <2>4, Zenon DEF TableComplete, Once, Deduped, Binds
<1> QED
  BY <1>1, SpecIInv, PTL

\* Whole numbers divided.
LEMMA Division ==
  ASSUME NEW a \in Int, NEW d \in Nat \ {0}
  PROVE  /\ a \div d \in Int
         /\ (a \div d) * d <= a
         /\ a < (a \div d) * d + d
OBVIOUS

\* Numbers whose buckets are in order are less than a bucket out of order.
LEMMA BucketsApart ==
  ASSUME NEW sort, sort.hysteresis \in Nat, NEW a \in Int, NEW b \in Int,
         sort.hysteresis > 0 => a >= 0 /\ b >= 0,
         Bucketed(sort, a) <= Bucketed(sort, b)
  PROVE  a <= b \/ a - b < sort.hysteresis
<1> DEFINE h == sort.hysteresis
<1>1. CASE h > 0
  <2> DEFINE x == (a \div h) * h
             y == (b \div h) * h
  <2>1. x <= y
    BY <1>1 DEF Bucketed
  <2>2. h \in Nat \ {0}
    BY <1>1
  <2>3. a < x + h /\ y <= b
    BY <2>2, Division
  <2>4. x \in Int /\ y \in Int
    <3>1. a \div h \in Int /\ b \div h \in Int
      BY <2>2, Division
    <3> QED
      BY <2>2, <3>1
  <2> HIDE DEF x, y
  <2> QED
    BY <2>1, <2>2, <2>3, <2>4
<1>2. CASE ~(h > 0)
  BY <1>2 DEF Bucketed
<1> QED
  BY <1>1, <1>2

\* Contacts whose distance is known come first, nearest first but for the hysteresis.
THEOREM NearestAreFirst == Spec => []NearestFirst
<1>1. IInv => NearestFirst
  <2> SUFFICES ASSUME IInv PROVE NearestFirst
    OBVIOUS
  <2> DEFINE t == frame.rows
             far(r) == IF Sorting.dir = "desc" THEN -r.of[Sorting.key].v ELSE r.of[Sorting.key].v
  <2>1. SUFFICES ASSUME Sorted, NEW i \in DOMAIN t, NEW j \in DOMAIN t,
                        i < j, Known(t[j])
                 PROVE  /\ Known(t[i])
                        /\ \/ far(t[i]) <= far(t[j])
                           \/ far(t[i]) - far(t[j]) < Sorting.hysteresis
    BY Zenon DEF NearestFirst, Sorting, Sorted, Known
  <2>2. t[i] \in Contacts /\ t[j] \in Contacts
    BY <2>1, RowsOrdered DEF Ordered
  <2>3. ~Precedes(t[j], t[i])
    BY <2>1, RowsOrdered, Zenon DEF Ordered
  <2> HIDE DEF t
  <2> DEFINE r == t[i]
             s == t[j]
  <2> HIDE DEF r, s
  <2>4. r \in Contacts /\ s \in Contacts /\ Known(s) /\ ~Precedes(s, r)
    BY <2>1, <2>2, <2>3 DEF r, s
  <2>5. Known(r)
    BY <2>4, PrecedesIs
  <2>6. Distance(r) <= Distance(s)
    <3>1. Distance(r) \in Int /\ Distance(s) \in Int
      BY <2>4, <2>5, KeyType
    <3>2. ~(Distance(s) < Distance(r))
      BY <2>4, <2>5, PrecedesIs
    <3> QED
      BY <3>1, <3>2
  <2> DEFINE a == r.of[Sorting.key].v
             b == s.of[Sorting.key].v
  <2>7. a \in Int /\ b \in Int /\ (Sorting.hysteresis > 0 => a >= 0 /\ b >= 0)
    BY <2>4, <2>5, ContactFacts DEF Known, Sorting
  <2>8. Sorting.hysteresis \in Nat
    BY DashboardsAssumption DEF IInv, Sorting
  <2>9. Key(Sorting, r) = Bucketed(Sorting, a) /\ Key(Sorting, s) = Bucketed(Sorting, b)
    BY DEF Key
  <2>10. Key(Sorting, r) \in Int /\ Key(Sorting, s) \in Int
    BY <2>4, <2>5, KeyType
  <2> HIDE DEF a, b
  <2>11. CASE Sorting.dir = "desc"
    <3>1. Bucketed(Sorting, b) <= Bucketed(Sorting, a)
      BY <2>6, <2>9, <2>10, <2>11 DEF Distance
    <3>2. b <= a \/ b - a < Sorting.hysteresis
      BY <2>7, <2>8, <3>1, BucketsApart
    <3>3. -a <= -b \/ -a - -b < Sorting.hysteresis
      BY <2>7, <2>8, <3>2
    <3>4. far(r) = -a /\ far(s) = -b
      BY <2>11 DEF a, b
    <3> QED
      BY <2>5, <3>3, <3>4, Zenon DEF r, s
  <2>12. CASE Sorting.dir # "desc"
    <3>1. Bucketed(Sorting, a) <= Bucketed(Sorting, b)
      BY <2>6, <2>9, <2>12 DEF Distance
    <3>2. a <= b \/ a - b < Sorting.hysteresis
      BY <2>7, <2>8, <3>1, BucketsApart
    <3>3. far(r) = a /\ far(s) = b
      BY <2>12 DEF a, b
    <3> QED
      BY <2>5, <3>2, <3>3, Zenon DEF r, s
  <2> QED
    BY <2>11, <2>12
<1> QED
  BY <1>1, SpecIInv, PTL

\* Rows that are shown before and after a change are in the same order in both frames.
THEOREM RowsStayPut == Spec => RowsHoldStill
<1>1. IInv => Ordered
  BY RowsOrdered
<1>2. IInv /\ Ordered /\ Ordered' /\ [Next]_vars =>
         [dash.sort.key # "" => HoldStill(frame.rows, frame.rows')]_vars
  <2> DEFINE t == frame.rows
             now == frame.rows'
  <2> SUFFICES ASSUME IInv, Ordered, Ordered', [Next]_vars
               PROVE  [Sorted => HoldStill(frame.rows, frame.rows')]_vars
    BY Zenon DEF Sorted
  <2>1. SUFFICES ASSUME Sorted,
                        NEW i \in DOMAIN t, NEW j \in DOMAIN t,
                        NEW k \in DOMAIN now, NEW l \in DOMAIN now,
                        i < j, Hex(t[i]) # Hex(t[j]), now[k] = t[i], now[l] = t[j]
                 PROVE  k < l
    BY Zenon DEF HoldStill
  <2>2. dash' = dash
    BY DEF Next, Update, vars
  <2>3. Sorted'
    BY <2>1, <2>2, Zenon DEF Sorted
  <2>4. now \in Seq(Contacts)
    BY <2>1, <2>2, Zenon DEF Ordered, Contacts
  <2>5. \A m, n \in DOMAIN now : m < n => ~Precedes(now[n], now[m])
    BY <2>2, <2>3, Zenon DEF Ordered, Precedes, Sorting
  <2>6. t \in Seq(Contacts) /\ ~Precedes(t[j], t[i])
    BY <2>1, Zenon DEF Ordered
  <2>7. Hex(t[i]) # Hex(t[j])
    BY <2>1
  <2> HIDE DEF t, now
  <2>8. t[i] \in Contacts /\ t[j] \in Contacts
    BY <2>6
  <2>9. Precedes(t[i], t[j])
    BY <2>1, <2>6, <2>7, <2>8, PrecedesOrders
  <2>10. k \in Nat /\ l \in Nat
    BY <2>4
  <2>11. k # l
    BY <2>1, <2>7, Zenon
  <2>12. ~(l < k)
    <3>1. Precedes(now[k], now[l])
      BY <2>1, <2>9, Zenon
    <3> QED
      BY <2>5, <3>1
  <2> QED
    BY <2>10, <2>11, <2>12
<1> QED
  BY <1>1, <1>2, SpecIInv, PTL DEF Spec, RowsHoldStill

===============================================================================
