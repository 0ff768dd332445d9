------------------------------- MODULE Bindings -------------------------------
(***************************************************************************)
(* internal/config/binding.go, internal/model/resolve.go, format.go and    *)
(* internal/state/value.go: how a panel reads one value of a snapshot.     *)
(*                                                                         *)
(* A value of Home Assistant's is a tree, here of tagged records.  A state *)
(* is a leaf; what reads as a number is a Num, in a state and in an        *)
(* attribute.  A binding names an entity and a path into its attributes, a *)
(* sequence of segments: a field, an element of the list in it, or all.    *)
(*                                                                         *)
(* No panel passes a staleAfter other than zero, so that no value is ever  *)
(* Stale; timestamps are left out.  A Value keeps its number and its text  *)
(* apart, as the code does: Str is the leaf the text is made from.         *)
(***************************************************************************)
EXTENDS Integers, Sequences, FiniteSets

Num(k) == [is |-> "num", v |-> k]
Text(s) == [is |-> "text", v |-> s]
Null == [is |-> "null"]
Map(f) == [is |-> "map", of |-> f]
List(s) == [is |-> "list", of |-> s]
Missing == [is |-> "missing"]

field(name) == [name |-> name, step |-> "field", at |-> 0]
element(name, k) == [name |-> name, step |-> "element", at |-> k]
all(name) == [name |-> name, step |-> "all", at |-> 0]

-------------------------------------------------------------------------------
(* The path *)

Under(cur, name) ==
    IF cur.is = "map" /\ name \in DOMAIN cur.of THEN cur.of[name] ELSE Missing

\* Binding.Resolve, Missing for its errors: Paths.tla says which value it comes to.
CONSTANT Follow(_, _)

-------------------------------------------------------------------------------
(* Values.  sn is a snapshot: entities and what they are. *)

NoNumber == 0

value(kind, str, num, attr) == [kind |-> kind, str |-> str, num |-> num, attr |-> attr]
Unusable(kind) == value(kind, Null, NoNumber, Null)

Usable(v) == v.kind = "valid"

\* The number the text reads as; f stays what it was when there is none.
ParseOr(leaf, f) == IF leaf.is = "num" THEN leaf.v ELSE f

\* An attribute: its number and text replace the state's, as far as it has them.
OfAttribute(ent, got) ==
    value("valid", IF got.is \in {"num", "text"} THEN got ELSE Null,
          ParseOr(got, ParseOr(ent.state, NoNumber)), got)

Resolve(sn, b) ==
    IF b.entity \notin DOMAIN sn \/ sn[b.entity].state = Text("unavailable")
    THEN Unusable("unavailable")
    ELSE IF sn[b.entity].state \in {Text("unknown"), Text("")}
    THEN Unusable("unknown")
    ELSE LET ent == sn[b.entity]
             got == Follow(b.path, Map(ent.attrs))
         IN  IF b.path = <<>>
             THEN value("valid", ent.state, ParseOr(ent.state, NoNumber), Null)
             ELSE IF got = Missing THEN Unusable("unavailable")
             ELSE OfAttribute(ent, got)

\* A guard is a sequence of one binding, or of none.
Guarded(sn, b, guard) ==
    IF guard # <<>> /\ ~Usable(Resolve(sn, guard[1]))
    THEN Unusable("unavailable")
    ELSE Resolve(sn, b)

-------------------------------------------------------------------------------
(* What is done with a value *)

\* Cell and Format: an indicator, or the content.  A numeric format asks for the
\* number, no format for the text.
Indicator == [shows |-> "indicator"]
Cell(v, format) ==
    IF ~Usable(v) THEN Indicator
    ELSE IF format = "number" THEN [shows |-> "number", v |-> v.num]
    ELSE [shows |-> "text", v |-> v.str]

\* A comparison of numbers.
Compare(op, num, want) ==
    CASE op = "<"  -> num < want
      [] op = "<=" -> num <= want
      [] op = ">"  -> num > want
      [] op = ">=" -> num >= want
      [] op = "==" -> num = want
      [] op = "!=" -> num # want

\* Texts are equal or are not; no other comparison of them holds.
Same(op, str, want) ==
    \/ op = "==" /\ str = want
    \/ op = "!=" /\ str # want

\* Condition.Test.  A literal is a number or a text.  With a text the value's text is
\* compared, with a number its number: whatever the value is, but for one that has
\* neither, whose text is compared with the literal's, both of which are empty.
Test(c, v) ==
    LET numeric == v.str # Null \/ v.num # 0
    IN  IF c.want.is = "text" THEN Same(c.op, v.str, c.want)
        ELSE IF numeric THEN Compare(c.op, v.num, c.want.v)
        ELSE c.op = "=="

\* The elements of s at the places in S, in their order.
Picked(s, S) ==
    LET place(n) == CHOOSE k \in S : Cardinality({i \in S : i < k}) = n - 1
    IN  [n \in 1 .. Cardinality(S) |-> s[place(n)]]

\* The records of a collection.
Rows(v) ==
    IF v.attr.is = "list"
    THEN Picked(v.attr.of, {k \in DOMAIN v.attr.of : v.attr.of[k].is = "map"})
    ELSE <<>>

===============================================================================
