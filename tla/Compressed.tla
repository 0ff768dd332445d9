------------------------------ MODULE Compressed ------------------------------
(***************************************************************************)
(* internal/ha/compressed.go: Home Assistant's compressed entity events    *)
(* and how they are folded into the entity cache.                          *)
(*                                                                         *)
(* A cache is a function from the entities it knows to their states.  An   *)
(* entity's state is one scalar and its attributes, a function from the    *)
(* attributes it has to their values; the two timestamps travel like the   *)
(* scalar and are left out.  An event carries whole states for entities    *)
(* that appear, diffs for entities that change, and the names of entities  *)
(* that go.  An entry that does not decode is Malformed.                   *)
(***************************************************************************)
EXTENDS Naturals

CONSTANTS
    Entities,       \* entity ids
    States,         \* values of an entity's state
    Attributes,     \* attribute names
    AttrValues,     \* values of an attribute
    Same,           \* a diff's "no new state"
    Malformed       \* an entry that is no JSON object

\* Functions whose domain is a subset of S.
Partial(S, T) == UNION {[D -> T] : D \in SUBSET S}

EntityState == [state : States, attrs : Partial(Attributes, AttrValues)]

Caches == Partial(Entities, EntityState)

EmptyCache == [e \in {} |-> e]

Diffs == [state : States \cup {Same}, set : Partial(Attributes, AttrValues),
          unset : SUBSET Attributes]

\* The markers are no values.
ASSUME MarkersDistinct ==
    /\ Same \notin States
    /\ Malformed \notin Diffs
    /\ Malformed \notin EntityState

\* f overridden by g, and f without the arguments in D.
Over(f, g) ==
    [x \in DOMAIN f \cup DOMAIN g |-> IF x \in DOMAIN g THEN g[x] ELSE f[x]]
Without(f, D) == [x \in DOMAIN f \ D |-> f[x]]
Only(f, D) == [x \in DOMAIN f \cap D |-> f[x]]

-------------------------------------------------------------------------------

\* The diff taken for a whole state: what it does not mention is dropped.
ApplyChange_Replaces(cur, d) ==
    [state |-> IF d.state = Same THEN cur.state ELSE d.state,
     attrs |-> d.set]

\* The "-" key is not decoded: attributes Home Assistant dropped stay.
ApplyChange_KeepsRemoved(cur, d) ==
    [state |-> IF d.state = Same THEN cur.state ELSE d.state,
     attrs |-> Over(cur.attrs, d.set)]

\* Removals first, then additions, merged by key.
ApplyChange(cur, d) ==
    [state |-> IF d.state = Same THEN cur.state ELSE d.state,
     attrs |-> Over(Without(cur.attrs, d.unset), d.set)]

WellFormed(entries) == {e \in DOMAIN entries : entries[e] # Malformed}

\* A change of an entity that is not cached is ignored without being decoded.
Changed(cache, change) ==
    [e \in DOMAIN cache \cap DOMAIN change |-> ApplyChange(cache[e], change[e])]

\* Cache.Apply: every outcome it can have.  Adds, changes and removals come in
\* this order; the first entry that does not decode ends it with an error.  As
\* the entries of a Go map come in any order, any of the others of its kind may
\* have been applied by then.
Apply(cache, ev) ==
    LET added   == Over(cache, ev.add)
        pending == Only(ev.change, DOMAIN added)
    IN  IF WellFormed(ev.add) # DOMAIN ev.add
        THEN {[cache |-> Over(cache, Only(ev.add, D)), ok |-> FALSE] :
                D \in SUBSET WellFormed(ev.add)}
        ELSE IF WellFormed(pending) # DOMAIN pending
        THEN {[cache |-> Over(added, Changed(added, Only(pending, D))), ok |-> FALSE] :
                D \in SUBSET WellFormed(pending)}
        ELSE {[cache |-> Without(Over(added, Changed(added, pending)), ev.remove),
               ok |-> TRUE]}

-------------------------------------------------------------------------------
(* Home Assistant's side of the protocol, as compressed.go describes and      *)
(* relies on it.                                                              *)

DiffOf(old, new) ==
    [state |-> IF old.state = new.state THEN Same ELSE new.state,
     set   |-> Only(new.attrs,
                    {a \in DOMAIN new.attrs : a \notin DOMAIN old.attrs
                                               \/ old.attrs[a] # new.attrs[a]}),
     unset |-> DOMAIN old.attrs \ DOMAIN new.attrs]

\* The event that tells a client that knows old about new.
EventOf(old, new) ==
    [add    |-> Without(new, DOMAIN old),
     change |-> [e \in {x \in DOMAIN old \cap DOMAIN new : old[x] # new[x]} |->
                    DiffOf(old[e], new[e])],
     remove |-> DOMAIN old \ DOMAIN new]

===============================================================================
