----------------------------- MODULE MirrorProofs -----------------------------
(***************************************************************************)
(* The cache mirrors Home Assistant, for every set of entities and worlds, *)
(* every capacity of the queue, and any number of changes, connections and *)
(* malformed events.                                                       *)
(*                                                                         *)
(* CacheFaithful is about the events already applied; what makes it last   *)
(* is the pipe: the events in the queue, in Ingest's hand and on the wire, *)
(* each the difference from the world its predecessor led to, unless one   *)
(* was dropped.                                                            *)
(***************************************************************************)
EXTENDS Mirror, SequenceTheorems, TLAPS

(***************************************************************************)
(* The diff protocol is lossless, for every set of entities, attributes    *)
(* and values: what Home Assistant describes as the difference between two *)
(* states, Apply turns back into exactly the second.                       *)
(***************************************************************************)
LEMMA PartialDomain ==
  ASSUME NEW S, NEW T, NEW f \in Partial(S, T)
  PROVE  /\ DOMAIN f \subseteq S
         /\ f = [x \in DOMAIN f |-> f[x]]
         /\ \A x \in DOMAIN f : f[x] \in T
BY DEF Partial

LEMMA EmptyCacheType == EmptyCache \in Caches
<1>1. EmptyCache \in [{} -> EntityState]
  BY DEF EmptyCache
<1>2. {} \in SUBSET Entities
  OBVIOUS
<1> QED
  BY <1>1, <1>2 DEF Caches, Partial

\* Two functions are equal when they agree.
LEMMA FunctionsEqual ==
  ASSUME NEW f, NEW g,
         f = [x \in DOMAIN f |-> f[x]], g = [x \in DOMAIN g |-> g[x]],
         DOMAIN f = DOMAIN g, \A x \in DOMAIN f : f[x] = g[x]
  PROVE  f = g
OBVIOUS

\* What was removed taken away and what was added or changed put in.
LEMMA AttrsRoundTrip ==
  ASSUME NEW f, NEW g, g = [x \in DOMAIN g |-> g[x]], NEW U, NEW S,
         U = DOMAIN f \ DOMAIN g,
         S = {a \in DOMAIN g : a \notin DOMAIN f \/ f[a] # g[a]}
  PROVE  Over(Without(f, U), Only(g, S)) = g
<1> DEFINE kept == Without(f, U)
           set == Only(g, S)
           merged == Over(kept, set)
<1>1. DOMAIN kept = DOMAIN f \ U
  BY DEF Without
<1>2. \A x \in DOMAIN f \ U : kept[x] = f[x]
  BY DEF Without
<1>3. DOMAIN set = DOMAIN g \cap S
  BY DEF Only
<1>4. \A x \in DOMAIN g \cap S : set[x] = g[x]
  BY DEF Only
<1> HIDE DEF kept, set
<1>5. DOMAIN merged = DOMAIN kept \cup DOMAIN set
  BY DEF Over
<1>6. \A x \in DOMAIN kept \cup DOMAIN set :
        merged[x] = IF x \in DOMAIN set THEN set[x] ELSE kept[x]
  BY DEF Over
<1>7. merged = [x \in DOMAIN merged |-> merged[x]]
  BY DEF Over
<1> HIDE DEF merged
<1>8. DOMAIN merged = DOMAIN g
  BY <1>1, <1>3, <1>5
<1>9. ASSUME NEW a \in DOMAIN g PROVE merged[a] = g[a]
  <2>1. CASE a \in S
    BY <1>3, <1>4, <1>6, <2>1
  <2>2. CASE a \notin S
    BY <1>1, <1>2, <1>3, <1>6, <2>2
  <2> QED
    BY <2>1, <2>2
<1>10. merged = g
  BY <1>7, <1>8, <1>9, FunctionsEqual
<1> QED
  BY <1>10 DEF merged, kept, set

\* A diff applied to the state it was taken from gives the state it leads to.
THEOREM DiffRoundTrip ==
  ASSUME NEW old \in EntityState, NEW new \in EntityState
  PROVE  ApplyChange(old, DiffOf(old, new)) = new
<1> DEFINE d == DiffOf(old, new)
<1>1. /\ new.attrs \in Partial(Attributes, AttrValues)
      /\ old.state \in States
      /\ new.state \in States
      /\ new = [state |-> new.state, attrs |-> new.attrs]
  BY DEF EntityState
<1>2. new.attrs = [x \in DOMAIN new.attrs |-> new.attrs[x]]
  BY <1>1, PartialDomain
<1>3. (IF d.state = Same THEN old.state ELSE d.state) = new.state
  BY <1>1, MarkersDistinct DEF DiffOf
<1>4. Over(Without(old.attrs, d.unset), d.set) = new.attrs
  BY <1>2, AttrsRoundTrip DEF DiffOf
<1> QED
  BY <1>1, <1>3, <1>4 DEF ApplyChange

LEMMA DiffType ==
  ASSUME NEW old \in EntityState, NEW new \in EntityState
  PROVE  DiffOf(old, new) \in Diffs
<1> DEFINE set == Only(new.attrs, {a \in DOMAIN new.attrs :
                        a \notin DOMAIN old.attrs \/ old.attrs[a] # new.attrs[a]})
<1>1. /\ new.attrs \in Partial(Attributes, AttrValues)
      /\ old.attrs \in Partial(Attributes, AttrValues)
      /\ new.state \in States
  BY DEF EntityState
<1>2. set \in Partial(Attributes, AttrValues)
  <2>1. DOMAIN set \subseteq Attributes
    BY <1>1, PartialDomain DEF Only
  <2>2. set \in [DOMAIN set -> AttrValues]
    BY <1>1, PartialDomain DEF Only
  <2> HIDE DEF set
  <2> QED
    BY <2>1, <2>2 DEF Partial
<1>3. DOMAIN old.attrs \ DOMAIN new.attrs \in SUBSET Attributes
  BY <1>1, PartialDomain
<1> HIDE DEF set
<1>4. DiffOf(old, new) = [state |-> IF old.state = new.state THEN Same ELSE new.state,
                          set |-> set, unset |-> DOMAIN old.attrs \ DOMAIN new.attrs]
  BY DEF DiffOf, set
<1> QED
  BY <1>1, <1>2, <1>3, <1>4 DEF Diffs

\* A cache that shows one state of the world, whatever else it holds, and the event
\* that describes how that state became another: Apply reports no error and has one
\* outcome, in which what went is gone and the other state is shown in full.
THEOREM EventApplies ==
  ASSUME NEW c, NEW old \in Caches, NEW new \in Caches,
         \A e \in DOMAIN old : e \in DOMAIN c /\ c[e] = old[e]
  PROVE  Apply(c, EventOf(old, new)) =
            {[cache |-> Over(Without(c, DOMAIN old \ DOMAIN new), new), ok |-> TRUE]}
<1> DEFINE ev == EventOf(old, new)
           add == Without(new, DOMAIN old)
           change == [e \in {x \in DOMAIN old \cap DOMAIN new : old[x] # new[x]} |->
                        DiffOf(old[e], new[e])]
           remove == DOMAIN old \ DOMAIN new
           added == Over(c, add)
           pending == Only(change, DOMAIN added)
           changed == Changed(added, pending)
           result == Without(Over(added, changed), remove)
           kept == Without(c, remove)
           wanted == Over(kept, new)
<1>1. /\ \A e \in DOMAIN old : old[e] \in EntityState
      /\ \A e \in DOMAIN new : new[e] \in EntityState
      /\ new = [e \in DOMAIN new |-> new[e]]
  BY PartialDomain DEF Caches
<1>2. /\ DOMAIN add = DOMAIN new \ DOMAIN old
      /\ \A e \in DOMAIN new \ DOMAIN old : add[e] = new[e]
  BY DEF Without
<1>3. /\ DOMAIN change = {x \in DOMAIN old \cap DOMAIN new : old[x] # new[x]}
      /\ \A e \in DOMAIN change : change[e] = DiffOf(old[e], new[e])
  OBVIOUS
<1>4. ev.add = add /\ ev.change = change /\ ev.remove = remove
  BY DEF EventOf
<1> HIDE DEF ev, add, change
<1>5. /\ DOMAIN added = DOMAIN c \cup DOMAIN new
      /\ \A e \in DOMAIN c : e \in DOMAIN new \ DOMAIN old \/ added[e] = c[e]
      /\ \A e \in DOMAIN new \ DOMAIN old : added[e] = new[e]
  <2>1. DOMAIN added = DOMAIN c \cup DOMAIN add
    BY DEF Over
  <2>2. \A e \in DOMAIN c \cup DOMAIN add :
            added[e] = IF e \in DOMAIN add THEN add[e] ELSE c[e]
    BY DEF Over
  <2> HIDE DEF added
  <2> QED
    BY <1>2, <2>1, <2>2
<1> HIDE DEF added
<1>6. /\ DOMAIN pending = DOMAIN change
      /\ \A e \in DOMAIN change : pending[e] = change[e]
  <2>1. DOMAIN pending = DOMAIN change \cap DOMAIN added
    BY DEF Only
  <2>2. \A e \in DOMAIN change \cap DOMAIN added : pending[e] = change[e]
    BY DEF Only
  <2> HIDE DEF pending
  <2> QED
    BY <1>3, <1>5, <2>1, <2>2
<1> HIDE DEF pending
<1>7. WellFormed(add) = DOMAIN add
  <2>1. \A e \in DOMAIN add : add[e] # Malformed
    BY <1>1, <1>2, MarkersDistinct
  <2> QED
    BY <2>1 DEF WellFormed
<1>8. WellFormed(pending) = DOMAIN pending
  <2>1. \A e \in DOMAIN pending : pending[e] # Malformed
    BY <1>1, <1>3, <1>6, DiffType, MarkersDistinct
  <2> QED
    BY <2>1 DEF WellFormed
<1>9. Apply(c, ev) = {[cache |-> result, ok |-> TRUE]}
  BY <1>4, <1>7, <1>8 DEF Apply, added, pending
<1>10. /\ DOMAIN changed = DOMAIN change
       /\ \A e \in DOMAIN change : changed[e] = new[e]
  <2>1. DOMAIN changed = DOMAIN added \cap DOMAIN pending
    BY DEF Changed
  <2>2. \A e \in DOMAIN added \cap DOMAIN pending :
            changed[e] = ApplyChange(added[e], pending[e])
    BY DEF Changed
  <2> HIDE DEF changed
  <2>3. DOMAIN change \subseteq DOMAIN old \cap DOMAIN new
    BY <1>3
  <2>4. DOMAIN changed = DOMAIN change
    BY <1>5, <1>6, <2>1, <2>3
  <2>5. ASSUME NEW e \in DOMAIN change PROVE changed[e] = new[e]
    <3>1. changed[e] = ApplyChange(old[e], DiffOf(old[e], new[e]))
      BY <1>3, <1>5, <1>6, <2>1, <2>2, <2>3
    <3>2. old[e] \in EntityState /\ new[e] \in EntityState
      BY <1>1, <2>3
    <3> QED
      BY <3>1, <3>2, DiffRoundTrip
  <2> QED
    BY <2>4, <2>5
<1> HIDE DEF changed
<1>11. result = wanted
  <2> DEFINE over == Over(added, changed)
  <2>1. /\ DOMAIN over = DOMAIN added \cup DOMAIN changed
        /\ \A e \in DOMAIN added \cup DOMAIN changed :
              over[e] = IF e \in DOMAIN changed THEN changed[e] ELSE added[e]
    BY DEF Over
  <2> HIDE DEF over
  <2>2. /\ DOMAIN result = DOMAIN over \ remove
        /\ \A e \in DOMAIN over \ remove : result[e] = over[e]
        /\ result = [e \in DOMAIN result |-> result[e]]
    BY DEF Without, over
  <2>3. /\ DOMAIN kept = DOMAIN c \ remove
        /\ \A e \in DOMAIN c \ remove : kept[e] = c[e]
    BY DEF Without
  <2> HIDE DEF result, kept
  <2>4. /\ DOMAIN wanted = DOMAIN kept \cup DOMAIN new
        /\ \A e \in DOMAIN kept \cup DOMAIN new :
              wanted[e] = IF e \in DOMAIN new THEN new[e] ELSE kept[e]
        /\ wanted = [e \in DOMAIN wanted |-> wanted[e]]
    BY DEF Over
  <2> HIDE DEF wanted
  <2>5. DOMAIN result = DOMAIN wanted
    BY <1>3, <1>5, <1>10, <2>1, <2>2, <2>3, <2>4
  <2>6. ASSUME NEW e \in DOMAIN result PROVE result[e] = wanted[e]
    <3>1. result[e] = IF e \in DOMAIN change THEN new[e] ELSE added[e]
      BY <1>5, <1>10, <2>1, <2>2, <2>6
    <3>2. CASE e \in DOMAIN new
      <4>1. e \notin DOMAIN change => added[e] = new[e]
        BY <1>3, <1>5, <3>2
      <4> QED
        BY <2>4, <3>1, <3>2, <4>1
    <3>3. CASE e \notin DOMAIN new
      BY <1>3, <1>5, <2>2, <2>3, <2>4, <2>5, <2>6, <3>1, <3>3
    <3> QED
      BY <3>2, <3>3
  <2> QED
    BY <2>2, <2>4, <2>5, <2>6, FunctionsEqual
<1> QED
  BY <1>9, <1>11 DEF ev, wanted, kept

\* The event that describes how one state of the world became another turns a
\* cache of the first into a cache of the second, whatever entities appeared,
\* changed and went.
THEOREM EventRoundTrip ==
  ASSUME NEW old \in Caches, NEW new \in Caches
  PROVE  Apply(old, EventOf(old, new)) = {[cache |-> new, ok |-> TRUE]}
<1> DEFINE kept == Without(old, DOMAIN old \ DOMAIN new)
           result == Over(kept, new)
<1>1. old = [e \in DOMAIN old |-> old[e]] /\ new = [e \in DOMAIN new |-> new[e]]
  BY PartialDomain DEF Caches
<1>2. Apply(old, EventOf(old, new)) = {[cache |-> result, ok |-> TRUE]}
  BY EventApplies
<1>3. DOMAIN kept \subseteq DOMAIN new
  BY DEF Without
<1> HIDE DEF kept
<1>4. /\ DOMAIN result = DOMAIN new
      /\ \A e \in DOMAIN new : result[e] = new[e]
      /\ result = [e \in DOMAIN result |-> result[e]]
  BY <1>3 DEF Over
<1> HIDE DEF result
<1> QED
  BY <1>1, <1>2, <1>4, FunctionsEqual

(***************************************************************************)
(* The mirror itself.                                                      *)
(***************************************************************************)
Held == IF held = NoEvent THEN <<>> ELSE <<held>>

Pipe == (in \o Held) \o wire

\* m, if all of it decodes, tells a client that knows old about m.view.
Describes(m, old) ==
    Decodes(m) =>
        LET ev == EventOf(IF m.full THEN EmptyCache ELSE old, m.view)
        IN  m.add = ev.add /\ m.change = ev.change /\ m.remove = ev.remove

\* Each event of p describes the step from the world before it; the first one does
\* so for v if nothing was lost, or if it tells everything.
Linked(p, v, whole) ==
    \A i \in 1 .. Len(p) :
        i > 1 \/ whole \/ p[i].full =>
            Describes(p[i], IF i = 1 THEN v ELSE p[i - 1].view)

\* The world p leads to from v.
Leads(p, v) == IF p = <<>> THEN v ELSE p[Len(p)].view

TypesOK ==
    /\ in \in Seq(Messages)
    /\ wire \in Seq(Messages)
    /\ held \in Messages \cup {NoEvent}
    /\ ingest \in {"offer", "evict", "retry"}
    /\ world \in Caches
    /\ view \in Caches
    /\ up \in BOOLEAN
    /\ trusted \in BOOLEAN
    /\ sent \in Nat

\* Only Ingest puts events into the queue, so what it has made room for stays free.
Room ==
    /\ Len(in) <= Capacity
    /\ ingest = "retry" => Len(in) < Capacity
    /\ ingest # "offer" => held # NoEvent
    /\ ~up => wire = <<>>

Chained ==
    /\ Linked(Pipe, view, trusted)
    /\ up => world = Leads(Pipe, view)

Faithful ==
    trusted => /\ Shows(cache, view)
               /\ DOMAIN cache = DOMAIN view \cup ghosts
               /\ ghosts \cap DOMAIN view = {}

IInv == TypesOK /\ Room /\ Chained /\ Faithful

-------------------------------------------------------------------------------
(* The pipe as a sequence *)

LEMMA PipeType ==
  ASSUME TypesOK
  PROVE  Held \in Seq(Messages) /\ in \o Held \in Seq(Messages) /\ Pipe \in Seq(Messages)
<1>1. Held \in Seq(Messages)
  BY DEF TypesOK, Held
<1>2. in \o Held \in Seq(Messages)
  BY <1>1, ConcatProperties DEF TypesOK
<1> QED
  BY <1>1, <1>2, ConcatProperties DEF TypesOK, Pipe

LEMMA AppendLinked ==
  ASSUME NEW p \in Seq(Messages), NEW m \in Messages, NEW v, NEW whole \in BOOLEAN,
         Linked(p, v, whole), Describes(m, Leads(p, v))
  PROVE  Linked(Append(p, m), v, whole) /\ Leads(Append(p, m), v) = m.view
<1> DEFINE q == Append(p, m)
<1>1. /\ q # <<>>
      /\ Len(p) \in Nat
      /\ Len(q) = Len(p) + 1
      /\ \A i \in 1 .. Len(p) : q[i] = p[i]
      /\ q[Len(q)] = m
  BY AppendProperties, LenProperties
<1> HIDE DEF q
<1>2. ASSUME NEW i \in 1 .. Len(q), i > 1 \/ whole \/ q[i].full
      PROVE  Describes(q[i], IF i = 1 THEN v ELSE q[i - 1].view)
  <2>1. CASE i \in 1 .. Len(p)
    <3>1. Describes(p[i], IF i = 1 THEN v ELSE p[i - 1].view)
      BY <1>1, <1>2, <2>1 DEF Linked
    <3>2. i # 1 => q[i - 1] = p[i - 1]
      BY <1>1, <2>1
    <3> QED
      BY <1>1, <2>1, <3>1, <3>2
  <2>2. CASE i = Len(q)
    <3>1. CASE Len(p) = 0
      BY <1>1, <2>2, <3>1, EmptySeq DEF Leads
    <3>2. CASE Len(p) # 0
      <4>1. p # <<>>
        BY <3>2, EmptySeq
      <4>2. q[i - 1] = p[Len(p)] /\ i # 1
        BY <1>1, <2>2, <3>2
      <4> QED
        BY <1>1, <2>2, <4>1, <4>2 DEF Leads
    <3> QED
      BY <3>1, <3>2
  <2> QED
    BY <1>1, <1>2, <2>1, <2>2
<1>3. Linked(q, v, whole)
  BY <1>2 DEF Linked
<1>4. Leads(q, v) = m.view
  BY <1>1 DEF Leads
<1> QED
  BY <1>3, <1>4 DEF q

\* Without the first event, from the world it led to, or with a gap from any.
LEMMA TailLinked ==
  ASSUME NEW p \in Seq(Messages), p # <<>>, NEW v, NEW w, NEW whole \in BOOLEAN,
         Linked(p, v, whole)
  PROVE  /\ Linked(Tail(p), Head(p).view, TRUE)
         /\ Linked(Tail(p), w, FALSE)
         /\ Leads(Tail(p), Head(p).view) = Leads(p, v)
<1> DEFINE q == Tail(p)
<1>1. /\ q \in Seq(Messages)
      /\ Len(p) \in Nat
      /\ Len(q) = Len(p) - 1
      /\ \A i \in 1 .. Len(q) : q[i] = p[i + 1]
      /\ Head(p) = p[1]
  BY HeadTailProperties, LenProperties
<1> HIDE DEF q
<1>2. \A i \in 1 .. Len(q) : Describes(q[i], p[i].view)
  <2> SUFFICES ASSUME NEW i \in 1 .. Len(q) PROVE Describes(q[i], p[i].view)
    OBVIOUS
  <2>1. i + 1 \in 1 .. Len(p) /\ i + 1 > 1 /\ (i + 1) - 1 = i /\ i + 1 # 1
    BY <1>1
  <2> QED
    BY <1>1, <2>1 DEF Linked
<1>3. \A i \in 1 .. Len(q) : i > 1 => q[i - 1] = p[i]
  BY <1>1
<1>4. Linked(q, p[1].view, TRUE)
  <2> SUFFICES ASSUME NEW i \in 1 .. Len(q)
               PROVE  Describes(q[i], IF i = 1 THEN p[1].view ELSE q[i - 1].view)
    BY DEF Linked
  <2> QED
    BY <1>1, <1>2, <1>3
<1>5. Linked(q, w, FALSE)
  <2> SUFFICES ASSUME NEW i \in 1 .. Len(q), i > 1 \/ q[i].full
               PROVE  Describes(q[i], IF i = 1 THEN w ELSE q[i - 1].view)
    BY DEF Linked
  <2>1. CASE i = 1
    BY <1>2, <2>1 DEF Describes
  <2>2. CASE i # 1
    BY <1>1, <1>2, <1>3, <2>2
  <2> QED
    BY <2>1, <2>2
<1>6. Leads(q, p[1].view) = Leads(p, v)
  <2>1. CASE q = <<>>
    <3>1. Len(q) = 0
      BY <2>1, EmptySeq
    <3>2. Len(p) = 1
      BY <1>1, <3>1
    <3>3. Leads(p, v) = p[1].view
      BY <3>2, Zenon DEF Leads
    <3> QED
      BY <2>1, <3>3, Zenon DEF Leads
  <2>2. CASE q # <<>>
    <3>1. Len(q) \in Nat \ {0}
      BY <1>1, <2>2, EmptySeq
    <3>2. q[Len(q)] = p[Len(p)]
      BY <1>1, <3>1
    <3> QED
      BY <2>2, <3>2 DEF Leads
  <2> QED
    BY <2>1, <2>2
<1> QED
  BY <1>1, <1>4, <1>5, <1>6 DEF q

LEMMA PrefixLinked ==
  ASSUME NEW p \in Seq(Messages), NEW q \in Seq(Messages), NEW v,
         NEW whole \in BOOLEAN, Linked(p \o q, v, whole)
  PROVE  Linked(p, v, whole)
<1> DEFINE pq == p \o q
<1>1. /\ Len(p) \in Nat
      /\ Len(q) \in Nat
      /\ Len(pq) = Len(p) + Len(q)
      /\ \A i \in 1 .. Len(p) + Len(q) :
            pq[i] = IF i <= Len(p) THEN p[i] ELSE q[i - Len(p)]
  BY ConcatProperties, LenProperties
<1> HIDE DEF pq
<1>2. ASSUME NEW i \in 1 .. Len(p), i > 1 \/ whole \/ p[i].full
      PROVE  Describes(p[i], IF i = 1 THEN v ELSE p[i - 1].view)
  <2>1. pq[i] = p[i] /\ (i > 1 => pq[i - 1] = p[i - 1])
    BY <1>1
  <2>2. Describes(pq[i], IF i = 1 THEN v ELSE pq[i - 1].view)
    BY <1>1, <1>2, <2>1 DEF Linked, pq
  <2> QED
    BY <2>1, <2>2
<1> QED
  BY <1>2 DEF Linked

\* Events that keep their views and decode as they did, if they still do.
LEMMA SwapLinked ==
  ASSUME NEW p \in Seq(Messages), NEW q \in Seq(Messages), NEW v,
         NEW whole \in BOOLEAN, Len(q) = Len(p),
         \A i \in 1 .. Len(p) : q[i].view = p[i].view /\ (Decodes(q[i]) => q[i] = p[i]),
         Linked(p, v, whole)
  PROVE  Linked(q, v, whole) /\ Leads(q, v) = Leads(p, v)
<1>1. ASSUME NEW i \in 1 .. Len(q), i > 1 \/ whole \/ q[i].full
      PROVE  Describes(q[i], IF i = 1 THEN v ELSE q[i - 1].view)
  <2> DEFINE before == IF i = 1 THEN v ELSE p[i - 1].view
  <2>1. before = IF i = 1 THEN v ELSE q[i - 1].view
    BY LenProperties
  <2>2. q[i] = p[i] => Describes(p[i], before)
    BY <1>1 DEF Linked
  <2> HIDE DEF before
  <2>3. Describes(q[i], before)
    BY <2>2 DEF Describes
  <2> QED
    BY <2>1, <2>3
<1>2. p = <<>> <=> q = <<>>
  BY EmptySeq, LenProperties
<1>3. p # <<>> => q[Len(q)].view = p[Len(p)].view
  BY EmptySeq, LenProperties
<1> QED
  BY <1>1, <1>2, <1>3 DEF Linked, Leads

-------------------------------------------------------------------------------
(* Home Assistant's events *)

LEMMA MessageType ==
  ASSUME sent \in Nat, NEW old \in Caches, NEW new \in Caches, NEW isFull \in BOOLEAN
  PROVE  /\ Message(old, new, isFull) \in Messages
         /\ Message(old, new, isFull).view = new
         /\ ~isFull => Describes(Message(old, new, isFull), old)
         /\ isFull /\ old = EmptyCache =>
               \A v : Describes(Message(old, new, isFull), v)
<1> DEFINE add == Without(new, DOMAIN old)
           change == [e \in {x \in DOMAIN old \cap DOMAIN new : old[x] # new[x]} |->
                        DiffOf(old[e], new[e])]
           remove == DOMAIN old \ DOMAIN new
<1>1. /\ DOMAIN old \subseteq Entities
      /\ DOMAIN new \subseteq Entities
      /\ \A e \in DOMAIN old : old[e] \in EntityState
      /\ \A e \in DOMAIN new : new[e] \in EntityState
  BY PartialDomain DEF Caches
<1>2. add \in Partial(Entities, EntityState \cup {Malformed})
  <2>1. DOMAIN add \subseteq Entities
    BY <1>1 DEF Without
  <2>2. add \in [DOMAIN add -> EntityState \cup {Malformed}]
    BY <1>1 DEF Without
  <2> HIDE DEF add
  <2> QED
    BY <2>1, <2>2 DEF Partial
<1>3. change \in Partial(Entities, Diffs \cup {Malformed})
  <2>1. DOMAIN change \subseteq Entities
    BY <1>1
  <2>2. change \in [DOMAIN change -> Diffs \cup {Malformed}]
    BY <1>1, DiffType
  <2> HIDE DEF change
  <2> QED
    BY <2>1, <2>2 DEF Partial
<1>4. remove \in SUBSET Entities
  BY <1>1
<1>5. /\ EventOf(old, new).add = add
      /\ EventOf(old, new).change = change
      /\ EventOf(old, new).remove = remove
  BY DEF EventOf
<1> HIDE DEF add, change, remove
<1>6. Message(old, new, isFull) =
        [add |-> add, change |-> change, remove |-> remove,
         number |-> sent + 1, view |-> new, full |-> isFull]
  BY <1>5 DEF Message
<1>7. Message(old, new, isFull) \in Messages
  BY <1>2, <1>3, <1>4, <1>6 DEF Messages
<1>8. ~isFull => Describes(Message(old, new, isFull), old)
  BY <1>5, <1>6 DEF Describes
<1>9. isFull /\ old = EmptyCache => \A v : Describes(Message(old, new, isFull), v)
  BY <1>5, <1>6 DEF Describes
<1> QED
  BY <1>6, <1>7, <1>8, <1>9

\* An event spoilt on the way leads where it led, and says nothing.
LEMMA SpoiltType ==
  ASSUME NEW m \in Messages, NEW f,
         \/ \E e \in DOMAIN m.add : f = [m EXCEPT !.add[e] = Malformed]
         \/ \E e \in DOMAIN m.change : f = [m EXCEPT !.change[e] = Malformed]
  PROVE  f \in Messages /\ f.view = m.view /\ ~Decodes(f)
<1>1. /\ m.add \in Partial(Entities, EntityState \cup {Malformed})
      /\ m.change \in Partial(Entities, Diffs \cup {Malformed})
  BY DEF Messages
<1>2. CASE \E e \in DOMAIN m.add : f = [m EXCEPT !.add[e] = Malformed]
  <2>1. PICK e \in DOMAIN m.add : f = [m EXCEPT !.add[e] = Malformed]
    BY <1>2
  <2> DEFINE add == [m.add EXCEPT ![e] = Malformed]
  <2>2. f = [m EXCEPT !.add = add]
    BY <2>1
  <2>3. add \in Partial(Entities, EntityState \cup {Malformed})
    BY <1>1 DEF Partial
  <2>4. e \in DOMAIN add /\ add[e] = Malformed
    BY <1>1 DEF Partial
  <2> HIDE DEF add
  <2>5. f \in Messages /\ f.view = m.view /\ f.add = add
    BY <2>2, <2>3 DEF Messages
  <2> QED
    BY <2>4, <2>5 DEF Decodes, WellFormed
<1>3. CASE \E e \in DOMAIN m.change : f = [m EXCEPT !.change[e] = Malformed]
  <2>1. PICK e \in DOMAIN m.change : f = [m EXCEPT !.change[e] = Malformed]
    BY <1>3
  <2> DEFINE change == [m.change EXCEPT ![e] = Malformed]
  <2>2. f = [m EXCEPT !.change = change]
    BY <2>1
  <2>3. change \in Partial(Entities, Diffs \cup {Malformed})
    BY <1>1 DEF Partial
  <2>4. e \in DOMAIN change /\ change[e] = Malformed
    BY <1>1 DEF Partial
  <2> HIDE DEF change
  <2>5. f \in Messages /\ f.view = m.view /\ f.change = change
    BY <2>2, <2>3 DEF Messages
  <2> QED
    BY <2>4, <2>5 DEF Decodes, WellFormed
<1> QED
  BY <1>2, <1>3

\* What Apply makes of an event that describes the step from the world shown.
LEMMA DescribedApplies ==
  ASSUME NEW c, NEW old \in Caches, NEW m \in Messages, Decodes(m), Describes(m, old),
         m.full \/ Shows(c, old), NEW r \in Apply(c, m)
  PROVE  LET from == IF m.full THEN EmptyCache ELSE old
         IN  /\ Shows(r.cache, m.view)
             /\ DOMAIN r.cache = (DOMAIN c \ (DOMAIN from \ DOMAIN m.view)) \cup DOMAIN m.view
<1> DEFINE from == IF m.full THEN EmptyCache ELSE old
           ev == EventOf(from, m.view)
           gone == DOMAIN from \ DOMAIN m.view
           kept == Without(c, gone)
           result == Over(kept, m.view)
<1>1. from \in Caches /\ m.view \in Caches
  BY EmptyCacheType DEF Messages
<1>2. \A e \in DOMAIN from : e \in DOMAIN c /\ c[e] = from[e]
  BY DEF Shows, EmptyCache
<1>3. m.add = ev.add /\ m.change = ev.change /\ m.remove = ev.remove
  BY DEF Describes
<1> HIDE DEF from
<1>4. Apply(c, ev) = {[cache |-> result, ok |-> TRUE]}
  BY <1>1, <1>2, EventApplies
<1>5. Apply(c, m) = Apply(c, ev)
  BY <1>3 DEF Apply
<1>6. r.cache = result
  BY <1>4, <1>5
<1>7. DOMAIN kept = DOMAIN c \ gone
  BY DEF Without
<1> HIDE DEF kept
<1>8. /\ DOMAIN result = (DOMAIN c \ gone) \cup DOMAIN m.view
      /\ \A e \in DOMAIN m.view : result[e] = m.view[e]
  BY <1>7 DEF Over
<1> HIDE DEF result
<1> QED
  BY <1>6, <1>8 DEF Shows, from

-------------------------------------------------------------------------------
(* The steps *)

LEMMA InitIInv == Init => IInv
<1> SUFFICES ASSUME Init PROVE IInv
  OBVIOUS
<1> USE DEF Init, StoreInit
<1>1. TypesOK
  BY EmptyCacheType, MirrorAssumption, EmptySeq DEF TypesOK
<1>2. Room
  BY StoreAssumption, EmptySeq DEF Room
<1>3. Pipe = <<>>
  <2>1. Held = <<>>
    BY DEF Held
  <2> QED
    BY <2>1, EmptySeq, ConcatEmptySeq DEF Pipe
<1>4. Chained
  BY <1>3, EmptySeq DEF Chained, Linked
<1>5. Faithful
  BY DEF Faithful, Shows, EmptyCache
<1> QED
  BY <1>1, <1>2, <1>4, <1>5 DEF IInv

\* Steps that leave queue, wire, cache and Home Assistant alone.
LEMMA OthersIInv ==
  ASSUME IInv, UNCHANGED <<queueVars, cache, world, up, wire, sent, ghostVars>>
  PROVE  IInv'
<1> USE DEF queueVars, ghostVars
<1>1. TypesOK' /\ Room' /\ Faithful'
  BY DEF IInv, TypesOK, Room, Faithful, Shows
<1>2. Pipe' = Pipe
  BY DEF Pipe, Held
<1>3. Chained'
  BY <1>2 DEF IInv, Chained, Linked, Leads, Describes, Decodes
<1> QED
  BY <1>1, <1>3 DEF IInv

\* The pipe grows by an event at its end.
LEMMA SendIInv ==
  ASSUME IInv, NEW m \in Messages, Describes(m, Leads(Pipe, view)), m.view = world',
         wire' = Append(wire, m), up' = TRUE, world' \in Caches, sent' \in Nat,
         UNCHANGED <<queueVars, cache, ghostVars>>
  PROVE  IInv'
<1> USE DEF queueVars, ghostVars
<1>1. TypesOK'
  BY AppendProperties DEF IInv, TypesOK
<1>2. Room' /\ Faithful'
  BY DEF IInv, Room, Faithful, Shows
<1>3. Pipe' = Append(Pipe, m)
  <2>1. /\ in \o Held \in Seq(Messages)
        /\ wire \in Seq(Messages)
        /\ Pipe \in Seq(Messages)
        /\ <<m>> \in Seq(Messages)
    BY PipeType DEF IInv, TypesOK
  <2>2. (in \o Held)' = in \o Held
    BY DEF Held
  <2>3. Pipe' = (in \o Held) \o (wire \o <<m>>)
    BY <2>1, <2>2, AppendIsConcat DEF Pipe
  <2>4. (in \o Held) \o (wire \o <<m>>) = Pipe \o <<m>>
    BY <2>1, ConcatAssociative DEF Pipe
  <2> QED
    BY <2>1, <2>3, <2>4, AppendIsConcat
<1>4. Linked(Append(Pipe, m), view, trusted) /\ Leads(Append(Pipe, m), view) = m.view
  BY PipeType, AppendLinked DEF IInv, TypesOK, Chained
<1>5. Chained'
  BY <1>3, <1>4 DEF Chained
<1> QED
  BY <1>1, <1>2, <1>5 DEF IInv

LEMMA ChangeIInv == IInv /\ Change => IInv'
<1> SUFFICES ASSUME IInv, Change PROVE IInv'
  OBVIOUS
<1>1. PICK new \in Worlds \ {world} :
        /\ world' = new
        /\ IF up
           THEN wire' = Append(wire, Message(world, new, FALSE)) /\ sent' = sent + 1
           ELSE UNCHANGED <<wire, sent>>
  BY DEF Change
<1>2. world \in Caches /\ new \in Caches /\ sent \in Nat
  BY MirrorAssumption DEF IInv, TypesOK
<1>3. UNCHANGED <<queueVars, cache, up, ghostVars>>
  BY DEF Change, storeVars, cacheVars
<1>4. CASE up
  <2> DEFINE m == Message(world, new, FALSE)
  <2>1. m \in Messages /\ m.view = world' /\ Describes(m, world)
    BY <1>1, <1>2, MessageType
  <2>2. Describes(m, Leads(Pipe, view))
    BY <1>4, <2>1 DEF IInv, Chained
  <2>3. wire' = Append(wire, m) /\ sent' \in Nat /\ world' \in Caches
    <3>1. wire' = Append(wire, m) /\ sent' = sent + 1
      BY <1>1, <1>4, Zenon
    <3>2. sent' \in Nat
      BY <1>2, <3>1
    <3> QED
      BY <1>1, <1>2, <3>1, <3>2, Zenon
  <2>4. up' = TRUE
    <3>1. up \in BOOLEAN
      BY DEF IInv, TypesOK
    <3> QED
      BY <1>3, <1>4, <3>1
  <2> HIDE DEF m
  <2> QED
    BY <1>3, <2>1, <2>2, <2>3, <2>4, SendIInv
<1>5. CASE ~up
  <2>1. UNCHANGED <<wire, sent>>
    BY <1>1, <1>5
  <2>2. TypesOK' /\ Room' /\ Faithful'
    BY <1>1, <1>2, <1>3, <2>1
    DEF IInv, TypesOK, Room, Faithful, Shows, queueVars, ghostVars
  <2>3. Pipe' = Pipe /\ view' = view /\ trusted' = trusted
    BY <1>3, <2>1 DEF Pipe, Held, queueVars, ghostVars
  <2>4. Chained'
    BY <1>3, <1>5, <2>3 DEF IInv, Chained
  <2> QED
    BY <2>2, <2>4 DEF IInv
<1> QED
  BY <1>4, <1>5

LEMMA ConnectIInv == IInv /\ Connect => IInv'
<1> SUFFICES ASSUME IInv, Connect PROVE IInv'
  OBVIOUS
<1> DEFINE m == Message(EmptyCache, world, TRUE)
<1>1. m \in Messages /\ m.view = world /\ Describes(m, Leads(Pipe, view))
  BY EmptyCacheType, MessageType DEF IInv, TypesOK
<1>2. /\ UNCHANGED <<queueVars, cache, world, ghostVars>>
      /\ up' = TRUE
      /\ sent' \in Nat
      /\ wire = <<>>
      /\ wire' = <<m>>
  BY DEF Connect, storeVars, cacheVars, IInv, TypesOK, Room
<1>3. world' \in Caches
  BY <1>2 DEF IInv, TypesOK
<1> HIDE DEF m
<1>4. wire' = Append(wire, m)
  <2>1. <<>> \in Seq(Messages) /\ <<m>> \in Seq(Messages)
    BY <1>1
  <2>2. Append(<<>>, m) = <<>> \o <<m>>
    BY <1>1, <2>1, AppendIsConcat
  <2> QED
    BY <1>2, <2>1, <2>2, ConcatEmptySeq
<1> QED
  BY <1>1, <1>2, <1>3, <1>4, SendIInv

LEMMA DisconnectIInv == IInv /\ Disconnect => IInv'
<1> SUFFICES ASSUME IInv, Disconnect PROVE IInv'
  OBVIOUS
<1>1. /\ UNCHANGED <<queueVars, cache, world, sent, ghostVars>>
      /\ up' = FALSE
      /\ wire' = <<>>
  BY DEF Disconnect, storeVars, cacheVars
<1>2. TypesOK'
  BY <1>1, EmptySeq DEF IInv, TypesOK, queueVars, ghostVars
<1>3. Room' /\ Faithful'
  BY <1>1 DEF IInv, Room, Faithful, Shows, queueVars, ghostVars
<1>4. Pipe' = in \o Held
  <2>1. (in \o Held)' = in \o Held /\ in \o Held \in Seq(Messages)
    BY <1>1, PipeType DEF Held, queueVars, IInv
  <2> QED
    BY <1>1, <2>1, ConcatEmptySeq DEF Pipe
<1>5. Linked(in \o Held, view, trusted)
  <2> DEFINE kept == in \o Held
  <2>1. kept \in Seq(Messages) /\ wire \in Seq(Messages) /\ trusted \in BOOLEAN
    BY PipeType DEF IInv, TypesOK
  <2>2. Linked(kept \o wire, view, trusted)
    BY DEF IInv, Chained, Pipe
  <2> HIDE DEF kept
  <2>3. Linked(kept, view, trusted)
    BY <2>1, <2>2, PrefixLinked
  <2> QED
    BY <2>3 DEF kept
<1>6. Chained'
  BY <1>1, <1>4, <1>5 DEF Chained, ghostVars
<1> QED
  BY <1>2, <1>3, <1>6 DEF IInv

\* The reader takes an event off the wire, whole or spoilt.
LEMMA TakeIInv ==
  ASSUME IInv, held = NoEvent, wire # <<>>, NEW f \in Messages,
         f.view = Head(wire).view, Decodes(f) => f = Head(wire),
         held' = f, wire' = Tail(wire),
         UNCHANGED <<in, ingest, cache, world, up, sent, ghostVars>>
  PROVE  IInv'
<1> USE DEF ghostVars
<1>1. in \in Seq(Messages) /\ wire \in Seq(Messages) /\ <<f>> \in Seq(Messages)
  BY DEF IInv, TypesOK
<1>2. /\ Tail(wire) \in Seq(Messages)
      /\ Len(Tail(wire)) = Len(wire) - 1
      /\ \A i \in 1 .. Len(Tail(wire)) : Tail(wire)[i] = wire[i + 1]
  BY <1>1, HeadTailProperties
<1>3. TypesOK'
  BY <1>2 DEF IInv, TypesOK
<1>4. Room'
  BY MirrorAssumption, EmptySeq DEF IInv, Room
<1>5. Faithful'
  BY DEF IInv, Faithful, Shows
<1>6. Pipe = in \o wire
  <2>1. Held = <<>>
    BY DEF Held
  <2> QED
    BY <1>1, <2>1, ConcatEmptySeq DEF Pipe
<1>7. Pipe' = (in \o <<f>>) \o Tail(wire)
  BY MirrorAssumption DEF Pipe, Held
<1> DEFINE p == in \o wire
           front == in \o <<f>>
           q == front \o Tail(wire)
<1>8. /\ Len(in) \in Nat
      /\ Len(wire) \in Nat
      /\ p \in Seq(Messages)
      /\ Len(p) = Len(in) + Len(wire)
      /\ \A i \in 1 .. Len(in) + Len(wire) :
            p[i] = IF i <= Len(in) THEN in[i] ELSE wire[i - Len(in)]
  BY <1>1, ConcatProperties, LenProperties
<1>9. /\ front \in Seq(Messages)
      /\ Len(front) = Len(in) + 1
      /\ \A i \in 1 .. Len(in) + 1 : front[i] = IF i <= Len(in) THEN in[i] ELSE f
  <2>1. Len(<<f>>) = 1 /\ <<f>>[1] = f
    OBVIOUS
  <2>2. /\ front \in Seq(Messages)
        /\ Len(front) = Len(in) + Len(<<f>>)
        /\ \A i \in 1 .. Len(in) + Len(<<f>>) :
              front[i] = IF i <= Len(in) THEN in[i] ELSE <<f>>[i - Len(in)]
    BY <1>1, ConcatProperties
  <2> HIDE DEF front
  <2> QED
    BY <1>8, <2>1, <2>2
<1> HIDE DEF front
<1>10. /\ q \in Seq(Messages)
       /\ Len(q) = Len(front) + Len(Tail(wire))
       /\ \A i \in 1 .. Len(front) + Len(Tail(wire)) :
             q[i] = IF i <= Len(front) THEN front[i] ELSE Tail(wire)[i - Len(front)]
  BY <1>2, <1>9, ConcatProperties
<1> HIDE DEF p, q
<1>11. Len(q) = Len(p)
  BY <1>2, <1>8, <1>9, <1>10
<1>12. Head(wire) = wire[1] /\ Len(wire) # 0
  BY <1>1, EmptySeq
<1>13. ASSUME NEW i \in 1 .. Len(p)
       PROVE  q[i].view = p[i].view /\ (Decodes(q[i]) => q[i] = p[i])
  <2>1. CASE i <= Len(in)
    BY <1>8, <1>9, <1>10, <1>11, <2>1
  <2>2. CASE i = Len(in) + 1
    <3>1. q[i] = f /\ p[i] = Head(wire)
      BY <1>8, <1>9, <1>10, <1>11, <1>12, <2>2
    <3> QED
      BY <3>1
  <2>3. CASE i > Len(in) + 1
    <3> DEFINE j == i - Len(front)
    <3>1. j \in 1 .. Len(Tail(wire)) /\ j + 1 = i - Len(in)
      BY <1>2, <1>8, <1>9, <2>3
    <3>2. q[i] = Tail(wire)[j]
      <4>1. i \in 1 .. Len(front) + Len(Tail(wire)) /\ ~ (i <= Len(front))
        BY <1>8, <1>9, <1>10, <1>11, <2>3
      <4> QED
        BY <1>10, <4>1, Zenon
    <3>3. p[i] = wire[i - Len(in)]
      BY <1>8, <2>3
    <3> HIDE DEF j
    <3>4. Tail(wire)[j] = wire[j + 1]
      BY <1>2, <3>1
    <3> QED
      BY <3>1, <3>2, <3>3, <3>4
  <2> QED
    BY <1>8, <2>1, <2>2, <2>3
<1>14. Linked(p, view, trusted) /\ trusted \in BOOLEAN
  BY <1>6 DEF IInv, Chained, TypesOK, p
<1>15. Linked(q, view, trusted) /\ Leads(q, view) = Leads(p, view)
  BY <1>8, <1>10, <1>11, <1>13, <1>14, SwapLinked
<1>16. Chained'
  <2>1. Pipe = p /\ Pipe' = q
    BY <1>6, <1>7 DEF p, q, front
  <2> QED
    BY <1>15, <2>1 DEF IInv, Chained
<1> QED
  BY <1>3, <1>4, <1>5, <1>16 DEF IInv

LEMMA ReadIInv == IInv /\ (Read \/ ReadFaulty) => IInv'
<1> SUFFICES ASSUME IInv, Read \/ ReadFaulty PROVE IInv'
  OBVIOUS
<1>1. wire # <<>> /\ held = NoEvent /\ wire' = Tail(wire)
  BY DEF Read, ReadFaulty, IngestBegin
<1>2. UNCHANGED <<in, ingest, cache, world, up, sent, ghostVars>>
  BY DEF Read, ReadFaulty, IngestBegin, cacheVars
<1>3. Head(wire) \in Messages
  BY <1>1, HeadTailProperties DEF IInv, TypesOK
<1>4. CASE Read
  <2>1. held' = Head(wire)
    BY <1>4 DEF Read, IngestBegin
  <2> QED
    BY <1>1, <1>2, <1>3, <2>1, TakeIInv
<1>5. CASE ReadFaulty
  <2> DEFINE ev == Head(wire)
  <2>1. \/ \E e \in DOMAIN ev.add : held' = [ev EXCEPT !.add[e] = Malformed]
        \/ \E e \in DOMAIN ev.change : held' = [ev EXCEPT !.change[e] = Malformed]
    BY <1>5 DEF ReadFaulty, IngestBegin
  <2>2. held' \in Messages /\ held'.view = ev.view /\ ~Decodes(held')
    BY <1>3, <2>1, SpoiltType
  <2> QED
    BY <1>1, <1>2, <2>2, TakeIInv
<1> QED
  BY <1>4, <1>5

\* Ingest queues what it holds: the pipe stays what it is.
LEMMA IngestIInv == IInv /\ Ingest => IInv'
<1> SUFFICES ASSUME IInv, Ingest PROVE IInv'
  OBVIOUS
<1>1. UNCHANGED <<cache, world, up, wire, sent, ghostVars>>
  BY DEF Ingest, cacheVars, sourceVars
<1>2. /\ held # NoEvent
      /\ \/ in' = in /\ held' = held /\ ingest' = "evict"
         \/ /\ in' = Append(in, held) /\ held' = NoEvent /\ ingest' = "offer"
            /\ Len(in) # Capacity
  <2>1. CASE IngestOffer
    BY <2>1 DEF IngestOffer, Full, IInv, Room
  <2>2. CASE IngestRetry
    BY <2>2, StoreAssumption DEF IngestRetry, Full, IInv, Room
  <2> QED
    BY <2>1, <2>2 DEF Ingest
<1>3. Faithful'
  BY <1>1 DEF IInv, Faithful, Shows, ghostVars
<1>4. CASE in' = in /\ held' = held /\ ingest' = "evict"
  <2>1. TypesOK' /\ Room'
    BY <1>1, <1>2, <1>4 DEF IInv, TypesOK, Room, ghostVars
  <2>2. Pipe' = Pipe /\ view' = view /\ trusted' = trusted
    BY <1>1, <1>4 DEF Pipe, Held, ghostVars
  <2>3. Chained'
    BY <1>1, <2>2 DEF IInv, Chained
  <2> QED
    BY <1>3, <2>1, <2>3 DEF IInv
<1>5. CASE /\ in' = Append(in, held) /\ held' = NoEvent /\ ingest' = "offer"
           /\ Len(in) # Capacity
  <2>1. in \in Seq(Messages) /\ held \in Messages /\ wire \in Seq(Messages)
    BY <1>2 DEF IInv, TypesOK
  <2>2. in' \in Seq(Messages) /\ Len(in') = Len(in) + 1 /\ Len(in) \in Nat
    BY <1>5, <2>1, AppendProperties, LenProperties
  <2>3. TypesOK'
    BY <1>1, <1>5, <2>2 DEF IInv, TypesOK, ghostVars
  <2>4. Room'
    BY <1>1, <1>5, <2>2, StoreAssumption DEF IInv, Room
  <2>5. Pipe' = Pipe
    <3>1. Held = <<held>> /\ Held' = <<>>
      BY <1>2, <1>5 DEF Held
    <3>2. in' = in \o <<held>>
      BY <1>5, <2>1, AppendIsConcat
    <3>3. in' \o <<>> = in'
      BY <2>2, ConcatEmptySeq
    <3> QED
      BY <1>1, <3>1, <3>2, <3>3 DEF Pipe
  <2>6. Chained'
    BY <1>1, <2>5 DEF IInv, Chained, ghostVars
  <2> QED
    BY <1>3, <2>3, <2>4, <2>6 DEF IInv
<1> QED
  BY <1>2, <1>4, <1>5

LEMMA ConcatTail ==
  ASSUME NEW s \in Seq(Messages), NEW t \in Seq(Messages), s # <<>>
  PROVE  s \o t # <<>> /\ Head(s \o t) = Head(s) /\ Tail(s \o t) = Tail(s) \o t
<1> DEFINE st == s \o t
           rest == Tail(s)
           short == rest \o t
<1>1. /\ Len(s) \in Nat \ {0}
      /\ Len(t) \in Nat
      /\ Head(s) = s[1]
  BY EmptySeq, LenProperties
<1>2. /\ rest \in Seq(Messages)
      /\ Len(rest) = Len(s) - 1
      /\ \A i \in 1 .. Len(rest) : rest[i] = s[i + 1]
  BY HeadTailProperties
<1>3. /\ st \in Seq(Messages)
      /\ Len(st) = Len(s) + Len(t)
      /\ \A i \in 1 .. Len(s) + Len(t) : st[i] = IF i <= Len(s) THEN s[i] ELSE t[i - Len(s)]
  BY ConcatProperties
<1> HIDE DEF st, rest
<1>4. /\ short \in Seq(Messages)
      /\ Len(short) = Len(rest) + Len(t)
      /\ \A i \in 1 .. Len(rest) + Len(t) :
            short[i] = IF i <= Len(rest) THEN rest[i] ELSE t[i - Len(rest)]
  BY <1>2, ConcatProperties
<1> HIDE DEF short
<1>5. st # <<>> /\ Head(st) = Head(s)
  BY <1>1, <1>3, EmptySeq
<1>6. /\ Tail(st) \in Seq(Messages)
      /\ Len(Tail(st)) = Len(st) - 1
      /\ \A i \in 1 .. Len(Tail(st)) : Tail(st)[i] = st[i + 1]
  BY <1>3, <1>5, HeadTailProperties
<1>7. Len(Tail(st)) = Len(short)
  BY <1>1, <1>2, <1>3, <1>4, <1>6
<1>8. ASSUME NEW i \in 1 .. Len(short) PROVE st[i + 1] = short[i]
  <2>1. CASE i <= Len(rest)
    BY <1>1, <1>2, <1>3, <1>4, <2>1
  <2>2. CASE i > Len(rest)
    <3>1. (i + 1) - Len(s) = i - Len(rest)
      BY <1>1, <1>2
    <3>2. short[i] = t[i - Len(rest)]
      <4>1. i \in 1 .. Len(rest) + Len(t) /\ ~ (i <= Len(rest))
        BY <1>1, <1>2, <1>4, <2>2
      <4> QED
        BY <1>4, <4>1, Zenon
    <3>3. st[i + 1] = t[(i + 1) - Len(s)]
      BY <1>1, <1>2, <1>3, <1>4, <2>2
    <3> QED
      BY <3>1, <3>2, <3>3
  <2> QED
    BY <1>1, <1>2, <1>4, <2>1, <2>2
<1>9. Tail(st) = short
  BY <1>4, <1>6, <1>7, <1>8, SeqEqual
<1> QED
  BY <1>5, <1>9 DEF st, short, rest

\* The oldest event leaves the queue.
LEMMA PipeTail ==
  ASSUME TypesOK, in # <<>>
  PROVE  /\ Pipe # <<>>
         /\ Head(Pipe) = Head(in)
         /\ Tail(Pipe) = (Tail(in) \o Held) \o wire
<1> DEFINE front == in \o Held
<1>1. /\ in \in Seq(Messages)
      /\ Held \in Seq(Messages)
      /\ wire \in Seq(Messages)
      /\ front \in Seq(Messages)
  BY PipeType DEF TypesOK
<1>2. front # <<>> /\ Head(front) = Head(in) /\ Tail(front) = Tail(in) \o Held
  BY <1>1, ConcatTail
<1> HIDE DEF front
<1>3. /\ front \o wire # <<>>
      /\ Head(front \o wire) = Head(front)
      /\ Tail(front \o wire) = Tail(front) \o wire
  BY <1>1, <1>2, ConcatTail
<1> QED
  BY <1>2, <1>3 DEF Pipe, front

\* An event dropped makes a gap, if there was one to drop.
LEMMA EvictIInv == IInv /\ Evict => IInv'
<1> SUFFICES ASSUME IInv, Evict PROVE IInv'
  OBVIOUS
<1>1. /\ UNCHANGED <<held, cache, world, up, wire, sent, view, ghosts>>
      /\ in' = IF in = <<>> THEN in ELSE Tail(in)
      /\ ingest' = "retry"
      /\ held # NoEvent
      /\ trusted' = (trusted /\ in' = in)
  BY DEF Evict, IngestEvict, cacheVars, sourceVars, IInv, Room
<1>2. in \in Seq(Messages) /\ Len(in) \in Nat /\ trusted \in BOOLEAN
  BY LenProperties DEF IInv, TypesOK
<1>3. CASE in = <<>>
  <2>1. in' = in /\ trusted' = trusted
    BY <1>1, <1>2, <1>3
  <2>2. TypesOK' /\ Faithful'
    BY <1>1, <2>1 DEF IInv, TypesOK, Faithful, Shows
  <2>3. Room'
    BY <1>1, <1>3, <2>1, EmptySeq, StoreAssumption DEF IInv, Room
  <2>4. Pipe' = Pipe
    BY <1>1, <2>1 DEF Pipe, Held
  <2>5. Chained'
    BY <1>1, <2>1, <2>4 DEF IInv, Chained
  <2> QED
    BY <2>2, <2>3, <2>5 DEF IInv
<1>4. CASE in # <<>>
  <2>1. in' = Tail(in) /\ Tail(in) \in Seq(Messages) /\ Len(Tail(in)) = Len(in) - 1
    BY <1>1, <1>2, <1>4, HeadTailProperties
  <2>2. Len(in') = Len(in) - 1
    BY <2>1, Zenon
  <2>3. trusted' = FALSE
    <3>1. in' # in
      <4>1. Len(in') # Len(in)
        BY <1>2, <2>2
      <4> QED
        BY <4>1
    <3> QED
      BY <1>1, <3>1
  <2>4. TypesOK' /\ Room' /\ Faithful'
    <3>1. TypesOK'
      BY <1>1, <2>1, <2>3 DEF IInv, TypesOK
    <3>2. Room'
      BY <1>1, <1>2, <2>2, StoreAssumption DEF IInv, Room
    <3> QED
      BY <2>3, <3>1, <3>2 DEF Faithful
  <2> DEFINE p == Pipe
  <2>5. p \in Seq(Messages) /\ p # <<>> /\ Linked(p, view, trusted)
    BY <1>4, PipeType, PipeTail DEF IInv, Chained
  <2>6. Pipe' = Tail(p)
    <3>1. Held' = Held
      BY <1>1 DEF Held
    <3> QED
      BY <1>1, <1>4, <2>1, <3>1, PipeTail DEF Pipe, IInv
  <2>7. Pipe' # <<>>
    <3>1. Tail(in) \o Held # <<>> /\ Tail(in) \o Held \in Seq(Messages)
      <4>1. Held \in Seq(Messages) /\ Held = <<held>>
        BY <1>1, PipeType DEF Held, IInv
      <4> QED
        BY <2>1, <4>1, ConcatEqualIffEmpty, ConcatProperties
    <3>2. Pipe' = (Tail(in) \o Held) \o wire
      BY <1>1, <2>1 DEF Pipe, Held
    <3> QED
      BY <3>1, <3>2, ConcatTail DEF IInv, TypesOK
  <2> HIDE DEF p
  <2>8. /\ Linked(Tail(p), view, FALSE)
        /\ Leads(Tail(p), Head(p).view) = Leads(p, view)
    BY <1>2, <2>5, TailLinked
  <2>9. Leads(Pipe', view) = Leads(p, view)
    BY <2>6, <2>7, <2>8 DEF Leads
  <2>10. Chained'
    BY <1>1, <2>3, <2>6, <2>8, <2>9 DEF IInv, Chained, p
  <2> QED
    BY <2>4, <2>10 DEF IInv
<1> QED
  BY <1>3, <1>4

LEMMA ApplyIInv == IInv /\ ApplyEvent => IInv'
<1> SUFFICES ASSUME IInv, ApplyEvent PROVE IInv'
  OBVIOUS
<1> DEFINE m == Head(in)
<1>1. /\ UNCHANGED <<held, ingest, world, up, wire, sent>>
      /\ in # <<>>
      /\ in' = Tail(in)
      /\ view' = m.view
      /\ trusted' = (Decodes(m) /\ (trusted \/ m.full))
      /\ ghosts' = IF m.full THEN DOMAIN cache' \ DOMAIN m.view
                    ELSE ghosts \ DOMAIN m.view
  BY DEF ApplyEvent, WriterApply, sourceVars
<1>2. PICK r \in Apply(cache, m) : cache' = r.cache
  BY DEF ApplyEvent, WriterApply
<1>3. /\ in \in Seq(Messages)
      /\ m \in Messages
      /\ m.view \in Caches
      /\ m.full \in BOOLEAN
      /\ Tail(in) \in Seq(Messages)
      /\ Len(Tail(in)) = Len(in) - 1
      /\ Len(in) \in Nat
      /\ trusted \in BOOLEAN
      /\ view \in Caches
  <2>1. in \in Seq(Messages) /\ trusted \in BOOLEAN /\ view \in Caches
    BY DEF IInv, TypesOK
  <2>2. m \in Messages /\ Tail(in) \in Seq(Messages) /\ Len(Tail(in)) = Len(in) - 1
    BY <1>1, <2>1, HeadTailProperties
  <2>3. Len(in) \in Nat
    BY <2>1, LenProperties
  <2> HIDE DEF m
  <2> QED
    BY <2>1, <2>2, <2>3 DEF Messages
<1> DEFINE p == Pipe
<1>4. p \in Seq(Messages) /\ p # <<>> /\ Head(p) = m /\ Linked(p, view, trusted)
  BY <1>1, PipeType, PipeTail DEF IInv, Chained
<1>5. Pipe' = Tail(p)
  <2>1. Held' = Held
    BY <1>1 DEF Held
  <2> QED
    BY <1>1, <2>1, PipeTail DEF Pipe, IInv
<1> HIDE DEF m, p
<1>6. TypesOK'
  BY <1>1, <1>3 DEF IInv, TypesOK, Decodes
<1>7. Room'
  BY <1>1, <1>3, StoreAssumption DEF IInv, Room
<1>8. Chained'
  <2>1. Linked(Tail(p), m.view, TRUE) /\ Leads(Tail(p), m.view) = Leads(p, view)
    BY <1>3, <1>4, TailLinked
  <2>2. Linked(Tail(p), m.view, trusted')
    BY <2>1 DEF Linked
  <2> QED
    BY <1>1, <1>5, <2>1, <2>2 DEF IInv, Chained, p
<1>9. Faithful'
  <2> SUFFICES ASSUME trusted' PROVE /\ Shows(cache', view')
                                     /\ DOMAIN cache' = DOMAIN view' \cup ghosts'
                                     /\ ghosts' \cap DOMAIN view' = {}
    BY DEF Faithful
  <2>1. Decodes(m) /\ (trusted \/ m.full)
    BY <1>1, Zenon
  <2>2. Describes(m, view)
    <3>1. 1 \in 1 .. Len(p) /\ p[1] = m
      BY <1>4, EmptySeq, LenProperties
    <3> QED
      BY <2>1, <3>1, <1>4 DEF Linked
  <2>3. m.full \/ /\ Shows(cache, view)
                  /\ DOMAIN cache = DOMAIN view \cup ghosts
                  /\ ghosts \cap DOMAIN view = {}
    BY <2>1 DEF IInv, Faithful
  <2> DEFINE from == IF m.full THEN EmptyCache ELSE view
  <2>4. /\ Shows(cache', m.view)
        /\ DOMAIN cache' = (DOMAIN cache \ (DOMAIN from \ DOMAIN m.view)) \cup DOMAIN m.view
    <3>1. m.full \/ Shows(cache, view)
      BY <2>3
    <3>2. /\ Shows(r.cache, m.view)
          /\ DOMAIN r.cache =
                (DOMAIN cache \ (DOMAIN from \ DOMAIN m.view)) \cup DOMAIN m.view
      BY <1>3, <2>1, <2>2, <3>1, DescribedApplies, Zenon
    <3> HIDE DEF from
    <3> QED
      BY <1>2, <3>2
  <2>5. CASE m.full
    BY <1>1, <2>4, <2>5
  <2>6. CASE ~m.full
    BY <1>1, <2>3, <2>4, <2>6
  <2> QED
    BY <2>5, <2>6
<1> QED
  BY <1>6, <1>7, <1>8, <1>9 DEF IInv

LEMMA NextIInv == IInv /\ [Next]_vars => IInv'
<1> SUFFICES ASSUME IInv, [Next]_vars PROVE IInv'
  OBVIOUS
<1>1. CASE Change
  BY <1>1, ChangeIInv
<1>2. CASE Connect
  BY <1>2, ConnectIInv
<1>3. CASE Disconnect
  BY <1>3, DisconnectIInv
<1>4. CASE Read \/ ReadFaulty
  BY <1>4, ReadIInv
<1>5. CASE Ingest
  BY <1>5, IngestIInv
<1>6. CASE Evict
  BY <1>6, EvictIInv
<1>7. CASE ApplyEvent
  BY <1>7, ApplyIInv
<1>8. CASE Publish \/ PublishEnd \/ Idle \/ Ticker \/ UNCHANGED vars
  <2>1. UNCHANGED <<queueVars, cache, world, up, wire, sent, ghostVars>>
    BY <1>8
    DEF Publish, PublishEnd, Idle, Ticker, WriterPublish, WriterPublished, WriterIdle,
        Tick, vars, storeVars, cacheVars, sourceVars
  <2> QED
    BY <2>1, OthersIInv
<1> QED
  BY <1>1, <1>2, <1>3, <1>4, <1>5, <1>6, <1>7, <1>8 DEF Next

LEMMA IInvHolds == Spec => []IInv
<1> QED
  BY InitIInv, NextIInv, PTL DEF Spec

-------------------------------------------------------------------------------

\* Whatever appears, changes and goes, however often the connection is lost and
\* however far the store falls behind: as long as no event was lost or malformed
\* since the last full one, the cache is what Home Assistant described, plus what
\* disappeared unseen during an outage.
THEOREM CacheMirrors == Spec => []CacheFaithful
<1>1. IInv => CacheFaithful
  BY DEF IInv, Faithful, CacheFaithful
<1> QED
  BY <1>1, IInvHolds, PTL

\* Ingest's third select always has room: it gives up old events, as its comment
\* says, and never the one it was called with.
THEOREM NewestIsQueued == Spec => [](ingest = "retry" => ~Full)
<1>1. IInv => (ingest = "retry" => ~Full)
  BY StoreAssumption, LenProperties DEF IInv, TypesOK, Room, Full
<1> QED
  BY <1>1, IInvHolds, PTL

===============================================================================
