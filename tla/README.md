# A formal model of hatty

hatty mirrors a Home Assistant instance over one WebSocket and shows dashboards of
it to SSH clients. These TLA+ modules model its core: the connection, the store that
holds the mirror and the history of its charts, the keys that open a session, the
sessions that follow the store, and what a session draws. TLC checks them on small
instances, and TLAPS proves the most important safety properties for every value of
their constants.

All paths are relative to the repository. `PROJECT.json` lists the runs, the
correspondence of definitions and source lines, hazards, findings and theorems.

## 1. The system

### Components

| component | source | state | operations |
|---|---|---|---|
| connection | `internal/ha/conn.go`, `client.go` | phase of `Run`, backoff; per `Conn` the message ids, ids of pending statistics requests, statistics revision, whether a forecast was seen | dial and authenticate, subscribe to entities and forecasts, request statistics, read with a deadline, wait and start over |
| decoder and cache | `internal/ha/compressed.go` | the entity map | decode an event, apply additions, changes (a diff) and removals |
| store | `internal/state/store.go` | queue of 64 events, cache, dirty flag, time of the last publish, subscribers, published snapshot | `Ingest` (producer), `Run` (the single writer), `Subscribe` and its `unsub`, `Snapshot` |
| series and their history | `internal/state/ring.go`, `store.go`, `internal/ha/statistics.go` | a ring per series: slots, bucket indices, newest bucket; the series in the snapshot | `Track`, `Put`, `Series`; `accumulate` at each publish, `PutStatistics` of the decoded rows |
| frame sink | `internal/server/sink.go` | one frame in an atomic pointer, a wake channel of one, counters | `Push` (never blocks), the loop that sends, `Close` |
| authorized keys | `internal/server/authkeys.go`, `cmd/hatty/main.go` | the keys in force, behind a lock; a channel of one signal | reload on SIGHUP, look up at a handshake |
| session | `internal/server/serve.go`, `session.go` | a goroutine per client; the Bubble Tea model with snapshot and size | subscribe, be called back, unsubscribe at the end; `Update`, `View` |
| layout solver | `internal/layout/layout.go` | none | `Solve`: drop, squeeze, grow, gap; the columns of a table |
| bindings and panels | `internal/config/binding.go`, `internal/model/*.go` | none | resolve a path, guard, condition, alert strip, table, detail, decisions, live series |
| configuration | `internal/config/validate.go`, `schema.go` | none | `Load`, `Validate`, `Subscriptions` |
| widgets, rendering | `internal/widget`, `internal/render` | none | styled text of a given width; the run chart's dots |
| process | `cmd/hatty/main.go` | flags, contexts, signals | start everything once |

### Interaction

    Home Assistant --WebSocket--> Run/Read --Ingest--> [queue 64] --> store writer
                                     |                                  |  publish on a
                                     | statistics                       |  tick if dirty,
                                     v                                  |  or heartbeat
                                  chart rings <---- live values --------+
                                                                        | callback
                            session's sink [1 frame] <------------------+
                                     | loop
                                     v
                            p.Send --> Update --> View --> SSH client

    authorized_keys --SIGHUP [1]--> reload --> keys in force <-- look-up -- handshake
    dashboard file --Load/Validate--> what View draws and Run subscribes to

Each arrow crosses goroutines, but for the last line. The reader never waits for the
writer (`Ingest` drops the oldest event when the queue is full), and the writer never
waits for a client (`Push` replaces the frame in the slot). Sessions reach the writer
through an unbuffered channel and are called back from its goroutine. The handshake and
the reload share the set of keys.

### What is hard here

- The wakeup protocol of the sink: two atomic operations on either side.
- Registration and removal while the writer publishes or stops.
- A diff protocol over a queue that drops, a connection that breaks, and events
  that are malformed half-way.
- Statistics and live values for one bucket, in any order and revision; rows with parts
  missing, put in while the writer wants to publish.
- Reconnection at every point of the handshake and of the subscriptions; silence, which
  only the reading of events has a deadline for.
- Keys that are replaced while they are looked up, from a file in any condition, on
  signals that do not queue.
- A layout whose three loops must agree at every size of the terminal, and with what the
  configuration promised when it was loaded.
- Values that are not there, which must look neither like zero nor like a number.
- Templates that are expanded by repeated replacement, in the order of a map.

The list `hazards` of PROJECT.json has each with its line and the properties that
would catch it.

### What makes each component correct

- Sink: no frame forgotten, each counted once, in order, none after `Close`; nobody
  hangs. In short: it is a mailbox with room for one.
- Series: what is charted depends on the set of samples and their standing, not on their
  order; the chart is one curve, and height means value.
- Cache: it is what Home Assistant described; diffs lose nothing.
- Store: what was applied is published; registrations are kept, and end.
- Authorized keys: the list in force is one the file has held, never an empty one, and
  nobody is let in who is not on it; no signal is lost and a revocation lands.
- Connection: everything is asked for on every connection; it comes back whenever a
  handshake does not hold it.
- Screen: each row has one owner, importance decides who gives way, and of a dashboard
  that was accepted what there is room for is drawn.
- Panels: complete, ordered, stable, and nothing shown that is not known.

## 2. The modules

| module | models | extends / uses |
|---|---|---|
| `Mailbox` | the abstract one-slot mailbox a session's clients see | |
| `Sink` | `sink.go`, one action per atomic operation | implements `Mailbox` |
| `Ring` | `ring.go` | |
| `RunChart` | the geometry of `runchart.go`: bounds, lines of dots, blocks | |
| `History` | the store's series: publishes and backfills, `statistics.go`, what is charted | `Ring`, `RunChart` |
| `PutLog` | the store's series with a log of all that was put, and the reference definition | `History` |
| `Compressed` | `compressed.go`, with the event Home Assistant makes of two states | |
| `Store` | `store.go`: the steps of `Ingest` and of the writer | `Compressed` |
| `Mirror` | the store with a Home Assistant, a wire and a reader | `Store` |
| `Sessions` | the store with the goroutines of `serve.go`, each with a mailbox | `Store` |
| `Admission` | `authkeys.go`, the reloader of `main.go`, handshakes and the end of `Serve` | |
| `HaConn` | `conn.go`, `client.go`, with a Home Assistant that fails | `Compressed`, `Ring` (instance) |
| `Layout` | `layout.go`, one step per turn of a loop | |
| `Validate` | `validate.go`, and the columns of a table | |
| `Screen` | `session.go`, the specs `build.go` makes, what the widgets draw of their data | `Layout`, `Validate` |
| `Bindings` | values, guards, conditions, for any way of walking a path (`Follow`) | |
| `Paths` | the walk of a path | `Bindings` |
| `Panels` | what a dashboard subscribes to and shows of a snapshot | `Bindings` |
| `*Proofs` | theorems about the module they are named for (`SinkProofs`, `HistoryProofs`, `MirrorProofs`, `SessionsProofs`, `AdmissionProofs`, `HaConnProofs`, `ScreenProofs`, `PanelsProofs`); `HistoryProofs` is also about `Ring`, `PutLog` and `RunChart`, `MirrorProofs` about `Compressed`, `ScreenProofs` about `Layout` and `Validate` | TLAPS |
| `MC*` | constants for TLC | |

A definition named `X_Slip` beside a definition `X` is `X` with a slip a programmer
could make. It is no part of the specification: it shows that a property can fail.

### Correspondence

**Sink.** `slot`, `wake`, `ctxDone` and the counters are `latest`, the channel, the
context and the atomics. `PushSwap`, `PushCount`, `PushWake` are the three operations of
`Push`; `LoopWake` or `LoopCancelled`, `LoopSwap`, `SendOk`/`SendError`, `LoopCount`,
`LoopDone` those of the loop; `CloseCancel` and `CloseReturn` those of `Close`. Frames
are numbers in the order they are pushed. `Send` is external: it may take for ever
until its context is cancelled. In `Mailbox`, `Offer` is the swap of `Push` and `Take`
that of the loop.

**Ring, History, RunChart.** `PutInto` is `Put` as a function on the ring, so that
histories can be replayed. Time is a number, of which `bucketOf` makes the bucket.
`AccumulateValue` and `Accumulate` are what a publish does for a series, with a value of
its extractor and without; `Backfill` is `PutStatistics` up to its lock, and `PutRow` one
turn of its loop, so that whatever wants the lock waits for all of the rows. `Decoded`
is a row of `decodeStatistics`, `Value` the aggregate, a mean here. `StatTracker` and
`LiveTracker` are the sizes `main` gives the rings. `SeriesValues` is the series in the
snapshot, and `braille`, `BlockRow` and `BlockLevel` are where the chart draws it: a dot,
or the row of a block and how much of the row the block fills. Numbers are whole
and divided exactly. `PutLog` adds `puts`, the log of the samples put: `Reference` says from
the log alone what each bucket should show, and `Exchange` is a log with two puts swapped.

**Compressed, Store.** An entity is a state and attributes. An event is `a`, `c`, `r`:
entities added, diffs, ids removed; an entry can be malformed. Go ranges over a map in
any order, so an event with a malformed entry has several outcomes: `Apply` is the set
of them, each with the cache and whether it got to the end. `WriterPublish` is `publish`
up to its callbacks, `WriterCall` a callback, `WriterPublished` its end. Wall-clock time
is counted in ticks up to the heartbeat. `s.mu` is left out: it guards single steps.

**Mirror.** Home Assistant's `world` changes, and each change while the connection is up
puts a diff on the wire; `Connect` puts everything there first. `view`, `trusted`,
`ghosts` and the numbers of events are for the properties only.

**Sessions.** The program counter of a session is where its goroutine is in
`newProgram` and in `Subscribe` or `unsub`. The rendezvous on `s.subs` is one step of
both. Of the sink only the mailbox is used, which `Sink` implements.

**Admission.** `Edit` writes `authorized_keys`, of which only the keys on lines that can
be parsed matter; an editor that truncates a file first makes two edits. `Hangup` puts
the signal into the channel of one, or drops it. `ReloadBegins`, `ReloadReads`,
`ReloadSwaps` are a turn of the reloader's loop: take the signal, read the file, put the
keys in force if there are any. `Handshake` looks a key up, `Opens` starts the session,
`Leaves` ends it; `Terminate` is SIGTERM and `Shutdown` the return of `Serve`.

**HaConn.** `phase` is the position in `Run` and `Dial`. A peer may fall silent or break
off in any of them, the handshake included. Home Assistant refuses an id
that is not above all before it. `Answer` sends the answers due in any order, `Event`
unasked ones. Result messages carry kind and id. The statistics go into a `Ring` of one
bucket; `forecastEvent` goes through `Compressed!Apply`.

**Layout, Validate, Screen.** `Solve` is sequential, and its loops are steps (`Drop`,
`Squeeze`, `Grow`) so that `ViewEnds` can say that they end. `Screen` calls it from
`View`, for a size and a snapshot that change at any time between calls, and for a
dashboard that `Validate` accepted (`Loads`). `Errors` is the set of what `Validate`
finds: every rule runs. Whether a text - binding, guard, template, condition - is well
formed is one fact per panel. A line is known by whose it is, `ItemsDrawn` and
`CellsDrawn` are how much of the data is in it: none where no column of a table is there.
As in the schema, a table has the collection in `bind` beside those in `binds`.

**Bindings, Panels.** An attribute tree is made of tagged records: number, text, null,
map, list. `Follow` is `Binding.Resolve`, a constant of `Bindings` which the runs set to
`Paths!Walk`: what the panels do with a value does not depend on how it was reached, and
`Walk` is recursive. `Resolve` and `Guarded` are the resolver's, `Test` is the
condition's. `Picked` is a loop that keeps some elements of a list, and `sortRecords` is
`sort.SliceStable`: a record's place is the number of records ahead of it, by the order or,
where that does not tell, by where they were. `tableBinds` are the collections of a table,
the one in `bind` first. `Compare` has the six operators; a condition's literal is a
number, compared with a value's number, or a text. A text of the alert strip is a sequence
of pieces, of which braces are some: `Chars` says how a value is written, a placeholder is
three pieces, and `replaceAll` replaces it wherever it stands, in what was put in as well,
until none is left. `Endless` is the call that does not return. The variables are expanded
in any order. The frame is built anew whenever an entity changes. No caller passes a
`staleAfter` other than zero, so that no value is ever stale.

## 3. The runs

| run | what it explores | distinct states | shows |
|---|---|---|---|
| `sink` | 5 frames, cancellation and `Close` at any time | 3137 | the properties of the sink; that it implements `Mailbox`, safety and liveness |
| `history` | every history of 4 samples, live or from statistics of 2 revisions with rows incomplete; a window of 3 buckets, 4 buckets, 3 values; 4 sizes of the chart | 425682 | the series equals a definition over the history; backfill and live writes commute; statistics keep their authority; the chart is one curve that does not lie about height |
| `admission` | 2 keys, 3 edits, signals, reloads, handshakes and SIGTERM at any time | 77193 | only keys on the list in force get in, which once a signal is served is the file's; no signal is lost, a revocation lands |
| `mirror` | 2 entities, 2 attributes, 2 changes, 2 connections, 1 malformed event, a queue of 1 | 322303 | the cache is faithful, everything applied is published, the snapshot converges |
| `mirror_lag` | the same, nothing malformed | violation | a full queue loses what cannot be recovered (finding 1) |
| `sessions` | 1 session, 2 events, shutdown, a client that stops reading | 12876 | nobody is called after `unsub` returned; the writer is never held up; goroutines end; the newest snapshot is shown |
| `haconn` | outages, silence, refused tokens, cancellation at any point; a backoff of 1, 2, 3 seconds; one revision of the statistics | 260764 | ids, subscriptions, results and forecasts; a connection resets the wait; `Run` returns and reconnects, unless a handshake holds it for ever |
| `haconn_refetch` | the same | violation | a refetch does not land (finding 2) |
| `screen` | 12 dashboards, 7 of which `Validate` rejects; 30 sizes, 6 amounts of data | 11595 | each row has one owner; the right panel gives way; only terminals that are too small are refused, by `View` or the solver; what has room is drawn; `View` ends |
| `screen_exact` | the same | violation | a frame is shorter than the terminal (finding 3) |
| `panels` | 4 tables over two collections of contacts, one of them with a collection in `bind` and one in `binds`; a dashboard of guarded fields, decisions with all six operators and a series; an alert strip | 7222 | tables complete, ordered and stable; no field or decision without a value; the strip alerts while its source is on, and is its template filled in |
| `panels_numbers` | the same | violation | a number no binding names (finding 4) |

### Bounds, and why they are enough

- `MaxFrames = 5`: one frame in the loop's hands, one in the slot, one to replace it, and two
  after those are gone.
- `MaxPuts = 4`, times 0, 1, 3 and 7 in buckets of 2: a bucket evicted, one too late, two
  that share a slot, a gap in between, and a fourth sample to exchange with any of them.
  Three values: a least, a greatest, and one between that is not in the middle.
- Charts of 1 to 3 columns and rows: fewer columns of dots than samples, more, and as
  many; with a row for the legend and without.
- Admission: two keys, so that one can be revoked while the other stays; three edits, so
  that a file can be spoilt and repaired after a first change.
- `Capacity = 1`: the queue is full as often as possible. Nothing in the code depends on
  its length. `sessions` needs no full queue.
- `MaxConnects = 2`: what one connection leaves to the next. `MaxChanges = 2`: a change
  before and after anything else that happens. `MaxFaults = 1`: the second malformed
  event meets the state the first left, which is a cache that is not trusted.
- `Heartbeat = 2`: a tick at which nothing is due and one at which it is.
- `MaxBackoff = 3`: the wait doubles once freely and once into the cap.
- `MaxWire = 1`: answers are taken one at a time, in every order.
- Screen: heights around each threshold of each dashboard, and widths around each
  breakpoint of a table; two dashboards have a floor low enough for panels to be dropped,
  and each that is rejected breaks one rule of `Validate`. One accepted table has no column
  at the floor, and one has a union `Validate` does not count.
- Panels: up to two contacts per collection, which share contacts, of three, each with
  or without a distance; two of them within one bucket of the hysteresis. The strip has
  two variables, whose values may be the other's placeholder, or contain their own.
- `MaxReplacements = 4`: the template has a variable twice, and each value that is put in
  brings at most one more, of the other variable; so 4 replacements do for those that end.
- `sessions` has one client: that the ids of several do not collide is proved for any
  number (`RegistrationsKept`).

Deadlock checking is off where the system may stop: when the histories are bounded,
when the store has been shut down, when a sink is closed, when the process has exited,
when the world has made all its changes, and in `panels` when a session does not come
back from a template.

### Fairness

The Go scheduler runs every goroutine that can run: weak fairness for each of its steps.
`select` chooses at random among the cases that are ready, so a case that is ready again
and again is chosen in the end: strong fairness for what the writer's select may choose
(an event, a registration, a publish) and for the two sides of the rendezvous. Tickers
tick. The reloader's goroutine runs; the operator is not assumed to do anything. A client
is not assumed to read: `Send` is fair only once its context is done, and
`ShowsNewest` is about clients that read. Home Assistant and the network are not assumed
to be well. `Reconnects` says what happens once they stay well; it assumes that an
answer due is sent while they are. Of a handshake with a peer that is not well nothing is
assumed: it may be answered, break off, or stay silent. As the code has no deadline for it
and does not look at its context there (section 6), `RunReturns` and `Reconnects` are
false of a peer that stays silent for ever. They state that as their premise,
`HandshakesEnd`: from any point `Run` gets out of a handshake again. Without the premise
TLC finds both violated by a handshake that never ends.

## 4. The proofs

`tlapm` checks, for every value of the constants that satisfies the named assumptions:

| module | theorems | argument |
|---|---|---|
| `SinkProofs` | `TypeCorrect`, `WakeupSafe`, `AccountsBalance`, `OrderKept`, `CloseIsFinal`, `SinkIsMailbox` | any number of frames (`MaxFramesAssumption`). The properties are proved together: the order of frames needs to know where the loop is while it holds one, the accounts that it overwrites none, the end that a loop which has left has a cancelled context. Each step is a step of `Mailbox` or a stutter. |
| `HistoryProofs` | `TypeCorrect`, `SeriesInOrder`, `LateSamplesEvictNothing`, `AuthorityOnlyGrows` | any size, bucket length and samples (`RingAssumption`). Two buckets that share a slot are a window apart (`SlotsDistinct`), so at most one of the two is in the window; that is why a claim only goes forward. |
| | `HistoryIsRing`, `SeriesKeepAuthority`, `SeriesStayInOrder`, `StatisticsFit` | any statistics (`HistoryAssumption`). Every step of the store on a series is a `Put` of a sample or leaves the ring alone, because a row that is put in has a start and an aggregate; so `History` implements `Ring`, whose theorems hold of every series. `StatisticsFit` is about the size `main` computes: no two rows of a window share a slot. |
| | `SeriesIsDetermined`, `OrderOfWritesIsFree` | a log of any length. That the series equals its reference is not inductive: it says nothing of buckets out of sight. `Remembers` does: the newest bucket is the log's, and each slot holds the best sample of its bucket in the log if that bucket is in the window, and nothing of the window otherwise. A put keeps it (`PutRemembers`), because the log's best only changes for the bucket put. For two writes that are exchanged it is used once more: both replays remember their log, and the two logs have the same best sample of each bucket (`BestExchanged`), so that both show the same series. |
| | `CurvesUnbroken`, `ChartsToScale` | any ring, any values and any size of panel (`ChartAssumption`). A line of dots has steps of at most a row per column and both its ends (`LineEnds`, `LineSteps`); columns stay without holes when a line is added that starts in a dot already there (`CurveGrows`), so that a curve of any number of samples is connected. Scale is monotone, in dots, in rows and within a row of blocks, by three facts about quotients (`Quotient`, `NearQuotients`, `BetweenMonotone`), which the provers cannot find inside a larger obligation. `KthExists` says that a finite set has a k-th smallest member, by which `Series` is a sequence of values put. |
| `MirrorProofs` | `DiffRoundTrip`, `EventApplies`, `EventRoundTrip` | any entities, attributes and values (`MarkersDistinct`). What the diff of two states removes and sets is what the second lacks and has. `EventApplies` is the same for a cache that holds other entities too. |
| | `CacheMirrors`, `NewestIsQueued` | any capacity, number of changes, connections and malformed events (`MirrorAssumption`). `CacheFaithful` is not inductive: it says nothing of what is on its way. The invariant takes the queue, the event in `Ingest`'s hand and the wire as one pipe, which is a chain: each event that decodes tells the step from the world before it (`Linked`), and while the connection is up the chain ends in the present world. Only its first link may be missing, where an event was given up or malformed, and then the cache is not trusted until a full event is applied. Dropping the head, appending and applying keep the chain; applying is `EventApplies`. |
| `SessionsProofs` | `RegistrationsKept`, `UnsubscribeIsFinal` | any set of clients, any number of events. Neither is inductive: that a removal removes the right registration follows from `OwnersKnow`, that each registration belongs to a session that knows its id and has not unsubscribed, which in turn needs that ids are never used twice. |
| `AdmissionProofs` | `FailsClosed`, `NoSignalLost` | any keys and number of edits (`AdmissionAssumption`). What the reloader has read is something the file has held; and while the list in force is not the one announced, a signal or a reload that will read it is under way. `FailsClosed` is about steps: `Handshake` is the only one by which a client gets in, and it looks into the list in force, which is the file's once the last signal has been served (`LetInListed`). |
| `HaConnProofs` | `TypeCorrect`, `EverythingAsked`, `ResultsRecognised`, `ForecastsKept` | any wait and any number of messages and revisions. The ids count the commands of a connection, so that the phase fixes the id of each (`InStep`); the request for statistics is answered once, and until the answer is read its id is on record (`AnsweredOnce`); that a forecast has been seen on the connection is the same as that one of them is in the entity (`Merged`). |
| `ScreenProofs` | `EveryRowIsAssigned`, `ReservedStays`, `ImportanceDecidesAlways`, `SpaceIsNotTrapped`, `RefusedForCauseAlways`, `WhatFitsIsDrawn` | any dashboards, snapshots and sizes (`ScreenAssumption`). The invariant, which TLC has checked too, follows `Solve` through its loops: the books (`slack` is the rows less what the panels in have, and sums over a set change by one term at a time), the order (whoever is out comes before all that are in and may go), the heights between minimum and natural height while squeezing, between natural height and cap while growing, and who was passed over. When the loops are done the books say that nothing is left, or that nobody can use it. That regions do not overlap is about sums over the panels above (`Stacking`); that the gap is split without a remainder is arithmetic. |
| `PanelsProofs` | `TableIsComplete`, `NearestAreFirst`, `RowsStayPut`, `OnlyTheKnownIsShown`, `DecisionsFounded` | any Home Assistant, any dashboards and any `Follow` (`DashboardsAssumption`, `EntitiesAssumption`, `ContactsAssumption`). The invariant is that the frame is one that may come of the present snapshot. A value is usable just when what its binding names exists, because an entity that is named is subscribed to, guards included (`SeenAsIs`, `ValueOf`). A strict total order of a finite set gives each member a rank of its own (`Ranks`), so that picking and sorting lose and double nothing (`PickedInOrder`, `SortedInOrder`). The first occurrence of each contact is kept, by least counterexample (`UnionIsWhole`). Rows hold still because the order is total on contacts with different hex codes and looks at nothing but the two records (`PrecedesOrders`). |

The assumptions are evaluated by TLC in each run that extends the module. Some results
are proved and no longer run, as the proofs cover what the runs did: the order of frames
(`OrderKept`), the order of series and that late samples evict nothing (`SeriesInOrder`,
`LateSamplesEvictNothing`), that `Ingest` never gives up the newest event
(`NewestIsQueued`), and that a session's id is its own (`RegistrationsKept`).

Inductions over numbers, finite sets and logs are made without the library's induction
theorems, whose parameter is an operator: `NumberInduction` is about a set of numbers, and
the least counterexample is found by well-founded induction on a set.

`DashboardsAssumption` has the shape of the schema and the rule of `Validate` that a union
has a key, which like `validate.go:136` counts the collections in `binds` only.
`EntitiesAssumption` says that a state is text.
`ContactsAssumption` is about ha-airspace, which is external: a collection lists an
aircraft once, under its hex code; the key a table dedupes by tells aircraft apart as the
hex code does, as in the dashboards that are shipped; a key that is bucketed is a distance
and not negative.

With this every invariant and every action property the passing runs check is a theorem,
but for `StripIsKnown`, and so is the safety part of the sink's refinement. Only
model-checked are `StripIsKnown`, as what repeated replacement comes to is an induction
over texts; the liveness properties (fairness and ENABLED are outside the prover): `NothingHangs`,
`ImplementsDelivery`, `RevocationLands`, `Published`, `SnapshotConverges`, `WriterFree`,
`GoroutineEnds`, `ShowsNewest`, `RunReturns`, `Reconnects`, `ViewEnds`; and what the walk of
a path comes to, which is recursive: the theorems about panels speak of what `Follow` finds.

## 5. Findings

1. *Falling behind is not recoverable* (`mirror_lag`). `Ingest` drops the oldest event
   of a full queue. It was a diff; nothing asks for the whole state again while the
   connection lasts. `store.go:106-108` says that falling behind is recoverable.
2. *A refetch does not land* (`haconn_refetch`). `statsRev` begins at zero on each
   connection, so that the backfill after a reconnect has revision 1 again and `Put`
   ignores it. `store.go:319-321` says that it lands.
3. *A frame is short* (`screen_exact`). `View` subtracts a row for the rule of each panel
   before it calls the solver, and draws rules for the panels that are left: each panel
   with a rule that is dropped makes the frame a line shorter than the terminal.
   `session.go:54-56` says that there are exactly `s.h` lines, and that another shape
   corrupts the terminal.
4. *A number its binding does not name* (`panels_numbers`). `Resolve` leaves the number of
   the entity's state, or zero, in the value of an attribute that has none. It is shown
   under a numeric format, charted, and compared by a decision: a condition `== 0` is met by
   a text. `value.go:62` and `resolve.go:31-34` say otherwise.

## 6. Other things seen while reading

Some of these are stated by a property as they are, with the exception named; the others
no property rests on.

Connection and store:

- `Run` retries for ever after `ErrAuthFailed`, which `client.go:10-12` calls fatal.
- `Dial` reads the greeting and the auth reply without a deadline and without its
  context: a peer silent at that point holds `Run` for as long as the socket stands
  (`main` does not wait for it). It is why `RunReturns` and `Reconnects` have a premise.
- After a failed subscription or read `Run` dials again without waiting.
- The 90 second deadline of `Read` takes a quiet connection for a dead one; `Ping` is
  not used.
- `publish` sets `Seen` of every entity to now (`store.go:203`), while `Seen` is meant to
  be when the value was received; with a `staleAfter` of zero everywhere, staleness and
  the stale branch of a decision (`build.go:437-445`) cannot happen.
- A reconnect removes nothing from the cache: entities deleted during an outage stay.
  `CacheFaithful` allows them by name (`ghosts`).
- After a reconnect the first forecast replaces the pseudo-entity, without the half that
  has not come yet.

History and chart:

- A single missing aggregate of a row becomes zero, which the comment at
  `statistics.go:52-54` warns of for a row without any.
- Each series of one answer is put in under a lock of its own: a publish in between shows
  one with the backfill and one without.
- A live series is extended at every heartbeat, also while the connection is down.
- In blocks the greatest value is drawn as the lowest block of the top row, lower than
  smaller values that are in that row (`runchart.go:209`): `ScaleHonest` excepts it by
  name. With more
  samples than columns the newest is not drawn, though the legend shows it. The Braille
  chart spaces samples evenly and does not show gaps in time.
- `-chart-points 0` divides by zero at start.

Keys and process:

- `main` exits as soon as `Serve` returns, and `Serve` returns when the listener closes:
  the grace that `Shutdown` is given is never used.
- `deploy/hatty.service` sets `HATTY_HA_TOKEN_FILE`; `main` reads `HATTY_HA_TOKEN`.

Configuration and screen:

- A table with no active column is blank, without its contacts and without its note
  (`table.go:50-52`), and `Validate` accepts it. `DrawnWhole` asks for the contacts only
  where a column is there.
- `Build` skips a panel of a type it does not know, and `Validate` rejects only an empty
  type, while `validate.go:25-27` wants errors found at load.
- `elasticSurvives` looks at `detail` panels below 24 rows only; `Solve` may drop other
  elastic panels. That the reserved panels' minimums fit into `min_rows` is not validated:
  `RefusedForCause` allows a refusal for it at or above the floor.
- `validateWidthBudget` does not count the marker cell of the table: the last column can
  lose a cell. `CellsShown` allows that one cell, where the columns take the whole width,
  and no other.
- A detail panel narrower than 62 columns draws one field per line and is sized for two,
  so that fields are hidden though rows were asked for in full. `RowsShown` excludes it.
- The squeeze takes rows from reserved panels too, down to their minimum, although the
  first comment on `Solve` gives them their natural height.
- `refusal` prints the full size of the terminal beside a minimum of the inner one.

Panels:

- `replaceAll` does not end if a value contains its own placeholder, or completes one with
  what is beside it, and with two variables whose values have the other's placeholder in
  them the text depends on the order of a map. `StripIsKnown` is about values without
  braces; of the others it says nothing.
- The strip's `hold` and `Held` (`widget/panels.go:14-21`) are documented and not
  implemented: the strip is off as soon as its source is. `StripIsKnown` says that it is on
  while its source is, and not that it is off otherwise.
- A table with a collection in `bind` and one in `binds` is accepted without a key
  (`validate.go:136` counts `binds` only, `build.go:177-180` shows both) and shows a contact
  twice that is in both. `TableComplete` excepts this table by name.
- An attribute that is null is a value: a field shows it, or the number of the state.
- An active alert whose source has no `friendly_name` shows the nominal text.
- `int(f/h)*h` (`build.go:262`) rounds towards zero, so that the bucket about zero is twice
  as wide as the hysteresis: negative keys there may be further out of order than
  `NearestFirst` says. Distances are not negative.
- `subsetNote` counts what the collections that are available list; nothing says that
  another is not available (`build.go:201-205`).
- The variables of a decision's `detail` template are not checked at load.

## 7. What is not modelled

- The decoding of TOML and JSON, of bindings, conditions and key lines: text is well
  formed or not, and what it says is given.
- Colours, ramps, time stamps, number formats, the cell widths of strings; the text of
  legends, status bar, bars and the refusal.
- Flags, environment and wiring of `main`, done once; logging; redaction of credentials.
- A series is of one aggregate, and one series at a time: that several series of one
  answer are put in apart is noted in section 6.
- Rounding of floating point in the chart, which may take a dot on a boundary one row up.
- Locks that guard a single step.
- `e1probe`, the spikes and the deployment files.

`PROJECT.json` gives the reason for each component.

## 8. Plan

In the order of importance; all but 15 are done.

1. The sink and its abstraction, with proofs.
2. Ring, decoder, store, mirror, sessions, with proofs for ring, decoder, sessions.
3. The connection.
4. Layout and screen.
5. Bindings and panels.
6. `Admission`: the allow-list, SIGHUP, handshakes and the end of the server, with proofs.
7. `History` on `Ring`: publishes and backfills, statistics, the chart; with proofs.
8. `Validate` against what the solver and the widgets do with an accepted dashboard.
9. The alert strip and its template.
10. `HaConnProofs`: ids, matching of results and forecasts.
11. `MirrorProofs`: the cache as a function of the chain of events on their way.
12. `ScreenProofs`: the solver and the screen.
13. `PutLog` and the rest of `HistoryProofs`: the reference, exchanges, the chart.
14. `PanelsProofs`, with the walk of a path as a constant.
15. Left: several series per answer, and the publish between two of them.
16. Templates as texts of pieces, where a value may contain or complete a placeholder
    (done, and model-checked only).
