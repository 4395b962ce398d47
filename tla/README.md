# Verification of fuaran-py

TLA+ models of the Python host of the Fuaran UI wire format (`src/src/fuaran_ui`, and the sample
host in `src/samples/fastapi-host`), the TLC runs that check them on small instances, and the
theorems TLAPS proves about them for every value of the constants. `PROJECT.json` lists the
components, the runs, the hazards the properties are for, one mutated definition per property, and
the source lines each definition stands for. Paths below are relative to `src/src/fuaran_ui`
unless they say otherwise.

1. [The system](#1-the-system) - components, state, operations, interactions
2. [The modules](#2-the-modules) - what each models, and how it corresponds to the code
3. [The runs](#3-the-runs) - what each checks, its bounds, the fairness
4. [The theorems](#4-the-theorems) - what is proved, and along which argument
5. [Where the code and its documents disagree](#5-where-the-code-and-its-documents-disagree)
6. [What is not modelled, and the plan](#6-what-is-not-modelled-and-the-plan)

## 1. The system

The package holds a user interface as an immutable tree of nodes. An author writes it with typed
classes, a façade or a notebook's shorthands; it travels as **JSON**, which a lenient **decoder**
reads into one canonical form or refuses at its first defect. A host edits the tree with **ops**,
keeps the ops in a **hash-chained stream**, merges trees that were edited apart, renders a tree and
answers its events, takes new trees from a remote generation endpoint, and evaluates the **data
frames** the tree shows. Most of it is functions from values to values; what keeps state is the
stream's sink, the runtime, the two observers, the session and the sample host, and the edit
history of a grid - and a document, which is written, spelled otherwise, damaged, nested and sent on
by programs that know different amounts of its format.

| Component | State it keeps | Operations | What makes it hard | What makes it correct |
|---|---|---|---|---|
| Op stream, write path (`op_stream/replay.py`, `in_memory_sink.py`) | per stream: records, set of sequences, highest sequence, head hash | `apply_and_persist` over `append_if`, or over `latest_sequence` + `replay` + `append` | several writers on one sink, each sink call a lock of its own; a retry budget; gaps; a sink that raises or loses records | one record per reported success, none otherwise; the chain verifies; calls end; the whole is an atomic append |
| Hash chain (`op_stream/hash_chain.py`) | none | `compute_hash`, `verify_chain` | the order of its three checks | finds the first record that is out of order, mislinked or altered |
| Replay and checkpoints (`op_stream/replay.py`, `in_memory_sink.py`) | checkpoints per stream; a tree per host | `apply_to`, `replay_stream`, `append_checkpoint`, `latest_checkpoint_at_or_before` | recorded refusals; restarts; hosts that write past what they have seen | what a host holds is what the stream replays to, from any checkpoint |
| Op engine (`ops/apply.py`) | none: a tree in, a tree or a typed error out | thirteen ops and `Batch` | ids each unique that meet in one tree; limits crossed step by step; a Batch checked once at its end | the ids the engine walks stay unique, limits are not crossed, a Batch is its ops, a move or a removal touches only what it says |
| Placement (`ops/placement.py`) | none | `can_place`, `place_op`, `move_op`, `nudge_op`, `duplicate_op`, `paste_op` | a verdict given on one tree and acted on by another code path; fresh ids | a gesture lands where it points; a refusal is the engine's too; clones carry fresh ids |
| Diff (`ops/diff.py`) | none | `diff`, `diff_batched` | the order of moves, removals and inserts across parents | applying the diff gives the target |
| Three-way merge (`merge.py`) | none | `merge_3way`, `merge3_way_with_author`, `merge3` | two edits of one facet, delete against edit, moves | both sides count, order does not matter, a human is heard |
| Runtime (`runtime/runtime.py`) | tree, compute state and what it derives, last error, the listeners of the page | `mount`, `dispatch`, `set_compute_state`, DOM events | handlers that dispatch, a click that bubbles through a repaint | the page is that of the present tree, its listeners its own |
| Observers (`layout_observer/`, `style_observer/`) | fixtures, last flags, subscribers, one `MutationObserver` | `register`, `update`, `refresh`, `refresh_all`, `subscribe`, `connect`, `disconnect` | handlers that subscribe, change and refresh while they are told; snapshots walked while the page changes | every subscriber that stands and was not moved by an unsubscription is called, and hears the last flags |
| Session (`client/session.py`, `client.py`, `wire.py`) | the held tree | `next`, `reset`, `seed` | an answer without a tree, or with one that is none | each turn is sent the last tree |
| Sample host (`samples/fastapi-host/app.py`) | a window per caller; the page's tree | `/generate`, `admit`, the page's script | a limiter called from a thread pool; turns in flight together | guards in order, quota kept, every prompt whose call ends is settled |
| Grid edits (`_core/dataframe/grid_edit.py`) | table, undo and redo stack | six edits, `undo`, `redo`, row deltas | an inverse applied after other edits passed over | history gives back what it took; deltas miss no row |
| Data frame evaluator (`_core/dataframe/evaluate.py`, `model.py`, `decimal_text.py`, `unit.py`) | none | expressions, typing, unit check, fourteen verbs | types decided before rows are read; ties and signs in rounding; verbs that tell cells apart differently | typing predicts the cells, rounding is the mode's, verbs agree, a unit changes no quantity |
| Decoder and op codec (`schema/decode.py`, `schema/generated.py`, `ops/decode.py`) | none | wire JSON to nodes and ops | a vocabulary of some hundred kinds, records and cases, each slot with its reader, aliases, default and tolerated near misses; rules across members; the order of refusals; three limits | what is written canonically is read as itself, every tolerated spelling is read as the same, a refusal stands where the damage is, and reading does not depend on what is around |
| Authoring (`schema/types.py`, `ui/`) | none | a class per kind, the façade, expressions and verbs, controls, dashboards from records | defaults filled at three levels; ids derived from labels | what it writes is canonical |
| Frame codec (`_core/dataframe/codec.py`) | none | frames, expressions and pipelines to and from the wire | lenient in other places than the node reader, with codes of its own | as the decoder |
| Versioning envelope (`envelope.py`) | none | `encode_envelope`, `decode_envelope`, `lift_fallback` | a host that is behind, or of another major; a kind it does not know | a node that went through an envelope is the node that came by itself |
| Validator (`validator/`) | none | findings over one tree | rules that overlap the decoder's and the engine's | finds what those let through |
| Renderer, bindings, seeds (`renderer/`) | none (a render context that is passed down) | one tree to one text | one slot read by several readers | all readers of a slot see one value |
| Compute graph (`compute/`) | none (a store it is given) | parameters bound to host state, then a pipeline | a binding unset, missing, or of another shape; a filter on a parameter that is unset is left out, one on a parameter nobody declared is refused | the pipeline runs as if the values had been written into it, or is refused |
| Schema deltas (`_core/dataframe/schema.py`) | none | `diff`, `patch`, `classify` | a reorder beside an insert; a delta met by a schema it was not made for | the patch of a diff gives the target; a verdict composes |
| Function and capability registries (`_core/function`, `ui/capability.py`) | registered functions by name | `register`, search by signature, default-deny call | subsumption of spaces, chains of matches | what is found fits; what is not registered is not called |
| Teleport, DAG, elicitation | none | pack, unpack, answer | a size budget; a digest over parts | what an unpack accepts was packed |
| Charts, theme manifest, fidelity, AI tools, CLI, conformance | none | constructors and projections | - | - |

How they meet. `apply_and_persist` applies an op with the engine first and persists it second, so
the stream only ever holds ops that applied. The runtime applies what its host answers to an event
with the same engine, then paints with the renderer and binds listeners along a walk of its own.
Placement and diff emit ops for the engine and never touch a tree. The merge reads three trees
positionally and builds a fourth. The observers read the page the runtime painted. A session sends
whole trees to the endpoint and holds whole trees; the sample host stands between a page and that
endpoint. A grid's edits call the evaluator for their transforms, and the compute graph calls it
with its parameters bound. A document begins in an author's class; tools respell it, damage it, set
it inside another document or in an envelope; a host decodes it, sends on what it read, opens the
envelope, or lifts the fallback of a node whose kind it does not know; and whatever passes is the
tree of everything above.

## 2. The modules

An arrow reads "is extended by".

```
OpStream -> OpStreamProofs                           (INSTANCEs HashChain and AppendLog)
Apply -> StreamHistory -> MCStreamHistory            (INSTANCEs HashChain)
         StreamHistory -> StreamHistoryProofs
Tree -> Apply -> Placement -> Diff -> TreeEditor -> MCTreeEditor, TreeEditProofs
        Apply -> Merge -> Branches -> MCBranches, MergeProofs
        Apply -> Runtime -> MCRuntime
Subscribers -> InMemoryObserver
Subscribers -> BrowserObserver -> EitherObserver -> ObserverProofs
                                                     (EitherObserver INSTANCEs InMemoryObserver)
RateLimiter -> TurnLoop -> TurnLoopProofs
Wire -> Schema -> Readers -> FrameCodec -> Decoder -> Documents
Wire -> AuthoredValues -> AuthoredKinds -> AuthoredFacade
        AuthoredValues -> AuthoredFrames             (Documents INSTANCEs the last two)
CellValues -> GridEdit -----------------------+
CellValues -> ColExprs -> Frames -> Compute -> DataFrames -> MCDataFrames, DataFrameProofs
```

### The op stream: `HashChain`, `OpStream`, `AppendLog`, `StreamHistory`, and their proofs

`HashChain` is `hash_chain.py`. A digest is its pre-image - the sequence of the (index, payload)
pairs it was computed over - so two digests are equal exactly when their inputs are: the standing
assumption that SHA-256 does not collide, stated as data. `VerifyChain` gives the first violation in
the order of the code's checks.

`OpStream` has one process per caller of `apply_and_persist` and **one action per sink call**,
because `InMemorySink` takes its lock per call and callers interleave between them. `log`, `seqs`,
`maxSeq`, `headHash` are `_streams`, `_sequences`, `_max_sequence` and `_heads`; `pc`, `op`, `base`,
`next`, `tries` are the locals of a call in flight; `status` is how the call ended as its caller can
tell (no error, `on_sink_error`, or an exception). Writers in `CasWriters` take `_persist_via_cas`
(`CasReadHead`, `CasReadLatest`, `CasAppend` or `CasStale`, `CasExhausted`), the others the plain
path (`ReadLatest`, `ReadPrevious` or `ReportGap`, `PlainAppended` or `PlainDuplicate`). `Imports`
are raw `append` calls that bypass `apply_and_persist` and may leave gaps; with `ThirdParty` the sink
is someone else's: it may raise from any call (`SinkRaises`) and lose records under its head
(`SinkLoses`), which is what `_Gap` in `replay.py` is for.

`AppendLog` is what callers are promised: a log to which a call commits its op in one step, loses it
and says so, or is refused. `ImplementsAppendLog` maps `log` to its ops and `status` to a fate.

`StreamHistory` composes the stream with the op engine: hosts with a `tree` of their own, the
`records` they write, the `checkpoints` they leave. A call of `apply_and_persist` is one step there,
which is what `OpStream` implementing `AppendLog` is good for; a host that has not seen the whole
stream may write to it all the same, as two callers of the real function may, and from then on it
is `Astray`. `Deny` is a host that records a refusal, as the repository's README describes;
`CatchUp` one that restarts from the nearest checkpoint.

### The tree: `Tree`, `Apply`, `Placement`, `Diff`, `TreeEditor`, `TreeEditProofs`

A tree is a function from paths (sequences of child numbers) to labels: kind, id, one field, a
state mark, traits, and the trees held sealed. The paths are the nodes the engine's id walk reaches
(`_child_slots`, by which every op finds its target): children of layout kinds, the fixed slots of
`ErrorBoundary`, `Switch` and `FragmentDecl`, State alternatives, fallbacks. So the walk is a set of paths and needs no
recursion. The other nodes - children of `Modal` and `ScrollArea`, the trees of slot arguments - are in the
label of their holder (`sealed`): `_sub_nodes`, by which the limits count, sees them (`Nodes`), and
nothing else does. No op addresses them, no id check reads them, a paste leaves them their ids, and `diff` takes
them for a part of the kind (`diff.py:57-72`). A sealed tree holds no other sealed one here. Four kinds stand
for all: `Box` (children one may edit), `Switch` (nodes in fixed slots), `Modal` (sealed ones), `Leaf`. `MaxSlots`, one at least, is more children than any
node has, and sets the three sorts of slot apart; the runs give it 20, more than their trees have nodes.
`Apply` has one operator per op, and `ApplyOp` the checks around them in the order of `apply.py`: the
edit, then the limits for ops that can grow the tree, then the ids the op installed. `Placement` and
`Diff` return ops. `TreeEditor` is the state machine: `base` the tree loaded, `tree` the tree held,
`script` the ops accepted since; one action per op and per gesture.

### The merge: `Merge`, `Branches`, `MergeProofs`

`Merge3(base, a, b, pin)` is the positional walk of `merge.py` over three trees: per place, the five
facets, each kept, taken or clashing; the children by id, with added and removed ones; the conflicts
collected. `pin` is the side with precedence (`base` for none, as in `merge_3way`). `Branches` edits
`a` and `b` apart, through `Apply`, from a common `base`; properties merge what is reached.

### The runtime: `Runtime`

`page` is what each root element of the document shows (a tree and a compute state), `root` the one the
runtime is mounted at, if any, `listeners` what is bound to elements, `cleanups` what the runtime knows
how to unbind, `click` a click on its way up. `Mount` may come again, at another root, which leaves the
old one as it was painted; `MountMissing` raises, after it forgot the root there was, whose page and listeners
stay. `getElementById` finds the first element of the document with an id, so an older root in front hides
the elements of the present one (`ElementOf`). The
host's answer to an event may itself `Dispatch` or `SetComputeState` before it returns its op; each
paints. An element belongs to the paint that made it, so a click that began in one paint goes on
through elements of that paint, as in a browser.

### The observers: `Subscribers`, `InMemoryObserver`, `BrowserObserver`, `EitherObserver`, `ObserverProofs`

`Subscribers` is the one `_notify` loop both observers share: `calls` is the stack of loops running,
each with its index into the live list `subs` - the Python list iterator, which is why a handler that
subscribes is reached by a running loop and one that unsubscribes shifts it. Between two handlers
the called handler may do what `Inside` allows. `InMemoryObserver` keeps fixtures and last flags with
change detection; `BrowserObserver` reads a page (`dom`) that changes under it, with `refresh`,
`refresh_all` (the snapshot first, then the notifications) and a `MutationObserver` whose callback
runs when the loop is idle. What a change of the page does depends on where it is made: inside the root
element found at `connect`, of its children or of the three attributes `connect` names, it queues a record
for every `MutationObserver` that watches it (`Mutate`); by a theme of an ancestor, a style sheet or a
media query it queues none (`Overlook`); and an element put in the root's place - as a repaint of the
runtime does - is watched by nobody (`Replace`; what is done to the old one, off the page, is left out).
`watching` is who watches the present root; `unseen`, a history variable, the nodes last changed without a
record. Layout and style observers are the same code but for their flags; the
flags are given, not derived. `EitherObserver` has both: `holds` says whether the
behaviour is one of an observer of the page or of one of fixtures, and each action is taken only
where it belongs.

### The turn loop: `RateLimiter`, `TurnLoop`, `TurnLoopProofs`

`TurnLoop` is a client - a `FuaranSession`, which waits for its answer, or the sample page, which
does not - with its prompts, the route's guards, and an endpoint that may answer with a tree, with
one that does not decode, with none, or not at all. The route may raise as well: in a guard, where
`hmac.compare_digest` does at a secret that is not ASCII (`RaiseInGuard`), and in its decoder or renderer
(`RaiseAtReply`); it then answers a 500 that is no JSON, at which the page's `res.json()` throws (`Lose`):
the page keeps what it holds and goes on saying "generating". `RateLimiter` is `admit`, split where the
thread pool can switch: between the read of the caller's entry and the write. Times are ages up to
`Window`, so the state stays finite; the ages of the recent turns are a function over as many places
as the quota can ever fill, `Window` in a vacant one, which keeps the module free of sequences and
within the prover's reach.

### Documents: `Wire` to `Decoder`, `Authored*`, `Documents`

`Wire` has JSON values by their form - an integer, an integer written `2.0`, a half, a number past 32
bits are told apart, since the readers tell them apart - and the scalar readers. `Schema` is the
vocabulary as data, from `schema/generated.py`: for each kind, record, union case and op its members,
their types, how optional, and what leaving one out means. `Readers` is what `schema/decode.py` does
differently from those tables: other readers, other names of a member, other spellings of an enum, the
order in which hand-written readers look - and the readers that reach no node.
`FrameCodec` is the reader of frames, expressions and pipelines. `Decoder` is one recursive
`Read(type, value, at)`, where `at` is the path and what encloses it; it gives the canonical
value, or the code and the path of the first defect. A reading that raises instead of refusing
gives `RAISES`; what is accepted and raises when written gives `RAW`.

The `Authored*` modules are the writers: each class with each of its parameters at its default, at
another value, and all but one at the default; the façade's constructors, expressions, controls
and dashboards; and the frame codec's encoder.

`Documents` is the state machine: `doc` as it stands, `form` (a node, an op or an envelope), `read` what a
host makes of it; `how` and `where` the last thing done to it, and `before` what is known of the
reading it should have. `Respell` replaces one place by a spelling the reader tolerates, `Damage` drops a member
or writes something strange, `Nest` sets the document in a slot that takes one, `Wrap` in an envelope
of one of three profiles; `Decode` reads; `Resend` sends on the reading, `Unwrap` the payload of an
envelope, `Lift` the fallback of its node. `decode_envelope` and the negotiation are `ReadEnvelope`:
a host behind keeps a node of a kind it does not know as it came.

### Data frames: `CellValues`, `ColExprs`, `Frames`, `Compute`, `GridEdit`, `DataFrameProofs`, `DataFrames`

`CellValues` holds a decimal as an integer and a scale, with add, multiply, divide, remainder and
the seven rounding modes; it has the cells and their orders, casts, and scalar functions. A float is an
exact fraction or NaN, so float rounding error is out of the model and NaN is in. `ColExprs` has expressions
as sequences of nodes whose arguments point backwards (no recursion), the evaluation, and beside it the
typing and the unit check, each walked the way the code walks it, and the algebra of units. `Frames` has the
verbs. `Compute` is `evaluate_transform`: a pipeline's parameters looked up in what the host has stored, the
lists and scalars written into its predicates and scales, the filters on unset ones left out, and the
pipeline run over its source. The diff of two schemas, the patch, and the verdict on a column are in
`Frames` too. `GridEdit` is the state machine: `table`, `undoStack`, `redoStack`; `past` and `future` are
history that remembers the tables. `DataFrames` states what the evaluator promises of every table an edit
history reaches: the history is what supplies the tables, nulls, mixed types and rebound units that a
hand-written list of tables would not have.

## 3. The runs

Every constant that bounds a run, and why it is enough. "States" are distinct ones. Deadlock is
checked except where every process may simply be finished (`op_stream*`), the stream is full
(`stream_history`), the edits are used up
(`tree*`, `merge*`, `data_frames`, `documents`), or the prompts are (`turn_loop`).

| Run | Bounds | States | Shows |
|---|---|---|---|
| `op_stream` | 2 compare-and-append writers, 2 plain ones, 4 ops, 2 attempts | 351,672 | with fairness: no loss in silence, the chain verifies, no duplicate refusal on the compare-and-append path, failed attempts are paid for by others' appends, calls end, and the refinement of `AppendLog` |
| `op_stream_third_party` | 1 + 1 writers, 3 ops, raw appends of sequences 1 and 3, a sink that raises and loses | 2,438,437 | no record after the first chains onto genesis |
| `stream_history` | 2 hosts, 3 records, 2 checkpoints, 5 ops that undo, refuse and depend on each other | 43,938 | the stream gives back what hosts held; tampering is named |
| `tree` | 4 starting trees (plain, one over the depth limit, one with an id twice, one with an id sealed in a Modal), depth 3, 6 nodes, 2 edits | 6,446 | ids, limits, batches, exact edits, gestures, diffs that apply |
| `tree_round_trip` | one tree of two boxes, 3 edits | violation | the diff law (section 5) |
| `merge` | 2 starting trees, an alphabet of facet edits or of structural ones, 2 edits on one branch and 1 on the other | 2,483 | symmetry, edits kept, children merged |
| `merge_moves` | the structural alphabet, 2 edits each | violation | moves (section 5) |
| `runtime` | trees with and without a Switch, 2 roots and a missing one, 3 paints, 2 compute values | 1,331,834 | the page and its listeners follow every dispatch |
| `observers` | 2 nodes, 2 handlers, 2 flags, 2 nested notifications; 3 fixtures, or 2 `MutationObserver`s and 2 changes of the page, which has 4 looks | 1,153,358 | with fairness: change detection and re-entrant notification, stored and heard flags the page's once quiet, every change read |
| `turn_loop` | 3 prompts on 3 threads, 1 turn per window of 2 ticks | 352,789 | with fairness: guards, quota, what overlapping turns lose, answers |
| `data_frames` | capacity 2, 3 rows, 3 edits out of 22, 12 pipelines, 22 expressions, 5 predicates, 7 choices | 1,836 | history, deltas, typing, rounding, verbs, units, parameters |
| `documents` | every class and constructor, 2 changes per document; depth 3, 4 nodes per expression, 3 skeleton rows | 1,042,900 | canonical form, tolerated spellings, where a refusal stands, nesting and envelopes |

**`op_stream`.** Two writers per path is what a lost race needs on either path, and a race across
them; a second attempt is what distinguishes a retry from a first try; a fourth op lets each writer be
in flight at once. The budget of 2 makes `CasExhausted` fire. Properties: `ChainVerifies` (only where
nobody bypasses the write path), `CasNeverRaises` (the head and the next sequence are read under two
locks, with no `try` around), `NoSilentLoss`, `RetriesLostToWinners`, `CallsFinish`,
`ImplementsAppendLog`. *Fairness*: weak fairness of each writer's steps. A thread that is inside a
call and can run is run; which writer wins a race is not constrained, so the retry loop has to end
by its budget. New calls are not fair.

**`op_stream_third_party`.** Sequences 1 and 3 leave the smallest gap, and with three
ops a writer appends after a record was lost and after a call raised. Liveness, refinement and the promise of the
others are not asked: a foreign sink promises nothing.

**`stream_history`.** Three records are an op, one that depends on it, and a third to be caught by or
skipped after a refusal; with two hosts one of them is written past the other. `ReplayGivesBack`: a
host that knows where it stands holds the fold of the stream up to there; from every checkpoint every
later point is the same tree, or stops at the same record; a stream stops replaying only at a record
written past others, or after one; the literal fold stops at the first recorded refusal.
`TamperingIsCaught`: a record rewritten, turned from refused to accepted, dropped, dropped with the rest
renumbered, swapped, or sealed anew is what `verify_chain` names; where all that follows is sealed anew
too - which verifies - every checkpoint past it has another head.

**`tree`.** Depth 3 and 6 nodes are reached from the starting trees by one insert or one move, so both
limits are met from below, from above, and by ops that shrink. Two edits are what a duplicate
needs: one to bring an id in, one to meet it. The alphabets hold subtrees whose State alternative or
slot carries an id the tree has, or that hold such an id sealed. `UniqueKept` (of the ids an op can address), `LimitsHold` (an action property: a tree already over
a limit may stay there, no step goes further, as long as each id stands once), `BatchAgrees` (the script as
one Batch gives the same tree), `EditsAreExact`, `GesturesLand` (drops, false refusals, nudges there and
back, clones), `DiffLands` (a diff that applies in full lands on the target).

**`merge`.** Two edits on one branch make an edit of a moved, inserted or re-kinded node; one on the
other suffices for every pair of them. The facet alphabet has two values of one facet, so that
branches agree, differ, or miss each other. `Transposes` (the same pair merged in either order),
`EditsCount` (a side that did nothing takes nothing; without conflict both sides' edits are there;
with a human every merge goes through and holds the human's), `KidsMerged`.

**`runtime`.** Three paints are the mount, the dispatch inside a handler, and the paint of the
handler's own answer, or two mounts and a dispatch. `PageIsLive`: while there is a root, its page shows
the current tree and compute state; every listener sits on an element some root shows and tells the id of
its node; what the binding walk finds on the page has a listener, on the page's own element if no other root
was ever painted. `OneAnswerPerPaint`: once a handler of a click repainted, the click calls no other - again
if no other root was painted (`OneRoot`): an older root's elements in front of the new ones are bound again by each
paint, and the click goes on to call them (section 5).

**`observers`.** Two handlers are the least for one to change what the other is about to hear, and two
nested calls the least for a notification inside another; two changes of the page are what a
snapshot needs to be stale. `FlagsAreCurrent`: what is stored, and what each subscriber was told last,
is what the fixture gives, or what the page gives once nothing is running or awaited and its root is
watched. It leaves out a node that a handler changed *while being told of it*: there the code tells the later handlers the newer
flags first (section 5); nodes changed by what queues no record (`unseen`); and what a handler knows of
a node after a notification of it passed it over. That does happen: `for sub in subscribers` walks the live list,
and an entry that goes at or before the loop's place moves the next one past it. `EmitsToEvery` says how
much of "Emit to every subscriber" (`_notify`) is left: when a notification ends it has passed over no more
handlers than entries went so (`lost`), hence none if nobody unsubscribed, and whoever raised.
`ChangesAreRead`: a change inside the root watched is read by the callback.
`Inside` has every operation but connecting, with which `FlagsAreCurrent` does not hold (section 5), and
subscribing, which has too many states; the theorems about `EmitsToEvery` are of any `Inside`.
*Fairness*: weak fairness of the running loop and of the `MutationObserver` callback - Python code
that was called returns, and the browser delivers queued records. The page and the host owe nothing.

**`turn_loop`.** Three prompts let two overlap and a third follow, one turn per window makes the
boundary the common case. `Guarded`, `Quota` (at most `2 * MaxTurns - 1` turns in any time as long
as a window, if no two requests race in `admit`; with one turn per window that is one turn, and the burst
at a boundary, which takes more, is left to `QuotaKept`), `HeldDecodes` (of a page: a session holds any JSON object),
`OnlyOverlapsLose` (an answer replaces the tree it was made from, or none, or that of a turn in flight beside
it; of a session, which has one turn in flight, that is "this prompt repairs it"), `Settles` (a prompt whose call
of the endpoint ends, if it comes to one, ends: in an answer, or in the page's exception). *Fairness*: weak fairness of
the route and of the receipt, per prompt. None of the endpoint: `build_client` gives the client no timeout, and
`client.py` without one waits as long as its socket does, so `Settles` has the end of the call as its
condition. That the route runs while other calls hang takes a thread of the server's pool for each: three are fewer than it has.

**`data_frames`.** Capacity 2 with 3 edits makes the stack trim, and undo and redo meet the trimmed
end. The table has a column of each type, a null, a negative decimal, a tie, and two units.
`MaxScale` bounds the scale of a decimal and `IntMax` an integer: a result past either is an error of
the model's arithmetic that the code gives at its own larger limit. `MaxExp` bounds the exponents
of a unit. `HistoryGivesBack`, `DecidedTypesHold` (of each expression, the type decided from the schema
is the type of every cell), `RoundingIsCorrect` (each mode against its definition by nearest
neighbours), `VerbsAgree` (a filter, its negation and its nulls split the rows; intersect and
except too; sorts are stable with nulls last; joins hold both sides; a group's sum is the last
running total; a pivot's cell is its group's, also where the index column holds NaNs, each of which is
a row of its own in the pivot, which compares cells, and one group in the grouping, which compares tokens), `UnitsMeanTheSame` (a column re-expressed in another
unit changes no quantity). `DeltasTellAll`: a consumer told only row deltas holds the rows; the patch of
a schema diff gives the target from either side; a delta met by a schema it was not made for gives what it
describes or a refusal; what two deltas in a row leave compatible, their diff does. `ParametersScope`,
over choices of kinds that compare with the column and of kinds that do not, with a null and an
empty one: a filter on several choices shows the rows each choice shows by itself, in the table's order; a value that
is stored, picked from a row, declared, or overriding a declaration answers the same; an unset
filter is no filter; a parameter nobody declared, a value of the wrong shape, or an unset one in
what is computed rather than filtered, is refused.

**`documents`.** A document starts as what one class or constructor writes, so the places changed are
all the places of the vocabulary, one at a time; two changes are what an alias beside a
near miss, or a damage behind a spelling, need. What the façade and the notebook compose of the
kinds is changed in one place. Depth 3, four nodes and three rows are the code's own limits made small, so
that nesting once or twice crosses them from every kind. A damaged document is nested once, in
one slot, and put in an envelope for a host behind where its kind is not known or its damage is
at the top; a badge stands for all documents in envelopes of a current or foreign profile: the reading
of a payload is the same call there. `CanonicalIsFixed` (what a class writes, and what a host sends on, is read
as itself: encode-decode is the identity on every document written), `SpellingsMeanTheSame`,
`RefusalsNameTheDamage` (the refusal stands at the damaged place, or at a member the code judges
together with it), `NestingChangesNothing` (a document is read inside another as by itself, with its path
prefixed, or the depth is refused; an envelope keeps or refuses it for the same defect; what was
opened by a host that did not know the kind and sent on is read as if it had come directly, and the lifted
fallback is the one the author wrote). No fairness: every property is of one reading.

Every property has a mutant in `PROJECT.json`: a definition of the model changed as a plausible bug would
change the code, with which TLC finds the property violated under the run's own bounds. So the
bounds are known to reach the case each property is about.

## 4. The theorems

For any values of the constants; the assumptions are those named in the modules that declare them
(`OpStreamAssumption`, `LimitsAssumption`, `PromptsAssumption`, `RootsAssumption`,
`ValuesAssumption`, `CapacityAssumption`, `MaxScaleAssumption`, `UnitsAssumption`, `BoundsAssumption`,
`PageAssumption`, `FlagsAssumption`, `StartsAssumption`,
`MaxSlotsAssumption`, `NodeLimitsAssumption`, `AlphabetAssumption`, `HostAssumption`), and what a theorem
states as its hypothesis.

| Module | Theorem | States |
|---|---|---|
| `OpStreamProofs` | `TypeCorrect` | `Spec => []TypeOK` |
| | `CasPathNeverRaises` | `Spec => []CasNeverRaises` |
| | `NothingLostSilently` | `Spec => []NoSilentLoss` |
| | `ChainAlwaysVerifies` | `Spec => []ChainVerifies` |
| | `RetriesAreLost` | `Spec => []RetriesLostToWinners` |
| | `GenesisIsFirst` | `Spec => []NoSecondGenesis` |
| | `WritePathIsAtomic` | `OwnRecordsOnly => (Spec => ImplementsAppendLog)` |
| `StreamHistoryProofs` | `StreamIsTamperEvident` | `Spec => []TamperingIsCaught` |
| | `StreamReplays` | `Spec => []` of every part of `ReplayGivesBack` but its types |
| | `ReplayGivesTheDocumentBack` | `Lawful(Trees) => (Spec => []ReplayGivesBack)` |
| `TreeEditProofs` | `TreesStayTrees` | `Spec => []TypeOK` |
| | `IdsStayUnique` | `Spec => []UniqueKept` |
| | `LimitsAreKept` | `Spec => LimitsHold` |
| | `BatchesAgree` | `Spec => []BatchAgrees` |
| | `EditsStayExact` | `Spec => []EditsAreExact` |
| | `GesturesStayTrue` | `Spec => []GesturesLand` |
| | `EngineIsSound` | ops that the decoder gives keep documents: `EngineKeeps` |
| `MergeProofs` | `MergeIsSymmetric` | `Spec => []Transposes` |
| `TurnLoopProofs` | `GuardsInOrder` | `Spec => []Guarded` |
| | `PageHoldsWhatDecodes` | `Spec => []HeldDecodes` |
| | `OverlapsAloneLose` | `Spec => OnlyOverlapsLose` |
| | `QuotaKept` | `Spec => []Quota` |
| `DataFrameProofs` | `RoundingMeetsItsMode` | for all modes, integers and positive denominators, `IsRounding` of `RoundQuotient` with the sign put back |
| | `UndoAlwaysGivesBack` | `Lawful => (Spec => []HistoryGivesBack)` |
| | `DeltasTellEveryRow` | `Lawful => (Spec => []DeltaTellsAll)`, the first part of `DeltasTellAll` |
| | `PatchOfDiff` | of any two schemas, `SchemaPatch(old, SchemaDiff(old, target))` is `target` |
| | `DeltasAlwaysTellAll` | `Lawful /\ Describable => (Spec => []DeltasTellAll)` |
| | `TypingDecidesCells` | `TypingIsSound` of every frame that fits its schema and every expression |
| | `DecidedTypesAlwaysHold` | `Lawful /\ Typable => (Spec => []DecidedTypesHold)` |
| | `RoundingIsAlwaysCorrect` | `Lawful /\ Numbers => (Spec => []RoundingIsCorrect)` |
| | `CanonicalFormIsUnique` | two decimals are written alike exactly if they are the same number |
| | `ArithmeticIsExact` | sum, difference and product of canonical decimals are exact and canonical; comparing says 0 only of equal ones |
| `ObserverProofs` | `PageEmitsToEvery` | `Spec => []EmitsToEvery` |
| | `FixturesEmitToEvery` | the same, of the observer of fixtures |
| | `NobodyIsLeftStale` | `"connect" \notin Inside => (MCSpec => []FlagsAreCurrent)` |
| `Runtime` | `OneAnswer` | `Spec => OneAnswerPerPaint` |
| | `PageStaysCurrent` | `Spec => []PageIsCurrent`, the first part of `PageIsLive` |
| | `PageStaysLive` | `EngineKeeps(Ops) => (Spec => []PageIsLive)` |

The arguments. Of the op stream:

- **Types.** `TypeOK` is not inductive: what a writer seals is a record only because it holds a
  pending op and a positive sequence. `Typed` adds `InFlight`, which says what a writer holds at each
  label, and that two writers never hold one op.
- **`CasPathNeverRaises`.** The duplicate guard inside `append_if` is only reached when the head has
  not moved since `CasReadHead`. `Snapshots` says that a head determines the highest sequence (a
  digest carries the index of its last pair), so a writer whose `base` is still the head read a `next`
  that is still one past the highest.
- **`NothingLostSilently`.** `Accounted`: the records of an op are exactly one or none according to
  its status, and a pending op has none. An append turns the one op of its writer; `InFlight` keeps
  writers' ops apart.
- **`ChainAlwaysVerifies`.** `Dense`: sequences are `1 .. Len(log)`, the highest is the length, the
  head is the last hash, and a plain writer about to write holds the hash stored just below the
  sequence it proposes - stale though its read is, either its sequence is still free and that hash still
  the last, or the duplicate guard refuses it. `Linked`: each record is sealed over its
  predecessor's hash.
- **`RetriesAreLost`.** `Charged` counts: tries made, plus one already owed when the head has moved
  from the base the writer holds, are at most the records that landed since the call began.
- **`GenesisIsFirst`.** The only proof over a sink that raises and loses records. `Rooted`: the head is
  genesis, and the highest sequence 0, only before the first record, and no record hashes to genesis.
  A lost predecessor makes `ReadPrevious` raise and not fall back, so what a plain writer holds is
  genesis only if it proposes sequence 1, and then the duplicate guard refuses it after the first.
- **`WritePathIsAtomic`.** Under the mapping of `Abstract`, an append is `Commit`, any other return
  `Lose`, a refusal `Refuse`, and every other step a stutter (`AbstractStep`).

Of the history of a stream, of the merge and of the op engine, which are folds over records and ops
and walks over trees. A fold of the library is a choice among functions; that there is one, that any
two agree, and what it gives one record further are proved by the least record at which they would
not (`Least`), which stands in for induction.

- **`StreamIsTamperEvident`.** `ChainInv`: each record is sealed over the digest of all before it
  (`Chained`), a checkpoint's head is that digest, and a host's place is in the stream. A digest is
  its pre-image, so it tells where two histories differ: each kind of alteration has a lemma that names
  the first record that is unsound (`AlteredCaught`), and one resealed to the end meets a checkpoint
  with another head.
- **`StreamReplays`, `ReplayGivesTheDocumentBack`.** `ReplayInv` adds that each checkpoint's
  snapshot, and the tree of each host not astray, is the fold of the records up to there, and that a
  fold stops only at a record written past others. `ReplayedMore` says what one more record does to a
  fold, and `ReplayedOn` that a fold may begin at a snapshot. What an op does to a tree plays no part,
  but for the types: `Lawful(Trees)` names a set of well-formed trees that the apply engine does not lead
  out of.
- **`MergeIsSymmetric`.** No invariant but that the base is one of the documents: the merge is
  symmetric for any two branches. `Exchanged` swaps the sides of all three trees at a node, `Transposed`
  those of a conflict: every operator of the walk commutes with them - the three-way pick, the children's
  order, the conflicts of facets, children and insertions (`FacetConflictsExchange` to
  `AllConflictsExchange`) - and the walk along a path does so step by step (`ThreeAtExchanges`).
  `StartsAssumption` says that the places of a tree are sequences.

Of the op engine. A tree is a function on positions, so the first third of `TreeEditProofs` is about
positions: what is below which slot, what is before what, that a set of positions has a first one. From
there on `Good` is all that is known of a tree - every node hangs from a node, in a slot its kind
or its envelope has, a row of slots has no gap, and what is sealed is such trees - and `AlphabetAssumption` says that what the
ops bring are such trees.

- **`TreesStayTrees`.** Nearly every edit stores a row of sub-nodes in a node (`WithSlots`). `Seated` says
  what is where afterwards, `SeatGood` that the result is `Good` if the rows are; and each op has a
  lemma that names the row it stores.
- **`IdsStayUnique`.** Of the ids the walk of the engine reaches; one sealed in a `Modal` may be taken again. A `Batch` reads the result for the ids it installed only once, at its end, so that its
  inner ops meet trees in which an id stands twice, edit the first node of that id and no other, and
  remove every child of it. "Each id once" is then no invariant of a Batch, and "the ids that stand
  twice are installed ones" is none either: a node put in twice brings every node below it along. What is
  kept is `Kin`: two nodes of one id are of an installed id, or they are `Cousins` - both hang, in the same
  sort of slot, from two different nodes of one id. At the end the installed ids stand once each, and of two
  nodes of one id the parents are then again two nodes of one id, and so on up to the root, which
  has no second (`KinIsUnique`). An edit that copies and drops rows of a node keeps `Kin` (`MovesKin`); one
  that brings nodes adds their ids to the installed ones (`NewKin`).
- **`LimitsAreKept`.** What is measured is refused, so the theorem is about the ops that are not measured:
  that `_op_can_grow` leaves out none that grows the tree. `Shrinks`: every node left was in the tree
  before, no less deep, with the same trees sealed in it, and no two of them are one. It holds of an edit that brings no nodes and
  moves none, of a tree in which each id stands once, which such an edit leaves so; hence of a
  Batch of them (`OpWithinLimits`). Where an id stands twice it is false, section 5.
- **`BatchesAgree`.** `Told` is the script as one row of single edits, and `Ran` that they go one at a time
  from the first tree to the tree held: a Batch among them gives its inner edits, and the other way
  round (`BatchedRan`, `RanBatched`). What the one Batch checks at its end holds there: of the ids,
  that each stands once is `IdsStayUnique`; of the limits, the tree held keeps them as soon as one
  accepted op was measured - `BatchInv`, by `LimitsAreKept` - and if none was, the Batch is
  not measured either (`GrowsIs`). `FlattenSeq` and the fold over a Batch are read from their values at
  each length (`Flat`, `Ran`), and two such readings are compared at the first place where they differ.
- **`EditsStayExact`.** A removal closes one slot (`Gapped`): `Shift` says where each node left was before,
  and `Within` that a node's row of children lies in the one it had, in its order. A move is that, and one
  node more at the end of a row (`Grown`). Rows are compared by who stands no later than whom
  (`NoLater`), which neither the gap nor the node at the end touches. What was taken and what stayed share no id,
  so the insert of a move is no duplicate, whatever the subtree carries. `Roomy` excludes only the
  model's own bound, a row with no slot left.
- **`GesturesStayTrue`.** A drop is a removal, an insert and a reordering. The placement verb writes the
  wanted order down before any of the three happened; that the row then there holds those ids, each
  once, is `Settled`, so the engine's comparison of the two passes and the children come to stand in the
  order written (`Shuffles`, `Permuted`). Where the moved node stands is read off the list (`Slid`): that
  needs nothing of the tree. A nudge turns two children round (`Turn`); turned round again,
  every position is under the one it had (`TwiceTurned`). A paste renames in the order of a walk:
  `Minting` says that after each node the walk reaches the new ids are no two the same and none of either tree's, and
  `DerivedIsFresh` that a suffix which is free is found among as many as there are ids taken, and one.
  Of a refusal only the engine's side is to be shown (`RefusedMoves`).
- **`EngineIsSound`.** The step of the first two theorems, said without the session around it, for whoever else
  lets the engine edit a document.

Of the turn loop:

- **`GuardsInOrder`.** `Gated` ties the three guards together: a request is in `admit` only once it
  was posted and found fit, and is called only once it was found within the window.
- **`PageHoldsWhatDecodes`, `OverlapsAloneLose`.** `Clean`: what a page holds decodes and so does every
  answer on its way to it, so the order of arrival does not matter. For what overlapping
  turns lose, `Signed` says that an answer with a tree ends with the prompt of its own turn, so the
  page cannot take one turn's answer for another's, and `Overlapping` that any two turns in flight
  together are recorded as `beside` each other and that what is held is the tree a turn in flight was
  sent, or none after a reset, or the answer of a turn that was in flight beside it. Nothing is
  assumed of the order in which answers arrive. A session is the case of one turn at a time
  (`OneAtATime`), where nothing is ever beside anything.
- **`QuotaKept`.** The bound is one less than two windows' worth, and the one less is the point.
  `Counted` counts the admitted turns young enough to matter, those of the window and those left of
  the one before it, and says that the turn that opened a window is exactly as old as the window: it is
  forgotten in the tick in which the window expires, and at most `MaxTurns - 1` of the window before
  are left when the next opens. A request between read and write either goes on in the window it read
  or opens the next (`Continues`, `Opens`). All this while no two requests are there at once (`OneByOne`);
  the property allows for a race, since the code has one. The counting steps rest on lemmas about
  cardinalities of sets of places (`PlacesCount`, `Ranges`, `TickCounts`, `WriteCounts`).

Of the data frames:

- **`RoundingMeetsItsMode`.** What is left beside the answered integer, `num - v * den`, decides
  (`Residue`): each mode says where it may lie (`Leaves`), and a rounded quotient leaves the remainder
  of the division or that less one denominator. Stated so, no product of two unknowns is left.
- **`UndoAlwaysGivesBack`.** `Lawful` says what a history is given: tables whose names are one each and
  whose cells fit, ops whose columns fit, and an evaluator whose accepted transforms leave such tables (one that
  repeats a name, section 5, does not). That the top of each stack works is not inductive, since an
  undo brings up the next entry. `Joined` says it of every entry of both stacks: it takes the columns of the later
  of its two tables to the earlier's and back. Each op has a lemma that its inverse, applied to
  what the op made, gives the columns there were (`SetCellTurns`, `SetColumnTurns`,
  `InsertColumnTurns`, `RemoveColumnTurns`), and `SameColumns` that metadata, which an undo may lose, plays no part.
- **`DeltasTellEveryRow`.** A row is named by its key, and the deltas are made by place: of the two tables
  at a place, `RowsAlike` says when both the key and the row are the same, and `TellsByPlace` carries that
  from places to keys. Three kinds of delta remain: rows changed under their keys (`ChangedInPlace`, which
  needs no key to be there once), one row given another key (`Rekeyed`, which does, before and after), and
  rows below those there were (`AppendTells`, where `delta_of` itself checks that the keys are new).
- **`PatchOfDiff`, `DeltasAlwaysTellAll`.** `diff` and `patch` are folds, so each is what it was one element
  ago and a turn (`OneTurn`). A step of a patch looks at what the earlier steps left, and what it finds
  there must be what the delta was made of: removals, retypings, amendments and additions go through
  exactly when the fields they name are there as told (`Removable`, `Retypable`, `Amendable`,
  `Addable`), in whatever order, because a delta names a field once at each step. The two amendments
  of one field are the case that does not fit: the second meets the field the first has changed, and
  must find its own member as it was (`AmendBlock`). So a patch that goes through is known field by field
  (`PatchedIs`), of the schema the delta was made of and of any other; of the first it is the target but for
  its order (`TargetBecomes`), of another its diff names what the delta named (`Replayed`). That two steps
  each of which may be read on make one that may is that widening composes and that a unit, once
  there, stays (`ReadsOnAndOn`). The schemas of a history are such schemas because no step puts a table in it
  that it did not hold or make (`HeldNext`) and no edit states metadata of its own (`EditDescribed`);
  `Describable` says that the tables it begins with, and those of a transform, state a unit and a label of each
  column they state anything of.
- **`TypingDecidesCells`, `DecidedTypesAlwaysHold`.** Two walks over one expression, the typer's and the
  evaluator's, must agree at every node. `Sound` says it of one node: whatever the operands are, if each
  fits the type the typer gave it, the answer fits the type the typer gives the node. There is a lemma for
  each rule of the code (`BinarySound`, `CoalesceSound`, `CaseSound`, `StrictSound` for those a null passes
  through), which rest on what each operator of `CellValues` answers whatever it is given (`Yields`).
  `NodeSound` puts the rules together, and `NodesSound` the nodes: of the nodes where the two
  disagree take the first; its operands come before it. That the two walks have values at all
  (`AnswersExist`, `TypesExist`) takes the same argument over prefixes, since both are recursive functions.
  `Typable` says what is tried: column types of the code's, cells of their kinds, and expressions whose
  arguments point backwards and are as many as the node takes (`IsExpr`), which is what a decoded tree is;
  writing the bound parameters in keeps that (`ResolvedIsExpr`). `Lawful` makes every table fit its
  schema but for an int in a decimal column, which the property leaves out (section 5).
- **`RoundingIsAlwaysCorrect`, `CanonicalFormIsUnique`, `ArithmeticIsExact`.** Everything here is about
  denominators that are powers of ten. The prover has no law of `^`, so the power is a recursive function
  (`PowerOfTen`): it exists by its prefixes, is positive, and exponents add, each by the least exponent at
  which it would fail. `Rendered` says what a record of a decimal is: its number, at the least scale that
  holds it. Two least scales are one, hence one form per number. `quantize` is `RoundingMeetsItsMode` with
  the denominator `10^(s - scale)`; a quotient first multiplies both sides by powers of ten, and what is
  left beside its answer grows with them, so that its place between two multiples does not move
  (`LeftScales`). `Numbers` says what is tried: decimals in canonical form, as every constructor of the code
  leaves them, and exact cells that hold numbers. The scales the code rounds to, `0 .. MAX_SCALE`
  (`decimal_text.py:38`), are among those the theorem is about.

Of the observers and the runtime:

- **`PageEmitsToEvery`, `FixturesEmitToEvery`.** `Owing`: of the handlers a running loop still owes a call, those
  that no longer stand further on in the list (`Late`) are no more than the entries it lost. A handler subscribed
  meanwhile is appended; a loop that steps pays the one it passes; an entry that goes ahead of the
  loop's place makes nobody late, one that goes at or before it makes late at most the handler that moves to that
  place (`UnsubscribeOwes`). At the end the list is walked, and all who are owed are late. Of the shared steps
  once (`LibraryOwes`, `NotifyOwes`, `HostListOwes`), and of each observer's calls.
- **`NobodyIsLeftStale`.** Two invariants that do not meet. `KnowIn`: a subscribed handler that heard of a
  node was told its flags as stored, or a running loop owes it a call that will - of nodes that were not
  emitted again meanwhile; when a loop ends, whom it still owes is passed over, and knows nothing of the node from
  then on (`End`). `Caught`: once the root is watched and nothing is to be handed over, all that the walks under way still hold is as the page is,
  and a node stored otherwise than the page shows it lies ahead in one of them, but for nodes `unseen`. A change
  inside the root queues every observer that watches it, so the second is only ever gained between notifications, by a walk of the
  whole page (`TreeIsRead`), which is what a `connect` inside a notification would break.
- **`OneAnswer`, `PageStaysCurrent`.** `LiveInv`: the listeners there are, are those the runtime knows
  how to remove, and, if no other root was painted, are of the last paint. So a paint removes them all and leaves its own alone, and
  an element of an earlier paint, through which a click still bubbles, has none left. The argument does
  not look at what an op does to a tree.
- **`PageStaysLive`.** `PageInv` adds that the tree is a document - a tree of the kinds but `Modal`, which holds each
  id once - and that the listeners are exactly those a paint of what the runtime now holds binds. In a
  document the first element with an id is the one of the node that has it (`ElementIsNode`): from there,
  that a listener tells the id of its node, and that no node is left out because another is found
  in its place (`BoundIs`), as long as no other root has been painted. `HostAssumption`: the host starts with a document (`ops/apply.py:1265`: ids must be
  unique) and dispatches ops the decoder gives; `EngineKeeps(Ops)` is then what `EngineIsSound` proves,
  in a module over the editor's variables, which is why it is a hypothesis here.

TLC checked the strengthenings that are over the variables as invariants before they were proved;
those over the inner ops of a Batch (`Kin`, `Shrinks`) speak of trees that are in no state.

Only model-checked:

- every liveness property (`CallsFinish`, `Settles`, `ChangesAreRead`): fairness is outside the prover;
- of the op engine, what a diff reaches (`DiffLands`); of the merge, what of both sides is there
  (`EditsCount`, `KidsMerged`);
- of the data frames the rows of the verbs (`VerbsAgree`), the units (`UnitsMeanTheSame`) and the scope of parameters
  (`ParametersScope`): their rows are picked by `SelectSeq`, which the prover's backends have no definition
  of, and each is an argument per verb or per node over data of unbounded length;
- the documents. `Wire`, and what extends it, is written with `RECURSIVE` operators, with which the prover
  cannot work, and what they compute for every document needs induction over data, which it cannot do
  either.

## 5. Where the code and its documents disagree

Two disagreements have a run whose counterexample shows them.

- **`tree_round_trip`** (`ops/diff.py:266`): the diff of a tree and the same with a node grouped into
  a new box inserts the box - holding the node - before it removes the node from its old place, and
  the engine refuses the insert as a duplicate. `diff.py:8-10` and `31-33` promise the law
  unconditionally.
- **`merge_moves`** (`merge.py:540`): both branches move one node to different parents, and the
  merge goes through with the node twice. (Each moving one node under the other loses both, which the
  trace does not show.)
  The conflict classes for it (`merge.py:93`) are never reported.

Others are stated in the modules, are not checked by a run, and are known not to hold; the checked
properties are stated beside them, and leave out just that case.

| Property | Module | What happens |
|---|---|---|
| `FailuresDoNotPropagate` | `OpStream` | a sink whose `append_if` raises: the exception passes through `apply_and_persist`, whose docstring says durability failures do not propagate |
| `NoFalsePermit` | `TreeEditor` | `can_place` does not measure depth, so a drop it permits may be refused for the limit |
| `FacetsFollow` | `Branches` | the walk is positional: a facet edit on a node the other branch moved is lost |
| `RefusedWasChanged` | `Branches` | a tooltip is compared with every facet, so a facet nobody changed is refused |
| `HumanInsertsWin` | `Branches` | of two nodes put in with one id, the first in encoded order is taken, whoever is human |
| `ShownAreBound` | `Runtime` | what a Switch shows is rendered and not bound |
| `DisconnectStops` | `BrowserObserver` | `connect` twice leaves the first `MutationObserver` running after `disconnect` |
| `UndoIsExact` | `GridEdit` | the inverse of a column's removal does not bring back its metadata |
| `DerivedColumnsFit` | `DataFrames` | a decimal column may hold an int as it was produced; `round` of it answers a float in a column typed decimal. No pipeline of the run does so, and `DecidedTypesHold` asks for `DecimalsOnly` |

Met while modelling, and without a property. Of the op engine: `_op_can_grow` (`ops/apply.py:1207`)
says that a `RemoveNode` cannot grow a tree, and so it is not measured. Where two layout nodes have one
id - the decoder admits such a tree - it takes the children it keeps from the parent of its target
(`_find_layout_parent`) and writes them into the first node of that parent's id (`_map`), which may be the other one
and may have had fewer; the tree then has more nodes, over `MAX_NODES` too. `LimitsHold` and
`BatchAgrees` are therefore stated of trees that hold each id once.

Of what keeps state: of two hosts that write to one stream from trees that have
not seen each other's ops both are told `PersistOk`, and the stream may not replay, since a lost race
rebuilds the record and not the tree (`StopsAtCrossings` says it takes such a write); a handler that
unsubscribes makes the running notification skip the next one, against the docstring's "Emit to every
subscriber"; a theme toggled on an ancestor of the observed root, a style sheet, or a repaint that replaces the root is not
reported, though the class says "a theme toggle re-derives automatically" (`style_observer/observer.py:240`); a runtime
mounted again at a root behind its old one binds its listeners to the old one's elements; a handler that updates the node it is told of
makes the later handlers hear the newer flags first; a handler that changes the page and then calls
`connect` while a `refresh_all` is telling it leaves that walk to store its older flags over what `connect`
has read, and no record is queued to make up for it; two requests of one caller between read and write of
the limiter count once; of two page turns in flight the later answer wins; a `reset` does not reach a turn
in flight; a session holds any JSON object as a tree; a secret that is not ASCII makes the route raise instead of
refusing, and its answer leaves the page saying "generating". A clone keeps the ids sealed in it (`Modal`,
`ScrollArea`, slot arguments), though `placement.py:27-28` calls the contract on ids tree-wide.

Of the data frames: `round`, `floor`, `ceil` and a cast to int of NaN
raise; a join repeated, or a window's `as_`, may repeat a column name; `union` compares names and not
types; a pivot merges an int and a float that are equal where a grouping keeps them apart; a schema
patch that removes a column compares its type with the delta's and not its metadata.

Of the documents, each written into the modules as the code has it:

- The repository's `README.md:152`, `result.py:3` and `docs/decoder-robustness.md:9` say that
  decoding never throws on malformed input. An `op` of an expression, a scalar `fn`, a join's `how` or a
  window's `fn` that is a list or an object raises `TypeError` (`RAISES` in `FrameCodec`): an
  unhashable value is looked up in a set.
- `_expr_walk` (`schema/decode.py:1565`) does not look under a quotient's `dividend` and `divisor`, nor at
  the scale of a rounding that is a parameter, so an expression binding that reads a column, names
  an unbound parameter or has too many nodes there is accepted, which `_decode_expr_binding`'s docstring
  (`1658-1672`) rules out (`WalkedChildren` in `Decoder`).
- `_expr_param_names` (`ui/compute.py:384`, "deliberately total over the closed ColExpr union") reads no
  names in quotients, roundings and conversions, so an unbound parameter there is lowered
  (`ParamNames` in `AuthoredFacade`).
- A window's `of` and `as` and a pivot's `on` and `values` are carried unchecked; a document accepted with a list
  there raises when it is written (`RAW`).
- `_integer_slot` says that every integer slot accepts the same numbers. `pageSize`, a rating's
  `max`, `autoAdvanceMs`, a default sort's column and a citation's row and column have readers of their
  own, which refuse `2.0` and accept what is past 32 bits.
- `rule.length()` with no bound (`ui/__init__.py:445`) writes an empty `rule`, which the decoder refuses,
  although its class says each constructor fills at least one slot (`425`).
- `ui/quick.py:43-46` says that a changed label moves only the nodes it names. Of two tiles with one label,
  renaming the first changes the second's occurrence and with it its id. And ids an author chose are
  renamed when they collide, which `_children_of` says they are not.
- `binding.opaque()` in a numeric slot is refused by the decoder, and in a source slot is read as `[]`.

## 6. What is not modelled, and the plan

Abstracted throughout: texts (messages, formatting, JSON bytes; a text is one of a few, told apart
where the code does), the field tables of the node kinds in everything but the documents (one
field stands for them), clocks (ages), digests (pre-images), float rounding.

In the modelled components: the codec of grid edits; the grammar of
decimals, units and profiles, timestamps, date and substring functions, standard deviation and
variance; several event names and compute keys of the runtime; `merge3_way_lenient` and the merge's
provenance; headers and endpoint rules of the client. Of the decoder: the counters that bound breadth and the
size of texts, the text scans before the parse, the closures of a host that are handed over unread,
node lists at the root of an op. Of authoring: what a constructor raises at, the spelling of titles
and digests, `collect()`. Of the compute graph: `evaluate_tree`, whose effect on one node is
`evaluate_transform`, and rows in the store. Of schema deltas: descriptions and extension members, the
wire form and the fingerprint. Each component's note in `PROJECT.json` says so.

Next, in this order:

1. **Bindings and seeds**: one slot read by the renderer, the runtime and the compute graph answers
   each the same value; the **validator** and the renderer's walk over the tables of `Schema`: which of
   the validator's findings the decoder and the op engine already exclude.
2. **Registries** (function spaces: subsumption against membership; default deny), **elicitation**,
   **teleport** (what an unpack accepts was packed), the **DAG codec** beside the hash chain.
3. **Theorems**: `EditsCount` and `KidsMerged`.

Left out for good: characters and bytes (sanitiser, egress policy, codecs' texts), geometry (charts),
pure tables (theme manifest, static projections, fidelity), and tooling (CLI, conformance). They keep
no state and order nothing; tests over examples serve them better.
