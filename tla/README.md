# Petros in TLA+

Petros is a sync engine for offline-first apps. The server owns one
append-only, totally ordered log of mutations ("intents"); every client shows
`replay(confirmed log)` with its own pending mutations replayed on top, and
authors against that view whether or not it is connected. These modules model
the engine, check it with TLC on small instances, and prove the properties that
matter most with TLAPS for every instance. Paths below are relative to the
repository.

## 1. The system

| part | state it keeps | operations | interacts with |
|---|---|---|---|
| client engine, `crates/petros/src/client.rs` | state file (log table, cursor, app tables), intents file, optimistic savepoint, changes for maintained views, outbox, rejections | `open`, `mutate`, `connected`, `disconnected`, `recv` (Batch, Ack, Reject, Denied, Heard), `say`, `take_*` | the app's `apply`; a transport |
| server engine, `crates/petros/src/server.rs` | log and app tables, a cursor and an identity per connection, roster of rooms, outbox | `open_with`, `recv` (Hello, Push, Say), `disconnect`, `stand`, `take_outgoing` | the app's `apply`, `Authenticate`, `Live`, transports |
| store, `store.rs`, `migrate.rs` | SQLite tables of both; the app's schema version | put, dedupe, contiguous run, rebuild of the app's tables | both engines |
| protocol, `proto.rs` | - | Hello, Push, Say; Batch, Ack, Reject, Denied, Heard | both engines |
| rooms, `live.rs` | who is in which room, one snapshot row per room | arrive, depart, say, keep | server engine |
| transports, `transport/ws.rs`, `web.rs`, `petros-axum` | sockets, per-peer queues, heartbeat count | route under one lock, deliver outside it, close | both engines |
| sessions, `petros-auth` | login in progress, one-time codes, session rows | login, callback, exchange, whoami, logout, lookup, owns | server engine, through `Authenticate` |
| maintained views, `petros-ivm` | operator state, rows of a view | hydrate, push a change | a client's `take_changes` |
| simulator, `petros-testkit` | clients, a server, links that lose, repeat and reorder | step, partition, heal, settle | both engines |
| schema, ids, queries, SQL, wasm, macros, codegen | none that outlives a call | declare, encode, parse, generate | everything, at build time or by value |

How they interact: a client's frames reach the server through a transport, which
holds one lock around `Server::recv` and `take_outgoing` and delivers what comes
out afterwards. Each engine is a single-threaded state machine without I/O; what
is concurrent is everything between them - messages in flight, several
connections, reconnects - and what their files contain when a process stops.

What is hard, and which property it calls for, is the list of hazards in
`PROJECT.json`, each at its line. The main ones: pushes repeated after a lost
answer; Acks and Batches that overtake one another; crashes between the commits
of two files and between chunks; pending entries invalidated by what landed
under them; a Push stopped half-way; connections turned away; a database failure
taken for a verdict; optimistic rows in the app's own tables, under a savepoint
that any message undoes; schema rebuilds that stop half-way; frames that are
collected by one task for another; logins that are answered late, twice or
never; releases that must each read what all before them wrote; a guest that is
left in the middle of something.

What makes each part correct:

* server engine: every entry once, at one place; only permitted entries the app
  accepts; a refusal only on a verdict; whoever is on a
  connection is who it proved to be; an Ack or Batch never says anything the
  log does not.
* client engine: the tables are the log up to the cursor; no own entry counts
  twice; what is pending applies on what is shown; nothing authored vanishes.
* both: everybody ends with the same rows.
* rebuild: tables are the log replayed through the current app, whatever crashed.
* rooms: a machine hears only peers in its room, knows who is there, and wakes
  from its snapshot; a peer that is gone, or was turned away, is gone.
* views: a maintained view is what the query would return.
* sessions: a token is handed out once, and proves who signed in for it.
* releases: an entry means to every later build what it meant when it was made.
* wasm: a guest writes on the connection of who called it, and what it wrote is
  what its caller reports.

## 2. Modules

| module | models | how it corresponds to the code |
|---|---|---|
| `PetrosProtocol` | entries, wire messages, sequenced tables, the network | `up[c]`/`down[c]` are the frames in flight on c's connection |
| `PetrosClient` | the client engine | one action per call; `held`, `cursor`, `base` are the state file, `pending` the intents file, `run`, `carried`, `broken` memory; `authored`, `refused` are history |
| `PetrosServer` | the server engine | `log` the log, `conns` and `who` the cursor and the identity of each connection, `work` the Push being handled, entry by entry, because each entry commits on its own |
| `PetrosSync` | the composition, faults, properties, fairness | connections that go touch both ends; crash and restart |
| `IntentLog` | what the engine promises: one order, replicas that are beginnings of it | implemented by `PetrosSync` (`KeepsPromise`) |
| `MCSync` | constants for TLC | the verdicts of the to-do app in `crates/petros/tests/common/todo.rs` |
| `PetrosSync_proofs` | proofs | section 5 |
| `ClientView` | one client's connection as SQLite sees it, and the view its caller maintains | `db` is the connection: what is committed (`disk`, `cursor`), what a query reads (`rows`), the savepoint, and what `take_changes` will answer (`changes`, `rebuilt`); `held` and `queue` are the two files, `mirror` the caller's `Views` |
| `MCView`, `ClientView_proofs` | constants for TLC; proofs | an entry that a foreign one invalidates, one that needs another before it, one that a draft left behind is in the way of |
| `SchemaRebuild` | opening a file whose tables are of an older schema, client and server | `role` says whose file, `pc` where in `open` the process is, `stamped` and `cursor` are `petros_meta`, a table is its shape's version and its rows; each commit is an action |
| `MCRebuild`, `SchemaRebuild_proofs` | constants for TLC; proofs | an app that adds a table and gives one up |
| `Incremental` | the pipeline View <- Take <- Join <- Filter <- Source, its Tally, the list a screen keeps by following patches, and the store under them | `held` is the windows of the takes, `nodes` the view, `changes` what a store recorded of each write, `rebuilt` that the client rolled back; one `apply` pushes a batch, one change after the other, each delta through each operator |
| `MCIncremental`, `Incremental_proofs` | constants for TLC; proofs | up to three songs and two notes, the shapes of pipeline looked at |
| `LiveRooms` | the realtime half of the server: roster, rooms, snapshots | each handler (`Hello`, `Say`, `Stand`, `Disconnect`, `Deny`) runs whole under the lock, so each is an operator on the server's state; `keeps` are the calls after which the app asks for the room to be written, `failing` the one that fails |
| `Hub` | the tasks around it, of `petros-axum` and of `ws.rs` | a task takes the lock, has the server handle a message, takes the whole outbox, lets go, and only then delivers; `task` is where it is, `taken` what it still has to deliver, `sinks` the hub's `peers` and `standing`, `quiet` the heartbeat |
| `MCHub`, `Hub_proofs` | constants for TLC; proofs | two people, two connections |
| `Sessions` | login, callback, exchange, whoami, logout, `authenticate` and `owns` | `pending`, `codes` and `handling` are the server's memory, `sessions` the store, `attempt` and `held` a device; an `exchange` and its answer are two steps |
| `MCSessions`, `Sessions_proofs` | constants for TLC; proofs | two devices, two people |
| `Releases` | a declaration, `breaking_changes`, and every payload read by every later build | a build is the macro it is declared with and, for each verb, what a caller passes and what `fill_auto` supplies; `Ship` is the build that log-compat lets through, `Author` any mix of a linked build and a loaded module |
| `MCReleases`, `Releases_proofs` | constants for TLC; proofs | two verbs, two arguments and two filled in, either macro |
| `Mutators` | the module slot, the thread of an instance, the calls that take turns on it | `slot` is `MUTATORS`, `host` the thread's `HostState` with the lent pointer, `guest` the buffers of the host's that the instance holds, and how many calls ended early |
| `MCMutators`, `Mutators_proofs` | constants for TLC; proofs | a good module, one built wrong that loads, one whose `petros_apply` takes other arguments, one that does not load |

Abstractions, and why they lose nothing the properties are about:

* **Tables are histories.** `apply` is deterministic, so the rows of the app are
  a function of the sequence of entries applied; `base[c]` is that sequence. The
  app itself is the constant `Rejects(h, e)`: is `e` refused after `h`? The
  proofs hold for every such operator. In `PetrosSync` a refused mutation writes
  nothing; in `ClientView`, `Partial(e)` is what it wrote before it was refused.
* **An entry's id is its author and the author's count**, which is fresh, and
  gives the order `petros_pending.ord` keeps.
* **The network is a set per direction.** A set can be delivered in any order,
  so it covers the simulator's shuffling; identical messages merge, and
  delivering one twice is the `duplicate` fault. The outbox and the wire are one
  set, because `take_outgoing` only moves frames.
* **One client has one connection at a time.** The server's connection ids
  distinguish a client's old connection from its new one; a disconnect here is
  seen by both ends at once and takes the frames in flight along, so the old
  connection cannot speak again.
* **A Push is handled entry by entry** and nothing else reaches the server in
  between (its callers hold one lock), but a restart or a failing database does.
* **Crashes** land between commits: between entries of a Batch or Ack, between
  an entry and the drop of its intent, between chunks of `advance`. What a call
  would do after the crash is not done. Intents that `open_optimistic` drops one
  by one are dropped at once: the ones left over by a crash are dropped by
  `open`, which replays again.
* **Who may push.** `Proves[c]` are the users whose tokens device c can have,
  and each Hello is judged with one of them: the identity of a connection changes
  when it says Hello again. `Permitted(u, e)` is the check of an entry's actor and
  session; on a connection that is nobody's everything is permitted, as in
  `Server::permitted`. That nobody's connection is never pushed on, unless the
  server trusts everybody, is what `Identified` and `LogPermitted` are about.
* **`carried`** is a connection that `connected` announced. The engine's `linked` is
  that, and also true from `open` to the first `connected` (`client.rs:166`), which
  clears whatever was queued till then and queues all that is pending: what is
  queued in between is never sent.
* **`Knows(c, e)`** says whether c's build has e's verb; an old peer carries the
  entry and fails to apply it, which is `Stick`.

* **In `ClientView` the server is its word**: a log that grows, verdicts on what
  was pushed, and any slice of it in any order and any number of times, since
  `PetrosSync` shows which words are said. A message is what it makes the client
  hold and what it takes off the queue; an entry is one change. `ROLLBACK` itself
  does not fail. `Unknown` are entries whose verb the client's app lacks: the
  way a `recv` fails with nothing broken.
* **In `SchemaRebuild` a row is the entry that wrote it and the version of
  `apply` that did**, so tables of two versions differ. `torn` is a history: a
  rebuild ended between its stamp and its rows. `Indexable(v, w)` says whether
  the indexes of version v's `SCHEMA` can be created on tables of version w's
  shape.

* **In `Incremental` a row is its key, the column it is ordered by, a nullable
  column that a filter reads, and its parent.** One level of children stands for
  all: a `Child` inside a `Child` is the same step one level down. `Shapes` are
  the pipelines of a run: two limits (0 is none), how many changes a batch holds,
  whether parents are written, whether the client rebases.
* **In `LiveRooms` the app's machine is small and external**: a room holds the last
  thing said in it and who is there. Who is sent a frame is kept, and of which
  room; what the frame says is the app's. The log's frames are left out of
  `Hub`, since they are `PetrosSync`'s.
* **In `Sessions` a token, a state and a code are the number of their drawing**:
  nobody guesses one. The provider is external; it answers under the state and
  the nonce it was asked with, or fails, or is never heard of again.
* **In `Releases` a field of a payload is its CBOR type**, which comes of the JSON
  a caller passed and not of the type that is declared. What the build that wrote
  the field took it for - the value, or the default for one that does not read
  back - and the table it named are kept beside it, though no byte says so: that
  is what a retyped or retabled argument changes.
* **In `Mutators` a row written is its caller and its count**, and the lent
  pointer is the name of who lent it. The interpreter is external: it runs a
  call to its end, traps, misplaces its memory, or takes its thread along. An entry
  point of the wrong type is found out when it is called, with the buffers already
  written.

Mutated definitions (`DiscardSilently`, `LoggedHere`, ...) stand beside the ones
they mutate, each marked *Mutant*: a plausible bug each, which the property of
the run it belongs to must catch.

## 3. Runs

| run | question | instance |
|---|---|---|
| `sync_faults` | does anything go wrong when a message is lost, delivered twice or overtaken, a Push stops half-way, a device is turned away or shared, an app is old, anybody crashes between two commits? the inductive invariant, and the refinement to `IntentLog` | 2 clients, 1 mutation each, `claim` (refused by another's claim) and `once` (refused after itself; c2's names a session of somebody else's), an authenticating server, c2 shared by two people and without c1's `once`, any 2 losses, duplicates, disconnects, crashes, restarts, database failures or denials, chunks and batches of 1 |
| `sync_settles` | does everybody end with the same rows and no question open? | 1+1 mutations, 2 faults of 4 kinds, failures of the database reported as refusals, weak fairness |
| `view_current` | is the view what the client promises, and does a maintained copy follow it? | 2 own entries, 2 of others, 1 crash |
| `view_failing` | what is left when either file fails, or the process stops, at any commit, and what does an app cost that writes before it refuses? | 2 own entries, 1 of others, 2 failures or crashes, chunks of 2, an entry that leaves a draft behind on which the next is refused |
| `rebuild` | what do tables hold after upgrades and crashes anywhere, and what can keep a peer from opening? the inductive invariant | 3 versions, 3 entries, 2 crashes, one version with an index the old tables refuse, one that refuses an old entry |
| `rebuild_refused` | *violated*: what opens is what a fresh install would hold | no crash; a version that refuses an old entry |
| `ivm` | is a maintained view the query, and are its patches, windows and counts? | up to 3 songs and 2 notes: all songs in batches of two with rebases, a window of two songs, one note of each song |
| `rooms` | does everybody in a room hear of everybody, does the room outlive its peers, is anybody heard who should not be, who ought to be? | 2 connections, sockets or standing peers, 2 people, both transports, an app that asks for the room to be kept after any call or none, 1 failure of a socket's call, of a write, a denial, a crash or a peer that falls silent |
| `sessions` | can a token be handed out twice, prove somebody else, or get an honest entry refused? | 2 devices, 2 people, a provider or none, a clock that passes every lifetime, 2 logins, 1 restart, lost answer or failure |
| `releases` | what can a chain of accepted releases do to an entry? | every 3 of the builds of 2 verbs, 2 arguments and 2 filled in, by either macro, 1 entry of any JSON |
| `adding_refused` | *violated*: nothing in the log is refused for what was added after it | `mutations!`, an id added to an old verb |
| `mutators` | whose connection does a guest write on, and who hears of it? | 2 peers, 4 modules, 2 writes of a call, 2 loads, 4 calls, each of which may end in a trap or a panic |

Bounds. `sync_faults` has some 390 000 states. Two clients are enough for every
conflict the engine knows: a client only ever meets its own entries and "the
others'", and a third would only be more of the others. Batches and chunks of 1
make every boundary happen with two entries; 2 makes a chunk that is not full.
`sync_faults` was checked as well with `ApplyChunk = 2`, and with `TwoAndOne`
and `claim` alone (1.9 million states), which are too long to keep: two entries
of one author, in one Push. One or two faults reach every pair that interacts (a
crash after a disconnect, a restart after a failed Push). Two own entries and
two of others are what it takes for a pending entry to be invalidated under one
that depends on it. Three versions put one upgrade on top of an unfinished one,
and let a table appear and another go. `CHECK_DEADLOCK FALSE` in the runs of
`PetrosSync`: with nothing left to author and nothing in flight the system
rests, as it should; and in `rooms`, `sessions`, `mutators` and those of
`Releases`, where connections, logins, calls and releases run out. In the others
something can always be received, opened, written or called again.

Two connections put one peer beside another in a room, or in another room, and
let a task be overtaken by another with the outbox; a third would be more of the
others. `Missed` of 1 makes the first missed beat and the last two different
beats. Two devices and two people are every way to cross two logins; the clock
reaches past each lifetime twice. Three releases are the fewest where the last
is compared with neither the first nor what the entry was written with. Three
songs are a window of two and the row behind it, which is what a removal brings
in. Two loads are a module and another over it, good or bad; four calls are two
for each peer, or one peer's apply between two of the other's, with a trap or a
panic anywhere.

Fairness (`FairSpec` of `PetrosSync`): weak fairness of reconnecting, of reopening an app that
stopped, and of handling what is in flight on a connection that lasts. That is
what the transports do: they retry the connection, deliver frames of a live one
and the server's handler runs to its end. No fairness for `Mutate` (nobody must
author), none for faults, and loss is not among the faults of `sync_settles`: a
frame lost on a connection that stays up is not sent again by the code, and TCP
does not lose one. The simulator heals by reconnecting, which is a disconnect. In `rebuild`
(`FairSpec` of `SchemaRebuild`) it is that of `Working`: somebody opens the app
again, and what `open` has begun is sequential code that runs to its end or is
stopped by a crash, of which there are finitely many. In `rooms` it is weak
fairness of what a connection's task does by itself (`Step`) and of its heartbeat
(`Beat`): a runtime runs a task that can run, and a timer ticks. No peer has to
say, close or answer anything.

## 4. What the runs found

* `rebuild_refused`: `reset_tables` stamps the new version before `replay_all`
  runs. If the new `apply` refuses an old entry, the open fails once; the next
  one finds the version current and serves empty tables. `RebuiltUnlessTorn`
  says the same of a crash there, and of a client that stops between the stamp
  and the rewinding of its cursor.
* `adding_refused`: `compat.rs:101-104` has log-compat let every addition through,
  "because a payload without a field decodes to that field's default". With
  `mutations!` an id or an array has none (`petros-schema/src/lib.rs:760-762`):
  a build with a new id argument passes the check, and refuses every entry of
  that verb that is older than it.

More that the models show, each with other constants of a run above and, but where
it is said, none of it part of the runs:

Sync.

* `RefusedStaysOut` of `PetrosSync`, no fault at all, `claim` and `remove`, 1+2
  mutations: `open_optimistic` reports a pending entry as rejected although its
  Push is in flight and the server may yet accept it, when a third entry has made
  it valid again by then. The author was told "will never be in the log"
  (`client.rs:16`), and then it is.
* `RefusalsAreVerdicts` with `IoIsVerdict = TRUE` and `"io"` among the `Faults`: the
  `apply` that `app!` generates reports a failure of the database as a rejection
  (`lib.rs:278`), and the server answers with a permanent Reject, although
  `error.rs:17` says "Not a verdict about the mutation." `sync_faults` has
  `IoIsVerdict = FALSE`, an app that keeps the two apart; `sync_settles` has `TRUE`.

The view.

* `MirrorIsCurrent` with `Unknown = {"t2"}`: after a `recv` that failed with the view
  down, the next `mutate` replays what is pending without reporting a change, so
  a maintained view lacks those rows until the next rollback.
* `ViewIsReplay` with `Failures = {"intents"}`: a mutation whose intent could not
  be written stays in the view, although `mutate` returned the error
  (`client.rs:548`). `ViewIsWhole` names these rows apart (`unrecorded`).
* `RowsOnce` with `Failures = {"intents"}`: an entry confirmed while the drop of
  its intent fails is replayed on top of itself by the next message; only `open`
  forgets confirmed intents (`client.rs:180`).
* `DropsAreVerdicts` with `DraftRejects` and `WritesFirst`: entries of a replay have
  no savepoint of their own, so what a refused one wrote can get the next one
  refused, and dropped for good (`client.rs:642`). This happens in `view_failing`,
  which has these constants; `FirstDropIsVerdict`, which it checks, is what is left.
  What else a pass drops goes in one step here, and one by one in the code.
* A mutation refused with nothing pending leaves the transaction open
  (`client.rs:523`), although `client.rs:74` says it "is held exactly when there
  is something pending".

Rebuild.

* `Opens` of `SchemaRebuild` with `IndexedColumn` and no crash: `SCHEMA` runs before
  the tables are found stale, so an index on a column the old table lacks makes
  every open fail before the rebuild.

Maintained views, `ViewIsQuery` of `Incremental` with another `Shapes` each:

* `Shape(2, 0, 2, TRUE, FALSE)`: two changes in one batch on a limited view can
  leave a row in it twice, since the table has both while the first is pushed.
* `Shape(2, 0, 1, TRUE, TRUE)`: a window hydrated again after a rebase answers
  its next refill from where the old one ended (`lib.rs` `Views::hydrate`).
* `Shape(0, 1, 1, TRUE, FALSE)`: a change of one parent clears the windows of
  all (`petros-ivm/src/lib.rs:629`), and the next change of a child is judged
  against none.
* `Shape(0, 0, 3, TRUE, FALSE)`: a parent added with a child, and the child edited,
  in one batch: the child is there twice.
* `TieDown` with a limit: the seek of a refill takes every term of an ORDER BY in
  the direction of the first (`backend.rs:336`).
* A nullable column and `!=`: the filter in Rust lets a NULL through
  (`petros-ivm/src/lib.rs:1215`), the WHERE of the query does not.

Rooms, in `Hub`:

* `SilentIsGone` with one socket on `axum` and `sleep`: the writer gives up on a
  silent peer and ends, and the reader waits on a socket nobody closes, so its
  user stays in the room (`petros-axum/src/lib.rs:307`).
* `RoomContinues` with `read` among the `Faults`: a room is marked as seen before
  its snapshot is read, so after a read that failed the next peer finds an empty
  room, and the snapshot is written over (`live.rs:29`).
* `OutboxCollected` with standing peers and `another`: what a failed call of
  theirs had posted waits in the outbox for somebody else to say something.
* `DeniedIsNobody` with `local` peers, and in `ws.rs`: a connection that was turned
  away stays in the roster, and nobody closes it there (`server.rs:371`).
* In `petros-axum` a denial need not be the last frame, as `lib.rs:237` has it:
  another task may have taken a frame for the connection before it.

Sessions: a store that fails while it is asked `owns` gets an honest entry
refused for good (`session.rs:180` takes an error for a no). `AuthorsKept` says
that nothing else does.

Releases:

* A `NewId` or `Now` that a `#[mutation]` takes later gets old entries refused with
  "fill_auto did not run" (`petros-macros/src/lib.rs:240-256`), where `AddingIsSafe`
  fails too. log-compat does not see these: the
  surface has only what a caller passes.
* `ReadAsWritten` with a verb that goes from `#[mutation]` to `mutations!` and back: an
  id may lose its table in one release and get another in the next, and a bool
  written as an integer is read by the one and not by the other.
* `ReadAsWritten` where what is filled in becomes an argument, or the other way
  round, or an id where it was the time: the surface that is compared does not say.

`Disciplined`, which the theorems about releases assume and `MCReleases` assumes of
the builds of its runs, keeps these last two out: of any two builds, what one fills
in the other never takes from a caller nor fills in as something else, and a verb
with an id or a bool argument keeps its macro. It allows every addition.

The wasm host:

* A failure of the host below a guest ends as a rejection of the mutation
  (`foreign.rs:189`), which gets what is pending dropped: `RefusalIsApps` of
  `Mutators` does not hold.
* `fill` and `apply` take the lock one after the other, so a load between them has
  one module fill what another applies.
* A call that ends in an error leaves its buffers in the guest, where `free_bytes`
  says every `write_bytes` "has to be matched by one of these": an entry point of
  the wrong type (`wasm.rs:355-359`, `393-397`), memory that cannot be written or
  read (`413-427`, `406`), or a trap. A module whose `petros_apply` is mistyped loads,
  and keeps two buffers of every apply; `BuffersGivenBack` counts these calls apart.
* A guest that never returns holds the lock against every load and every call.

## 5. Proofs

From `ProtocolAssumption` alone (batch and chunk limits positive, bounds
natural numbers), for any set of clients, any operations, any app (`Rejects`,
`Knows`, `Permitted` are arbitrary) and any faults (`PetrosSync_proofs`):

* `TypeCorrect`: one lemma for each action.
* `Invariant`: `Spec => []IInv`. None of the
  properties is inductive alone. `HeldAgrees` needs to know what Batches and
  Acks in flight say (`WireAgrees`), which needs what the server is about to
  answer (`Agrees(work.acks)`); `BaseIsLog` follows the run a client holds, so it
  needs `HeldAgrees`; `ConfirmedApplies` needs that the server judged each entry
  after exactly the entries before it (`LogValid`) and that base is that prefix;
  `NothingLost` needs that what a Batch, an Ack or the client's own table names
  is in the log; the refinement needs that what is pushed was authored
  (`OwnAuthored`). The argument first reduces every step to one of four kinds
  (`StepKinds`): a client moves - receives, opens, crashes anywhere - which is
  the one formula `Moves`; a client makes an entry; the server appends one; the
  rest, which leave log, files and histories alone. Each conjunct is then shown
  to survive each kind.
* `OnceInTheLog`, `NeverDisagree`, `TablesAreThePrefix`, `OnlyOldAppsStick`,
  `NoMutationDisappears`, `OnlyPermittedLogged`, `NothingCountsTwice`, and
  `Refinement`: `Spec => KeepsPromise`.
  `OnlyPermittedLogged` needs `Identified`: as long as the server knows a connection
  it knows who is on it, and handles the Push of no other. That takes every way a
  connection is let in, turned away, or forgotten with a Push half done.
* `RefusedOnGrounds` (`RefusalsAreVerdicts`) assumes besides `NoFalseVerdict`, that a
  failing database is not reported as a refusal: with it, section 4. A refusal is
  the server's or the client's own, and what it was judged on lasts: the beginning
  of the log, and what the author had pending before it.

From `ViewAssumption` (the chunk limit positive, bounds natural numbers, and no
entry both the client's and another's), for any entries, any app (`Rejects` and
what a refused entry wrote, `Partial`, are arbitrary) and, but where it is said,
any failures (`ClientView_proofs`):

* `ViewsHold`: `Spec => []ViewInv`. That the disk is the log (`DiskIsConfirmed`)
  and that the view is all of the queue or none (`ViewIsWhole`) need each other,
  and need that the rows beside the committed ones are there exactly while the
  savepoint is open: `advance` commits whatever the connection shows.
  `DiskHoldsTheLog` and `ViewsAreWhole` follow.
* `NothingShowsTwice` (`RowsOnce`), where only crashes happen, from `OnceInv`: no
  entry is held and queued at once, and nothing is held twice. A write that
  fails breaks it (section 4).
* `ViewsAreReplays` and `MirrorsAreCurrent`, where besides the app knows every
  verb, from `CurrentInv`: then the view is down only with an empty queue. `view_stale`
  is what happens otherwise.
* `FirstDropsAreJudged`: `Spec => FirstDropIsVerdict`, whatever fails and whatever a
  refused entry leaves behind. It follows the passes of `open_optimistic`: of all
  the entries they drop, the first in the queue was refused in the first pass, with
  nothing of a refused one before it. `DropsAreVerdicts` is only model-checked, for
  an app that checks before it writes.

From `IncrementalAssumption`, for any finite tables and any `Shapes`, those of
section 4 that go wrong included (`Incremental_proofs`):

* `ScreensFollow` (`ScreenFollows`), from `ScreenInv`: every stage passes on a sequence,
  and each step of the view leads the screen to where it is itself. Nothing is
  needed of the tables: the patches tell a screen the truth about the view even
  where the view is wrong about the query.
* `TalliesCount` (`TallyCounts`), if no song has a NULL where the filter reads
  (section 4), from `TallyInv`: the tally and the changes still to be counted
  make the number of rows that match, now.
* `ViewsAreQueries` (`ViewIsQuery`), under `ViewsAsked`: rows with numbers to go by and no NULL where the filter reads, no limit
  on the children, one change an apply, and, only where there is a limit, ties by
  the smaller key and no rebase. Each condition on rows and views but two keeps out
  what section 4 shows to go wrong. The two: batches of two without a limit, and
  one note of each song while only notes are written, are right on the rows of
  `ivm`, and only model-checked. The invariant is `QueryInv`: the view, and the window of its
  take, are what the query gives for the tables before the change that is not yet
  applied. Between the stages a list is known by `Begins` and `Fills`: it is sorted,
  what it leaves out comes after all it holds, and it leaves something out only when
  the limit is reached. There is one such list for a table (`FillsSame`), and the
  statement returns it (`InOrderIs`, `RowsFill`); so it is enough that each delta
  keeps a list one. `AddMoves`, `RemoveMoves`, `EditMoves` and `ChildMoves` say so of
  the take and the view together, a refill included (`NextIs`: past the last row of
  the window the store returns the next row of the query). `SongsCome` and
  `NotesCome` say that the filter and the join tell the take just those deltas, a
  note edited from one song to another included.

From `RebuildAssumption` (the chunk limit positive, bounds natural numbers), for a
client and a server, any tables, any app and any verdicts (`SchemaRebuild_proofs`):

* `StampsAreTrue`: `Spec => []RebuildInv`. What is wanted, that an open file is
  as a fresh install would be, is not inductive: a step has to know what the
  stamp means. `RebuildInv` says it for each place in `open`: below the current
  version nothing is claimed of the tables; while it is being stamped they are
  empty and new; once it is current they are of one version, and they are the
  log up to the cursor unless a rebuild was torn. The lemmas under it say what
  `migrate` and replaying in parts do to tables.
* `RebuiltIsFresh` and `OneVersionOnly` follow.

From `LiveAssumption` and `HubAssumption` (a connection is a number, a room of one
user is not that of nobody, a missing value is none of the rest), for any
connections, people, transports, kinds and faults (`Hub_proofs`):

* `RoomsInOrder`: `Spec => []HubInv`. A handler runs whole, so the first half of
  the module says what each part of one (`Depart`, `Opened`, `Join`, `Keep`) makes
  of a server whose rooms are in order, whichever call of it fails; the second
  half takes these through the tasks. What is wanted of rooms needs what is on
  its way: who is in a room proved it and the room was offered its snapshot, the
  outbox holds nothing for others, and neither does what any task has taken.
* `EverybodyIsKnown` and `NothingIsOverheard` follow.
* `NothingIsLeftUnsaid`, if no call fails for a peer without a socket;
  `RoomsContinue`, if snapshots can be read. Section 4 shows why each is
  assumed. The last needs that a room which was offered its snapshot is open,
  or has none (`Continues`), which a failed read breaks.

From `SessionsAssumption` (lifetimes of codes and logins positive, bounds natural
numbers), for any devices, people, modes and faults (`Sessions_proofs`):

* `LoginsHold`: `Spec => []LoginInv`. That a token is handed out once needs where
  a login is: pending, being called back or finished, and never two of them
  (`FinishedOnce`), each drawn for one device (`AttemptsApart`), a code only
  while nobody has its token (`CollectedOnce`).
* `TokensAreHandedOnce`, `SessionsAreOwn`, `MemoryIsRecent`, `AuthorsAreKept` follow.

From `ReleasesAssumption` and `Disciplined`, for any builds and any number of
releases (`Releases_proofs`): `ReleasesAreAChain`, `Spec => []ChainInv`. log-compat
compares a build with the one before it; the invariant says that the newest says
what *every* one before it said, and that an entry is one of the newest build its
device knew, whatever a caller passed. `EntriesKeepTheirMeaning` follows.
`Disciplined` is a condition on the app, which the code does not check (section 4).

From `MutatorsAssumption`, for any peers, modules and faults (`Mutators_proofs`):
`CallsHold`, `Spec => []CallInv`, and from it `LentIsGood`, `ReportsHold` and
`BuffersHold`. What a host function finds when it follows the pointer is only
known from where each peer is, what the thread is in, and what the guest holds.
Modules are arbitrary, of whatever shape: a call of theirs may end anywhere.

Induction over sequences and numbers: the induction theorems of the library take
an operator, which the provers cannot instantiate. `ClientView_proofs` and
`Incremental_proofs` get the same from `WFMin`, that a set of numbers has a least
one (`SmallestOf`, `NatInd`, `Along`): a fact is the set of numbers it holds for. What
the code does entry by entry is in these two models a recursive function, and
its equation is proved before it is used (`Steps`, `Ran`).

Only model-checked: `Converges`, `OpensUnlessRefused` and `GoneIsGone`, since
liveness under fairness is out of the prover's reach; `DropsAreVerdicts`,
`DeniedIsNobody` and `WindowIsView`, whose theorems would assume what the code does
not give; and `ViewIsQuery` of the two views named above.

## 6. Done, and not modelled

The plan had the engine first, then one client's view, the rebuild, rooms and
the hub, sessions, views, releases and the wasm host; each is modelled and
checked and proved about. What could follow:

1. `PowerLoss`: files whose last commits may vanish. `open_path` sets WAL with
   synchronous NORMAL for every file, the clients' as the server's
   (`crates/petros/src/lib.rs:190`): an acknowledged entry may lose its place.
   Here a commit is durable once it is made.
2. `Incremental` with a child of a child, once its windows are per parent in the
   code.

Not modelled:

* the SQL front end, which parses text into a plan and keeps nothing;
* the text that macros and code generation write, TypeScript and uniffi: what a
  declaration *means* is in `Releases`;
* formatting of rows, seeds, the bytes of ids and of CBOR: conversions that keep
  nothing, of which no property here is about the bytes;
* `web.rs`, a socket of a browser, which is here an end that comes and goes;
* HTTP, cookies and cryptography of `petros-auth`;
* the wasm interpreter, the example app, build and deployment files.
