# lily: a TLA+ model of the server

lily serves one large language model on one Apple GPU, over HTTP, to one or a
few agent clients. This directory holds TLA+ modules that model the server's
own logic, TLC configurations that check them on small instances, and TLAPS
proofs of what matters most. Paths below are relative to the root of the
repository (`src/serve/session.rs` is `src/src/serve/session.rs` when the
repository itself lies in a directory `src/`).

Contents: the parts of the system, the modules, the runs, fairness, the
proofs, what the models say about the code, what is left out, where to go on.

## The system's parts

Threads: HTTP threads (one per connection, with a reader thread each), one
relay thread per request, **one engine thread** that owns the model, the GPU
context and the session store, a write-ahead thread while one session is being
copied to disk, the recorder thread (SQLite), the weight pin's pressure
monitor, the expert cache's service thread, and the feeder thread of gated GPU
passes. They meet in channels, a few atomics and GPU events.

| Component | State it keeps | Operations | Where it is hard | What makes it correct |
|---|---|---|---|---|
| Prefix matching (`session.rs`) | none | `shared_prefix`, `agreement`, `resume_position`, `boundary_position`, `last_user_turn`, `keep_newest` | images are one placeholder token, repeated: equal tokens, different pixels | a prompt only ever resumes on the cells it would compute itself, never inside an image |
| Decode checkpoints (`session.rs`, `generate.rs`) | positions, spacing | `due` (thins as it answers), `take` | several tokens confirmed at once; the loop asks twice | never more than admission counted; in order; spread evenly; the second answer is the first |
| Session store (`session.rs`) | resident sessions with checkpoints, the parked session, use clock, sizes of recent sessions, lineage counter | `acquire`, `release`, `trim`, `write_ahead`, `reclaim_for`, `spill_all`, `drop_all` | one session in three places (GPU, disk, being copied), copies that go stale, a writer thread, faults | see `SessionStore` below |
| Disk tier (`disk.rs`) | index, directories, next id, budget | `open`, `expire`, `store`, `store_ahead`/`commit`/`abandon`, `restore`, `touch`, `remove`, `trim`, `trim_durable` | crash between file operations, writer thread, settings that arrive late | index readable, nothing leaks, nothing lost but what was interrupted, budget kept, no early expiry |
| Requests (`request.rs`) | what the acquire found; how far it fed | admission, prefill to the boundary, stop, checkpoint, answer, release | cancellation at every chunk; failure at every step | the session given back says what was fed |
| Batch scheduler (`batch.rs`) | slots, rows, held job, solo row, interleaved prefill, stretch | `next_job`, `fits`, `start_row`, `next_action`, `park_next`, `fail_row`, `finish_row` | jobs arriving while others decode; parked steps; preemption | no job lost or served twice; a held job starts when rows end; a parked step is never run on rows that changed |
| Engine loop (`serve.rs`) | the loaded engine, idle timer, recovery budget, queue counters | `Cmd::{Job,Wake,Arrival,Settings}`, load, idle unload, fault recovery, shutdown | four deadlines in one wait; stop in every phase; a full channel | every client is answered; the queue's counters match the channel; bounded recoveries |
| Runtime settings (`runtime.rs`) and recorder (`recorder.rs`) | handles; SQLite connection, row channel, claim of a change | `change_settings`, `apply_stored`, `settle`, `open`, `finish` | an HTTP thread that gives up while the recorder takes its change | the answer says what happened to the change; rows drained at shutdown |
| Weight pin (`pin.rs`) | pinned, in flight, deferred | `decide`, `hold`, `release_if_held_out`, the monitor's poll | pressure seen by the monitor and by a request at once | never unlocked under a request; a deferred release happens |
| Connections (`http.rs`, relay in `serve.rs`) | phase, reader thread | read, watch, cancel, chunked answer | an end of file that races the answer | a live client is never cancelled; a gone one cancels |
| Decode loop (`generate.rs`, `qwen4exp/spec.rs`) | parked step, drafts, ping-pong buffers | step, park, release on exit, rollback | a step parked behind a draw that ends the generation | the draws are those of a loop that does one step at a time; parked work released on every exit |
| Compute passes (`qwen4exp/model.rs`, `batch.rs`, `spec.rs`, `moe_ffn.rs`, `kernels/`) | scratch tensors, caches, recurrent states, n-gram staging | encode a decode step, a chunk, a verify and a draft pass, a batched step, an image | between two barriers the GPU runs dispatches in any order; the host writes shared tensors while a pass runs | every dispatch reads what the program's own order gives it |
| Metal context (`metal.rs`) | fence values, pool slots, fault, gated passes | `submit`, `wait_fence`, feeder | submission order under several submitters, waits Metal gives up | a wait that returns without error means the pass ran; a slot is reused only behind its fence |
| Expert cache and prefetch (`qwen4exp/expert_cache.rs`, `expert_store.rs`, `expert_prefetch.rs`) | slot table, request queue, promotions, reservations | request, serve, cancel, promote, read ahead | the GPU waits for events a CPU thread signals; cancelled passes | a slot is never refilled under a pass that reads it; every wait is signalled |
| Thinking controls (`thinking.rs`) | automaton over decoded text | observe, decide, budget, nudge | text split anywhere over tokens; a step is committed ahead of the draw | never inside a code fence; the budget is kept; only announced draws are changed |
| N-gram table, tokenizer, template, weights, dashboard, timings, tools | mostly none | sequential transformations | no concurrency of their own | left to unit tests and goldens |

How they interact. A request reaches the engine thread through the command
channel. The engine takes (`acquire`) a session out of the store, which looks
through resident sessions, the parked one and the disk tier; prefills; stops on
the way at the *boundary* to write a durable prefix entry; decodes, with
checkpoints from time to time; and gives the session back (`release`), which
evicts until the budgets hold. Evictions write sessions to the disk tier,
unless a copy was written ahead. Between requests the engine lets the store
write ahead and may unload everything. A GPU fault fails all requests and
rebuilds context and store; a process crash leaves the disk tier's files.

The forward pass never runs on the host. A step is *encoded* as a compute pass,
a list of dispatches with barriers, committed to the one queue of the Metal
context, and waited for. To keep the GPU busy the host commits the next step
before it has seen the draw of this one; that step is *parked* on a shared event
in the middle of its pass, until the host has read the token and staged its
n-gram rows, or released unread. On machines with little memory the experts'
weights come from an expert cache: in every layer the GPU raises `routed` and
waits for `ready` while the cache's service thread reads what is missing.

## The modules

| Module | Models | Notes |
|---|---|---|
| `FiniteSums` | lemmas only | minimal sets, least and greatest members, sums over finite sets |
| `PrefixMatch` | the pure functions of prefix matching | tokens and images against *cells*, see below |
| `DecodeSpacing` | where decode checkpoints lie after a decode | a recursive function shared by the two modules below |
| `DecodeCheckpoints` | one generation's checkpoints, action by action | theorems in `Parts_proofs` |
| `LineagePair` | all pairs of a lineage and a prompt | drives `PrefixMatch`; every pair of bounded size in `MCParts`, theorem in `Parts_proofs` |
| `DiskTier` | the disk tier's index, whole operations | operators, used by `SessionStore` and as the reference of `DiskStore` |
| `SessionStore` | the store, its requests, the writer thread, faults, unloads, restarts | the core; `SessionSafety_proofs` holds its theorems, `MCSession` the instances |
| `PromptCache` | what the cache promises its requests | abstract: states known by the cells they were computed from |
| `SessionRefinement` | `SessionStore` implements `PromptCache` | the mapping, by `INSTANCE ... WITH`; `_proofs` holds the simulation |
| `WriteAhead` | the idle time between two requests | no entry numbers, so that endless idle time is a finite cycle |
| `DiskStore` | the disk tier file by file | crashes between file operations, writer and recorder threads; `_proofs` holds its theorems |
| `EngineLoop` | the engine thread's loop and the threads that send it commands | channel, counters, loads, faults, stop; `_proofs` holds its theorems, `MCEngine` the instance |
| `WeightPin` | the pin on the weights | engine thread against the pressure monitor; theorem in `Threads_proofs` |
| `IdleWait` | the engine's wait for the next command | relative time: ages and waits, both bounded; theorem in `Threads_proofs` |
| `Connection` | one request's connection | relay thread, watcher thread, a client that leaves; theorem in `Threads_proofs` |
| `Recorder` | the recorder thread and the HTTP threads that change settings | rows, batches, reopening, claims, stop; theorem in `Threads_proofs` |
| `MetalQueue` | the Metal context's queue | committing thread, feeder of gated passes, GPU, feedback handlers; theorem in `Threads_proofs` |
| `MCThreads` | the five above, one at a time | they share no state, so a behaviour is of one of them |
| `Batch` | the batch scheduler | rows, slots, held job, parked batched steps; what the GPU computes is what it read; theorem in `Generation_proofs` |
| `DecodeLoop` | one generation's loops: parked, encoded ahead, speculative | tokens are named after their places, states after what they were computed from |
| `ExpertCache` | the expert cache, its slot policy and the prefetch | service thread, readers, GPU; alone in `expert_prefetch`, in a larger instance; theorems in `Generation_proofs` |
| `MCGeneration` | the three above, one at a time | |
| `ThinkingControl` | the automaton over reasoning text | a second reading of the text, line by line, for the properties; theorem in `Parts_proofs` |
| `PassItems`, `Kernels` | what a pass is made of; every kernel wrapper's dispatch | reads, writes and inner barriers of each |
| `MoeGraph`, `StreamGraph`, `DecodeGraph`, `BatchGraph`, `DraftGraph`, `RowsGraph`, `VisionGraph` | the encoders, one module per file or part of one | operators: each returns the items it encodes |
| `PassPrograms` | sequences of passes as the engine commits them | the instances |
| `ComputePass` | how the GPU and the host run a program | parameterised by the programs; theorem in `Parts_proofs` |
| `MCParts` | `DiskStore`, `DecodeCheckpoints`, `LineagePair`, `ThinkingControl`, `ComputePass`, one at a time | parts that need no fairness |

### Cells: how a cache's content is modelled

The code knows a session by its tokens and image spans. What a cache really
*holds* depends on pixels too, and on which computation filled it. The models
therefore give every decode state what it was computed from: `kv`, one *cell*
per position of the per-token caches, and `rec`, the cells behind the recurrent
state, whose length is the state's position. A text cell is its token; every
cell of an image is that image. `TokensOf` is what the code sees of cells: each
image cell becomes the same placeholder. The store's operations use tokens and
spans only, like the code; the properties compare cells. A faulted GPU computes
`Garbage`. Token ids, tensors and byte counts have no other content: a
session's bytes are its capacity plus one per checkpoint, an entry's are its
length plus one per checkpoint.

### `SessionStore`

State. `entries` is `Store::entries`; `writing` is `Store::writing` with the
thread's progress (`running`, `written`, `failed`); `disk`, `next_id` are the
`DiskStore`; `next_lin` the process's `Lineages`; `clock`, `recent_new` their
namesakes. Per slot, `stage`, `session`, `plan` are a request: what it has
checked out and what the admission computed. `pc` and `cur` are the engine
thread's place inside a store operation that takes several steps, and the
request it works for. Only the engine thread calls the store, so nothing but
the writer thread, time, a fault or a crash moves between two of its steps;
`pc = "idle"` is where it may start something else.

Actions, in the order of a request: `Acquire` (admitted; `collect_finished`),
`reclaim_for`, `Lookup` (one of `StartFresh`, `Extend`, `CutBack`, `Fork`,
`Restore`, `DropUnreadable`; the tier expires first, the durable boundary is
decided), `MakeRoom`/`RoomMade` (`trim`), `StoreDurable`, `FinishPrefill`,
then one of `StopPrefill`, `Answer`, `Fail`; `Release`, `TrimReleased`,
`Released`. Evictions are `evict_lru`, one session a step, and take the parked
session in its turn, waiting for the writer. Between requests:
`CollectAhead`, `NothingToWrite`, `StartWrite`, `WriterEnds`. The engine's
life: `Unload`, `UnloadJoin`, `SpillOne`, `Reload`; `Fault`, `Recover`;
`Crash`; `Tick`.

Choices the code leaves open are nondeterministic here: equally good
candidates (the code has tie-breaks by cache key and recency), the free-space
margin of the volume, read and write errors, which chunk a stop falls on,
whether the decode loop last asked for a checkpoint at the final position or
one before, and how far the wall clock went back before a restart. `release`
and the evictions behind it are separate steps since the writer thread may end
between them; a lookup's expiry, choice and copy are one step, since nothing
else touches what they read.

### `DiskStore`

`dirs` are the directories with three files each (the caches, one checkpoint,
`meta.json`), `Missing`, `Half` written, or with their content. An operation
is a walk of `pc`: expire reads the age (`ReadAge`), asks the gate (`Gate`),
deletes (`Expire`); a store reserves, writes file by file (`WriteFile`, in the
engine's thread or the writer's), and commits (`CommitStore`, `MakeRoom`,
`CreateMeta`, `PushEntry`, `TrimDurable`, `Fit`). Deletion of a directory is
file by file in any order (`DeleteFile`). A lookup that hits notes the use and
rewrites `meta.json` in place (`Touch`, `Touched`); the code ignores a failure of
that write, so the entry stays indexed while its file is half a file or says an
earlier use. `Crash` may fall between any two
steps and keeps the files; `Open` indexes what loads, `Sweep` deletes the rest.
`known`, `unsaved` (the entries whose last use could not be written down),
`excused`, `before` are history variables of the properties.
A crash is that of the process: the page cache survives it. Power loss is not
modelled, nor does the code claim anything about it.

### `EngineLoop`

`chan` is the bounded channel of `Cmd`: a client's name stands for its job,
three strings for the control messages. `waiting`, `arrival_pending`,
`settings_pending` are `EngineQueue`'s. `http[c]` is where client c's thread is
in `handle`: every atomic and every channel operation is a step of its own, so
that the counters and the channel can disagree as they do in the code.
`engine` walks through `engine_loop` the same way. A request's work is one step
that may fault; what it does to the store is `SessionStore`'s business. Time is
not counted: a wait with a deadline may end at any moment (`Timeout`), and what
matters of a timer is its value, against the value the deadline was computed
from (`deadline`). A second signal would exit the process at once, but the
signal thread only takes it after the grace; it is left out.

### `WeightPin`, `IdleWait`, `Connection`

`WeightPin`: one action per critical section of the mutex, and one per range
while `lock_all` runs, during which the monitor is shut out. The level is read
before the mutex is taken, as in the code, so it may be an old one. `failed`
stands for a failed `mlock` of the active period. `IdleWait`: `deadline`,
`window_end`, `next_tick` are what is left of each wait, `quiet` and `gpu` the
ages of the last activity and the last submission; all stop counting at
`Oldest`. A wait may be woken up to one unit late. `Connection`: `wire` is what
was written, in pieces; a client that left may answer with a reset at any
moment, and answers what is written to it with one within the probe's window.
Writes that hit a reset fail and set `cancelled`; writes before it succeed, as
they do in a socket's buffer.

### `Recorder`

`mail` is the channel of `RowSink`: rows, the stop, and an HTTP thread's name for
its settings change. Rows have no content, they are counted: `offered` is
`stored + dropped + lost` and what is on its way (`waiting` in a batch or for a
database that does not open, `retry` of a batch that failed once). `claim` is
the `Claim` of a change, taken either by the thread that makes it or by the HTTP
thread that gives up. There is one setting, its `row` in the database and its
`override` in effect; a change is planned (`ChangeNext`), committed
(`CommitChange`), published and answered (`PublishChange`), and may fail at
each of these steps. `row` starts as anything a process before may have left.

### `MetalQueue`

`submitted` is the queue, `fence` and `done` the values the GPU raises, `event`
the watched event the host raises. A pass is its number of waits; a gated pass
is submitted part by part by a `feeder`, with the next part at the host's
signal. `feedback` are command buffers whose completion handler has something to
tell: that a wait was given up (Metal lets a command buffer go on after some
seconds), or that the GPU stopped at an error. `doing` is the committing
thread in `commit`, in one of its two ways to wait, or in the drop of a
`PendingPass`. Times are left out: any wait of seconds may end at any moment. What
`wait_released_early` makes of them is a choice: a wait given up whose event is
still below its value is always found, but of one that was signalled before the
handler looks the times may tell (`early`) or not, since 0.1 ms are spared and an
unknown time of the signal or of the start counts as nothing
(`metal.rs:1662-1701`). So a call may return without error although a wait was
given up shortly before its signal; `QueueSafe` claims what is left: everything the
pass waited for was signalled before the call returned, and no work of it is known
to have started too early.

### `Batch`

`at` is where the engine thread is in `serve_batched`; `rows`, `slot`, `free`,
`held_job` are the scheduler's; `current` and `parked` the two steps in flight,
`passes` the GPU's queue, `draws` the two buffers steps write their draws to in
turn. A token is `<<job, place>>`; a pass that reads anything but its row's
inputs leaves `rec = -1`, which `RestsBetween` finds. Budgets are in tokens:
`fits` compares the capacities of the rows and an estimate for the next. The
lone row's own loop (`Solo`) is its summary, a token at a time, since
`DecodeLoop` has its inside; between two of its tokens a job may arrive
and end it.

### `DecodeLoop`

One generation behind its first draw, in one of three modes: steps parked on
the GPU, steps encoded ahead but committed late, speculation. `mem` is what GPU
and host both see (the token slots, caches, recurrent state, windows, penalty
counts, the sampled rows of a verify pass); its contents are sequences of tokens,
the ones they were computed from. A draw carries its index, its context and the
counts it saw, so that "the pipelined loops draw what the simple loop draws" is
`DrawsInPlace`. Insertions of the thinking control, a stop token it replaces,
the length limit, decode checkpoints, a growing cache, errors at any place
(`Fail`) are actions.

### `ExpertCache`

`slice`, `used`, `role` are `SlotPolicy`; `table` the slot tables the GPU reads
through; `slab` what a slot's memory holds, `Torn` while a read writes it;
`requests` and `serving` the service thread; `outstanding`, `read_queue`,
`flying`, `landed_reads` the prefetch. A slice is a layer and an expert; what the
router chooses and what a prediction file says are free. `Predictions` are the
ways a file may be served: not at all, with a plane at the start of a token, with
another one behind each layer of `CutLayers`, and with such planes that replace
what the one before queued. A plane is issued a row at a time (`ReadRow`: up to
`TopPicks` experts of one layer), and a row pick by pick (`Pick`), each passed over,
reserved (`Reserve`), or, where the next request would lack its slots, the end of
the row. `Abandon` is an encoding that failed behind a layer of `AbandonAfter`: its
requests stay queued, and once a later pass has signalled a higher value they are
resolved with whatever ids their buffer holds (`RoutedIds`). A request in
`PromoteEvery` promotes.

### `ThinkingControl`

The scan a character at a time, characters told apart as far as the rules do
(`word`, punctuation that ends a sentence, `blank`, `newline`, the two fence
characters, the two tags of a tool call). `line`, `fence_line`, `in_block` read
the same text a line at a time by CommonMark's rules; the properties use only
them. A `</tool_call>` that is not followed by a line end leaves the scan at an
indent (see "What the models say"), so the pieces of the run end the line there
(`CallsEndLines`).

### The compute passes

An encoder is an operator that returns the sequence of *items* it encodes
(`PassItems`): a dispatch with the tensors it reads and writes, a barrier, a
signal, a wait with what the host does before it answers. A tensor is a set of
regions, so a view is a subset and the rows of a batch are told apart where the
code hands out views per row. Each encoder keeps the name and the order of its
Rust function, barriers included; a kernel wrapper that encodes several
dispatches (the sort of the experts' rows, the scan of the recurrent layers, a
split attention, the draw) has its inner barriers in `Kernels`. Branches that
depend on the number of rows, on fused weights, on q8 caches, on an expert cache,
on the sampler, on measurement logs are fields of the configuration `c`.

`ComputePass` runs such a program: everything between two fences (barriers,
signals, waits, the start of a pass) may complete in any order, a fence waits for
everything in front of it; the host serves a wait as soon as the event it reacts
to was raised, concurrently with what the GPU does meanwhile. `holds` says of
each region which item wrote it last. `PassSound` demands that whatever may start
finds in every region it reads the result of the last writer *in the program's
own order*, that scratch is filled before it is read, and that the program leaves
what its own order leaves. This is what the comment on `begin_concurrent`
leaves to the caller: every hazard. The wait of a parked step, the host's
staging of a later chunk, the draft pass that the GPU runs while the host reads
the draws of the verify pass, and two batched steps behind each other are
programs too.

## The runs

All pass/violation verdicts below are TLC's, on complete state spaces.

**`parts`** (`Parts.cfg`, 3,250,000 states). Five machines, one at a time.

*The disk tier.* Two lineages of size 1 and 3, budget 3 (2 when it is opened
again), one durable entry, three stores, two seconds that pass at once, a settings
deadline of two seconds: three stores make one entry give room to another while a
third is written ahead; two seconds are past the age of one. Any file write may fail,
a touch's rewrite of `meta.json` too,
the process may crash between any two steps. Checked: what is indexed can be
read and its meta file says the same, or less after a touch that failed, no stray
files, within budget (`VolumeInOrder`), a crash costs only what was being written or
deleted and entries whose last use could not be written down, and brings none back as
used later than it was (`SurvivesCrash`), no entry expires early
(`NothingExpiresEarly`), and the file-by-file commit leaves one of the indexes
that `DiskTier!commit` allows (`CommitAsTier`), which justifies
`SessionStore`'s use of it.

*Decode checkpoints.* All intervals 0..3, maxima 0..5, two starts, steps that
confirm one to three tokens, up to position 24: with interval 3 and maximum 5
that is several thinnings. Checked: a checkpoint never exceeds what admission
counted, is taken in order and never when full (`CheckpointsFit`), they are
spread evenly and where the closed form puts them that `SessionStore` uses
(`WellSpaced`), and `due` answers the same when asked again after the pipeline
drained (`SameAnswer`).

*Prefix matching.* All pairs of lineage and prompt of up to five cells over two
texts and two images of different length: five cells hold an image with text on
both sides, and two adjacent images. Checked: `shared_prefix` is exactly how far
the cells agree, and no agreement ends within an image (`PrefixExact`).

*The thinking control.* Six pieces of text that between them reach every rule
of the scan, six draws, no budget, a budget of three with and without a grace,
and calls that end thinking or not; two nudges at a third and two thirds. Six draws
pass the budget and both windows. Checked: `ThinkingActs`.

*The compute passes.* A model of one recurrent and one attention layer, the
n-gram embedding in front of the second, and the draft head: every encoder has
two layers to go wrong between. The programs: two decode steps, the second
parked, within the dense limit and past it (sparse attention, penalties, expert
cache); a logged step; a prompt of three chunks that stages ahead, with an
image; a chunk of 10 rows (concurrent, unfused, grouped experts, q8 caches, dense
and sparse rows), of 17 (past `CONCURRENT_ROWS_MAX`: the serial encoder, chunked
scan), of 2 (the row kernels, with logs); two speculative steps of three rows,
with a chain of two proposals and an end in front of an accepted row; two
batched steps of two sessions, one dense and one sparse; two images. The row
numbers stand on either side of `HC_FUSED_MAX_ROWS`, `MOE_SMALLM` and
`DENSE_SMALLM_THRESHOLD`. Few states (7,400), since a barrier comes after every
few dispatches, but all orders in between. Checked: `PassSound`.

**`session_chat`** (`SessionChat.cfg`). One conversation at a time, three
requests out of a turn, its continuation, the continuation with the answer
tokenized differently, and an edited third turn; answers of zero to two tokens;
stops at every position. GPU budget 12 and two sessions: the second turn
already evicts; the disk budget holds one or two entries. Two prefill
checkpoints and one decode checkpoint a session. With three requests every
pair of (extend, cut back, fork, restore, start fresh) followed by every other
occurs, with write ahead in every phase. Checked:
copies written ahead are never stale and budgets hold between operations
(`StoreTidy`), nothing is lost silently (`NoSilentLoss`), the
furthest resume (`FurthestResume`) and the refinement of `PromptCache`
(`ImplementsPromptCache`).

**`session_durable`** (`SessionDurable.cfg`). Three tasks behind one preamble:
two differ in their message, two only in the pixels of their screenshot. A
maximum age of one second and two seconds of time, so that entries expire
between the store and the hit. Checked: no request runs on other caches than
its own, or resumes inside an image, agreement, resume and boundary are in
order (`AdmissionSound`), types and the tier's budget and cap hold
(`TierSound`, with a cap of one durable entry), and hits leave durable
entries alone (`DurableSurvivesHits`).

**`session_batch`** (`SessionBatch.cfg`). Two slots (symmetric), four requests,
failing I/O, failing requests, GPU faults, unloads, process crashes with a
clock that goes back. Checked: lineage ids (`LineageUnique`) and
contents, since only here faults happen (`ContentSound`). At most two
entries are numbered before the write ahead stops, which bounds the state
space; two are enough for a restore beside its own living original.

**`session_live`** (`SessionLive.cfg`). Failing writes and crashes under
fairness: every store operation ends and a parked session comes back
(`StoreReturns`).

**`engine`** (`Engine.cfg`, 450,000 states). Two clients (symmetry would be
unsound with liveness, and three clients are too many), a queue of one, so that
the second client is refused or finds the place just given back; batches of
two, so that jobs are taken by `next_job` too; one recovery, so that the second
fault exits; a timer that changes once, between never and some time; one stop
signal, at any moment, the first load included. Checked: whoever holds a place
finds room (`RoomForAll`), a waiting engine's deadline is that of the timer or
a nudge is on its way and `/health` tells what the engine will do
(`EngineSafe`), the door stays closed and every request read is answered
(`Answered`), and the stop ends the process (`StopEnds`).

**`generation`** (`Generation.cfg`, 1,125,000 states). *The loops of one
generation*: six tokens, capacity that grows by four with room for none or three
left, two drafts, a close of two inserted tokens, one action of the control
anywhere, checkpoints two tokens apart or none. Six tokens fill the caches twice
and hold three speculative steps. Checked: `GenerationExact`, `GenerationEnds`.
*The batch scheduler*: three jobs for two rows, so that one waits or is held
back; four tokens each, caches that grow once, a budget that two sessions fill,
one insertion, one trouble (a client that leaves, a stop, an error or a GPU
fault) at any place. Checked: `BatchSafe`, `BatchServes`. *The expert cache*: three
layers of two experts in four slots (the loader asks for two layers' worth), one
pinned, one read in flight at a time, rows of up to two picks, no predictions, planes
at the start only, or one more behind the first layer that replaces; two passes,
each of which may be given up behind its second layer, with and without
predictions; promotions at the fourth request, so in the second pass; one predicted
token. Checked: `CacheSafe`, `PassesResolved`. No encoding fails right
behind a cut here: see *An encoding that fails right behind a cut*, below.

**`threads`** (`Threads.cfg`, 327,000 states). The pin with two ranges, two
requests, with and without a hold: two requests are what a deferred release
needs (one that ends while another runs), two ranges what a half-locked pin
needs. The wait with a tick every 2, a window of 5 without a hold, idle unloads
of never, 3 and 7 and holds of unlimited, 3 and 6: each of the four ends can come
first. A connection with two chunks, event stream or not, HTTP/1.1 or not. The
recorder with room for two in its channel, three rows or changes in any mix, two
HTTP threads, two values, one failing open or write. The queue with two passes,
one of two waits and one of none: a gated pass whose feeder sleeps between its
parts while the next pass wants to be submitted. Checked: `PinSafe`,
`PinReleases`; `WaitsWell`, `NoSpin`; `ConnSafe`, `ConnLive`; `RecorderSafe`,
`RecorderStops`; `QueueSafe`, `CallsEnd`.

**`session_expiry`**, **`write_ahead`**, **`disk_expiry`**, **`expert_prefetch`**
are violations; see "What the models say about the code". The last is
`ExpertCache` with two predicted tokens (`PredictedTokens = 2`) and cuts of both
kinds; with one token, in
`generation`, the property holds on three layers; finding 4 says what a fourth does.

Deadlock is checked in the session runs and in `write_ahead`. The systems of the
other runs stop for good: the process ends, the pin is dropped, the connection is
closed, the generation is over, no more jobs or passes come, the program has run.
`Terminated` (`SessionStore`) and `Waiting` (`WriteAhead`) are the states in
which the bounded model, or the loop, rightly has nothing to do.

Bounds, by name: `MaxRequests`, `MaxTime`, `MaxEntryId` (`SessionStore`),
`MaxStores`, `MaxTime`, `Budgets`, `Reopenings` (`DiskStore`), `LastPos`,
`MaxCells`, `MaxDraws` (`MCParts`), `MaxChanges` (`EngineLoop`), `Oldest`
(`IdleWait`), `MaxBodies` (`Connection`), `Traffic`, `Misfortunes` (`Recorder`),
`PassWaits` (`MetalQueue`), `MaxTokens`, `MaxActs` (`DecodeLoop`), `Inserts`,
`Troubles` (`Batch`), `CachePasses`, `PredictedTokens`
(`ExpertCache`), `Programs` (`ComputePass`). Arithmetic saturation
(`saturating_sub` on seconds, `usize` sums of bytes) is modelled where a
difference may be negative; overflow of 64-bit sums is out of reach of any real
budget and ignored.

## Fairness

`SessionStore!FairSpec` assumes of the engine thread that it carries on inside
a store operation (it is straight-line code, apart from the join of the writer
thread, which is the guard `finished`), polls a write in flight
(`WRITE_AHEAD_POLL` is one of the deadlines of its wait), ends every generation
(token limit and context length), fails the requests of a faulted context and
rebuilds it; and of the writer thread that it ends (it writes a fixed list of
files). These are weak: each keeps the action enabled until it happens. Nothing
is assumed of clients, of time or of `Unload`. `StoreReturns` is about one
operation, not about requests being served: it says that the wait in
`evict_lru`, `spill_all` and `collect_finished` cannot be for ever.
`WriteAhead` assumes the same two things, the poll and the end of the thread.

`EngineLoop`: the engine thread goes on (a request's work ends by its token
limit, or by `cancel` after the grace), a connection's thread that has read its
request goes on, the signal and the recorder thread finish what they began.
Nobody has to connect, to change a timer or to signal. `MCThreads` and
`MCGeneration` state the fairness of whichever machine runs; since only one runs,
the conditions of different machines share a conjunct. `WeightPin`: the monitor
wakes from a wait with a timeout and whenever it is signalled, the engine thread
finishes what it began, requests need not end (so a release put off under
overlapping requests may wait as long as some request runs, which is what
`deferred` promises). `IdleWait`: the loop and a nudge on its way; not time, and
`NoSpin` allows for commands that never stop coming. `Connection`: both threads,
a cancelled request is noticed at the next chunk or token, and a client that is
gone resets within `PROBE_WINDOW`, which is the assumption the code makes.
`Recorder`: the recorder thread (every SQLite call returns) and each HTTP thread
that has asked, which gives up at a timeout; rows and stops need not come.
`MetalQueue`: the committing thread's waits end by their timeouts, the feeder, the
GPU and the handlers go on; the host's signals (`HostSignal`) need not come: that
is what the timeouts are for. `DecodeLoop`, `Batch`: the engine thread goes on and
the GPU runs what is committed and not parked; the host's signal is part of the
engine thread. Clients, jobs, stops and failures need not come. `ExpertCache`: the
service thread, the GPU and the readers; nobody has to encode a pass.
`DiskStore`, `DecodeCheckpoints`, `ThinkingControl` and `ComputePass` are checked
for safety only.

## What is proved

`LineagesAreUnique` (`SessionSafety_proofs`): `Spec => []LineageUnique`, for all
slots, prompts, budgets and bounds, with failures, faults, unloads and
restarts. `LineageUnique` is not inductive. It depends on ids below the
counter (else a new session's id could be taken), on 0 being nobody's id (it
marks an empty slot), on entry numbers below `next_id` (else a new entry could
be mistaken for the copy of a session that has an older one), on the parked
session having no copy yet while its number is reserved and not indexed, and on
`Covers`: an entry with a session's lineage is that session's copy. These make
`IInv`, stated part by part over the store's variables (`DiskPart`,
`EntriesPart`, `WritingPart`, `SessionPart`), so that an action which builds a
new session, adds an entry, drops one, or moves a session between places is one
lemma each (`SessionAdded`, `EntryAdded`, `FewerEntries`, ...). `StagePart`
says that a running request has a session. Two places carry the argument. In
`Restore`, the lineage is taken back only when no living session holds it, and
the entry is consumed in the same step. In `Crash`, the counter restarts above
every id still on disk: without `raise_to` the theorem is false, and the mutant
`HeldInStore` breaks it the other way, by a request in flight.

The rest of `SessionSafety_proofs`, over the same `IInv`, all for every set of prompts and
answers, every number of slots, budget and bound:

- `ContentIsSound`, `AdmissionIsSound`. The strengthening `SInv` has four parts.
  `StoreGood`: every resident or parked session, and every entry, has the shape of
  a computed state (its tokens are those of its cells, its checkpoints lie in
  order inside them, its images are whole), and while the GPU has not faulted the
  content too. `SlotsGood` says the same of a request's session at each of its
  stages, together with what its plan promises. `CountersGood`, `PlaceGood` say
  where the store's operations are. Shape is kept apart from content because a
  fault destroys the second and the later lookups still need the first.
- `TierIsSound`. `DInv` is that the tier fits (`DiskFits`); the work is in the
  trims, which choose among entries of one second: whichever they take, the bytes
  and the durable entries come down to the bounds.
- `StoreIsTidy`. `Copied`: a number once given to a session's copy goes to no other
  entry, and the entry of that number is the session as it is now. `BudgetInv`: GPU
  memory is within its bounds whenever the store is not in the middle of making
  room.
- `NothingIsLost` (an action property): no step takes a session out of the store
  but for a request or for the tier, with its caches and all its checkpoints. It
  rests on `NothingRefused` (a write refused is one the tier could never hold) and
  holds when no I/O fails and the process is not killed, `~MayFail` and
  `~CrashMayHappen`: both take sessions away, and the code promises nothing then.
- `ResumesFurthest` (an action property): `LookInv` says that a session parked for
  a write ahead is beaten, for the prompt being looked up, by something that is
  still there. Its hypotheses are `~MayFail` (an entry that cannot be read is
  dropped) and `MaxAge = 0`: with an age limit the property is false (finding 1).
- `DurablesSurvive` (an action property), under `~MayFail` for the same reason.

The hypotheses are those of `session_chat` and of `session_durable`, which check
the three properties.

`StoreImplementsPromptCache` (`SessionRefinement_proofs`): every behaviour of the
store is one of `PromptCache`, the cache without tiers, under the mapping of
`SessionRefinement`. Each step of the store is one of four kinds:

- *It moves what is known* (`Comes`, `QuietStep`). Evictions, spills, writes ahead and
  their collection, reclaims, unloads: every session after the step is one of
  before, every entry a copy of an entry or session of before. What is kept can
  only become less.
- *A request begins* (`LookupBegins`). The state it begins with must be kept, must lie
  on its prompt and end in none of its images, and no kept state may do better.
  The last is the hard half: the abstract cache compares computed cells, while
  `resume_position` sees tokens and the spans of its own lineage. `Offers` shows
  that it finds whatever the cells offer, because a lineage's images are those of
  *some* prompt (`FromPrompt`, an invariant of everything stored): an image that two
  prompts share in part they share as a whole, unless the state ends inside it.
- *A request computes* (`StoreDurableRefines`, `FinishPrefillRefines`,
  `StopPrefillRefines`, `AnswerRefines`): it extends its state by its prompt or its
  answer, and stores only states behind it.
- *A process ends* (`RestartStep`): requests are gone, and what the next process finds
  is some of what was kept.

The invariant is `RInv` on top of `SInv`, `IInv` and `LookInv` of the safety
theorems. The hypotheses are `~MayFail` (an entry that cannot be read is dropped
after it was chosen), `~FaultMayHappen` (what a fault computed is not what the
prompt says) and `MaxAge = 0` (finding 1); under the others the store promises
less, and `ContentIsSound` is what remains.

`Threads_proofs`, the machines of `MCThreads`; none of their properties is
inductive:

- `PinIsSafe`, for every number of ranges and of overlapping requests. `PinInv`
  adds what the engine thread is in the middle of: `Locking` (it only locks ranges
  of weights that are not pinned, so a partial lock is never taken for a whole
  one) and `Counted` (a request is ended only after it was counted, so the count
  does not run below zero under a deferred release).
- `ConnIsSafe`: `ConnInv` says that the relay's phase tells what is on the wire
  (`PhaseTellsWire`), which relay still runs (`RelayTellsPhase`), that the watcher
  cancels only a client that left (`OnlyTheGone`), and that the client's view is a
  well-formed prefix (`WireWellFormed`, `LiveIsServed`).
- `WaitIsRight`: the deadline a wait was given still covers what it must not miss
  after any change of the settings (`StillCovers`), and ticks are armed only inside
  the window they end with (`EndsWithWindow`).
- `QueueIsSafe`: what is submitted and then what the feeder still holds are in
  order and beyond the fence, at a fault too; every wait has its handler counted;
  work known to have run early is a fault, once that is judged. `HeardInv`
  carries what a return without error says of the waits: each has its signal, or is
  still to be judged or to run (`ToJudge`), unless there is a fault.

`DiskStore_proofs`, for all lineages, sizes, budgets, ages and settings, with
failing writes, crashes and reopenings, a write ahead beside the engine's
operations: `VolumeIsInOrder`, `CrashesAreSurvived`, `CommitsAsTheTier`,
`ExpiryWaits`. `DiskInv` says, besides types and where the engine is (`InPlace`):

- `FilesInOrder`: every directory with a file in it belongs to an indexed entry, to
  a write under way or to the deletion under way (`Accounted`), and to one of them
  only (`NumbersApart`); a write under way has the files its progress says, and no
  meta file before the commit (`JobFiles`); where a whole meta file stands, no cache
  file of another lineage stands beside it (`Honest`); so what an open would load
  is what the index holds (`LoadsWhatIsKnown`), and a crash keeps that until the
  open, but for the numbers a crash excuses: the one being deleted, the one being
  rewritten, and those whose last rewrite failed (`unsaved`), which the open may lose or
  take for less recently used. The order of the file operations is
  what carries this: the meta file is written last and deleted first.
- `Dated`: no use is noted from a time to come, in an entry or in a meta file, so a
  meta file that a touch left behind says an earlier use (`EarlierUse`).
- `Fits`: the budget holds but while an open, which may have brought a smaller
  budget, has not trimmed yet.
- `CommitSoFar`: at each step of the commit, what is left of the index it began with
  is that index without some of its oldest entries, and before the youngest of
  those went too much remained. A trim that goes one entry at a time keeps this
  although entries of one second may go in any order, and at the end it is the
  definition of `DiskTier!Trimmed`.

`CommitsAsTheTier` is what lets `SessionStore` take a commit as one step of
`DiskTier`: `TierIsSound` and the other theorems about the store use that commit.

`RecorderIsSafe` (`Threads_proofs`): `RecInv` follows each row from its sender to
the file or to a counter (`RowsInv`), the making and reopening of the file
(`MakingInv`), and each settings change: what the recorder has claimed and what the
HTTP thread has been told (`SettingInv`, and `ThreadInv` for each thread).

`EngineLoop_proofs`: `EngineIsSafe`, `RoomIsThere`, `DoorStaysClosed`. No message is
in the channel twice; a flag that stands for a queued message is up only where
somebody still holds the claim; so at most `Limit` jobs and two others are in
flight, and there is room in the channel for the control messages, which the code
sends with `try_send` and would drop otherwise.

Sums and maxima over finite sets occur in the budgets, the trims and the checkpoint
plans (`FiniteSums`). Of induction only a theorem with an operator parameter is out of the
prover's reach; `WFMin` over the finite subsets of a set has none, and gives
`Minimal` (every nonempty family of finite sets has a minimal member), from which
least and greatest members and the laws of the sums follow.

`DecodeCheckpoints` (`Parts_proofs`), for every interval, maximum, start and number of
drafts: `TypeCorrect`; `CheckpointsAlwaysFit`, in two parts: that admission covers
them, with the invariant that the k-th checkpoint held lies at least k strides
behind the start (`Spaced`), which survives a thinning because the stride doubles
with it, and that they are taken in order; `AskedTwice`. `CheckpointsWellSpaced`
says where they lie. Its invariant (`WInv`) names the number m of intervals the
stride has grown to: m is a power of two, every gap is between one stride and one
stride and m times what a step may skip (`Gaps`), the stretch behind the last one is
bounded by where the loop is (`Stretch`), and half the stride would not have done,
as more than `max` of it fit (`Outgrown`). The gaps survive a thinning because two
of them become one while stride and m double. `Outgrown` is what the closed form
needs: of the powers of two, `decode_positions` takes the least that leaves no more
than `max` positions, and between m and its half there is none (`NoPowerBetween`);
every smaller one leaves too many (`SmallerOverflows`).

`BatchIsSafe` (`Generation_proofs`), for every number of requests, rows, tokens and
spacings, and for every client that leaves, step that fails and control that acts.
`BatchSafe` is not inductive; `BInv` says for each place of the engine thread what
the rows' states, their counts and the GPU's queue are. `Roster` is who is where,
`Seats` which slots are given, `RestFacts` what every row is between stretches: its
state holds its tokens but the last, or all when it is done, and its counts are its
draws'. In a stretch, `CommitFacts` holds before a step is committed, `ParkedFacts`
with the next one parked, `FlightFacts` while a step runs or has run, `SettleFacts`
after its end, `UnwindFacts` after a failure. Three arguments carry it. A parked
step's event value is one above what was raised, so the GPU cannot run it before the
host releases it (`Armed`). No control may act on a draw with a step parked behind
it, since `may_insert` was asked before it was parked, and no row that may end is
parked over (`ParkNext`); so a parked step that runs was staged for the tokens the
rows really have. And what a step still in the queue will do to the states, the
draws and the counts is known while it is (`NotRun`, `HasRun`), in whichever order
the two steps of the ping-pong and the host's reads come.

`CacheNeverFull`, `CacheIsSafe`, `CacheIsSafeUnpredicted` (`Generation_proofs`), for
every number of layers, experts, slots, picks and passes, for every choice of the routers
and the prediction files, replaced or not, and for any promotions. Passes may be given up
behind any layer but one with a cut, wherever there are cuts (`CutsGoOn`): right behind a
cut the claim is false (*An encoding that fails right behind a cut*, below), and without
cuts the hypothesis holds. Two invariants carry the proofs. `RoomInv` counts: the requests
are numbered without a gap, so the GPU's next layer is the one of the next request
(`Numbered`, `OfPass`, `GpuPlace`). The slots stamped for the next resolution are at most
what the prediction counted (`Taken`; `Picking` says that a row half picked counts for the
resolution it was read for). Those, the experts the next request may route to, and the
pinned slots fit together (`Leaves`), since a pick is made only where they do. A plane
issued behind `ready` is counted against the request just served but stamped for the one that
follows, so the two must have equally many routes: the requests come in runs, layer after
layer of one pass, and a run ends with a pass or where an encoding failed (`Steady`,
`Ends`, `Follows`), never behind a cut. So every lookup has a victim, whichever slots the
ties and the lookups before it took (`SlotForMiss`), the lookups for a pass that was given
up included, whose ids are as many as its request's routes at most.
`ContentInv` relates the slots, the three places a prefetch read can be in,
the table and the slab: a slot's slice is entered, outstanding with a read for it, or a
miss of this resolution; an entry points at a slot that holds its slice. It is kept while
no expert has one read that landed and another under way (`OnePerExpert`), and that is
the second hypothesis of `CacheIsSafe`: `landed` and `outstanding` do not say which read of
an expert they mean, and with two of them `publish` spends the flag on the first it finds
(finding 4 below). Without predictions nothing is read ahead and both hypotheses hold
(`CacheIsSafeUnpredicted`). With predictions it is a fact about how often an expert can be
reserved before the next `publish`: `generation` shows an instance that keeps it to the
effect of `CacheSafe`, `expert_prefetch` one that does not.

`ThinkingIsSound` (`Parts_proofs`), for every text (`Pieces` is any set of texts), every
budget, grace and list of nudges. The invariant is a simulation (`Sim`): what the scan
keeps of a line (`lead`: an indent, a run, what is behind it, or plain text) is a fact
about the characters of that line (`LeadIs`), so what it says of a fence at a line's end
(`opens`, `closes`) is what the line as a whole says (`LeadTells`, `FenceAtEnd`). Each
character keeps it (`CharSteps`), so a text of any length does (`TextSteps`; the fold
over the text is unfolded into the states behind each character, `FeedSteps`). Behind a
call that ends without a line end it does not hold: the lead may be an indent where the line
has text (*A fence behind a call*, below), which is why texts here end the line behind a call.

`PrefixMatchIsExact` (`Parts_proofs`), for all texts and images, of any sizes and in
any order. The two sides are compared token by token and span by span, while what
matters is the cells, which the store does not keep. Placeholders of different images
are equal tokens, so agreement of tokens alone says nothing of an image; that the
first span one side has *alone* cuts the agreement off is what makes it exact, and
the work is to show that nothing is lost by it. `PairInv`: a side's spans lie over
cells of their image and apart from each other (`Side`), and every image cell is in
one (`Whole`), but for those of the one image a cancelled prefill stopped in, which
`images_within` forgets (`Stoppable`). Then, where one side has a span alone and the cells agree under all of it, the other
has one alone that starts earlier (`AloneBefore`: the cell the span begins with is
covered there by a span of the same image; a side that stopped in that image is too
short to agree so far). So the cells cannot agree under all of the *first* span that is
alone, and where it cuts the agreement off, no span of either side is open
(`SharedFacts`).

`PassesAreSound` (`Parts_proofs`): under the premise that every program is
well encoded (of two items that touch a region and do not both only read it, the
later starts behind a fence the earlier is in front of; what is read was filled
or outlives a pass), `PassSpec => []PassSound`, for every set of programs. The
premise is a fact about a finite list of items, which TLC evaluates for the
programs of `PassPrograms` (it is the first conjunct of `PassSound`, at the
start); the theorem says that nothing else is needed, whatever the GPU reorders
and however early or late the host serves its waits. The invariant (`PassInv`) is
that what has run lies in front of the last fence passed or was let start behind
it, and that a region holds the result of the *last of its writers that ran*.
`NotOvertaken` is the argument: an item that may start has every item it
conflicts with either in front of the fence or behind itself, so neither a
writer nor a reader is overtaken.

Assumptions: the named ones of the modules (`SessionStoreAssumption`,
`NoneAssumption`, `RequestsAssumption`, `DigestAssumption`, `IdleAssumption`,
`DiskTierAssumption`, `DiskStoreAssumption`,
`NothingAssumption`, `PadAssumption`, `PairAssumption`,
`DecodeAssumption`, `PinAssumption`, `ConnectionAssumption`, `WaitAssumption`,
`QueueAssumption`, `RecorderAssumption`, `EngineAssumption`, `ProgramsAssumption`,
`BatchAssumption`, `CacheAssumption`, `ThinkingAssumption`):
ranges of constants that the configuration code enforces or the constants in the
source satisfy, that prompts are what the tokenizer and the template build (image
cells in whole spans, text before and after each, `expand_image_pads` and
`check_placeholders`), that images of one digest are of one size (`image_digest`
hashes the grid too), and that model values that stand for "nothing" are none of
the things. TLC evaluates them in the runs.

Only model-checked: the liveness properties, since fairness and `ENABLED` are
out of the prover's reach; `DecodeLoop`, whose tokens are named by numbers that tell
drawn and inserted ones apart in generations of less than a hundred tokens only, and
whose counts are bags, of which the proof library states nothing; that few enough predictions keep the expert
cache's `OnePerExpert` (`CacheSafe` in `generation`, with predictions for one token);
that the programs of `PassPrograms` are well encoded.

## What the models say about the code

1. *A parked session can lose to an entry that expires a moment later*
   (`session_expiry`). `acquire` calls `reclaim_for` and then lets the disk tier
   expire. A stale entry that resumes the prompt further than the parked
   session makes `reclaim_for` decline; the lookup then deletes that entry and
   finds neither. The doc of `acquire` promises the furthest position. Calling
   `expire` first would do. With no maximum age (`session_chat`) the property
   holds.
2. *An idle engine may write for ever* (`write_ahead`). When the disk budget
   cannot hold all the copies that the headroom target asks for, committing one
   copy trims the other, the refresh in `write_ahead` forgets the trimmed one,
   and it is written again, as long as nobody sends a request.
3. *The flag's TTL can delete what the stored one keeps* (`disk_expiry`).
   `expire` loads the age before it asks the gate; the recorder may apply the
   stored age and settle in between. The window is two loads wide and closes at
   the first pass after.
4. *A layer may run without an expert it routed to* (`expert_prefetch`). When a
   victim slot's prefetch has landed but not been published, taking the slot
   drops the expert from `outstanding` and leaves its landed read. If the next
   prediction reserves the same expert again before the next `ready`, the
   publication takes the old read for the new one: it removes the expert from
   `outstanding` without an entry in the slot table, since the old slot no longer
   holds it. The lookup of a later layer then finds the slice resident and waits
   for nothing, and the GPU finds no entry. The run has predictions for two tokens
   in a row. With a fourth layer and the cut behind the second, one token is enough:
   a read of the last layer lands between two publications, the plane issued at the
   cut takes its slot for the third layer, and then reserves the same expert of the
   last layer again (`CacheLayers = 4`, `CutLayers = {2}`, `PredictedTokens = 1`). The code's own tests do not combine
   either with a full cache. `CacheIsSafe` proves that a second read of one expert
   is the only way there.

More observations, each kept in the models as the code has it:

- *One durable entry too many after a crash.* `commit` writes `meta.json` before
  `trim_durable`, and `open` trims bytes but not durable entries, so a process
  that dies in between comes back with one more than "at most
  [`DURABLE_MAX_ENTRIES`] exist at a time" (`disk.rs`, module doc). The next
  durable store restores the cap.
- *A row of the recorder's last moment is neither stored nor counted.* Between the
  count of the queued rows and the drop of the receiver
  (`recorder.rs:2004-2010`) a row may still be sent; the doc of the counter
  (`:90-91`) says every row not written is counted. `Recorder` calls these `lost`.
- *Refusals may be cut off by the exit.* `exit_failed` (`serve.rs:1955`) hands the
  queued requests' refusals to their relay threads and exits the process at once;
  nothing waits for the threads to write them, as the orderly stop does.
- A job sent between the last look of `refuse_queued` and the end of
  `engine_loop` is dropped with the channel, and its client gets a 500 instead of
  the 503 of a shutdown (`Answered` covers it: it is answered).
- `admit` counts a request before it compares, and gives the place back
  afterwards: a request that is being refused can make another one be refused
  although the engine has just taken a job.
- *A fence behind a call.* After a `</tool_call>` in the middle of a line the scan
  is as at the start of one, so "</tool_call>\`\`\`" reads as a fence, although
  `thinking.rs:57-67` says that fences follow CommonMark, whose fences begin
  their line. The run's texts end a line behind a call (`CallsEndLines`).
- *An encoding that fails right behind a cut can end the process.* `issue` at a cut
  stamps what it takes with the next sequence number, so that "the request that stamped
  `tick`" finds a slot for each miss (`expert_prefetch.rs:722-726`), and spares as many
  slots as the request just served has routes. That request is a decode pass's. If the
  encoding of that pass failed right behind the cut's layer, the next request may be a
  prefill's, which routes to more experts; its lookups may then find no slot, and the
  service thread aborts ("no slot free for layer", `expert_cache.rs:1453-1458`). TLC
  reaches it with `CutLayers = AbandonAfter = {1}`, "cuts" and three passes: one that runs,
  a decode pass that fails behind its cut, a prefill. The runs and the theorems keep the
  two sets apart.
- `QueuedRequests` and `queued_since` of the expert cache, which could cancel the requests
  of a pass that was not committed, are used by tests only and not modelled; the service
  thread serves such requests late (`Abandon`). But for the case above that is
  harmless (`PassesResolved`, `CacheSafe`).
- Comments that call the drafts "greedy" (`spec.rs:206-208`, the doc of `uncount`)
  are older than drafts that sample.

Observations without a property: `touch` rewrites `meta.json` in place and ignores a
failure (`disk.rs:611-613`), so a crash there, or a failed write before the next open, costs
the entry or its last use (`SurvivesCrash` excuses both; `SessionStore` takes `DiskTier`'s
touch as one that succeeds); errors of
`remove_dir_all` are ignored, so a consumed entry may be indexed again at the
next start; `trim(0)` at the end of a commit never has anything to delete, it
matters only when the tier is opened with a smaller budget.

## What is not modelled

Numerics: what a kernel computes, shapes, the choice between variants of one
dispatch, rounding; `PassItems` keeps only what it touches. Ablation switches and
environment variables of measurements, except the logs a pass may carry. Text
(tokenizer, template, request parsing, the images' decoding). The schema, roll-ups
and queries of the recorder. The n-gram table's hashing and its preload thread,
which only reads. The single-instance lock, weights and configuration, the
dashboard and the timings, the tools and replays: sequential code that reads no
shared state back. Failing deletions and power loss in the disk tier. `cache_key`
tie-breaks. The Metal allocator pool, pipeline cache and capture. Machines that
share a run share no state in the model; where they meet in the code, one holds
the other's summary: `EngineLoop` a request's work, `Batch` the lone row's loop,
`SessionStore` a generation, `DecodeLoop` a pass.

## Where to go on

`ExpertCache` under the passes of `DecodeGraph` (the cache's waits are one per
layer there, and left out of the programs); the batched steps of `Batch` as the
programs of `RowsGraph`; a proof of
`GenerationExact`, once its tokens are pairs of a kind and a place; `PromptCache` under
faults and failing reads, where it would have to say what may be forgotten late.
