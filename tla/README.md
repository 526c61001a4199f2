# TLA+ models of llamacpp-v100

TLA+ specifications of the parts of llamacpp-v100 whose correctness depends on
interleavings, on the order of steps or on bookkeeping that spans several
calls, TLC configurations that check them on small instances, and TLAPS proofs
of the invariants that matter most, for every value of the constants.

Source paths below are relative to the repository.

## 1. Inventory

llamacpp-v100 is a fork of llama.cpp for large MoE models on V100-class GPUs:
`llama-server` on top of `libllama` on top of `ggml`. The fork's own work is a
VRAM cache of experts, a lock-free hand-over of missed experts to host threads,
experts streamed from SSD, expert-parallel and RPC fleets, and a server that
survives the loss of a worker.

| Component | State | Operations | Talks to | What is hard | Correct when |
|---|---|---|---|---|---|
| task queue (tools/server/server-queue.cpp) | task and deferred deques, guard counter, hold, sleeping | post, defer, pop_deferred_task, start_loop, ctx_guard_*, ctx_hold_* | HTTP threads, main loop | four kinds of waiters on one condition variable, teardown of the model against readers | no task lost or doubled; no reader inside while the model goes; nobody waits for ever |
| result queue and readers (same file) | waiting ids, results | add and remove waiting ids, send, recv, stop | HTTP threads, main loop | results of cancelled tasks | one answer per task, nothing left behind |
| server context (tools/server/server-context.cpp) | slots, the model, the reload flag | process_single_task, launch, update_slots, release, abort, reload | both queues, llama_decode | parents and children, error paths, reload with tasks about | every task ends in an answer |
| stream sessions (tools/server/server-stream.cpp) | sessions by conversation, bounded buffers | append, finalize, cancel, replace, evict, GC, stop | HTTP threads, GC thread | sessions replaced under their producers and readers | replays exact, no reader hangs, one request of a conversation goes on answering |
| MoE expert cache (src/llama-moe-cache.cpp) | slots, tables, marks, jobs, counters | create, step, observe, worker, destructor | decode thread, worker, device | copies race with graphs that read the slots | a graph reads whole experts, each on one chain |
| MoE doorbell (src/llama-moe-doorbell.cpp, ggml-cuda/moe-doorbell.cu) | mailbox words, ring of jobs, decision, barrier | begin, abort_pending, worker, serve, destructor; ring and join kernels | decode thread, device, thread team | lock-free hand-over, parking, launches that fail in the middle | a join adds this graph's complete partial; no wait is for ever |
| SSD streaming (ggml/src/ggml-ssd-stream.cpp) | LRU segments, index, slices being filled, GPU slot pools, pass epoch | touch, fill, bind, prefetch, reset | graph threads, prefetch worker | pins by epoch, reads outside the mutex | a node is computed from whole slices, a slot holds what the index says, no slice has two nodes |
| router (tools/server/server-models.cpp) | instances and their states, stop requests, reload flag | load, unload, LRU limit, manager threads, reload | HTTP threads, child processes | stop against start of one name, threads that join threads | at most `models_max` children; every load and unload ends |
| KV cache (src/llama-kv-cache.cpp, llama-kv-cells.h) | cells, sequences, positions, heads, pending copies and shifts | find_slot, apply, prepare, update, seq_\* | llama_context | long sequences of calls, rollback of trial placements, ubatches that fail | K data and metadata agree; nothing a token sees is lost |
| recurrent and hybrid memory (src/llama-memory-\*.cpp) | cells with one state per sequence | find_slot, seq_\* | llama_context | tail cells, rollback of states | a sequence has one tail |
| context and batches (src/llama-context.cpp, llama-batch.cpp) | outputs, ubatches, graphs | decode, process_ubatch, synchronize | memory, scheduler, doorbell | an ubatch that fails in the middle | memory has what was computed |
| scheduler (ggml/src/ggml-backend.cpp) | splits, copies, events, ring of streamed weights | alloc, compute, reset, synchronize | backends, streams of the devices | inputs and weights copied while earlier graphs and splits run | a split reads its own inputs and weights |
| meta backend, allocator (ggml/src) | split tensors, blocks | alloc, compute | backends | sequential | no block is in use twice |
| RPC backend (ggml/src/ggml-rpc) | connections, buffers, stored graphs | requests over TCP | remote servers | lost servers, graphs stored by id, fences | a graph is computed on the buffers it names |
| CPU thread pool (ggml/src/ggml-cpu/ggml-cpu.c) | n_graph, barrier, chunks, abort | kick-off, poll and sleep, pause, free, barrier, loop over the nodes | graph threads | hybrid of polling and sleeping, a barrier in use again while threads leave it | nodes in order, every part once; no kick-off lost |
| common: sampling, speculative, n-grams, reasoning budget, log | state per request | accept, draft, apply | slots | rollback of drafts | unit tests reach most |
| kernels, quantisation, model graphs, formats, conversion, UI, vendored code | | | | arithmetic or I/O | no protocol |

How they interact: an HTTP thread enters the guarded window of the queue, posts
tasks and waits for results; the main thread pops tasks into slots, runs
`llama_decode` for all slots and sends results. A streamed answer is teed into
a session that other HTTP threads replay. `llama_decode` builds a graph; before
it the expert cache takes a step, and for a graph with doorbell operations a
job is queued for the host team, which the device then rings.

`PROJECT.json` lists every component with what is modelled or why it is not,
and the hazards at their lines; those that no property covers, because the
property fails or the code leaves them open, are in section 6.

## 2. Plan

Done, in this order: MoeCache; ServerQueue and ServerContext over ModelLock;
StreamSessions; MoeDoorbell; SsdStream and SsdPool over LruLists, joined by Ssd; Router;
KvCache; ThreadPool over GraphRun; SchedPipeline and PrefillStream, joined by
Scheduler; proofs for all of them.

Next:

1. Recurrent memory: tail cells, rollback of states, and the hybrid memory whose
   two halves must agree on what they removed.
2. RPC: stored graphs by id, fences between connections, lost servers.

Proofs still worth having: for the KV cache, SlotsStaySingle.

## 3. Modules

### MoeCache (src/llama-moe-cache.cpp)

The decode thread calls `step()` before a decode. Each loop of `step()` is an
action or a few (Publish, Consume, AdmitFree, AdmitEvicting, PassOver,
NothingEvictable, Flush, HandOff), as the worker runs between them; the worker
is WorkerTake, WorkerCopy, WorkerSync, WorkerPost. A slot's memory is the
expert it holds, or `Torn` while a copy is under way, so a table that is
published too early shows. A graph reads the tables as they were at its start.
Counters saturate at `HitCap` and `MissCap` in place of 65535.

### ServerQueue, ServerContext, ModelLock (server-queue.cpp, server-context.cpp)

ServerQueue has the deques, the guards, the results and one reader per request;
ServerContext extends it with the main thread's callbacks, the slots and the
model. Every critical section is one action or a part of one. `main` says where
the main thread is in `start_loop()`, `pc` where a reader's thread is. What a
slot decodes is abstracted: in an iteration it has nothing to show, ends its
prompt, sends a part, ends or fails. Timed waits may time out, and an idle
server may have been idle for long enough to sleep.

ModelLock is the abstract specification of the guard protocol: threads inside,
and a model that goes only when nobody is. `ImplementsModelLock` is its `Spec`
under the mapping `inside <- guarded`.

Left out: broadcasting of shutdown (`terminate`), the un-launching of a parent
whose children do not all launch, tokens, the lookup routes.

### StreamSessions (server-stream.cpp, and its calls in server-http.cpp and server-context.cpp)

A POST installs a session, a GET replays it from an offset, a DELETE stops it;
each is a thread. The bytes of an answer are numbered, so that a replay that
skips or repeats one shows. `create_or_replace` and `evict_and_cancel` leave the
lock of the map before they cancel and finalize the session they took out:
`victim` is that session, and these calls are actions of their own. Between
installing its session and its first result a request is at "await" (Handle): it
waits for all of its answer (AnswerPlainly) or for the first part of it
(StartStream), hears of its client there and not of its session, and may wait for
ever. From the first part on (`next`, `pull`) it is the other way round. `crowd`,
fixed at the start, is who comes in one behaviour. The route that looks sessions
up only reads and is left out.

### MoeDoorbell (llama-moe-doorbell.cpp, moe-doorbell.cu, process_ubatch)

The owner queues a job (Begin, PostJob), launches the graph, and aborts when a
launch failed part of the way or at the end. The device runs graphs in order: a
ring is its data and then its word, a join waits for DONE. The team serves jobs;
the atomics of `publish_go`, `wait_go` and `barrier` are steps of their own, and
the leader's look at the ring and at `abort_upto` are two. Atomics are
sequentially consistent: what weaker orders allow is not modelled. A spin may
turn into parking at any time. A launch is one step, as an abort only follows
the device's end. Mode 2 (timing only) and the join's timeout of 10 s are left
out; the latter is the error that EveryGraphEnds rules out.

### SsdStream, SsdPool, Ssd, LruLists (ggml-ssd-stream.cpp)

SsdStream is the host cache: the probation and protected lists (oldest at the
back), the slices of the running pass (`pinned`), and the prefetch worker.
The owner is the thread that computes graphs: it begins a pass over a tensor
(`BeginPass`: from `eval_cb`, `prefill_experts` or `gpu_bind`), touches the
experts one by one, evicts tails that are not of this pass, reads a missing
slice at once or, with several read threads, at the end of the pass
(`EndPass`), and computes the node. The worker takes a batch (`TakeBatch`),
places it under the mutex (`Skip`, `PlaceRoom`, `Reserve`), reads with the mutex
free (`ReadBatch`) and lands or drops it (`Land`). A touch of a slice that the
worker reads waits for it (`WaitForFill`), in the middle of its pass. Sizes are
small numbers per tensor, and `Budget` is in the same unit. Unloading a model
frees its arenas one by one (`FreeArena`); the last one stops the worker, which is joined
before the index goes (`Reset`).

SsdPool is one GPU slot pool: slots, their segmented LRU, the fill list, the
slot ids of a node, and the ids that `gpu_orig_ids` keeps by the address of a
node. A rebuilt graph may put its nodes where old ones were (`Rebuild`).

Ssd puts the two side by side: a bind takes the slices its pool misses from the
arena after a fill pass has made them whole, and they share nothing else, so that a
behaviour follows one of them (`tier`). LruLists has the few operators on lists that
both use.

Left out: a read of the owner that fails (it aborts the process), alignment and
page rounding, statistics.

### Router (server-models.cpp)

A table of models with a status; a child process per running model; a managing
thread and a stopping thread per child; requests that load on demand and evict
the least recently used; and threads that reload the list. Each action is one
critical section of the mutex or one step outside of it. What the child reports
goes through `pipe`, which holds the last state that was not read yet. The
child may die, hang, sleep or reload by itself at any time. Left out: downloads,
removal of models, unloading of all, loading after a reload, the proxied
requests themselves.

### KvCache (llama-kv-cache.cpp, llama-kv-cells.h, and decode in llama-context.cpp)

Cells of one or more streams, each with its position, its sequences and the
shift that is not applied yet. `kdata` is what the K tensor holds: the token a
cell was computed for and the position it is rotated to; metadata and data part
while copies and shifts are pending. A decode applies what is pending, splits
the batch, places its ubatches on trial, puts them back (`Begin`), and then
applies and computes them one at a time (`Compute`), each of which may fail
(`ComputeFails`). A K-shift that fails leaves its shifts pending, and the decode goes
on (`Decode`, second disjunct); left out are one whose batch then finds no slot, since
the update is tried again (llama-context.cpp:2379), and one after which the trial
saves a cell with a pending shift, which `cp` asserts does not happen. `mark` says of a cell that it went through one of two
operations after which the code itself lets data and metadata part (section 6);
`whole` is history. Tokens that are not asked for, embeddings and outputs are
abstracted.

Sequence ids are numbered from 0, and all share a stream or each has its own
(SeqsAssumption, ConfigAssumption: `seq_to_stream`); every token of a batch has
a sequence (InputAssumption: the batch allocator fills it in and checks the
ids). `First` is `split_simple` or the sequential `split_equal`: a run of
consecutive sequence ids (`RunEnd`), of each as many of its tokens
(`IndicesOf`) as all of them have and the ubatch has room for. A slot has one part
in each stream it uses (`PartOf`). What `LosesOnlyMasked` promises is what the
first token after those of the batch can see: an ubatch of other sequences, placed
when the tokens of one are all there, may take the cells that only this last
token still saw.

### ThreadPool, GraphRun (ggml-cpu.c, without OpenMP)

Thread 0 is the caller: it resets the parameters (Compute), publishes the graph
and the number of threads in `n_graph` under the mutex (Kick, Signal) and works
like the others; between graphs it may pause, resume or free the pool. A worker
reads `pause`, `stop` and `n_graph` without the mutex (Top, SeeStop, PollStop,
Look), then with it (Lock), and sleeps; its check and its going to sleep are two
steps, as are the caller's store and its signal. A worker that a graph does not
ask for notes the graph and sleeps. Every access of the barrier is a step. Ops
are of four kinds; `written` counts how often each part of each node was
written, `wdata` says for which node each share of the work buffer was
converted. A disposable pool is one that computes one graph and is freed.

GraphRun is the abstract specification: the nodes in order, each part once, and
a return with all of it or all up to the node of an abort. `RunsGraphs` is its
`Spec` with `last` mapped to the node before `abort`.

Left out: affinity and priorities, OpenMP, barriers inside of other operations,
sgemm in place of the chunks.

### Scheduler, SchedPipeline, PrefillStream (ggml-backend.cpp, and cpy_tensor_async of ggml-cuda.cu)

A scheduler either spreads a model over several GPUs or has one, and streams the
weights of prefills only in that case (`ggml_backend_sched_n_gpu` in
`pstream_prepare`): Scheduler extends both modules and takes the steps of one or
the other (`single`).

SchedPipeline is the scheduler with one split per device, a stage. The host goes
through `compute_splits` input by input: it copies inputs of the user at once
(CopyUser), lets the devices copy an activation (CopyAsync) or copies it itself
(CopySync), queues the split and records the event of the input copy
(ComputeSplit). Copies and computes take time; a stage reads the activation in
its first layer, the user's inputs until its end. Buffers hold the number of the
graph they were written for, so an input of another graph, or a torn one, shows
in the output. A machine is a choice of the order of inputs, of `n_copies`, and
of who copies.

PrefillStream is the ring of expert weights that a helper thread fills ahead of
the splits: the host (Prepare, Grow, Prime, Compute), the worker (Take to Post)
and the compute stream with the events that free a slot. A wait for an event is
for its last record at the time of the wait. A split that cannot be queued gives
the graph up, and leaves its jobs to the worker.

Left out: how a graph is split, the copy of used experts (its SSD part is in
SsdPool), evaluation callbacks, several rings (one per scheduler). The ring is
freed without a wait for the compute stream (`~pstream_state`); freeing device
memory waits for the device.

## 4. Runs

`MC*` modules only give values to constants. `CHECK_DEADLOCK FALSE` is said
where all clients may have been served, the owner has quit, the model is
unloaded or the bound on calls is reached: the instance really ends.

| Run | Instance | What it shows |
|---|---|---|
| moecache | 1 layer, 2 slots, 3 experts, 2 rounds a step of which the byte cap cuts the second short | eviction, copying and publication race with graphs: a graph finds its experts whole (GraphReadsItsExperts), no expert is twice there; every upload is published in the end |
| server_slots | 3 requests, 2 slots, a child, a wish for slot 0, a stream, a slot save | tasks are answered once, none is lost, none is left behind, while clients leave and slots fail |
| server_teardown | 3 requests, 1 slot, sleep and reload | the guard protocol implements its abstract lock; every request gets in or a 503 |
| server_live | 3 patient requests, 2 slots | every request is answered |
| stream | one conversation, either with 2 POSTs, a GET, a DELETE and the shutdown, or with 3 POSTs; one POST may be answered without a stream; buffer 1, chunks up to 2, answers to 2 and of no end, first results that never come | replays are exact and end; of two requests that go on answering, one was evicted by a request answered plainly; a stream whose session is cancelled stops |
| doorbell | 2 threads, 2 layers, 3 graphs of different layers, a ring of 2 jobs, launches that fail anywhere | joins add complete partials of their own graph, only lost jobs are abandoned, graphs and the destructor end |
| ssd | arena: 2 tensors in an arena each, 2 experts of size 1 and 1 of size 2, budget 2, protected 1, batches of 2; plain LRU with inline reads and segmented LRU with deferred ones. Slots: 4 slices, 3 slots, nodes of 2 or 3 experts in any order, segmented with 1 or 3 protected slots and plain | nodes are computed from whole slices, one node per slice, nothing of an unloaded model is left, a pass and an unloading end also when prefetches fail; a node that fits multiplies with its own experts, and by its own router's ids |
| router | 2 models, room for 1, 2 requests, 1 reload; children that crash, hang, sleep, reload | the limit, running means a process is there, every stop and every reload ends |
| kv_cache | 2 sequences, in one stream without and with a window of 2 and in two streams with it; 4 cells, 5 positions, ubatches of 2, 4 calls, K-shifts and ubatches that fail | K data follow the metadata; cells found on trial are good when their turn comes; a decode leaves no gap and loses only what is masked |
| thread_pool | 3 threads, plans for 2 and 4; twice a graph of two products, a view, a fused pair and rows; 8 chunks | the pool implements GraphRun; the work buffer is the node's own; every compute returns, free returns |
| scheduler | several GPUs: 3 stages, 5 graphs; the machine that a layer makes (activation first, copied by the devices, 4 copies), and the activation after the user's inputs, copied by the host, 2 copies, 1 copy. One GPU: 2 slots, 4 graphs of 2 or 5 weights, one weight larger; splits and the allocation may fail | a stage computes from its own graph's inputs of the user on every machine, and from its own activation where the host waits for the copy and for the last graph; drained streams have the last graph's result; a split multiplies with its own weight, the worker writes the ring that exists, every graph ends |
| scheduler_overwrites | the machine that a layer makes, 2 stages, 5 graphs | expected to be violated: the copy of an activation is overwritten while an earlier graph reads it (WaitsForUse, section 6) |

The bounds: two actors and a third are enough for the races of one slot, one
session or one ring entry, each of which is between a pair; a ring or a buffer
of one or two elements is full and wraps at once; `JobCap` of 2 with 3 jobs
reuses an entry while another job is queued; two chunks of 2 over `Cap` 1 overflow
by part of a chunk and by what was there; counters capped at 1 or 2 reach their caps.
Each request posts its tasks once and each client acts once; a server that goes
on is a repetition of this from an idle state. In `stream` the third request is the
one that may find two others live. In `ssd` either tensor
fills the budget alone, so that each pass evicts the other's slices, and a slice
of size 2 does not fit the protected segment; with two arenas the first is freed while
the worker may still be reading for either. In its pool one slice of four
is always outside, and a node of three takes every slot. In `router` room for
one makes every second load evict. In `kv_cache` four cells with a window of two
make the cells of one sequence be taken while it and the other still grow; four
calls are enough to copy or share, shift, decode, and decode again
(`MaxCalls`, `MaxPos` bound it). In the thread pool a plan
for 2 leaves a worker out of one graph that the next may ask for, and one for 4 is
cut to the pool's 3; 8 chunks are handed out by the counter to 2 threads and split
anew for 3. In `scheduler` five graphs use one of four copies twice; of a split's inputs one of each kind is
enough. In its ring five weights go twice around two slots, and the larger
weight makes the ring grow between graphs. SsdStream needs no bound on the number of passes: of a slice's
epoch only whether it is the running pass is kept.

Every property of the runs that pass has a mutant of the model that violates it, listed
in `PROJECT.json` and written next to the definition it changes. The type
invariants are stated in every module and hold on these instances; where they
are proved (section 5) they hold in general.

### Fairness

- MoeCache: the worker and the code inside `step()` go on (weak); decodes keep
  coming and graphs end (strong, as `stop` may interrupt them). Without decodes
  nothing is published: `step()` is called by them only.
- Server: the main thread goes on. Slots may show no progress for a while but a
  prompt and an answer are finite (strong fairness of FinishPrompt and Finish).
  Entering the guard is retried at every wakeup, with the flags down for a
  second at least between two sleeps (strong).
- Streams: a thread that started goes on. Readers look every 200 ms at least. No
  fairness makes a generation begin or end: neither the first result (StartStream,
  AnswerPlainly) nor any later one need come, nor the last. DeleteStops speaks of
  requests that stream, and must hold for them without it.
- Doorbell: owner, device and threads go on; no thread must park. The wakeup of
  a notified thread is strongly fair, as the mutex is free again and again.
- SSD: the owner goes on with a pass or an unloading it began, and the worker is
  scheduled and its reads return; that graphs keep coming is not assumed.
- Router: the managing threads, the stopping threads and the threads that reload
  are scheduled. Children owe nothing: they may never get ready and never obey
  an exit command; the stopping thread's timeout ends them.
- Thread pool: every thread goes on. Spurious wakeups are allowed without end, so
  whoever wants the mutex is strongly fair. Nobody has to compute, pause, resume
  or free.
- PrefillStream: the worker, the device and the host within a graph go on; the
  next graph or the end of the scheduler need not come. SchedPipeline states no
  liveness: the host waits for streams only, and these for events recorded before.

## 5. Proofs

TLAPS checks them with no assumption but the constants' (named `...Assumption`),
which TLC evaluates in every run, and for one theorem of the server another, which
it names: `~CanLose`. Section 6 shows that it is needed.

- `MoeCacheProofs`: TypeOK; `IInv` is inductive and gives GraphReadsItsExperts,
  WorkerWritesUnreferenced, ExpertInOneSlot, and three facts that no run checks
  (InFlightAccounted, NoCopyAfterFree, the action property EvictsNoSlotInUse), for any number of layers, slots
  and experts. That a graph reads whole experts is not inductive: one must know
  that a slot some table names is on no job (Marked, JobsDistinct), that a slot's
  memory is its expert's unless a job is on it (Contents), and what of `step()`
  is done (Stages).
- `ServerProofs`: `GuardInv`, with types and the finiteness of the counted set,
  is inductive; from it every step implements a step of ModelLock or a stutter.
  The model is a property of flags and of the counter, and the proof shows the
  counter equals the set of readers in the window.
  AnsweredOnce and NothingLeftBehind, with cancellations, failures, sleep and
  reloads, for any requests, children and slots. `IAnswers` counts where a task
  is (Once): its copies in the two deques, at hand and in slots, its answer on the
  way or received, at most one in all and none before it is posted. A sender has
  the one copy, so that no answer is there yet and its own comes last
  (AnswerIsLast); what enters the results is waited for by a reader that will take
  it or clean it up (Expected). Each action of the main thread is shown to be one
  of five effects on the counts, MainDoes, and only these are weighed against the
  invariant. Counts over a deque are cardinalities of sets of positions; the lemmas
  that open that part say what push, pop, erase and erase_if do to them.
  TaskAccounted under `~CanLose`: `IKept` adds that the count is not below one
  while the reader waits and no error for it is on its way (AllKept), which needs
  that the slots are made anew only when idle: the server does not fall asleep with
  a busy slot, as it has posted itself a NEXT_RESPONSE then (SlotsAreKept).
  Of the Router (RouterSpec; its module has names of its own, so that both halves
  of the server stand in one module): RouterTypeOK; Managed, which adds to
  RunsAsItSays that a managing thread that has seen the end of its child has read
  all that the child wrote, is inductive; without it a late report would revive a
  dead model. As running models are then exactly those with a process, the count
  that a load makes under the lock bounds the processes: AtMostMax, by counting
  finite sets.
- `StreamProofs`: all in general, for any requests, whichever fail or are answered
  plainly. `IHang` says who holds which session that left the map, and gives
  NoReaderHangs. OneLive: `ILive` adds that what the map, a thread or the sets name was
  installed (Known), that only a request without a stream evicts (Apart), that a
  session is cancelled before it is finalized for another (Ordered), and that a
  request that goes on is in its place in the map or was evicted (Current); two that
  share a conversation cannot both be in its place.
  ReplayExact and EndIsTheEnd, for rings and chunks of any size:
  `IData` adds that a session holds the bytes that follow those it dropped, up to
  the last one sent (Bytes), that a reader has those from its offset on (Replays),
  and that one that ended follows a finalized session (Ends); RingKeepsTail is the
  arithmetic of `append`, ReadKeepsReplay that of `read_from`. TailKept:
  `Tails` adds that a session is finalized early only when its request was
  cancelled, its session evicted, or the server stops.
- `DoorbellProofs`: AbandonsTheLost. The jobs on the device are later than
  `abort_upto`, as the owner aborts with an idle device and only what is posted;
  and the leader abandons no job later than `abort_upto`. EntryKept and
  DecideAsOne: `Team` says that all threads are in the same part of the same
  layer of the same job, where a barrier ends a part and a thread that it
  released is in the next one (InStep); that the barrier counts those that wait
  (Barrier, a cardinality); that a thread that decided finds the decision
  unchanged (Settled, Counted); and which entries of the ring are filled
  (Entries). The leader can decide anew only when nobody relies on the decision
  before: NotYetCounted. JoinsItsOwn: `Mail` orders DONE, the shares and the
  request of a slot (Shares); the request that a joining graph finds is its own
  (Graphs), and DONE is set when every share is written (Asked, Written).
- `SsdProofs`, of the host cache: StreamInv is inductive, the conjunction of
  Shaped (types), Listed (a slice is in one list once, and in none while the
  worker reads it), Registered (without a model there is neither node nor
  worker), Held (what a pass touched is resident and pinned until its node is
  computed) and Whole (the bytes of a resident slice are there unless this pass
  still owes them); from it OneNode, ServesWhole and NoGhost, for any tensors,
  sizes, budget and queue. ServesWhole needs all of it: what the pass touched is
  not evicted because it is of this pass, and what is of this pass is read or
  owed. Of the slot pool: PoolInv (the slots in the lists and the free ones are
  a partition, and a slot holds its key unless the fill list names it) gives
  PoolHolds; IdsAreFresh, for any number of slots, nodes and graphs. Serving gives
  SlotsServe: a touch brings at most one key to the front of probation, so that the
  keys a bind has touched are among the first of probation, as many as it touched
  (BindTouches), and as no slot is lost and the protected segment keeps to its cap
  (AllSlots, Capped), probation is longer than that when no slot is free. All rest on
  what the operators of LruLists do to a list without repetitions.
- `SchedulerProofs`, of the ring: PrefillInv is inductive and gives
  ReadsItsWeight and WritesLiveRing, for any number of slots, graphs and weights.
  A split reads the right weight because the job of a later weight for its slot
  waits for the event that follows the split (WaitsInv, FreesInv), events of a
  slot are reached in the order in which they were recorded (FreesInv), the jobs
  keep the order in which they were asked for (JobsInv), and the last job that was
  asked for a slot is that of the split that reads it next (AskedInv); what
  a queued split reads is then there and nobody writes it (ReadsInv). The ring is
  freed or made anew only with no job outstanding (HostInv, JobsInv).
  Of the pipeline, for any number of stages, copies and graphs, OwnInputs and
  DrainedIsDone. Three invariants: Frame, inductive on every machine, has the events of a stream in order
  (EventsInv) and that an input of the user is that of the graph its copy is used for
  (UserInv), as the host has waited for the copy. LastInv, on every
  machine, is about the last graph queued, which nothing overwrites: its output
  (ResultInv) and the activation handed on (HandedInv). PipeInv, where the host
  waits for the event of an input before it queues the copy of the activation
  (HostWaits), is about every graph: CopiesInv says that a copy has one user at a time, PrevInv that what was
  put there is that of its user's graph or on the way, TransferInv that a copy on the
  way is awaited by the one it is for and will find the output of that graph,
  OutInv what a stage's output is. Elsewhere the code has no such invariant: the run
  `scheduler_overwrites` is what happens.
- `ThreadPoolProofs`: PoolInv is inductive and gives TypeOK, BufferIsOurs and
  RunsGraphs, that the pool implements GraphRun, for any number of threads, graphs
  and chunks. Between two barriers the team is in one Segment: the nodes up to the
  next barrier, where skipped and fused nodes share the segment of the one after
  them, the chunks of a product, or the way out. TeamAt says where its threads may
  be, and that a thread that is not there has not come yet, in the first segment,
  or has left, in the last; a thread that the barrier released is already where it
  leads (Loc). AbortAt says which node thread 0 may have named: only the one that
  begins the next segment, so that all threads see it at the same place. BufferAt
  is what was converted, for whom, and WrittenAt what was written: of a map, the
  rows of the threads that are past it; of a product, the chunks that were handed
  out and that nobody holds. BarrierInv ties the barrier's counter to the set of
  those that wait, a cardinality, so that whoever opens it finds the others there;
  CallerInv says that between two graphs nobody is left to enter the one before,
  and WorkersInv that whoever is still in it is on its way out. Without either, a
  graph could be replaced under a thread that computes it. That there is a longest
  graph is assumed for `written`, a table of that size.
- `KvProofs`: `Inv` is inductive and gives TypeOK, DataFollows, SlotsStaySingle,
  LeavesNoGap and LosesOnlyMasked, for any sequences, streams, cells, batches and
  windows, whichever ubatches fail. DataFollows is inductive with the types:
  operations on sequences take sequences away from a cell (Within), or move the
  cell and its owed shift alike, and `update` pays copies in their order before
  shifts (CopiedOneMore). The other three are about a decode that runs. Metadata
  are ordered by what is left of their cells. Of every ubatch that is still to
  come, Course names the metadata that it was placed on (`ms`), those that were
  left when it and all after it were put back (`rs`), and the next position of each
  sequence (`bs`). BackWithin: what was put back lies within what was placed. Running: the
  cells lie between the two. A decode begins on settled cells, or after a K-shift that
  failed on the cells as they are (BaseFacts, RotatedFacts). Sandwich: where the next slot was taken the
  two sides are equal, since the rollback put back just those cells; so the cells
  hold there what they held on trial (SlotsStaySingle), and placing the ubatch for
  good leaves them between the next two. Below, Whole: tokens come at the next
  positions and, as `apply_ubatch` purges up to what it took over, the positions of
  a sequence stay an interval (LeavesNoGap). Keeps, SeenStays: a cell is taken from
  a sequence only when it is masked, and what lies before a masked position is
  masked (LosesOnlyMasked). That the split brings each sequence its next positions
  in order is SplitFacts: every ubatch takes of each sequence the first tokens
  left (TakeOne), for `split_simple` and for `split_equal`. Where a search around the
  ring finds its cells is FindIdxsFacts.

The folds of the model (the trial, the rollback, the split, the copies) are
over data. Each is unfolded into the chain of its steps (CopiedSteps, TrialSteps,
BackSteps, RunSteps, SplitSteps): FoldExists shows, from a least counterexample,
that the recursion which the community modules' folds choose has a solution up to N. What
holds of the chain is then proved from one step to the next (Upward).

These invariants hold for every instance and are not run: WorkerWritesUnreferenced,
NoReaderHangs, EndIsTheEnd, TailKept, EntryKept, DecideAsOne, PoolHolds.

Only model-checked: liveness, which like ENABLED is out of the prover's reach, and
the types of the modules not named above. Every safety invariant and every action
property of the runs is a theorem. The theorems of the library that take an
operator, those of induction among them, cannot be used; Least and Upward stand in
for them. The server's clean-up of its deques says what is left by position
(Picked), as SelectSeq is recursive.

## 6. Findings

One run ends in a counterexample, `scheduler_overwrites`. Other properties that the
code does not have are stated in the modules, and TLC refutes them under the
constants given here:

- KvCache, FailedDecodeRestores (`Configs <- SwaConfigs`, `Batches <- FailBatches`,
  `NUbatch = 1`, `MaxPos = 6`, `MaxCalls = 2`): `llama_decode` that finds no slot (1)
  promises the memory state of before the call (include/llama.h:971). The trial
  placement puts back the cells that its ubatches took, not those that
  `apply_ubatch` purged along with them (llama-kv-cache.cpp:1276). With a sliding
  window, a batch of several ubatches whose last finds no slot leaves a sequence
  without tokens that its next token would see.
- SchedPipeline, WaitsForUse (run `scheduler_overwrites`):
  "wait for the split backend to finish using the input before overwriting it"
  (ggml-backend.cpp:1862). The wait for the event is put into the stream of the
  split's backend, which has it in order anyway. The CUDA backends copy on the
  stream of the source (ggml-cuda.cu:2580), and that waits for nothing. The inputs of
  a split stand in the order in which its nodes use them (ggml-backend.cpp:1405-1434);
  the activation comes first in a layer that begins with it. A source that
  is four graphs ahead of the split then overwrites the
  copy that it still reads. This takes a stage that is that much slower than the
  one before it, and graphs that are queued without a synchronization between them, as
  the ubatches of a prompt are. When an input
  of the user comes first, the host waits for the event before it queues the copy, and the
  run `scheduler` shows that this, the copy by the host, and a single copy are safe
  (OwnInputs), and that on every machine the last graph queued is right.
- ServerContext, DeferredTakenUp (tasks in `Unfit`, fairness of server_live): a
  deferred task is taken up by the release of a slot only. If the one taken up
  fails to launch, no release follows, and the others wait on an idle server
  (server-context.cpp:3799; server-queue.h:45 says "defer until one slot is
  available"). A client that leaves breaks the chain as well: EveryRequestEnds fails in
  server_live with `Impatient = {r2}`, when the deferred task that was just taken up is
  cancelled before it has a slot.
- ServerContext, TaskAccounted with `CanLose = TRUE`: tasks launched between the
  loss of a worker and the reload vanish with the slots that `load_model()` makes
  anew (server-context.cpp:2417); docs/distributed-inference-guide.md:720
  promises an error.
- ServerContext, EveryRequestEnds with a parent and its child in `EmptyPrompt`: it is answered
  without DONE_PROMPT, and its children wait for it for ever
  (server-context.cpp:4696).
- StreamSessions, OneAnswers (constants of `stream`): "one conv = at most one live
  session" (server-stream.cpp:236, and
  README-dev.md:129, "One conv maps to at most one live session"). A request that
  is answered without a stream evicts by conversation (server-stream.cpp:636): also the
  session of a request that replaced its own, which is finalized and not
  cancelled. That one goes on answering with a session that takes nothing more, and a
  third request installs another next to it. OneLive is what holds: only such an
  eviction makes two.
- StreamSessions, `r \in cancelled ~> pc[r] = "done"`, DeleteStops for every request:
  "only a `DELETE` stops generation" (README-dev.md:135), "the only signal needed to
  unwind both sides" (server-stream.cpp:218). A request that is answered plainly waits in
  `wait_for_all` (server-context.cpp:5955) and a stream for its first result in `next`
  (5987), both with the `should_stop` of the client: a DELETE does not end them, and a client
  that leaves does. The comment at server-stream.cpp:311 admits that the generation
  runs on.
- Router, NoneStartsStopped: a stop asked of a child that has just ended stays in
  `stopping_models`, and the next child of that model is stopped at once
  (server-models.cpp:1178). EvictionEnds: a load that waits for the least
  recently used model to be unloaded misses it when another load brings it back,
  and waits for its next unload (server-models.cpp:967). EveryReloadEnds with two
  `Reloaders`: the one that ends first clears the flag of both, and loads come
  between the other and what it waits for.
- KvCache, FailedUbatchLeavesNothing: the positions of an ubatch that failed are
  removed of the first sequence of each token only (llama-context.cpp:2440); a
  second sequence keeps cells that were never computed. ShiftAccumulates:
  `pos_div` adds the opposite of what it did to the position to the shift
  (llama-kv-cells.h:480), and the K-shift rotates the wrong way. AddIsLocal:
  `seq_add` moves the other sequences of a shared cell along.
- KvCache, DataFollows holds through a K-shift that fails (llama-kv-cache.cpp:947-957),
  as its shifts stay pending; but llama_decode does not look at the result of
  the update (llama-context.cpp:2354), so that this decode computes with K data that
  are not where the positions say.

Observed while reading:

- src/llama-moe-cache.cpp:375: the byte cap of a step is handed out from layer 0
  at each step; a busy first layer may leave nothing to the last.
- A task posted after its reader left the window may find the server asleep and
  waits for the next request (tools/server/README.md:2005 says that any task
  wakes it).
- A cancel that arrives while the main thread holds the task finds it in no
  deque (server-queue.cpp:207); the task is then deferred or launched.
- `terminate()` while a thread waits at the guard of a sleeping server leaves it
  parked (server-queue.cpp:230).
- Readers of a stream that falls behind get the same end as one that is complete
  (server-stream.cpp:473, README-dev.md:139), and readers of a cancelled session
  still drain what it holds (server-stream.cpp:308).
- ggml-ssd-stream.cpp:320 says that a tail of this pass means that everything is
  pinned. Slices that are demoted or prefetched go in front of unpinned ones:
  with one tensor, experts used as 1 2 3 and then 4 2 1, a budget of 3 and one
  protected, the cache overshoots its budget for a pass though slice 3 could go.
  The next pass makes it good; no result is wrong (ServesWhole).
- A fence between RPC workers that names a connection which never existed, as after
  a restart of the worker, cannot be told from one that has not executed yet, and
  is waited for until its 10 minutes are over (ggml-rpc.cpp:3037).
- A bind of the GPU pool pins nothing (ggml-ssd-stream.cpp:1105): a node that
  uses more experts than the pool has slots outside its protected segment may
  evict a slot it was just given, and would multiply with the wrong expert.
  SlotsServe says what holds.
- The arena is unmapped before the worker is joined on the unload path
  (ssd_buffer_free, ggml-ssd-stream.cpp:758).
- The count of graphs in `n_graph` has 16 bits (ggml-cpu.c:3263): a worker of the
  thread pool that was not scheduled for 65536 graphs in a row sees no news. Only
  graphs that do not ask for it can pass without it.
- `prepare` puts back heads by the index of the stream within the slot, not by
  the stream (llama-kv-cache.cpp:876); a head only says where a search starts.

## 7. Not modelled

See the components of `PROJECT.json`: what section 2 plans, and beyond it the
parts that only compute, convert or do I/O, which are most of the repository:
backends and kernels, quantisation, the graphs of single architectures, formats,
vocabularies, chat templates. They have no protocol a model checker could
examine. Memory orders weaker than sequential consistency, the sizes of buffers
and the contents of answers are abstracted everywhere.
