# Verification of the MiniLLMEngine runtime

TLA+ models of MiniLLMEngine (C++ and CUDA, `src/`), the TLC runs that check
them on small instances, and TLAPS proofs of the central results for every
instance.

On the host the program is single-threaded apart from OpenMP loops inside
stateless kernels.  What is hard about it is not a race of host threads but long
sequences of legal calls on shared pools and shared contexts: many sequences
interleave on one KV block pool, one scheduler and one decode context, ids and
blocks are reused, positions are carried between calls, device copies go stale.
On the device the threads of a block share memory and meet at barriers.  And
there are algorithms with many edge cases: the file parser, the tokenizer, the
sampler's filters, the memory planner.

## Inventory

| Component | State | Operations | Hard behaviour |
|---|---|---|---|
| `PagedKVCache` (host) | K/V pages per layer, LIFO free list, `block_used_`, a block table and a length per sequence | init, reset, release, reserve, set length, write, append, free | blocks change owner without being cleared; exhaustion; block boundaries; ids reused |
| `PagedKVCache` (CUDA) | device pages, one device block table per sequence | init_cuda, upload_block_table, write_tokens_cuda | device tables are copies that go stale; an allocation or a copy fails half-way |
| `ContinuousBatchScheduler` | request slots, waiting queue, active list, next id | submit, admit_waiting, mark_*, evict_finished, collect_finished | four places record one request's life; submissions arrive at any time; admission control |
| `PagedAttentionScheduler` | list of active ids | add, remove, clear, build_batch, decode_cpu | copies block tables out of a cache it does not own |
| Executor, RoPE and attention adapters, `RuntimeContext` | logical write position between layers, contiguous cache to advance | run, advance_kv_cache_step | the position is read in one kernel, used in others, reset only on success |
| `generate_paged` | sessions, positions, done flags | reserve, prefill and copy, decode round-robin | all sessions share one pool, executor and context |
| GGUF parser | file cursor, metadata, tensor infos | parse | nested values, truncated and inconsistent files |
| Weight loader | storage per GGUF tensor, aliases | extract_config, load_shared_weights, bind | tensors that are missing, tied or shared; conversion of formats |
| Contiguous `KVCache`, `generate`, `generate_cuda` | one length for all layers; tokens so far | init, append, advance, release; the decode loop | full cache, clamping, limits of 1 and less, errors in any run |
| Sampler | none | sample | the order of its filters, ties, rounding |
| BPE tokenizer | vocabulary, ranks, added tokens | init, encode, decode | merged symbols stay in the array; overlapping added tokens |
| `Graph`, `MemoryPlanner`, `RuntimeContext` arenas | nodes, values, lifetimes, buffers | validate, topological_sort, plan, allocate | a buffer is reused while its value is still needed |
| CUDA kernels | shared memory of a block, registers | one launch | barriers, reductions, tiles, the online softmax |
| CPU kernels | none | one call | floating point |
| Graph builder, shape inference, core types, registry | none or tables | pure functions | |

Interactions: both schedulers call the paged cache; `generate_paged` calls the
cache directly and, through the executor and the kernels, again during a run;
the context is the channel between the kernels of one run.  `generate` runs the
parser, the loader, the cache, the executor and the sampler one after the other
and shares storage and cache between a prefill and a decode context.

## Modules

| Module | Models |
|---|---|
| `SequenceStore` | the abstract promise of the paged cache: private arrays of rows, addressed by position |
| `PagedKVCache` | `src/runtime/cache/paged_kv_cache.{h,cpp}`, host side |
| `PagedKVCacheCuda` | the same files, device tables and device pages, on `PagedKVCache` |
| `ContinuousBatchScheduler` | `src/runtime/continuous_batch_scheduler.{h,cpp}` on `PagedKVCache`, with the serving loop |
| `PagedAttentionScheduler` | `src/runtime/cache/paged_attention_scheduler.{h,cpp}` on a `PagedKVCache` that changes under it |
| `PagedDecode` | `examples/generate_paged.cpp` with the executor, RoPE, attention and context code it runs, on `PagedKVCache` |
| `Graph` | `src/graph/graph.cpp`: validate and topological_sort |
| `MemoryPlanner` | `src/runtime/memory_planner.cpp`, the arenas of `RuntimeContext::allocate_intermediates_with_plan` and the run of the executor over them, on `Graph` |
| `GgufFile` | `src/io/gguf_parser.cpp`, `gguf_format.cpp`: parse |
| `GgufWriter` | what a writer of the format puts into a file: the other side, external |
| `GgufWeights` | `src/io/gguf_weight_loader.cpp` and the constants of `src/model/transformer_graph_builder.cpp`, on `GgufFile` |
| `KVCache` | `src/runtime/cache/kv_cache.{h,cpp}` |
| `Sampler` | `src/runtime/sampler.cpp` |
| `Generate` | `examples/generate.cpp`, `generate_cuda.cpp` with the contiguous path of executor and adapters, composing `GgufWeights`, `KVCache` and `Sampler` |
| `Tokenizer` | `src/io/bpe_tokenizer.cpp` |
| `CudaBlock` | one thread block of the kernels of `src/runtime/kernels/cuda_kernels.cu` that share memory, and the CPU kernels they must agree with |
| `MC...` | instances for TLC |
| `PagedKVCacheProofs` | the inductive invariant of `PagedKVCache`, and that it implements `SequenceStore` |
| `PagedKVCacheCudaProofs` | device tables and visible rows |
| `SchedulerProofs` | the five invariants and the two action properties of the batching scheduler, both invariants of the batch scheduler |
| `PagedDecodeProofs` | the four invariants of `PagedDecode` |
| `MemoryPlannerProofs` | `Graph` and `MemoryPlanner`: sort, plan and run |
| `GenerateProofs` | `Generate`: cache, weights, limits and sampling, over `GgufWeights`, `KVCache` and `Sampler` |
| `CudaBlockProofs` | barriers and shared slots of `CudaBlock` |
| `SetFacts` | least elements, recursion and sums over sets, for the proofs above |

Definitions keep the names of the code.  Operators marked *Mutant* are
plausible bugs in the definition that follows them; nothing uses them, they
exist to show that each property notices the bug.

**PagedKVCache.**  One action per method.  Errors return before the first
assignment, so a failing call is a stuttering step and the success condition is
the guard.  A K row and its V row are one value.  `sequences_` grows on demand;
an entry that does not exist yet behaves like an empty one, so the model has all
ids from the start and `ensure_sequence` changes nothing.  Freed blocks keep
their rows, as in the code.  The geometry is fixed: init with other dimensions
is init of another instance.

**PagedKVCacheCuda.**  The bookkeeping is that of `PagedKVCache`.  Here
`ensure_sequence` does matter, as an unknown id keeps its device table, so
`num_sequences` is modelled.  The K and the V half of a row are separate, since
they are copied one after the other.  Any `cudaMalloc`, `cudaMemcpy` or
`cudaMemset` may fail, a copy after any part of what it copies; `cudaMalloc`
returns any address that is not in use, and a new table holds `Uninit` until it
is written.  Callers write a row of a layer once, without a gap behind the
length, until they cut the sequence back (`Appends`, with the history variable
`written`), and lower lengths, as every caller in the repository does.

`upload_block_table` has two failures after which the cache goes on.  The
`cudaMemcpy` may fail after the size of the new table was recorded
(`upload_new_fails`): the table is there, reusable and not filled, so nothing is
promised of it (`uploaded` is 0) until an upload returns ok.  The `cudaMalloc` may
fail after the old table was freed (`upload_malloc_fails`): the entry goes on
pointing to it (`dangling`), and the code has no check for that, so every later
upload, free, release and `init_cuda` uses the pointer.  The model takes those
steps: while the address is free they do nothing; once it has been given to
another sequence they free or overwrite that sequence's table, which
`clobbered` records.  Two sequences can come to harm each other in this way and, as
`DeviceInv` and `UploadedTableReadable` say, in no other.

**ContinuousBatchScheduler.**  One action per method; the loops of
`admit_waiting` and `evict_finished` take one iteration per step so that the
invariants are checked inside them too.  `-1` as `sequence_id` of a slot is
`live = FALSE`.  Token values are dropped, their number is kept.  The caller is
not in the repository (`docs/design.md`: "the next component to wire into that
real generation loop"), so its steps are external: it follows the protocol of
`docs/design.md`, prefills in chunks of any size, samples EOS at any point, and
clients submit between any two of its calls.  `CollectFirst` swaps the last two
calls, as `test_collect_finished` does; `cancel` is `mark_finished` on a waiting
request, a step of `CancelSpec` only: `LifeCycle`, checked without it, says
nothing of cancelled requests, `FinishedIsFinal` does.

**PagedDecode.**  `main()` of `generate_paged`, one action per loop iteration,
and inside a decode run one action per layer, because the write position lives
in the context between layers.  A row is the pair of the session it was
projected for and the position RoPE rotated it by.  `seq_positions` is set per
session at the end of its prefill (the code does it for all sessions after the
last prefill, before any use).  Only single-token runs are modelled, the ones
`generate_paged` makes.  A run starts in either of two modes (`ReserveModes`):
with the up-front reservation of `generate_paged`, or without it, when
`write_tokens` reserves on demand, as tests use it; the second makes runs fail.

**PagedAttentionScheduler.**  The batch is the copy that
`cuda::paged_attention_decode_batch` is given.  The cache's owner makes any
cache call between scheduler calls; `batch` is forgotten when one of its
sequences is freed, because the batch makes no promise after that.

**Graph.**  Kahn's algorithm, one action per iteration of each loop.  Every
operator of `GraphBuilder` adds one node with one new value, so a node and its
value have the same name.  Values without a producer add no edge and are left
out.  The initial states hold any graph that `add_node` can build, with cycles
and unknown values, and the graphs `GraphBuilder` makes.  The lists of inputs
that a node may have are the constant `InputLists`, any set of sequences of ids:
TLC gets a finite one, the proofs hold for all, the nodes with many inputs
included.

**MemoryPlanner.**  One action per range matched with a buffer, per buffer laid
out in an arena, and per start and end of a kernel, because a kernel reads its
inputs while it writes its output.  A byte of an arena holds the name of the
value last written there; a value that was not planned has storage of its own.
`live` is `live_by_last_use`, all other buffers are in the free set of their
pool.  Positions count from 1, so `graph_end` is `N`.  The alignment is positive
(plan returns an error for 0).  `GraphBuilder::output` only changes a value's
kind, so there are no Output nodes to skip.  `PlainSpecs` is what values may be
in graphs that the sort refuses anyway, so that TLC does not multiply them.

**GgufFile, GgufWriter.**  A file is a list of fields, each with a kind, a value
and the byte at which it ends, and `size` says how much of it is on disk.  A read
asks for a kind of field and fails when the stream ends before it; the 32 bits
that name a type hold the name, and are a kind of their own; one action
per field or group of fields that the parser reads in one go, with
`read_metadata_value`'s recursion as the stack `frames`.  `GgufWriter` writes
the fields for a given content, independently of the parser; what is parsed is
compared with that content.  A string has a length but no characters, and one
longer than `MaxStringLen` is refused.  64-bit sizes do not overflow in the model.

**GgufWeights.**  `extract_config`, then one action per Constant of the prefill
graph (`load_shared_weights`): found, missing, shared with an earlier one, or
refused.  The contents of a tensor are one number in the tensor's format, its
bits; for F16 and BF16 the widening to F32 is modelled bit by bit.  Then the
storage is bound to the two contexts, prefill first.  `tokenizer_ok` is what
`BPETokenizer::init` asks of the metadata before any weight is loaded.  The tensors of the files have the sizes
the graph gives them: nothing in the code compares the two, and a larger tensor
would be written past its storage.  `general.alignment` is positive: 0 would
divide by zero.

**KVCache, Generate.**  The contiguous cache is a library of operators that
`Generate` uses.  Sizes that are not positive leave it uninitialized, and are an
error on the device; a `cudaFree` that fails ends release in the middle
(`kv_release_fails`).  Actions of `Generate` are the kernels that matter to
state: embedding, attention per layer, what follows it, the output head; then
`advance_kv_cache_step`, then sampling.  A row is the token it was computed from
and the position it was rotated to.  The logits at the end of a run are any of
`Logits` with an entry per token of the vocabulary.

A run fails on a missing weight, on a full cache, on what a kernel refuses, and
on the device at any point.  `kernel_accepts` is what the kernels check:
`check_q8_block_aligned` of embedding and linear (a Q8_0 matrix whose rows are
not whole blocks of 32 is refused), positive dimensions, token ids inside the
vocabulary, and in attention positive head counts that divide.  The norms of the
CPU check nothing: they read any gamma as floats.  With a gamma of another format
they read past its end, which is undefined; in the model the program then stops
(`read_past_gamma`) or goes on.  The prompts are tokens of the vocabulary
(`EncodedPrompts`), since `encode` gives no others, and not empty.  The CUDA
program refuses `max_tokens <= 0`, the CPU program does not.

**Sampler.**  `sample` gives the set of tokens the call may return: the sort
leaves equals in any order, the draw takes any candidate whose share is not
empty, and rounding may let it run off the end.  Logits are integers, so always
finite, and `exp` any function that grows, which keeps the comparisons and drops
the values.  The uniform distribution that `sample` falls back to when the
maximum or the sum is not finite is left out, and the temperature is 1.
`top_p` is a fraction, and counts only between 0 and 1.  `Eligible` states the
filters by their meaning, without an order.

**Tokenizer.**  A string is a sequence of code points, a text valid UTF-8.  One
action per piece that encode takes off the text, per merge of `bpe`, and per
token that is decoded.  Symbols keep the links of the array in the code, those
already merged included, since the scan still visits them.  Which code points
above 255 `isalpha` calls letters is undefined; it is any subset (`letters`).

**CudaBlock.**  The threads of one block take steps in any order.  A step is what
a thread does between two points where it meets others, and `accesses` records
the shared slots touched since the last barrier; `BlockSafe` says no two of
these steps conflict, which is also why finer steps would not show more.  A
`__shfl_down_sync` is one step of a warp.  Shared memory first holds anything
(`Garbage`).  Numbers are integers, `exp(x)` is `2^x` scaled by `2^ExpRange`, a
quotient is a pair.  The `cpu_...` operators are the CPU kernels of the same
operations, for one thread; the block must compute what they compute.  The Q8_0
kernel returns threads outside of the matrix before its barrier; `q8_local` has
that return, and only `launchable` (N a multiple of the lanes, a grid that is not
rounded up) keeps every thread inside.  With a rounded-up grid `BlockSafe` fails.
Over a block table of holes only the decode kernels divide 0 by 0; `Expected`
says so, as the pair of the two.  Kernels run one after the other on the default
stream, so blocks do not meet.

## Runs

| Run | Instance | Shows |
|---|---|---|
| `cache` | 2 sequences, 2 blocks of 2 rows, 2 row values, up to 4 tokens | no block is shared or lost, lengths stay inside their tables, and `SequenceStore` is implemented, call by call |
| `device` | 2 sequences of up to 2 rows, 3 blocks of 1 row, 2 layers; tables at 2 device addresses or rows, not both | no device table leaks, each has one owner, uploaded tables stay readable, up to the use of a dangling entry whose address was given away; what a layer has completed is whole and the sequence's own, whichever copy fails |
| `sched` | 3 ids, 4 blocks, batch of 2, 4 submissions of 3 kinds | slots, lists, blocks and lengths agree; ids are reused safely; every request that fits is output |
| `decode` | 3 sessions, prompts 1..5, 3 new tokens, 2 layers, 7 blocks, with and without reservations | rows and positions agree in every layer, sessions never mix rows, no reserved run fails, `main` returns |
| `batch_snapshot` | 3 sequences, 3 blocks, batch of 2 | a batch stays valid while the cache changes |
| `planned_run` | all graphs of 4 nodes with the input lists of `MCInputLists`: every one of up to 2 inputs, two of 3 and ones with an unknown value; cyclic graphs included; 2 pools, sizes 2 and 3, alignment 2, outputs planned | producers come first, cyclic graphs are refused, no kernel overwrites a value that is still needed |
| `generate` | 22 files, whole and cut; 2 prompts, limits -2, 0, 1, 3, 4 vectors of logits, 2 sampling configurations per program | from the file to the last token: what is parsed, loaded, cached, sampled, and that `main` returns |
| `tokenizer` | every text of up to 5 letters over two, up to 3 characters over seven, and 12 longer ones; 2 vocabularies, 3 broken files | encoding is by rank and by longest added token, decoding gives the text back |
| `cuda_block` | blocks of 2×2 and 2×4 threads and one warp of 4; rows shorter and longer than the block, tiles that are not full, block tables with holes and with nothing else | no barrier is missing or met by a part of the block; the output is the CPU kernel's |
| `sched_collect_first`, `sched_cancel`, `decode_stale_position` | | the disagreements below |

Each invariant ending in `Inv` joins the type invariant with properties that
concern the same state: `SchedInv` with `QueuesAgree`; `DecodeInv` with
`ReservedRowsMatch` and `AdvancesOncePerToken`; `BatchInv` with
`BuildNeverInternal`; `SortInv` with `ProducersFirst` and `CyclesReported`;
`PlanInv` with `ReuseIsSafe` and `ArenaDisjoint`; `DeviceInv` with
`NoTableLeaked` and `DeviceTablesOwned`; `CacheInv` of `Generate` with `CacheHoldsTokens`.

Bounds.  Two rows per block give every boundary case (empty, half full, full,
next block).  Pools are smaller than the demand of all sequences together, so
that exhaustion, reuse of blocks by another sequence and waiting happen.  Three
ids with four submissions make an id be reused while others are active.  Two
layers are what it takes for a position to be carried from one to the next.
Two device addresses for two sequences let a freed address be given to the other,
and with three blocks a table can grow while the other sequence has one too.
Tables do not depend on rows and lengths, nor rows on tables, so a behaviour of
`device` has either (`has`, chosen in `MCInit`), and rows leave one block unused:
their states add up instead of multiplying.  The proofs make no such choice.
Four nodes are enough for a value to stay needed across two others, for a freed
buffer to be reused, and for cycles of every length up to four; a node with
three inputs is attention with q, k and v; sizes 2 and 3
under alignment 2 separate a value's bytes from its buffer's.  `planned_run`
plans outputs too (`include_outputs`), the harder case: by default they have
storage of their own.  The files of `generate` have every kind of value, nested
and empty arrays, repeated keys, every tensor format the loader knows and one it
does not, tied and missing tensors, and each limit of the parser exceeded by one;
matrices of Q8_0 with whole blocks and without, heads that divide and that do
not, and norms that are not floats;
two of them are cut before the last byte of every field, all of them before the
last byte of every tensor.  The parser's limits (`MaxArrayLen` and so on) are
small, the rules that use them are the same.  Texts of five letters over two
allow four merges, with rules whose results overlap; the longer texts reach each
rule of the pre-tokenizer and two added tokens that overlap or start each other.
Two warps of two lanes have a first warp, another warp, a first lane and another
lane, which is all that the kernels tell apart; two tiles of keys are needed for
one to be replaced.
Sequence ids are symmetric in the cache and in the batch scheduler and
`SYMMETRY` is used there (states and steps, no liveness); the batching scheduler
and the device cache order their ids, so only what is symmetric there is
declared so.

Fairness.  `sched` assumes weak fairness of the serving loop (the caller keeps
calling), and nothing of the clients; `decode` assumes that `main()` keeps
running, and so does `generate`: one thread runs it and nothing stops it
half-way.  None of them assumes that a call succeeds.  Deadlock checking is off
where the program returns: `PagedDecode`, `MemoryPlanner`, `Generate`,
`Tokenizer`.  In `cuda_block` it is on: a block that is done stutters, any other
that cannot go on is stuck at a barrier.

`Served` is about requests that fit in the pool.  `submit` accepts larger ones
too, and one such request at the head of the queue stays there and blocks it.
`RoundTrips` is about vocabularies with a token for every symbol of the text and
every result of a rule: others drop symbols silently.

### Disagreements found

* `sched_collect_first`: `collect_finished` before `evict_finished` frees the
  slot of a sequence that is still active; `submit` then accepts its id again,
  although its check is meant to refuse an id "already in use".
* `sched_cancel`: `mark_finished` on a waiting request does not take it out of
  the queue; it is admitted later and goes from Finished to Prefilling.
* `decode_stale_position`: a failed run does not reset `paged_kv_write_pos_`;
  the next run on that context, for another sequence, uses it.  With
  `generate_paged`'s reservations no run fails for want of blocks
  (`NoRunFails`), so there it needs some other kernel error.

Met while modelling, without a run of their own:

* `generate_paged` with `max_tokens = 1` yields two tokens per session: the
  token sampled by prefill counts, but the limit is tested only after a decode
  run.  `TokenBudget` states the exact limit.  `generate` with a limit of 0 or
  less yields one token if the prompt fits (`TokenLimit`).
* `docs/runtime_flows.md:133` calls `pre_tokenize` the "GPT-2 regex state
  machine" and `README.md:19` a full one.  White space that no newline follows
  makes one piece of the whole rest of the text (`bpe_tokenizer.cpp:379`): "a b
  c" becomes "a" and " b c", where the regular expression cuts before every
  word.  Decoding is not affected (`RoundTrips`); merges across words are
  possible.
* Byte 255 serves as the mark for "no byte" in `unicode_to_byte`, so it is never
  decoded; it does not occur in valid UTF-8.

## Proofs

TLAPS proves every invariant of the paged caches, the schedulers, the decode
loop, the graph and the planner that the runs check, four of single-sequence
generation, that no thread block misses a barrier, the action properties of the
batching scheduler, and the refinement of `SequenceStore`.  Each theorem holds for every value of the constants that
the module's assumptions allow.  The arguments have one shape: an inductive
invariant, one lemma per action that the action keeps it, and the property as a
consequence.

**The paged cache.**  For any sets of sequences, layers and rows, any block size
and any number of blocks (`GeometryAssumption`, `RowsAssumption`) and calls
whose token counts do not overflow `int` (`NoOverflowAssumption`):

* `CacheInvariant`: `Spec => []CacheInv`, with the consequences
  `CacheTypes`, `CacheBlocksSafe`, `CacheNoLeak` and `CacheLengthCovered`.  `CacheInv` is the
  conjunction of `TypeOK`, `NoBlockShared`, `NoBlockLost` and `LengthCovered`.
  None of the middle two is inductive alone: that a popped block is in no table
  needs free list and tables disjoint, and that `free_sequence` returns every
  block of its table needs `block_used_` to agree with the tables, since the
  loop skips blocks that are not marked.  `AllocateInv` and `FreeInv` carry the
  argument; `BlocksNeededCover` and `DivMod` are its arithmetic.
* `CallsRefine`: each call implements the abstract call with the same
  arguments.  The core is `SlotUnique` (two positions of a table without
  repeated blocks never share a row) and `CopyRowsEffect` (a write changes the
  places of its positions and no others), with `UntouchedSeq` for the others.
* `CacheRefinesStore`: `Spec => StoreSpec`, from both.

All modules below that use the cache reuse its lemmas about calls.

**Device side.**  `DeviceInd` joins `CacheInv`, `DeviceInv`,
`UploadedTableReadable` and `UploadedWithin`: what was uploaded is no longer
than the host table and than the device table.  Without it, an upload after
`free_sequence` or after the table grew could not be shown to read inside its
allocation.  From it `DeviceTables` and `DeviceTablesReadable`, for any number
of device addresses, with every allocation and copy free to fail, those of
`upload_block_table` included, and with every later call on an entry that a
failed allocation left behind.  That no table leaks holds always; the rest holds
until such a call meets an address that was given away, after which the code
itself frees or overwrites another sequence's table.
`DeviceRowsWhole` is for any number of layers.  The length is shared and layer 0
raises it, so a copy that fails in a later layer leaves a position below the
length that this layer has not completed.  The code does not prevent it; the
theorem is about the layers that have completed a position, of which there is
always one.

**Batching scheduler.**  `SchedInd` adds to the five checked invariants what a
phase says of a request's counters (`RequestsInPhase`: a decoding request has
tokens left, a waiting one has used none) and what the loop of
`evict_finished` has already removed (`FinishedLeft`).  The first is needed for
`RoomToFinish`, the second because `collect_finished` frees the slot of every
finished request, which is safe only when none of them is active any more.
That is the documented order of calls, assumed as `LoopOrder`
(`CollectFirst = FALSE`); `sched_collect_first` shows what the other order does.
Consequences are `SchedListsAgree`, `SchedAutoIdsFresh`,
`SchedOnlyActiveHoldBlocks`, `SchedRoomToFinish`, `SchedAttendsOwnTokens`, the
action properties `SchedLifeCycle` and `SchedAcceptsOnlyUnusedIds`, and
`SchedComputeNeverShort`: whatever chunk or token the caller computes next, the
cache does not refuse it, so the refusals in those calls are dead under
admission control.

**Paged attention scheduler.**  `BatchInd` needs `BatchCovered`: the positions a
batch covers stay inside the tables, which only grow until the sequence is
freed.  `BatchNeverInternal` shows that both internal errors of `build_batch`
are dead; the other step is that rows and columns of the flat table are unique.

**Paged decode.**  For any positive number of sessions and layers
(`DecodeAssumption`), `DecodeInd` says where `main` is (`ControlInd`), how many
tokens a session may still take (`TokensInd`), how long a sequence can have
become (`LengthInd`), whose rows a block holds (`BlockRows`), and, when all
budgets were reserved (`ReservedInd`), that there is room (`RoomInd`) and that
lengths, positions and the position in the context agree between the layers of
a run (`StepInd`).  `LengthInd` is what remains true when a failed run leaves
its position behind.  `DecodeRowsNeverCross` and `DecodeTokenBudget` hold in
either mode; `DecodeRowsInPlace` and `DecodeNeverFails` are about sessions with
reservations.

**Graph and planner.**  `SortInd` is the state of Kahn's algorithm at each
iteration: the queue is without repetition and apart from the output, and the
in-degree of a node counts its inputs that are not yet output, repeated ones
each time.  That `topological_sort` fails only for cycles is the step from "the
queue is empty" to "every node left waits for a node left".  `PlannerInd` adds
`PlacedInOrder` (values are placed in the order they are produced, and a free
buffer is past its last use for every value still to come), `UseCovered` and
`LaidOut`; from it `PlannerReuseSafe`, and for the run over the arenas
`PlannerLiveValues`, for any graph, sizes, pools and alignment; the input lists
of a node are of any length and name any values.  `GraphSorted`
states `SortInv` of the sort alone, `PlannerSorts` of the sort inside the plan.

**Single-sequence generation.**  For files whose integer fields hold integers
(`FilesAssumption`), prompts with at least one token, integer logits over a
vocabulary that is not empty, integer settings of the sampler and an `exp` that
is not 0 at its maximum (`GenerateAssumption`), `GenerateInd` carries from
the parser to the last token: what metadata and calls hold (`ParsedInd`), that
both contexts see all that was loaded (`WeightInd`), what `main` counts
(`MainInd`), and during runs that the cache has room for prompt and limit and
that every kernel already run had its weights (`RunInd`).
`GenerateOnlyComplete` follows because the kernels between them read every
constant (`KernelsReadAll`) and check it, while the loader passes over missing
ones and takes any shape;
`GenerateTokenLimit` because no decode run can fail on the CPU (`RunFailsInd`);
`GenerateRowsInPlace` is `CacheHoldsTokens` for every prompt length.

`GenerateSharesOnce` is `WeightsSharedOnce` for any file, whatever its tensors
are called and however many constants share one.  It needs a second invariant,
`StoreInd`.  `TensorsInd` says of the parser that arrays and dimensions are lists
and that a scalar is never taken for an array, so that `vocab_size` and the
number of elements of a tensor are integers.  `Stored` says of the loader that
every alias is a constant before `next_const`; with `ConstantsDiffer` (no two
constants of the graph are one value, which is where the layer and the weight
have to be told from the quotient and the remainder of an index) the constant
looked at has no alias yet, so adding one leaves the others alone, and a tensor
that is not in storage is counted for the first time (`BytesAdded`).

`GenerateSamplesEligible` is `SamplesEligible` for any finite logits (integers), any tokens
already there and any `top_k`, `top_p` and `greedy` (`SampledEligible`).  The
penalty loop scales a logit by the power of two of its occurrences
(`PenaltyOfToken`: to halve a quotient is to divide by twice as much).  A sort
that leaves equals in any order still puts every likelier token before a token
(`LikelierBefore`); `top_k` and the nucleus each keep a first part of the list
(`TopKPart`, `TopPPart`), so the likelier ones are among the first, at most as many
and with at most their mass (`AmongFirst`), and the nucleus was not yet full
there.  That what is left is never empty, and so every token one of the
vocabulary, comes out as well.

**Recursion and sums.**  The library's induction theorems cannot be used, but
facts about recursive functions and sums over sets can be shown at a smallest
counterexample.  `SetFacts` has the least element of a set of numbers
(`LeastElement`), the smallest part of a finite set with a property
(`LeastSubset`), that a function can be defined step by step (`RunExists`), and
from these that a sum exists, is unique, does not depend on the order, and
changes by one summand when an element is added (`SumOfAdd`).  The penalty loop,
the nucleus, the number of elements of a tensor, the lifetimes of the planner
and the bytes of the store are reasoned about in this way.

**Thread blocks.**  `LaunchAssumption` is what every launch has: sizes that are
integers and no more warps than lanes, since the first warp reduces the partials
of all (the code launches 8 warps of 32).  The number of warps and lanes, the
sizes, the block tables and what shared memory holds are arbitrary.  `Q8Inside`
is the arithmetic of the Q8_0 grid: no thread of it takes the early return.
`BlockSafe` alone is not inductive: it says nothing of the accesses to come.
`BlockInv` says that all threads are in one *section*, what a thread does
between two barriers; a section is given by its label and by the position, key,
reduction and return label that all threads share on entry.  `RowSection`,
`ReduceSection`, `MatrixSection`, `DecodeSection` and `SdpaSection` list where a
thread may be in each.  Which barrier ends a section, or whether the threads
leave, depends on these common values alone (`WaitersAgree`), so no barrier
diverges; this is where the bounds of the tile loops and the holes of a block
table matter.  In a section a slot is only read (`ReadOnly`) or has one thread
that touches it (`Owns`, `OneOwner`), so that no two accesses conflict
(`InvSafe`).  The order that a shuffle gives to the lanes of a warp is not
needed: the barriers are enough.  `BarrierInv` starts the next section; the
other lemmas are one per step of a kernel.

**Only model-checked.**

* What a file holds: `ParsesExactlyTheWhole` and `LoadedAsWritten` compare the
  parser and the loader with the writer of the format, whose fields are built by
  `RECURSIVE` operators.
* `Tokenizer` (`RoundTrips`, `EncodesByRank`): what merges and concatenations of
  pieces come to for every text is an induction over lists of lists that has not
  been carried out.
* `ComputesWhole` of `CudaBlock`: it needs what folds and nested sums come to for
  every input, kernel by kernel.
* Liveness (`Served`, `Terminates`, `Generates`, `Returns`): fairness and
  `ENABLED` are outside the prover's reach.

## Not modelled

* Floating point: kernels are modelled over integers, so nothing is said about
  rounding, overflow to infinity or the order of sums.
* CUDA kernels without shared memory (elementwise, embedding, RoPE, transpose),
  those that use a warp only, `sdpa_kernel` (not launched), cuBLAS calls, and the
  argument checks of the host functions beyond those that exclude a launch.
* Logits that are not finite, a temperature other than 1.
* Integer overflow of token counts and of 64-bit file sizes; `alignment = 0` and
  tensors whose size is not the graph's: assumed away, listed as hazards.
* `WeightLoader::load_weights`, which nothing calls; memory mapping of the file.
* Shape inference, core types, the kernel registry: pure functions and tables.
* Printing, timing, command lines, the benchmark programs.

## Plan

Left to prove, in this order:

1. `ComputesWhole` of `CudaBlock`, kernel by kernel, with the sums of `SetFacts`;
   those without a reduction first.
2. The parts of `ParsesExactlyTheWhole` that need no induction: a file that
   parses was read to its last field, and one that fails is cut or not
   supported.
