# A TLA+ model of blake3-kmp

blake3-kmp is a Kotlin library around the C implementation of BLAKE3. This
directory models the program: state machines checked with TLC on small
instances, and theorems about them, for every value of their constants,
checked with TLAPS. Paths below are relative to `src/`; `blake3.c` stands for
`blake3-kmp/native/blake3_c/blake3.c`. `build.zig` and `CMakeLists.txt` compile
`../BLAKE3/c`, a git submodule whose contents are not part of the repository; the
C sources modelled here are the copy under `native/blake3_c`.

## 1. The system

| Component | Source | State | Operations | What makes it correct |
| --- | --- | --- | --- | --- |
| Incremental hasher | `blake3.c` 383-651 | key words, chunk in progress, stack of chaining values | init, update, finalize, reset | the answer is the tree of the whole message however it was cut into updates; the root is never compressed before finalize; the stack stays in order and within its array |
| Chunk state | `blake3.c` 11-152 | chaining value, block buffer, blocks compressed | init, reset, update, output | the last block stays uncompressed, is padded with zeros and carries the right flags |
| Subtree compression | `blake3.c` 159-381 | arrays of chaining values on the call stack | `compress_subtree_wide`, `..._to_parent_node` | the same two halves for every SIMD degree; no array overrun; the root is never compressed |
| Extendable output | `blake3.c` 90-117, 599-646 | none | `output_root_bytes`, `finalize_seek` | any window of the output agrees with the whole |
| Key modes | `blake3.c` 390-413 | key words and flags | hash, keyed hash, derive key | inputs of different modes share no node |
| CPU dispatch | `blake3_dispatch.c` | `g_cpu_features` | detection, choice of kernel | threads that detect at once agree; degree and kernel fit each other |
| JNI bridge, `Blake3Stream` | `native/Blake3Kmp.c`, `jniMain/` | `hasherPtr` and the allocation behind it | create, update, finalize, reset, close | no use after close, no double free, no call half done |
| FFM `Blake3Stream` | `blake3-ffm/.../ffm/` | shared arena, segment | the same | no use after close, the memory is released |
| Native library loaders | `JvmBlake3.kt`, `AndroidBlake3.kt`, `FfmLoader.kt` | `loaded` | `loadNativeLibrary` | the library is looked for once; whoever finds none learns why; nobody waits for ever |
| Lazy handles of the FFM library | `FfmBlake3.kt` | `lookup`, `hasherSize`, handles, and their locks | first reads | what is kept was found in the library; segments are large enough |
| Compression function | `blake3_portable.c` | none | `compress_in_place`, `compress_xof`, `hash_many` | the known answers; nothing of the state is lost; a chunk hashed among others gets the value it gets alone |

How they interact. A Kotlin stream owns one native hasher and passes its
address to each call; the object has no lock, so calls of several threads
interleave between the check of the address and its use. A one-shot hash runs
init, update and finalize on a hasher of its own. `update` fills the chunk
state first, hands whole power-of-two subtrees to the subtree compression, and
puts the rest into the chunk state; every chaining value goes through
`hasher_push_cv` onto the stack. `finalize` reads chunk state and stack and
rolls them up; the last node goes to the extendable output. All compressions go
through the dispatch, which reads a process-wide variable. Loaders run before
the first native call of a process.

Hard behaviours. Within the hasher there is no concurrency: what is hard is the
*sequence* of calls, because the state between calls depends on the binary
representation of everything hashed before, and the numbers at the boundaries
(exactly one chunk, a full block, an empty chunk under a stack). Around it,
threads share a stream, the loader's flag and the CPU features. Failures are an
array the JVM does not give, a library that does not load, an arena that does
not close. The full list, at its lines, is under `hazards` in `PROJECT.json`.

## 2. What is modelled

### Blake3Tree: values and the reference

A chaining value is abstracted to what it depends on: the run of chunks
`[lo, hi)` it covers and the set of nodes compressed to obtain it. A node holds
everything that enters its compression, so equal nodes stand for equal
compressions (collisions aside), and compressing something twice, under another
counter, in another place or in the wrong mode gives another value.
`output_t` is a node not compressed yet with the nodes below it, since the same
node is compressed differently as the root.

The reference, `RefOutput`, gives the tree of a message in closed form: parents
are the pairs `(c, p)` of a chunk and a power of two with `c` a multiple of
`2p`. Nothing is recursive, so the same definitions serve TLC and the proofs.
`Pow2` is defined by divisors for the same reason; the MC module checks that it
is the set of the `2^k`. `Modes` is declared here, for the modules that
hash with a mode.

### Blake3Hasher: the incremental hasher

One step per pass of the loops of the code, ordered by `pc`:

| Action | Code | |
| --- | --- | --- |
| `HasherInit`, `Reset` | 383-409, 648-651 | an empty chunk with counter 0 and an empty stack |
| `Update(n)` | 476-490 | the call; `n = 0` returns at once and is left out |
| `FillChunk` | 490-509 | completes the partial chunk; pushes it when input remains |
| `HashSubtree` | 524-567 | the largest aligned power of two; one chaining value or a pair |
| `MergeCV` | 427-433 | a pass of `hasher_merge_cv_stack`'s loop |
| `PushCV` | 468-474, 505, 568-570 | the push, and after the last one the new counter and the rest of the input |
| `AbsorbTail`, `Settled` | 579-582 | at most a chunk is kept, and the stack is merged |
| `Finalize`, `RollUp` | 604-646 | where the roll-up starts, and its passes |

`pushes` holds the calls of `hasher_push_cv` still to come in a pass, each with
the counter it is given: after a filled chunk it is the chunk's own, for the
second half of a subtree the counter in its middle. `input_bytes` is the
position in the message, which stands for the C pointer; `mode` stands for key
words and flags. Intermediate values of the locals that no later step reads are
not kept.

Abstracted: the chunk in progress is its counter, the position of its first byte
and its length, which `ChunkState` shows to determine the output of the code's
chunk state; a subtree's pair is `SubtreePair`, which `SubtreeWide` shows to be
what the code's recursion returns. A call with `out_len = 0` changes nothing and
is left out.

### Blake3Hash: the abstract specification

A hasher whose calls are atomic: `update(n)` adds `n` bytes, `finalize` answers
with the reference tree of the bytes so far and leaves the message open, `reset`
and the initialisations start another. `Blake3Hasher` implements it
(`ImplementsHash`) under the mapping: a message is `input_bytes + input_len`
bytes, and the answer is `output` once the call is over.

### ChunkState: the chunk in progress

The fields of `blake3_chunk_state`, with one step per compression:

| Action | Code | |
| --- | --- | --- |
| `Reset`, `SkipTo` | 11-28, 568 | an empty chunk; the hasher moves the counter of an empty one |
| `Update(n)` | 119-121 | the call |
| `FillBlock` | 121-133 | tops up the buffered block, compresses it if input remains |
| `CompressBlock` | 135-142 | a block of the input, compressed where it is |
| `KeepLastBlock` | 144-145 | the rest goes to the buffer |

(lines of `blake3.c`; `map` in `PROJECT.json` has the exact ones.) A byte is its
number in the chunk, or 0 for padding; `cv` is the sequence of compressions that
made it. `flags` never changes and is left out. The module only allows updates
that fit the chunk, which is what the hasher offers.

### SubtreeWide: the hashing of a subtree

The recursion of `blake3_compress_subtree_wide` is a stack of activations
(`calls`), each with its arguments, how far it is and its own `cv_array`, whose
unwritten slots hold `Garbage`:

| Action | Code | |
| --- | --- | --- |
| `HashChunks` | 277-280 | no more chunks than the degree: returns their chaining values |
| `CallLeft`, `CallRight` | 286-290, 318-322 | a new activation for a half |
| `JoinHalves` | 328-336 | returns the parents of both halves, or two single values as they are |
| `Condense` | 374-378 | a pass of the loop of `compress_subtree_to_parent_node` |
| `Return` | 379-381 | two are left |

A return (`Returns`) is part of the step that computes what is returned: it writes
to the caller's `cv_array`, from the start or from `RightSlot` on
(`Received`), and clears `fits` when it leaves the slots that are its own
(`OwnSlots`) or when a list of inputs was longer than what it is built in. A half
written over the other, or a slot read that nobody wrote, gives another value.
Kernels are abstracted to their results: `blake3_hash_many` gives the chaining value
of each of its inputs. A `target` is what the preprocessor sees and what the
dispatch finds at run time; `MAX_SIMD_DEGREE`, `BLAKE3_USE_NEON` and the degree are
computed from it as `blake3_impl.h` and `blake3_dispatch.c` do. The names of the
state machine (`WideInit`, `WideNext`) differ from `Blake3Hasher`'s, whose proofs
use those of this module.

### CpuDispatch: features of the processor

Any number of threads call the dispatching functions. `Load` is the read of
`g_cpu_features`; a thread that finds it undetected asks the processor in two
steps (`DetectLeafOne`, `DetectLeafSeven`), writes what it found (`Store`) and
goes on (`Answer`) with its own copy. The accesses to `g_cpu_features` are
atomic (C11 atomics, or interlocked operations with MSVC); a compiler that has
neither makes them plain accesses to an aligned `int`, which x86 reads and
writes whole, so each is a single step in every build. The processor is a record of the bits `cpuid` reports,
the register states `xgetbv` reports as saved and whether leaf 7 exists; a build
is the set of kernels compiled in. On ARM the degree and the kernels are
constants of the build: `SubtreeWide` computes them.

### RootOutput: windows of the output

`output_root_bytes` with `blake3_xof_many`: byte `k` of output block `c` is the
pair `<<c, k>>`, and the caller's buffer goes on behind its window. A call
is the partial block at its start (`FirstBlock`), the whole blocks, by a kernel
that writes all (`WideXof`) or one by one (`XofBlock`), the move past them
(`PassBlocks`) and the partial block at its end (`LastBlock`).
`blake3_hasher_finalize` is the window that starts at 0.

### Compression: the rounds

`blake3_portable.c` on the code's own words, constants and schedule, one step
per call of `g`. TLC's integers are smaller than a `uint32_t`, so a word is a
pair of halves of 16 bits, added with carry and cut off where the code's are.
`InPlace` and `Xof` are the two ways to leave the function. All other modules
take it to be injective.

### HashMany: chunks without a chunk state

`blake3_hash_many` and `hash_one` as `compress_chunks_parallel` and
`compress_parents_parallel` call them: the loop over inputs (`StartInput`,
`StoreCV`), the loop over blocks (`HashBlock`), the flags and counters of
each. The module extends `ChunkState`: a hasher calls `blake3_hash_many` while its
own chunk is empty, and the same chunk is hashed either way, depending on how the
message was cut. Compressions are those of `ChunkState`, with the flags of the
mode, which that module leaves out.

### KeyModes: key words and flags

The four initialisations over memory that another hasher used, and the flags
byte of every compression with its real bits. A compression remembers what it
was made for; one earlier compression, any one, is kept for comparison.
`Blake3Hasher` carries the mode as an opaque value, which this module justifies.
Its state machine is `ModesInit` and `ModesNext`, since it shares a module of proofs
with `RootOutput`.

### NativeLoader, JniCalls, FfmHandles, NativeLibrary: the way to native code

`NativeLoader` is `loadNativeLibrary` in its three variants, a step per operation
that can fail: the `getAndSet` of `loaded`, the check of the system, the
resource, the temporary file, `System.load` and `System.loadLibrary`.
`machine` is what it finds, fixed for a behaviour; writing the file may fail at
any time.

`JniCalls` composes it with threads that make a native call behind it (`Call`,
`NativeCall`, `Rethrow`). `FfmHandles` composes it with the lazy values of
`FfmBlake3.kt`: Kotlin's `lazy` is a lock per value, an initialiser run under it,
and a value that is kept unless the initialiser throws. `hasherSize` and the
handles initialise `lookup` within their locks, and `lookup` runs the loader, so
that locks nest and exceptions leave through them. `blake3_hasher_sizeof`
lays the struct out, field by field, to compare it with the 1912 bytes
`FfmBlake3.kt` assumes when it cannot ask. `NativeLibrary` joins the two: the
variant of the machine says whose threads run.

### Blake3Stream: the abstract stream

What a stream promises: calls are atomic, an answer is for the mode and the bytes
given since the constructor or the last reset, a call after close throws. A
message is its mode and its length; which bytes it holds is the hasher's matter.
Two settings are fixed for a behaviour. To callers that do not take turns nothing
is promised (`turns`). When the virtual machine denies native code an array
(`lossy`), a call may do nothing and a one-shot hash may answer for no input:
the code does, and says so nowhere; without it, that refines to nothing.

### StreamCalls, JniStream, FfmStream: the two streams

`StreamCalls` holds what both have in common: threads, the checks of the
arguments with the wrap of an `Int` sum (`AsInt`), and what callers may run at
the same time. Callers that take turns run `finalize` with `finalize` and every
other call alone; others run anything with anything. The latter do not order
their accesses to a plain field: each thread may read any value written since
its own last write (`readable`). The constructor is safe either way, because
callers publish the object properly.

`JniStream` has a step per read or write of `hasherPtr` and per call of JNI:

| Action | Code | |
| --- | --- | --- |
| `New` | `Blake3Stream.kt` 10-19, `Blake3Kmp.c` | `malloc`, or the exceptions for a key or for address 0 |
| `Call`, `Check`, `Pass` | `Blake3Stream.kt` 21-52 | the bounds, the check of `hasherPtr`, and its second read |
| `GetArray`, `Enter`, `Leave` | `Blake3Kmp.c` | `GetPrimitiveArrayCritical`, and native code in hasher and array |
| `CheckClose`, `Free`, `Forget` | `Blake3Stream.kt` 54-59 | three accesses of `hasherPtr` around `free` |
| `Hash`, `KeyedHash`, `HashInput`, `HashOutput` | `Blake3.kt`, `Blake3Kmp.c` | the one-shot functions |

`undefined` records native code in a hasher that is freed, or that another
thread is changing, or outside of the array; the model stops there, since such
code may do anything.

`FfmStream` has the two fields, `arena` and `hasherSegment`, each with its own
`readable`, and the arena itself. A downcall holds the arena (`Enter`, `Leave`);
closing it then is denied, and `close` swallows that (`CloseArena`).
`MemorySegment.copy` checks ranges without overflow (`Copies`).

## 3. What the runs show

| Run | Instance | Checks |
| --- | --- | --- |
| `tree` | chunks of 2 bytes, messages up to 63 bytes, `MAX_DEPTH = 5`, two modes | `TypeOK`, `InputAccounted`, `StackCanonical`, `MergedWhenNeeded`, `StackFits`, `NothingCompressedTooEarly`, `PairToStartFrom`, `ImplementsHash`, `CallsReturn` |
| `chunk` | blocks of 4 bytes, four to a chunk, three counters | `TypeOK`, `OutputIsReference`, `LastBlockKept` |
| `degrees` | chunks of 2 bytes, subtrees up to 136 bytes, two counters, the targets of the builds | `WideTypeOK`, `WritesFit`, `RootNotCompressed`, `PairIsReference` |
| `race` | two threads, eleven processors, three builds | `TypeOK`, `PublishedWhole`, `DegreeAgrees`, `KernelsUsable` |
| `window` | blocks of 4 bytes, windows of up to 14 bytes that start at up to 9 | `TypeOK`, `OnlyTheWindow`, `WindowComplete` |
| `vectors` | four messages of the repository's tests, one extreme input | `KnownAnswers`, `HalvesAgree`, `MixingLosesNothing` |
| `batch` | blocks of 2 bytes, four to a chunk, up to five inputs, three counters, four modes | `SameAsAlone` |
| `modes` | keys of two words, three keys, two contexts | `ModesApart` |
| `loading` | three JNI or two FFM threads, three variants, all machines | `OneAttempt`, `MissingIsExplained`, `SegmentHoldsHasher`, `CallsEnd`, `NativeCodeOnceLoaded` |
| `jni_threads` | two threads, arrays of 2 elements, messages up to 2 bytes | `AlwaysDefined`, `FreedWhenClosed`, `ImplementsStream` |
| `jni_wraps` | one thread, every offset up to `IntMax = 7` | `RangeInArray` (violated) |
| `ffm_threads` | two threads, arrays of 2 elements, every offset up to `IntMax = 5` | `OpenWhileInside`, `Released`, `RangeInArray`, `ImplementsStream` |

Of the hasher (`tree`):

* `TypeOK`: in particular `cvs_remaining` is a natural not above the stack.
* `InputAccounted`: no byte is lost, read twice or hashed under another chunk's
  counter.
* `StackCanonical`: the "smaller-above-larger stack order" of the comment at
  `blake3.c:420`, made precise: aligned powers of two, no gaps, strictly
  decreasing but for a lazily pushed top.
* `MergedWhenNeeded`: counting 1 bits does what merging by size would do.
* `StackFits`: `MAX_DEPTH + 1` entries are enough (`blake3.h:55`).
* `NothingCompressedTooEarly`: every node compressed so far is a non-root node
  of the tree of *every* message that extends the input, and of that input
  itself. This is what lazy merging is for.
* `PairToStartFrom`: "There are always at least 2 CVs in the stack in this
  case" (`blake3.c:633`).
* `ImplementsHash`: the answer does not depend on how the message was cut, on
  finalizing in between, or on what the memory held before.
* `CallsReturn`: every call ends.

Of the chunk state (`chunk`):

* `OutputIsReference`: between calls length and output depend on the counter and
  the bytes given alone, not on how they were cut; every block is compressed
  once, whole, with its flags, and the last one is padded with zeros.
* `LastBlockKept`: inside a call too, the compressions made so far are right for
  every length the chunk may still have.

Of the subtrees (`degrees`):

* `WideTypeOK`: arguments and returned counts are in range at every depth, and each
  chaining value covers at least a chunk.
* `WritesFit`: the arrays, whose only guards are assertions, are large enough.
* `RootNotCompressed`: the guarantee of the comment on `compress_subtree_wide`.
* `PairIsReference`: for every degree the result is the two children of the
  subtree's root, and for complete subtrees `SubtreePair`.

Of the dispatch (`race`):

* `PublishedWhole`: a reader sees the variable undetected or complete.
* `DegreeAgrees`: two answers never differ, and fit the kernel that is run;
  `compress_subtree_wide` asks again at every level and lays out its buffers by
  the answer.
* `KernelsUsable`: a kernel's registers exist and are saved, with one exception
  (`TrustsVL`). `blake3_hash_many` and `blake3_simd_degree` ask for AVX512F and
  AVX512VL (`blake3_dispatch.c:258`, 308); `blake3_compress_in_place`,
  `blake3_compress_xof` and `blake3_xof_many` ask for AVX512VL alone (176, 205, 239).
  No processor has AVX512VL without AVX512F, but a hypervisor may mask the one bit
  and not the other; on such a machine, which is one of the run's, the three functions
  run AVX-512 kernels, `blake3_xof_many` one with registers of 512 bits, and without
  the exception the property fails there. The guards are inconsistent; no comment or
  document says which are meant, so this is stated here and among the hazards, and is no
  finding.

Of the output (`window`): `OnlyTheWindow` and `WindowComplete` say at every step
and at the end of a call that exactly the window was written, with the bytes
that belong there, whichever kernel wrote them. Windows of one output therefore
agree where they overlap.

Of the compression function:

* `KnownAnswers` (`vectors`): single-block messages of the tests get the answers
  the tests expect, keyed ones included.
* `HalvesAgree`: `compress_in_place`, which no message of one block reaches, gives
  the first half of `compress_xof`; storing and loading it changes nothing.
* `MixingLosesNothing`: every call of `g` has an inverse.
* `SameAsAlone` (`batch`): `hash_many` gives each chunk the value the chunk state
  gives it, and each parent that of `parent_output`.
* `ModesApart` (`modes`): compressions made for different modes, keys, contexts or
  places differ in key words or flags. For a key chosen equal to `IV`, and for
  one equal to a derived key, only the flags do it.

Of the way to native code (`loading`):

* `OneAttempt`: one thread looks for the library, once.
* `MissingIsExplained`: `loaded` is set before the library is there, so a call may
  find nothing to link to; then another thread is still at it or some caller has
  been, or is being, told the reason. The caller itself need not be told.
* `NativeCodeOnceLoaded`: a call that ends has run native code exactly if the library
  is in the process by then. So nothing done too early is held against later calls:
  not the flag set before the load, not a symbol looked for while another thread was
  still loading. It would be if the handles were lazy values with `orElse(null)`, as
  the one of `blake3_hasher_sizeof` is.
* `SegmentHoldsHasher`: `hasherSize` may be assumed for good by a thread that comes
  too early, or because asking throws: `handle.invokeExact() as Number`
  (`FfmBlake3.kt:69`) most likely is a call with another return type than the handle's,
  which is refused, and the failure is swallowed (`FindSize` has both outcomes). The
  assumed size is large enough.
* `CallsEnd`: no thread hangs, whatever throws within nested locks.

Of the streams:

* `ImplementsStream` (`jni_threads`, `ffm_threads`): to callers that take turns the
  stream is the atomic one of `Blake3Stream`.
  Where the virtual machine denies arrays, the lossy answers of `Blake3Stream` are
  allowed, among them a one-shot hash of the empty message.
* `AlwaysDefined`: for these callers nothing is freed twice, and native code is in
  no freed or changing hasher and in no element that is not there. For callers that do
  not take turns it fails, as two closes at once suffice; no document of
  the repository promises otherwise, and it is no finding. So neither property
  catches a close between a call's check of `hasherPtr` and its use, the second read
  of the field or the double free of two closes at once: the steps are in the model, and
  the hazards say that no property covers them.
* `FreedWhenClosed`: whoever calls what at once, a hasher is not lost.
* `OpenWhileInside`: whoever calls what at once, FFM memory is not freed under
  native code, and callers that take turns do not change a hasher under it.
* `Released`: it is lost only when a close was denied, which never happens to
  callers that take turns.
* `RangeInArray`: in the FFM library, for sums that wrap too, no update of a range
  that the array does not have is hashed and no finalize of one answers, though its
  copy comes after native code; and no other call is refused once it has begun. In
  the JNI library a range is used that the array does not have: `jni_wraps` is the
  finding below.

**Finding.** `require(offset >= 0 && offset + length <= input.size) { "Index out of
bounds" }` (`Blake3Stream.kt:27`, and 38 for `finalize`) is to refuse a range
outside of the array. The sum wraps, so an offset and a length whose sum exceeds
`Int.MAX_VALUE` pass, and `Blake3Kmp.c` adds the offset to the array's
address without a check of its own. The FFM library has the same
test (39) and is saved by `MemorySegment.copy`.

**Bounds.** `CHUNK_LEN = 2` is the smallest value that has partial chunks.
`MaxLen = CHUNK_LEN * 2^MAX_DEPTH - 1`, as 2^64 - 1 bytes are to chunks of 1024
and a depth of 54, so that the longest message fills the stack: with
`MAX_DEPTH = 5` the stack reaches all of its six entries, and an update can
start at every residue of the counter modulo 16 and hash subtrees of up to 16
chunks. All lengths of updates and all ways to cut a message are explored.
Deadlock is checked: between calls another call is always possible.

`chunk` has a first, a last and two middle blocks, every fill level of a block
and every length of an update. `degrees` goes past 64 chunks, so that at the
degree of 16 the recursion is three levels deep; the targets are those of
`build.zig` and `CMakeLists.txt`: x86-64 with kernels of 4, 8 and 16 lanes, 32-bit
x86 without any, aarch64 and arm with NEON and without, and a big-endian
aarch64. Lengths that are no power of two are included
because the function accepts every length above a chunk. There the system
stops when the call has returned, which `Returned` says, so that TLC checks that it stops
nowhere else. `race` has two
threads, which give every order of one's steps between another's; the proofs
are for any number. Its processors include those that report a feature whose
registers the system does not save, and hypervisors that mask one of the two
AVX-512 bits.

`window` has starts and ends at every place of a block and windows that hold none,
one and three whole blocks. `vectors` runs whole compressions; its extreme input
has every word's halves set, so that carries and the counter's high word count.
`batch` has every position of a block in a chunk, and an input behind four others.
`modes` shrinks keys to two words, of which the keys chosen share the first or
the second, and the words of one are `IV`'s.

`loading` starts on each of the 24 machines of each variant. Three JNI threads are
one that loads, one that passes the flag meanwhile and one that comes
after; two FFM threads already take the three locks in every order. The stream
runs have two threads, between any two accesses of one of which the other can do
a whole call; offsets and lengths from -1 to behind the array's end, so that all
outcomes of the checks occur; and messages of 2 bytes, enough for two updates
that must add up (`MaxLen` bounds those under way with them). `jni_threads` keeps
`IntMax` clear of what offsets add up to, since `jni_wraps` shows what wraps;
`ffm_threads` has every offset up to the largest `Int`. Threads are alike, so the two
runs use symmetry, without temporal properties other than the stepwise
refinement. In both, undefined behaviour stops the model, and
deadlock is not checked.

**Fairness.** In `tree`, weak fairness of `Running`, the steps a call takes by
itself: the thread that made a call runs it to its end, since nothing in it
blocks. In `loading`, weak fairness of each JNI thread in a call, for the same
reason; and strong fairness of each FFM thread, which may wait for a lock of a lazy
value: a JVM monitor that becomes free again and again is obtained at last. That is more than the
JVM's specification guarantees; it matters only while the values fail to initialise, since
afterwards they are read without a lock. No
fairness is assumed of callers, and none in the other runs.

## 4. What is proved

`Blake3HasherProofs` holds the theorems on the hasher, and lemmas on `popcnt`;
those on division, powers of two and the trees of messages are in
`SubtreeWideProofs`, which it extends. The theorems hold for every
`CHUNK_LEN` that is a power of two, every `MaxLen`, every set of modes and every
`MAX_DEPTH` that is at least the number of powers of two of chunks within
`MaxLen` (`DepthAssumption`: 54 for 2^64 - 1 bytes and chunks of 1024).

| Theorem | Property |
| --- | --- |
| `TypeCorrect` | `TypeOK` |
| `AllInputAccounted` | `InputAccounted` |
| `StackAlwaysCanonical` | `StackCanonical` |
| `AlwaysMergedWhenNeeded` | `MergedWhenNeeded` |
| `StackAlwaysFits` | `StackFits` |
| `AlwaysAPair` | `PairToStartFrom` |
| `TreeInvariant` | the invariant `IInv /\ TreeInv` described below |
| `AlwaysNothingTooEarly` | `NothingCompressedTooEarly` |
| `AlwaysImplementsHash` | `ImplementsHash` |
| `ChunkUsedAsModelled` | what `ChunkState` takes for granted of the hasher |
| `SubtreesAsModelled` | what the hasher takes for granted of `SubtreeWide` |
| `CallsAreBounded` | a bound on the steps of a call, which each step lowers |

`SubtreeWideProofs`, for every `CHUNK_LEN` that is a power of two, every
length of input up to `MaxLen`, every mode, any counters, and any targets whose
kernels have 1, 4, 8 or 16 lanes (`TargetsAssumption`):

| Theorem | Property |
| --- | --- |
| `WideInvariant` | the invariant `WideInv` described below |
| `WideTypesAlways` | `WideTypeOK` |
| `WritesAlwaysFit` | `WritesFit` |
| `RootNeverCompressed` | `RootNotCompressed` |
| `PairAlwaysReference` | `PairIsReference` |
| `RecursionIsShallow` | at most 55 activations at once for 2^64 - 1 bytes |
| `SubtreeCallsAreBounded` | a bound on the steps of a call, which each step lowers |

`ChunkStateProofs`, for every block length and every chunk of whole blocks
(`BlocksAssumption`), and of `HashMany` for any number of inputs and any natural
counters (`InputsAssumption`) and flags:

| Theorem | Property |
| --- | --- |
| `TypeCorrect` | `TypeOK` |
| `AlwaysReference` | `OutputIsReference` |
| `LastBlockAlwaysKept` | `LastBlockKept` |
| `UpdatesAreBounded` | a bound on the steps of an update, which each step lowers |
| `AlwaysSameAsAlone` (of `HashMany`) | `SameAsAlone` |
| `HashManyIsBounded` | a bound on the steps of a call, which each step lowers |

`CpuDispatchProofs`, for any set of threads, processors and builds, without
assumptions:

| Theorem | Property |
| --- | --- |
| `TypeCorrect` | `TypeOK` |
| `AlwaysPublishedWhole` | `PublishedWhole` |
| `DegreeAlwaysAgrees` | `DegreeAgrees` |
| `KernelsAlwaysUsable` | `KernelsUsable` |

`KeysAndOutputProofs`, about `RootOutput` for every block length and every bound
on windows, and about `KeyModes` for keys of any whole number of words, any keys of
bytes (`KeysAssumption`), any contexts and any initialisation vector, equal to the
words of a key or not:

| Theorem | Property |
| --- | --- |
| `TypeCorrect` (of `RootOutput`) | `TypeOK` |
| `AlwaysOnlyTheWindow` | `OnlyTheWindow` |
| `WindowAlwaysComplete` | `WindowComplete` |
| `OutputIsBounded` | a bound on the steps of a call, which each step lowers |
| `ModesAlwaysApart` (of `KeyModes`) | `ModesApart` |

`NativeLibraryProofs`, for any set of threads, every variant and every machine:

| Theorem | Property |
| --- | --- |
| `AlwaysOneAttempt` | `OneAttempt` |
| `MissingAlwaysExplained` | `MissingIsExplained` |
| `NativeCodeAlwaysOnceLoaded` | `NativeCodeOnceLoaded` |
| `SegmentAlwaysHoldsHasher` | `SegmentHoldsHasher` |
| `JniCallsAlone` | the first two, of `JniCalls` by itself |

`JniStreamProofs`, for any set of threads and any arguments:

| Theorem | Property | Assumption |
| --- | --- | --- |
| `AlwaysFreedWhenClosed` | `FreedWhenClosed` | |
| `AlwaysAlwaysDefined` | `AlwaysDefined` | `NoWrap` |
| `RangeAlwaysInArray` | `RangeInArray` | `NoWrap` |
| `AlwaysImplementsStream` | `ImplementsStream` | `NoWrap`, `KnownLengths` |

`NoWrap` says that no sum of an offset and a length wraps. It delimits the finding:
`jni_wraps` violates `RangeInArray` where it fails, and the theorem shows that
nothing else is wrong with the check. `KnownLengths` says that the array is not
longer than `MaxLen` and no length below -1: those that the abstract module
enumerates.

`FfmStreamProofs`, for any set of threads and any arguments, sums that wrap
included:

| Theorem | Property | Assumption |
| --- | --- | --- |
| `AlwaysOpenWhileInside` | `OpenWhileInside` | |
| `AlwaysReleased` | `Released` | |
| `RangeAlwaysInArray` | `RangeInArray` | |
| `AlwaysImplementsStream` | `ImplementsStream` | `KnownLengths` |

The invariant of the hasher. `StackCanonical` is not inductive: it says nothing of the number
of 1 bits, by which the code decides how far to merge. The conjunct that ties
the two together is `Indexed`: the offset of entry `i` has exactly `i - 1` 1
bits. It survives a join because the left one of two equal halves starts at a
multiple of twice its size, and a push because the counter is a multiple of the
size pushed. From it, a stack longer than `popcnt(counter)` has two entries of
equal size on top, and one that is not has none. The other conjuncts of `IInv`
say what the pending pushes cover (`Pending`), which range the stack covers in
each phase of a call (`Covering`, `Places`), that a single entry is never left
alone between calls (`NeverAlone`) and that a partial chunk lies on a merged
stack (`MergedBetween`). `StackAlwaysFits` maps each entry below the top to a
1 bit of the top's offset. The same `IInv` was checked with TLC before it was
proved.

What was compressed is the matter of `TreeInv`, on top of `IInv`.
`NothingCompressedTooEarly` alone is not inductive: that the two halves of a join
are nodes of the tree does not say that their parent is. `AllComplete` does: every
chaining value on the stack, or about to be pushed, is that of the *complete*
subtree of its chunks (`CompleteJoin` for a merge: two complete halves that
start at a multiple of twice their size make the complete whole). A complete subtree
lies below the root of every message that has at least its bytes, and more of them
if it starts the message (`SubtreeBelowRoot`). That no
entry of the stack both starts the message and ends where the input ends is what
lazy merging, in `IInv`, provides.
`RolledUp` says of `finalize` that its output so far is the tree's end from the
chunk on where the next entry of the stack ends; a pass of the roll-up takes the
end one entry further, since that entry is at least as large as what is rolled
up. When no entry is left, the end is the tree of the message.

`AlwaysImplementsHash` follows step by step. `Update(n)` is the abstract update, since
the abstract message counts the input of the call under way as well; the steps
after it are stutters, which move bytes from `input_len` to `input_bytes`.
`finalize` begins with the step that takes the old answer away (`BeginFinalize`), its
passes are stutters, and the one that returns is the abstract answer, which is
`RefOutput` by `RolledUp`, or by `LoneChunkIsAnswer` when the stack is empty.

Three more theorems follow from `IInv`. `ChunkUsedAsModelled` ties `Blake3Hasher`
to `ChunkState`: each change of the chunk is a reset between calls or behind a whole
chunk, a move of an empty one, or an update that meets the guard `ChunkState` puts on
it. Since `OutputIsReference` holds of every chunk used so, the hasher may know its
chunk by counter, position and length. `SubtreesAsModelled` ties it to `SubtreeWide`:
the subtree loop asks for whole chunks, as many as a power of two, at the start of a
chunk, which is a call of `SubtreeWide`; and by `PairAlwaysReference` what such a
call ends with is the `SubtreePair` that `HashSubtree` pushes. `CallsAreBounded` weighs the input no
pending push stands for, the pushes, the stack, the entries to roll up and the place in the
call (`StepsLeft`), so that each step of a call lowers the sum. With the fact that
a call under way always has a step, which is a matter of ENABLED and left to TLC's
deadlock check, it is why `CallsReturn` holds.

The invariant of the subtree code. A recursion is proved about without induction
over data because it is a stack: `WideInv` says of each activation that it is for the
chunks of a node of the tree (`InRange`), of two next to each other that the upper one
is for the half the lower one waits for (`Above`), and of each half that has
returned what it left in its caller's `cv_array` (`HalfDone`). The last is the heart of it. What a
half leaves is a *level* of its chunks (`Level`): a list of chaining values, each that of
the reference tree for its range, whose ranges are so placed that
wherever the list, read as the leaves of a BLAKE3 tree, has a parent, the
message's tree has one (`Bounds`). So single chunks are a level (`ChunksOut`), joining
neighbours makes a level of a level (`ParentsOut`), and a level of two is the pair of
children (`PairOut`). Two levels side by side are a level of
the whole when the left one is a power of two wide and covers the left subtree
(`HalvesOut`); read from the start of `cv_array`, they are side by side only if the left
half filled all slots up to `RightSlot`. That is what `Width` is about: a half of
a power of two of chunks returns as many values as the SIMD degree, or two where
the degree is 1, and nothing returns more or, but for a lone chunk, fewer than two. `WritesFit` and
`RootNotCompressed` rest on the same widths. TLC checks the four properties in
`degrees`; it cannot evaluate `WideInv`, which speaks of any ranges a level may have.

`RecursionIsShallow` bounds the C stack. The activations at once, each with a
`cv_array`, are at most `Halvings(Chunks) + 1`, one more than the powers of two below
the number of chunks. Of two next to each other the upper one has one power of two less
below its chunks (`AboveIsSmaller`), so an activation has used up as many as there are
below it (`ShallowStack`). `SubtreeCallsAreBounded` weighs the chunks not
hashed yet against the place in between: after the last chunks hashed come some joins,
one at most for each activation, then a right half, then left halves of ever fewer chunks
(`WidePlace`), which is less than one `Round`; the condensing loop is counted by
`num_cvs`. `UpdatesAreBounded`, `HashManyIsBounded` and `OutputIsBounded` do the same
for the other loops, by the input, the blocks of the inputs, and the output left. That
such a call never stops half-way is again ENABLED, and TLC's deadlock check shows it in
`degrees`, `chunk`, `batch` and `window`.

The invariant of the chunk state says where every byte is: `Counted` relates the
fields to the bytes read, `Compressed` gives each compression made, `Buffered`
the contents of the buffer with its padding. `OutputIsReference` needs in
addition that a block is never compressed without a byte after it (`Followed`),
which only holds inside a call because the input not yet read counts.

That of `HashMany` gives the compressions of the input under way (`CVOf` up to
the block reached) and the flags and counter the next one gets; `CVIsAlone` says that
a chaining value made so is the chunk state's, or that of `parent_output`. It needs
`BlocksAssumption`: that a chunk is whole blocks, so that `RefCompression`'s last
block is as long as the others.

The invariant of `KeyModes` says that every compression was made with the key words
and the bits of what it was made for (`MadeRight`), and that the hasher's own key and
flags are those of its mode. The rest is that these determine it: a flags byte
is a sum of distinct bits (`FlagsInjective`), four bytes below 256 are determined by
their word, and the keys of two contexts differ, which is the collision-freedom
that `Init` takes from the hash. Where words agree, of a key equal to `IV` or to a
derived key, the flags tell the modes apart.

The invariant of the dispatch gives what each thread's local holds at each point
of the detection (`Locals`), and that every answer is the one for all that is
usable (`Answers`). Every store, however late, is then of the same value. What the
choice asks for is what its kernel takes (`ChosenFits`), AVX512VL without AVX512F excepted.

The invariant of the output says that the buffer is exactly the window up to a
point (`Window`), and that the counter is the one of the byte at that point
(`Aligned`); every copy extends the window.

The invariant of the library has a part about the loader, which holds under any
threads: whoever is behind the flag set it (`Flagged`), and one thread at most
is. For JNI it adds that, once the flag is set, the library is there or someone is at
it, or has the reason (`Explained`); for FFM, that a handle that is kept was found
in the library, and that nobody is after a handle before `hasherSize` is known (`FfmInv`). Who has the loader's exception is in a process where
the only attempt failed, which is what `NativeCodeOnceLoaded` needs of calls that end
with it (`JniEnds`, `FfmEnds`). The
locks are not in it: these properties hold whatever order threads go
through the lazy values in, and it takes the locks only to show `CallsEnd`. The size is
computed field by field from the alignments (`HasherSize`): 1912 bytes.

The invariants of the two streams have a part that holds whoever calls what at
once and one for callers that take turns. The first says which call a thread is in by
where it is (`Place`) and that an address or an arena that nobody can reach is
released (`Gone`, `Kept`). The second (`InTurn`) rests on `Exclusive`: no two threads
are in calls of the stream unless both finalize. From it every thread reads the
fields as they are, a thread past its check still has a live hasher, and an
FFM answer on its way to the caller's array is still the hasher's. Most steps
leave the hasher where it is; `LocalStep` says once what such a step must keep.
The refinement maps the one step of a call that reads or changes the hasher, or
refuses the call, to the step of `Blake3Stream`, and all others to a stutter;
without the invariant the step in native code could be one into a freed
hasher. Both invariants were checked with TLC before they were proved.

The facts on numbers rest on `Pow2Chain`: of two powers of two the smaller
divides the larger. It follows from the definition by odd divisors alone. Where an
induction on numbers would be natural, `LeastElement` and `GreatestElement` stand in
for it: a nonempty set of naturals has a least element, and a bounded one a greatest.

Only model-checked:

* `Compression` (`KnownAnswers`, `HalvesAgree`, `MixingLosesNothing`), whose answers
  are facts on single inputs and whose words need operations on bits;
* `CallsReturn` and `CallsEnd`: liveness under fairness is outside of what the prover
  does.

## 5. Plan

Modelled and checked, in this order: the hasher, the chunk state, subtrees, the
dispatch, output, compression, modes, the loaders, the streams. Proved: what section 4
lists, which is every safety property of a run but those just named. Of the plan
nothing is left but what is out of the prover's reach.

## 6. What is not modelled

The SIMD kernels, which are assembly and intrinsics: which of them runs is modelled,
and each is taken to compute what the portable functions do. The optional
TBB entry points, which no build here compiles. Hexadecimal formatting by the Kotlin
library, which keeps no state. Build scripts, workflows, the JNI headers, which are
vendored declarations, and the tests, whose known answers `vectors` uses.

Abstracted within modules: collisions of the compression function do not happen;
the contents of a stream's message (the hasher's matter); temporary files left
behind; a constructor of the FFM stream that throws loses its arena, which is
listed as a hazard without a property.
