# Verification of ff_test

ff_test decodes video files with FFmpeg on several pinned threads and carries a
copy of libaco, a coroutine library, with a C++ wrapper. This directory holds
TLA+ models of it, TLC configurations and TLAPS proofs. Paths below are
relative to the repository.

## Inventory

| component | state | operations | interacts with |
|---|---|---|---|
| `src/main.cpp` | the input file list (a local), a countdown | parse, collect input, create and start the tasks, wait as `-l` says, clear, return | Config, FileList, TaskPool; `exit()` then runs static destructors |
| TaskPool (`src/TaskPool.cpp`) | list of tasks, a semaphore that counts notifications | init, start, is_stop, clear, notify, destructor | creates and deletes Tasks; notified by their threads |
| Task (`src/Task.cpp`) | thread id, exit flag, start semaphore, file list pointer | init, start, stop, release, set_affinity, svc (the thread) | reads Config, the file list and TaskPool from its thread |
| libaco (`libsrc/libaco/aco.c`, `aco.h`, `acosw.S`) | per coroutine: registers, end flag, save buffer; per shared stack: memory, owner; per thread: current coroutine | create, resume, yield, exit, destroy, share_stack_new2, share_stack_destroy | one thread; main_co resumes, the others yield to it |
| Coroutine, CoroutineFactory (`src/Coroutine.cpp`) | map from key to Coroutine, stop flags, the shared stack, main_co | cr_create, cr_get, cr_resume, cr_yield, cr_remove, destructor | libaco |
| test program (`libsrc/libaco/test/main.cpp`) | index, one counter per coroutine on the shared stack | create ten coroutines, resume them in turn, remove those that stopped | CoroutineFactory |
| Decoder, DecoderImpl (`src/Decoder.cpp`) | FFmpeg contexts, current packet, frame pool, callbacks | init, open, demux, decode, flush, release, get-buffer callback | libavformat, libavcodec; callbacks of Task |
| ff_mem (`src/ff_mem.cpp`) | per decoder: bytes in use and their maximum; per block: size header | jut_malloc, jut_realloc, jut_free | Decoder of the calling thread |
| MFile (`src/File.cpp`) | a descriptor, a size | open, create, read, write, close | the operating system |
| FileList (`src/FileList.cpp`) | list of paths | search, add, filter | main's ff_filter |
| Config (`src/Config.cpp`) | options | parse, show | everyone |
| Sender (`src/Sender.cpp`) | thread id, stop flag | init, stop, release | nobody: it is not instantiated |
| Utils | none | CPU mask, time difference | Task, Decoder |

As built, a task's thread does not decode: the decoding routine is under
`#if 0` (`src/Task.cpp:135`), and `svc` only loops until told to stop. What
WorkerPool models is the part that is hard to test: threads, a list owned by
main's frame, and the destruction of statics. Decoder and the callbacks of Task
are compiled but have no caller; their models take the order of calls from the
disabled routine.

Hard behaviours:

* threads that read what main owns, against main's return and `exit()`;
* a pool that is cleared twice, and tasks released three times;
* `pthread_create` failing, which the code does not notice
  (`src/Task.cpp:28` tests for a negative number, errors are positive);
* coroutines that share one stack: who owns it, when it is copied, how much,
  and addresses that `malloc` gives out again;
* a factory that is destroyed while coroutines are suspended;
* packets the codec refuses or keeps, drains, and failures in the middle of
  decode, open and init;
* planes allocated one after another, each of which may fail, and shared by
  reference;
* memory accounts in 32 bits, across failing reallocations and across threads;
* descriptors that the system gives out again, and objects whose constructor
  leaves them unset;
* sizes in bytes at the boundaries of a page, of `size_t`, of a mask and of a
  16-bit counter.

What makes each component correct: a thread never outlives what it reads
(TaskPool, Task); main goes on exactly when all have notified or the time is up
(main); every coroutine sees a stack and registers of its own (libaco); a key
names one coroutine, and `is_stop` tells whether it may be resumed (factory);
everybody gets his turn (test program); every picture that is not skipped is shown
once and in order, and what was allocated is freed once (Decoder); a frame has all
planes of its own format or none, and a failure loses at most one plane (frame
pool); an account is
the sum of its blocks (ff_mem); a descriptor is used and closed by who opened it
(MFile); a thread runs on the core named for it (Config, Task, Utils); the files
decoded are those the command line asks for (FileList).

## Modules

| module | models |
|---|---|
| `ForkJoin` | abstract: workers are started and end, and the shared resources are released once, with no worker running |
| `WorkerPool` | main, TaskPool and Task, one action per step another thread can observe |
| `WorkerPool_proofs` | theorems about WorkerPool |
| `PrivateStacks` | abstract: every coroutine has a stack and registers of its own |
| `Aco` | libaco on one shared stack |
| `Aco_proofs` | theorems about Aco |
| `CoroutineFactory` | Coroutine and CoroutineFactory, an instance of `Aco` under keys |
| `CoroutineFactory_proofs` | theorems about CoroutineFactory |
| `CoTest` | the test program, an instance of `CoroutineFactory` |
| `CoTest_proofs` | theorems about CoTest |
| `ShareStack` | libaco's shared stack in bytes: its mapping, its limits, the copies |
| `ShareStack_proofs` | theorems about ShareStack |
| `FrameStream` | abstract: the input is read to its end or to a packet without data, the pictures are shown once each and in order, then the end is reported |
| `Decoder` | Decoder and DecoderImpl, with the codec as an external part |
| `Decoder_proofs` | theorems about Decoder |
| `FramePool` | the memory of pictures: the get-buffer callback and its planes |
| `JutMem` | ff_mem's accounts |
| `Memory_proofs` | theorems about FramePool and JutMem |
| `CpuBinding` | `TaskPool::init` and the masks of `util_cpu_bind` |
| `InputFiles` | `intput_collect` with FileList and ff_filter |
| `Startup` | `Config::parse` and main up to the tasks, composing `InputFiles` and `CpuBinding` |
| `MFile` | MFile objects on the process's table of descriptors |
| `FrameDump` | `Task::on_recv_frame` writing pictures to an MFile, on top of `MFile` |
| `Task_proofs` | theorems about MFile, FrameDump and Startup |
| `MC*` | the instances TLC checks |

Definitions called *Mutant* are plausible bugs. No specification uses them; they
stand beside the definition they would replace, and every property below fails
with one of them.

### WorkerPool

`mpc` is main's place in the code, including what `exit()` does after it, and
`i` the element its current loop is at. `wpc[t]` is the place of task t's thread
in `Task::svc`. `tid`, `bExit`, `sem` and `poolSem` are the members of those
names; `obj` and `alive` say which objects exist. Each iteration of a loop over
the tasks is one action, so that threads run between any two iterations.
`pthread_join` is a guard. `pthread_create` leaves a running thread, the zero of
the constructor, or a handle that names no thread (POSIX leaves it undefined);
binding or joining the latter may kill the process. The clearing that is left
out of `main` when there is no input is an outcome of `Collect`.

Which files there are is Startup's subject: here no step depends on them but the
early return. A pass of the thread's loop that does nothing is stuttering.

### Startup, InputFiles, CpuBinding

`Startup` takes one option at a time, as `Config::parse` does, then lets
`InputFiles` and `CpuBinding` run to their ends. A command line is a sequence of
options; the argument of `-c` is one number per character, its distance from
`'0'`, since the code subtracts and does not look whether it was a digit.

A path is the text of `-d` and a name, put one behind the other
(`src/FileList.cpp:51`). `Forms` tells texts that end in a slash from those that
do not: with the latter the regular files found may lie beside the directory and
have nothing to do with what is in it. `readdir` gives the entries in any order,
and may fail, which `search` cannot tell from the end; nor does main look at what
`search` returns when `opendir` fails. `dirFailed` is history: it says that one of
the two happened, without which no file is missing from the list. Of the text of
`-f` only whether it is empty matters, as an empty one and an empty `-d` count as
not given.

Each task of `CpuBinding` is created, gets its core's number cut to a byte, gets
a thread and is bound, in that order. `Masks` gives what `1 << id` leaves in a
byte; from 32 on the shift is undefined and both things processors do are
outcomes. `SetAffinity` is the system's: a set without a usable core is refused
and the thread stays where it was.

The other options are left out here: `-h` has the settings printed
(`src/main.cpp:83`), `-l` is a parameter of WorkerPool, `-s` an input of Decoder
and `-b` decides whether FramePool is used at all; `-o` is read only by code that
nothing calls, `-p` by none, and `-t` sets nothing. So are the texts printed.

### Aco

`mem` is the shared stack, counted in words down from `align_retptr`, so a stack
pointer is the number of words in use. `reg[c]` is what `acosw` stored for c,
the stack pointer and one value for all other registers; `cpu` holds those of
whoever runs. `saved[h]` is the valid part of the save buffer and `saveSz[h]` its
size. `fault` names the assertion or trap that ended the process;
`aco_assert_override.h` keeps assertions in every build.

`Limit` is what `aco_resume` agrees to copy and `Slack` the room between that
and the guard page (two words on x86-64). Code between the calls pushes, pops
and changes registers. It may not jump over the guard page.

Handles are addresses, and a destroyed coroutine's may be given out again at
once, without clearing anything but what `aco_create` clears.

Callers keep to what the comments in the sources ask for: only main_co resumes
(`libsrc/libaco/test/main.cpp:97`), only others yield (`:24`), and nobody
destroys itself or uses what is destroyed. Creating and destroying others is
open to all. Left out: the copy statistics and `align_validsz`, which nothing
reads; several shared stacks, which no code creates; failing `malloc`, which
aborts.

### ShareStack

The other half of libaco, where a word of Aco is eight bytes. `stack` is the
`aco_share_stack_t` with the members of those names, `mapped` what `mmap` and
`malloc` have given out. Sizes and addresses are modulo `Modulus`, and the
assertions of `aco_share_stack_new2` on its sums are `SizeAsserts`. `Save` and
`RestoreSaved` are the copies of `aco_resume`, with the assertion before each.
`copied` is the last copy: how many bytes it was to move, and how many the copy
writes at the head and at the tail, so that a copy inlined for a size it was not
made for shows. Addresses returned are aligned as `mmap` and `malloc` align them.
Aco's `Slack` is the two words `SlackIsTwoWords` speaks of.

### CoroutineFactory

`crs` is the map. A Coroutine object and its `aco_t` are created and destroyed
together, so one address stands for both. The destructor is three stages, any of
them with suspended or ended coroutines left. `cr_yield(key)` yields whoever
runs, as the code does.

### CoTest

`main` and `co_fp0` as compiled. The routine's counter is a word of the shared
stack and its place in the code is the register, so that nothing but libaco's
copying keeps them.

### Decoder

`ptr` is the set of objects a member leads to and `heap` the set of those
allocated, so that a leak and a double free are the two differences between
them. `m_pkt`, `eof` and `m_decoded_frame_cnt` are the code's; `dpc` tells the
loop of decode from the time between calls, `ret` is the last call's answer.

`skip_frame` is what `open_codec_ctx` asks of the codec according to the option
`-s` (`src/Decoder.cpp:264-274`). `Kind` tells which packets carry key frames,
frames others refer to, and frames none refers to; those the codec may skip it
takes and holds, or takes and drops (`Discardable`). `-b` decides whether the
codec calls `lavc_GetFrame` for a picture's memory, which is `FramePool`'s subject,
and changes nothing here.

`held`, `draining` and `hungry` are libavcodec, as decode uses it: a packet is
refused only while something waits to be read (`EAGAIN` of
`avcodec_send_packet`), more input is asked for only when little is held back
(`EAGAIN` of `avcodec_receive_frame`), the end is answered when a drain is
finished, and to whoever sends during one. Every call may fail, and a failing
receive may lose a packet. Pictures are numbered by their packets in the order
the codec shows them, so its reordering is not seen. `received` is what the
callback was given.

The caller keeps to the routine at `src/Task.cpp:162-179`: it decodes what demux
gave it, once, when demux said OK or EOF, stops at the end or when demux fails,
and may release at any time; the destructor releases again. A failing demux is
taken to leave the packet empty. Left out: the counters of memory and time,
`flush` (no caller), and the order of the frees in `release`.

`cut` is history: a packet of the stream without data was read. `FrameStream` says
what becomes of the input: `read` counts what was read of it, `packets` what of
that belongs to the stream, `wanted` are the packets that may not be skipped, and
the end may only be reported when the input was read to its end, or was cut short
by a packet without data, after which nothing is read. That the latter is possible
is the finding below; `FrameStream` records it and does not call it right. A
failure may end everything early.

### FramePool

`format` is what the codec context's pool remembers of a frame, `size` the sizes
of the planes, which belong to the decoder and outlive the pool: they are kept
when a decoder is released and opened again, and the constructor leaves them
unset. How libavutil lays a picture out is the parameter `PlaneSizes`. `frame`
is the format each frame was asked for in, `buf` its planes, `heap` the planes
allocated with their sizes.

`update_frame_pool` decides whether the sizes are computed anew, and may fail.
`AllocPlane` is one pass of the loop of `lavc_GetFrame` that succeeds; `NoMemory`
and `NoBuffer` are the two ways it fails, and `UndoPlane` one pass of the loop
that gives back. `Ref` and `Unref` are the users, libavcodec and `decode`.
libavcodec calls the callback on the thread that decodes, one call at a time.

### JutMem

`blocks` gives the size of each block. Headers and accounts are 32-bit numbers
in the code and numbers modulo `Modulus` here. `counted` and `strayed` are
history: which account a block is part of, and the accounts that some call put
wrong by taking a block off another account than its own. The property speaks of
the accounts that have not strayed. `SetCtx`, a thread making its decoder the
current one, is under `#if 0`: as compiled, no thread has an account, and the
other states are those of the program with the routine in it.

### MFile, FrameDump

`holder` is the process's table of descriptors: who opened each. `open` gives the
lowest free one. The rest of the process opens and closes too. The constructor
with a name leaves `m_fd` as the memory had it, which is any value. `known`,
`lost` and `astray` are history: objects whose `m_fd` the code has set,
descriptors that left their object unclosed, and whether a descriptor was closed
through an `m_fd` nobody had set, after which no promise is left.

`FrameDump` adds a task that writes a picture's luma plane to its file. A byte is
known by its distance from the plane's first, rows lie `linesize` apart, which is
negative for pictures stored bottom up, and the row counter has `Rows` values
(65536 in the code). `pixel` is the number of bytes the picture's format gives a
pixel of the plane. The code takes `frame->width`, a number of pixels, for the
bytes of a row and does not look at `frame->format` (`src/Task.cpp:95`, `:102`), so
`DumpIsLuma` says what is written in bytes, and that this is the luma plane for
pixels of one byte and less than it for larger ones. Formats that pack several
pixels into a byte are left out. A write may be cut short, which the code does not
look at.
Nothing compiled calls `on_recv_frame` or opens a task's output.

## Runs

| run | instance | shows |
|---|---|---|
| `pool` | 3 tasks, `-l` negative, 0 and 2, all outcomes of `pthread_create` | `NoUseAfterDestroy`, `JobComplete`, `NoPassDuringSetup`, `Terminates`; the pool implements ForkJoin |
| `aco_stack` | 2 coroutines, stacks of 2 words and 1 of slack, save buffers of 1 word, two values of a word | `OwnerCurrent`, `SuspendedComplete`, `SavedFits`; Aco implements PrivateStacks |
| `aco_switch` | 3 coroutines and main, two values of the registers | Aco implements PrivateStacks |
| `factory` | 3 keys, 3 addresses, two values of a word | `MapOwnsAll`, `StopIsEnded`, `StackOutlivesUsers`; by key, the factory implements PrivateStacks |
| `co_test` | 5 coroutines, frames of 3 words | `NeverAborts`, `InTurn`, `Finishes` |
| `share_stack` | pages of 4096, an address space of 4 MiB, 18 sizes asked for, 44 stack pointers | `StackInside`, `SavedIsRestorable`, `AbortsOnlyOnOverflow`, `CopyExact`, `AllUnmapped` |
| `decoder` | input of 5 items, the codec keeps 2, `-s` 0, 1 and 2 | `OwnedOnce`, `Ends`; Decoder implements FrameStream |
| `decoder_zero_sized` | input of 2 items | violates `ZeroSizedSkipped` |
| `frame_pool` | 2 frames, 4 addresses, 3 formats of one or two planes | `PlanesFit`, `NoPlaneFreedEarly`, `LosesOnePlane` |
| `mem_account` | 2 threads, 2 blocks, sizes 0, 3 and 5, counted modulo 4 | `AccountExact` |
| `startup` | 6 usable cores, arguments of `-c` from -3 to 56, a directory of two entries with and without a slash, empty `-d` and `-f` | `PinnedAsNamed`, `CollectedExact` |
| `task_files` | 2 objects, 3 descriptors, 6 pictures of one or two bytes a pixel, a row counter of 4 values | `OpenIsOwned`, `LeaksExplained`, `DumpIsLuma` |

What they show beside the properties' names: in `startup`, a core from 8 on, or
one the machine has not, leaves its thread unpinned without a word
(`src/Task.cpp:32`), but never on a wrong core as long as a digit names it. In
`task_files`, three ways to leak a descriptor and no other, and pictures whose dump
is half of every row, or does not end. In `mem_account`,
an account goes wrong only with a block that changes or leaves in another account
than its own: it was counted for another thread, before its thread had a decoder,
or no longer since a `realloc` failed.

`decoder_zero_sized` is a finding. The comment at `src/Decoder.cpp:372` says of packets
without data that come before the end: "Don't trigger EOF, and skip the packet".
The next line takes such a packet for the end, and decode starts the drain and
answers `DEC_EOF`; whatever the input has after it is not read.

Bounds. Three tasks are a first, a middle and a last one in every loop of main;
tasks only interact through the pool's semaphore and main. Two coroutines are
enough for a save and a restore and for the reuse of an address while the other
owns the stack; a third, in `aco_switch` and `factory`, makes the displaced owner
and the resumed one differ from a bystander. Two words per stack tell the order
of words and a shift by one. A buffer of one word has to grow before it holds
two; that any number of doublings suffices is the theorem `NoSaveOverflow`. The test program creates ten coroutines; five already have all the
places relative to the index and keep the choices of `malloc` few. Five items, two of them key frames and two that none refers to,
fill a codec that keeps two, let it show two pictures in one call, and leave room
for a failure and the calls after it. In `frame_pool` two formats share a pixel
format and differ in their sizes, and the third has fewer planes; four planes
hold a lost one beside two frames. Four is less than a size in `mem_account`, so
that headers and accounts wrap. The sizes of `share_stack` are the ends of every
case of `aco_share_stack_new2`, and its stack pointers cover each inlined size,
the first that is not inlined, and both sides of the limit. In `startup` an option
is given up to twice, which is all `parse` can tell, and each may be empty. In `task_files` a picture has
as many rows as the counter has values, with and without a gap between them. Symmetric identities are used in runs
without liveness.

Fairness. Main and each thread are scheduled again and again by the operating
system (`WF`). A thread sees `m_bExit` at last since the build is `-O0`
(`CMakeLists.txt:9`) and reads it in every pass; the flag is not synchronised,
and an optimised build would not have to. Nothing is assumed of a process that
waits for a signal (`-l` negative). Where a thread could not be created,
`Terminates` says what else can happen and no more: joining the handle crashes
the process, or with `-l 0` main waits for ever when all threads have ended,
since the task that has no thread is counted (`src/TaskPool.cpp:61`). The test program is one thread that takes
every step it can. Decoder's caller is taken to go on demuxing and decoding while it
streams; `Ends` says nothing once a library call has failed: decode does not
read when the codec refuses a packet (`src/Decoder.cpp:391`), so a codec that was
left full may refuse the order to drain for ever, and the loop spins.

## Proofs

`WorkerPool_proofs` proves, for every number of tasks, every `-l` and every
outcome of `pthread_create`, that the specification implies `[]TypeOK`,
`[]NoUseAfterDestroy`, `[]JobComplete`, `[]NoPassDuringSetup` and `ForkJoin`'s
specification. Assumptions: the number of tasks is a natural number, `-l` an
integer.

None of these is inductive. `IInv` adds what main's place says about the tasks:
a thread that runs can be joined, and a task that can be joined, and everything
threads share, exists (`JoinableInv`); main has not cleared before it waited,
tasks not yet created have no thread, and all semaphores are zero until the last
task is bound (`SetupInv`); behind the index of the release loop, and after it,
no task has a thread left to join (`TeardownInv`); and the pool's semaphore is
the number of threads past their notification (`CountInv`), which with
`Cardinality` gives that N notifications come from N tasks. Every action is one
step of the proof of `IInvStep`. The refinement maps `CreateTask` with a live
thread to `Fork`, `ThreadEnd` to `Finish`, `Return` to `Release`, and all else to
stuttering.

`Aco_proofs` proves, for every number of coroutines, every size of the stack and
of the save buffers, `[]TypeOK`, `[]OwnerCurrent`, `[]SuspendedComplete`,
`[]SavedFits` and `PrivateStacks`' specification. Assumptions: `Main` and `NULL`
are no handles, zero is a word and a register value, the limit and the slack are
positive, and so are the sizes given to `aco_create`. The four invariants are
inductive together and not alone: that a buffer is complete needs the owner to
be current, and that the owner is current needs the types. For the refinement,
a restore followed by the switch gives a coroutine its own words since the
buffer's length is the stack pointer (`SuspendedComplete`), and a save changes
nobody's view since only the owner's words are on the stack. That `validSz` and
`exitOwner` are never the reason of an abort is part of it. A push or pop on the
shared stack appends or removes the last word of the running coroutine's
(`PushAppends`, `PopDropsLast`).

`Decoder_proofs` proves, for every length of the input and every delay of the
codec, any frames in the packets and any value of `-s`, `[]TypeOK`, `[]OwnedOnce`
and `FrameStream`'s specification. Assumptions: both are natural numbers, and every
packet has one of three kinds of frame. `IInv` adds what the caller's progress says of the
objects (`OwnInv`), that decode's loop runs only while streaming and drains when
it has seen the end (`CallInv`), that between calls the codec is hungry and not
draining unless something failed (`HungryInv`), that packets are held in
order, newer than what was shown and older than what was demuxed last
(`OrderInv`), and that the codec is told the end only at the end of the input or
after a packet without data, behind which nothing more is read (`EndInv`).
`HungryInv` carries the main argument: without a failure no packet
is refused, so none is dropped.

`CoroutineFactory_proofs` proves, for any keys, any number of coroutines and any
sizes, the factory's four invariants and that by key it implements
PrivateStacks. Assumptions: Aco's, and `Main` and `NULL` are no keys. Each action
of the factory is one or two of libaco's, so `Aco_proofs`, instantiated for the
factory's variables, gives libaco's invariant; `IInv` adds that the map is
injective and leads to what is allocated (`MapInv`), what each stage of the
destructor has left (`PhaseInv`), and `StopIsEnded`, which holds only together
with libaco's: it needs that the running coroutine has not ended. The refinement
is libaco's seen through the map: as addresses are keys' for as long as they
live, an address given out again under another key is a fresh stack.

`CoTest_proofs` proves, for any number of coroutines and any frame that fits the
stack, `[]TypeOK`, `[]NeverAborts` and `[]InTurn`. `IInv` adds to the factory's
invariant and `fault = "none"` where each coroutine's routine is and what its
counter holds (`RoutineInv`), where main is (`MainInv`), that only the coroutine
main has just resumed may have ended (`EndedInv`), and how far ahead of another a
coroutine is (`TurnInv`). It speaks of what a coroutine sees of its stack
according to `PrivateStacks`, so that only the routine's own three steps have to
be looked at in terms of the shared stack; all saving and restoring is covered by
`ImplementsPrivateStacks`.

`ShareStack_proofs` proves, for every page size that is a multiple of 16, every
`size_t`, every size asked for and every address returned, `[]TypeOK`,
`[]StackInside`, `[]SavedIsRestorable`, `[]AbortsOnlyOnOverflow`, `[]CopyExact`,
`[]AllUnmapped` and, which no run checks, `[]SlackIsTwoWords`. Assumptions: the
address space is a number of pages and more than two, addresses are multiples of
16. The work is in the lemmas on rounding and remainders and in what follows for
the members of a stack that passed the assertions; the actions add little.

`Memory_proofs` has two parts. For any formats, frames and addresses it proves
FramePool's `[]TypeOK`, `[]PlanesFit`, `[]NoPlaneFreedEarly` and the action
property `LosesOnePlane`. Assumptions: a plane has a positive size, `NoFormat` is
no format. `IInv` adds that a pool that remembers a format has its sizes
(`PoolInv`) and that a frame being filled has the planes before `i`, in the sizes
of the format it is asked in, and shares none (`FillInv`).

For any threads, blocks, sizes and modulus it proves JutMem's `[]MemTypeOK` and
`[]AccountExact`. Assumptions: sizes are natural numbers, the modulus is a
positive one, and nobody is no thread. `MemIInv` adds only that there are finitely
many blocks, without which there is no sum; an account that is exact stays so since
every call changes the sum of its blocks and the account by amounts that are equal
modulo `Modulus` (`ModShift`, `ModSum`), and a call that would not puts the account
among the strayed. The sum is a recursive function, and what it does when a block
comes, goes or grows (`SumRemove`, `SumSame`) rests on its existence and
uniqueness for finite sets (`SumExists`, `SumUnique`). Each of these is an
induction on the number of elements, stated for a set of numbers
(`NatSetInduction`, from the least element of `WellFoundedInduction`) since the
induction rules of the library take an operator.

`Task_proofs` has three. For any number of objects and descriptors it proves
MFile's `[]FileTypeOK`, `[]OpenIsOwned` and `[]LeaksExplained`, which are
inductive together. Assumptions: descriptors are natural numbers, and the outsider
and nobody are not objects.

For pictures of any size and stride it proves that `DumpSpec` implements
`FileSpec`, so that MFile's theorems hold while pictures are dumped, and
`[]DumpTypeOK` and `[]DumpIsLuma`. Assumptions: tasks write to MFile objects, a
picture has at least one column, one row and one byte a pixel, and the row
counter at least one value. `DumpIsLuma` speaks of every picture: of those with too many rows
for the counter, unless they touch, that the dump does not return. `DumpOK` adds
how much of the plane is in the file according to the row
counter, or to whether the one write has been made (`Progress`); a row that is
appended is read off at the place its number times the stride (`RowIsPixels`), and
with a stride equal to the width the plane in one piece is its rows in order
(`PlaneIsPixels`).

For any command line, any directory and any set of usable cores it proves
Startup's `[]TypeOK`, `[]PinnedAsNamed` and `[]CollectedExact`. Assumptions: there
is a usable core, no file in a directory is called `.` or `..`, and command lines
are sequences of `Options`. `StartInv` has four parts: the members of Config are
what the last of the options seen so far says (`ParseInv`); the file list is the
part of the directory that was read, each file once, which is all that is to be
found unless `opendir` or `readdir` failed, then the file of `-f` (`ListInv`); main goes on when the list is
done (`MainInv`); and all threads but the last are where their cores' names put
them, the last as far as `TaskPool::init` has come with it (`PoolInv`). What a mask
selects is decided bit by bit: of the powers of two only those that fit a byte
matter (`PowerBit`, `MaskMeans`).

Only model-checked: `Terminates`, `Finishes` and `Ends`, since liveness under
fairness is out of the prover's reach. Every other property of a run that passes
is a theorem.

## Not modelled

* `Sender`: no code creates one, and its thread's loop has no body. What it would
  show about a thread and a stop flag, `WorkerPool` shows.
* `util_diff_time_us`, Decoder's counters of time and memory, its `flush` and its
  queries: they have no compiled caller, or only print.
* Which stream the codec belongs to when an input has several
  (`src/Decoder.cpp:230`), and whether `avformat_close_input` uses the I/O context
  that `release` has freed (`src/Decoder.cpp:193`): both depend on what is in
  libavformat and its input, which nothing here shows.
* The name `output_file_create` puts together.
* The instructions of `acosw`: `Aco` models what they save and load.
* `aco_runtime_test`, which checks the sizes of C types; the copy statistics.
* The `#else` halves of the test program and the policies of ff_mem that are not
  compiled in.
* Uses of the coroutines against the comments in the sources: a coroutine that
  removes itself, resumes another, or main_co yielding.
