# A TLA+ model of aws-efa-examples

The repository is a set of C++20 programs that move GPU memory between nodes
over AWS EFA with libfabric. Under all of them lies one small runtime: a
single-threaded loop that polls a completion queue and resumes coroutines. These
modules model that runtime, the programs that use it, and the fabric between
two nodes, and the search for the core and the NIC that are near to a GPU, which
the programs start with; TLC checks them on small instances and TLAPS proves the
invariants of the runtime, the writers, the reader, the ring, the Peer's resources and
that search for instances of every size.

`src/src/<program>/` holds five complete programs, `coro`, `efa`, `dmabuf`,
`affinity` and `batch` (and three small ones that print the hardware). Each has
its own copy of the headers. Most copies are byte for byte the same: `coro.h`,
`future.h`, `handle.h`, `result.h`, `runner.h` in all five; `timer.h`, `net.h`,
`net.cc`, `event.h`, `mpi.h`, `efa.h` in the last four; `io.h`, `selector.h`,
`conn.h`, `buffer.h` in the last three. A definition that stands for such a
header stands for every copy, and the `map` of `PROJECT.json` names lines of one
of them. Where the copies differ the modules say so: `coro` has no selector,
`efa`'s selector has no `FI_REMOTE_WRITE` branch, and `WriteOne` awaits each page
in `dmabuf` and `affinity` and batches them in `batch`.

## The system

| component | state it keeps | operations | what makes it correct |
|---|---|---|---|
| event loop (`io.h`, `handle.h`, `runner.h`) | `ready_`, `schedule_`, `state_` of each handle, the clock | `Run`, `Select`, `Runone`, `Call` (two overloads), `Cancel` (empty), `schedule`, `cancel` | no queue holds a dead handle or one handle twice; every queued handle runs; it stops exactly when nothing is pending |
| coroutine frames (`coro.h`, `future.h`, `result.h`) | suspend point, `next`, `Result` of each frame, who owns it | create, `co_await` of a call or of a `Future`, final suspend, return, throw, destroy | no wakeup is lost, whichever of child and parent is first |
| timers (`timer.h`) | one eager frame per sleep | `Sleep` | resumed once, not before the deadline |
| selector (`selector.h`, `event.h`) | registered completion queues; contexts by immediate data | `Register`, `UnRegister`, `Select`, `HandleCompletion`, `HandleError` | an entry resumes the coroutine that posted the operation; a remote write resumes the reader that waits for it, once |
| `Conn` (`conn.h`) | buffers, endpoint | `Recv`, `Send`, `Write`, `Read` and their awaiters | one completion, one resumption |
| writer (`main.cc` of `dmabuf`, `affinity`, `batch`) | rounds, pages, counters, the deque of futures | `StartWriter`, `Handshake`, `Write`, `WriteOne` | every page of every round once, a bounded window, rounds separate |
| reader (same files) | its current `Read` | `StartReader`, `Handshake`, `Read` | notified once per round, when the round is in memory |
| `Net` (`net.h`, `net.cc`) | the libfabric objects, `conns_` | `Open`, `Connect`, `~Net` | registered while open, closed in a legal order |
| buffers (`buffer.h`) | memory, aligned pointer, memory region, DMA-BUF descriptor | constructors, destructors | each resource is released once, by the matching function, on every path |
| ring of `efa` | stage of each rank, messages | `Start` | each rank gets its predecessor's message; all end that no failure stops |
| demo of `coro` | | `Start` | it ends |
| GPU locality (`gpuloc.h`) | `numanodes_`, the map from a GPU to its `GPUAffinity`, `affinity_` | `Hwloc` (load, `Traverse`), `GetAffinity`, the match with NVML, `operator<<` | a GPU's list has the EFA devices of its host bridge, and cores near to its memory; entry `i` is NVML's device `i`; no list is read past its end |
| choice of a Peer (`main.cc`, `taskset.h`, `efa.h`, `mpi.h`) | core, NIC and device of the process | `EFA::Get`, `MPI::GetLocalRank`, `Taskset::Set`, `cudaSetDevice` | what it takes is near to its GPU |
| address exchange, `info`'s output, progress | start-up data | synchronous calls | the exchange is part of the ring; the output is not modelled, see below |

Components meet in few places. A coroutine body runs only inside
`IO::Runone`; it calls the loop (`Call`, `schedule`) and posts operations. The
NIC answers in the completion queue, in any order; `Selector::Select` turns an
entry into a handle and `IO::Select` queues it. A finished frame queues the frame
in its `next`. Nothing runs in parallel with the loop except the NIC, the clock
and the other node.

What is hard here, and what the properties are for (the `hazards` of
`PROJECT.json` give the lines): destroying a frame cancels nothing, so every raw
`Handle*` the runtime keeps must be dead before its frame is; a `Future` is
scheduled twice and only `state_` prevents a double queueing; a child may finish
before, during or after the await; the loop must neither stop early nor spin for
ever; completions come in any order, and a page with immediate data may overtake
others; notifications may come when nobody is registered, or two at once; a
refused post is an exception in the middle of a window of other writes; a rank that
fails closes an endpoint its neighbours still send to; an
exception in a constructor leaves a Peer half built; `~Net` closes things in an
order the provider does not accept; the walk over the hardware tree files what it
meets under the package it met last, and lists are indexed by a rank nothing
compares with their length.

## Modules

| module | models | built on |
|---|---|---|
| `EventLoop` | the runtime: its state, the steps of loop, NIC and clock, and one action per operation a coroutine body can perform | |
| `LoopClient` | the most general program over the runtime, its guarantees and its fairness | `EventLoop` |
| `WriteWindow` | abstract: rounds of page writes with a bounded window | |
| `Writer` | what the three writers share | `EventLoop` |
| `SequentialWriter` | `dmabuf`, `affinity`; implements `WriteWindow` with `Window <- 1`, and `LoopClient` | `Writer` |
| `BatchWriter` | `batch`; implements `WriteWindow` with `Window <- BatchSize`, and `LoopClient` | `Writer` |
| `RemoteWrite` | the reader on the runtime, the writer as `WriteWindow`, and the fabric between the nodes | `EventLoop`, `WriteWindow` |
| `RingExchange` | `efa` on all ranks: address exchange, send, receive, end, and the provider between them | |
| `PeerLifetime` | `Net::Open`, `Connect`, `~Net`, and the constructors and destructors of `Conn`'s buffers, call by call, each of which may fail | |
| `GPULocality` | the walk over the hardware tree, the grouping by host bridge, the match with NVML, and what a Peer takes from the lists | |
| `QueueLemmas` | lemmas on appending to and taking from queues without repetition | |
| `LoopClientProofs` | theorems on the runtime: no queue holds a dead handle, or one twice; no wakeup is lost, no timer is early, the loop stops when the root is done | `LoopClient`, `QueueLemmas` |
| `SequentialWriterProofs` | theorems on the writer of `dmabuf` and `affinity`: it implements `LoopClient` and `WriteWindow`, and counts every page | `SequentialWriter`, `LoopClientProofs`, `QueueLemmas` |
| `BatchWriterProofs` | the same of the writer of `batch`, and that its `Progress` counter is the writes issued less those still to be awaited | `BatchWriter`, `LoopClientProofs`, `QueueLemmas` |
| `RemoteWriteProofs` | theorems on the reader: its context is alive, only two notifications read at once can resume it wrongly, a notification means that the pages are there | `RemoteWrite`, `QueueLemmas` |
| `RingExchangeProofs` | theorems on the ring | `RingExchange` |
| `PeerLifetimeProofs` | theorems on what a Peer owns | `PeerLifetime` |
| `GPULocalityProofs` | theorems on the lists of GPU locality | `GPULocality`, `QueueLemmas` |
| `MC*` | instances for TLC | |

How the state of `EventLoop` corresponds to the code:

- A handle is the address of a frame. `point` is the suspend point the frame
  stands at (`free` when it is not allocated): the coroutine's own resume index,
  which C++ keeps for us. `state` is `Handle::state_`, `next` is
  `promise_type::next`, `result` the `std::variant` of `Result<T>`.
- `owner` and `held` say in whose locals or temporaries the `Coro` object lies,
  since C++ destroys it with them. `Children` and `Descendants` are what a
  destructor reaches. `callee` is the child a frame awaits.
- `ready`, `schedule` with `when`, and `time` are the fields of `IO`. `phase`,
  `batch` and `cur` are the control of `Run` and `Runone`: `batch` is `n - i`, fixed before
  the first handle runs.
- `raised` says that an exception is propagating in the running frame.
- `inflight`, `cq`, `cqError` and `polling` are the NIC and the selector.

A coroutine body is a sequence of the actions `CallAwait`, `Spawn`, `AwaitDone`,
`AwaitFuture`, `DropFuture`, `SleepAwait`, `PostOp`, `PostRefused`, `Throw`,
`Return`, `Unwind` and `OpenNet`, each up to the next point where control may
leave the body. `Finish` is the end of a body: its locals are destroyed (in the
root frame with them `Net`, which closes the completion queue), the result is
stored, and `final_awaiter` calls `next`. One detail of the language matters:
the `Oneway` constructor of the promise is considered with the object as first
argument in a member function, so it never matches `Conn`'s coroutines, which
start lazily; only the free function `detail::Sleep` starts at once. `Create`
and `SleepAwait` are written accordingly.

Resuming a destroyed or finished frame, or reading the `Context` of one, is
undefined behaviour. The model does not guess what happens: it enters the phase
`undefined` and stops there, and properties forbid or exhibit that phase.

`LoopClient` lets a body do any of these in any order under the one discipline
the programs keep (a body returns only when its children are done; a `Future` is
dropped only when done) and has two switches: `Futures`, a body may hold several
coroutines, and `MayThrow`, a body may throw. The writers instead carry a program
counter per frame (`stage`) and the locals of `WriteOne` and `Write`. Whatever can
throw in them does when `MayFail` holds: the constructors of `Peer` and `Writer` (before
and after `Net::Open`), the posting of the handshake's receive and of a page
(`PostRefused`), an entry whose flags are not those of the operation, and the `ASSERT`s
on the response (`BodyThrows`).

`RemoteWrite` gives the reader's side: the `Context` that `remote_write_awaiter`
registers, the entries with immediate data, which the selector handles apart, and
`Land`, the fabric's step. Its start-up, its handshake's send and the `ASSERT` after
it may fail as the writers' may; the writer of `WriteWindow` it is composed with
does not. Two variables remember what the selector has done: `dropped`, an entry
found no registered context, and `twice`, two entries of one read were for the same
one. The entries of the reader's own operation and the remote ones are two queues
there, read in that order; their order does not matter, since the only own operation
ends before the first `Read` starts.

`RingExchange` takes one step of a rank from one `co_await` of `Start` to the next;
its runtime is `EventLoop`'s and not repeated. `stage` is where `Start` stands,
`endpoint` what became of `Net::ep_`, `wire` and `early` are the provider: a message
is on its way until it reaches an open endpoint, where it is matched with the posted
receive or kept. `keeps` says whether the provider keeps a message for which no
receive is posted. Every call may fail: `OpenFails` is a CHECK of `Net::Open`, after
which the rank never comes to `MPI_Allgather`; `Fail` is any later one, the EXPECT
of `Connect`, a registration, the CHECKs of `fi_sendmsg` and `fi_recvmsg`, wrong
flags or an error entry, which leaves `Start`, closes the rank's Net and ends the
process. What `mpirun` then does to the other processes is not modelled: they go on
by themselves.

`PeerLifetime` separates the pointers the code has (`fields` of `Net`, `raws` and
`mrs` of the buffers) from the resources (`open`, `memory`, `regions`, `exported`),
because what matters is where they part: `fi_close` may refuse and the pointer is
cleared all the same; `~Buffer` runs after `~CUDABuffer` on the same pointers, and
alone when the constructor of a `CUDABuffer` throws. `at` is the next call. The end
of the coroutine and an exception that leaves it, an error entry included, destroy
a Peer in the same way (`Leave`).

`GPULocality` models one process. A machine is a value: a tree of objects
(`kind`, `up`, `path`; a `group` is any object that `Traverse` only passes through on
its way down, a cache or a die included), the objects whose word at `attr->osdev.type` reads
`OPENFABRICS` (`reads`: the code tests it on objects of every type), the slot and
function of a PCI device, the OS numbers of PUs and what libfabric, NVML and CUDA
list. `WellFormed` says what hwloc and NVML ensure. `stack` holds the calls of
`Traverse` that have not returned, each with the object it stands at, the host
bridge it passes on and the children it has not visited; `Visit` is one call and
`Leave` its return, in the order memory, normal and I/O children. `numanodes` is
`Hwloc::numanodes_` with `pci` for the map from a bridge to its devices; `node`,
`bridges` and `gpuloc` are the loops of `GetAffinity` and its map; `index` and
`affinity` the match with NVML. The maps and sets of the code are unordered and
keyed by address, so a host bridge, the order of `efas` and the GPUs that match an
index are taken in any order. Every call of a library may fail where the code checks
it. `back()` of an empty vector, or an index past the end of a list, is the phase
`undefined`. `local` is the rank of the process on its node and the number of
processes there; `program` says which of the copies of `gpuloc.h` runs, since
`gpuloc` has no NVML and only `affinity` (and `batch`) asks for a `fi_info`.

## Runs

| run | checks | bounds |
|---|---|---|
| `loop` | `TypeOK`, `NoDangling`, `QueuedOnce`, `NoLostWakeup`, `StoppedMeansDone`, `NeverEarly`, `ReadyRuns`, `SuspendedResumes` for every program that holds futures and does not throw, and for every program that throws and holds one child at a time | 3 frames, clock to 2, delays 0 and 1, 2 entries a poll |
| `batch_window` | `BatchTypeOK`, `OpsAccounted`, `KeepsWindow`, `IsLoopClient`, `Terminates` | 4 pages, window 2, 2 rounds, 3 frames for writes |
| `sequential_writer` | `AllWritten`, `KeepsWindow`, `IsLoopClient`, `Terminates`, with every call and check failing | 3 pages, 2 rounds |
| `reader_sequential` | `ReaderTypeOK`, `NotifiedMeansWritten`, `ContextAlive`, `OnlyDoubled`, `DoubledIsUndefined`, `EndsUnlessDropped`, with notifications that are dropped, come late or come together | 2 pages, 3 rounds, window 1, 2 entries a poll |
| `ring` | `RingTypeOK`, `FromPredecessor`, `NoStray`, `NeedsKeeping`, `RingEnds`, over providers that keep early messages and that do not, with any rank failing anywhere | 4 ranks |
| `peer_released` | `LifeTypeOK`, `Backed`, `NoFault`, `MemoryReturned`, `LeftOpen`; every call may fail but the two of `CUDABuffer` after `cudaMalloc` | 4 buffers, 2 of them CUDA |
| `gpu_affinity` | `LocalityTypeOK`, `SameHostBridge`, `CoresOfPackage`, `ByNvmlIndex`, `PeerIsNear`, `DefinedOn` for the three programs | 1891 machines of 18 objects |
| `batch_refused` | violated: `NoUseAfterFree`, when calls may fail | as `batch_window` |
| `reader_early` | violated: `NotifiedMeansWritten` | 2 pages, window 2 |
| `reader_lost` | violated: `ReaderEnds` | 1 page, 1 round |
| `gpu_numa` | violated: `SameNumaNode` | one package with two NUMA nodes |
| `peer_cuda` | violated: `NoFault`, when a `CUDABuffer` fails after `cudaMalloc` | as `peer_released` |

Why the bounds are enough. `MCLoopClient` puts both classes of programs into one
state space: `class` is chosen at the start, and the programs that throw are those
of a second instance of `LoopClient`. Three frames are a root with two others: a
parent with two children that finish in either order while one is awaited, or a
chain in which an exception passes a frame that awaits; more would only repeat what
the theorems on the runtime say of every number of frames (each safety property of
the run is one of them), while the liveness properties need a graph small enough to
search for cycles. The clock bound lets two timers expire in the same pass and in
different ones. `MaxCQEntries` of 1 and 2 (16 in the code) makes a poll leave
entries behind, and 2 is enough for two notifications in one read. Four pages with a
window of two (250 and 8 in the code) fill the window, pop twice and drain what is
left; three frames for writes show that the third is never needed, and the frame a
popped future frees is allocated again. Two rounds show that counters and deque
start afresh. No run uses symmetry. The rounds of `batch_window` are longer than its
window; that a shorter one is counted and drained as well (the first loop of
`WriteOne` then awaits nothing) is left to the theorems, which hold for every number
of pages and every window. Four ranks have two neighbours and one that is neither;
four buffers are those of the code. The machines of `gpu_affinity` have two
packages, two NUMA nodes, three cores, a group, two host bridges with a PCI bridge
below one of them, two GPUs and two network adapters: every tree that hangs them
below the machine, a package or the group, a bridge or another (1728, so that a
package has two NUMA nodes, one or none, memory is visited before the first package
or after, the group is above a package or in one, and a bridge has none, one or two
of each device), with the usual answers of the libraries; and two usual trees with
the unusual ones: a device that is not, or wrongly, an OPENFABRICS device, a GPU
that is not function 0, EFA devices libfabric does not list, NVML or CUDA in another
order or with a device less, PUs numbered otherwise; and one package of two groups,
each with a NUMA node, cores and a host bridge of its own. `CHECK_DEADLOCK` is off
only in `ring`: over a provider that keeps nothing the ring stops, which is what
`NeedsKeeping` says, and so do the neighbours of a rank that failed (that it goes on
otherwise is `RingEnds`). Elsewhere a program that ended stutters (`Terminating`,
`Over`), and any other state without a step would be an error.

Fairness. `IO::Run` never blocks, so the loop's steps and the running body are
weakly fair; the NIC answers every accepted operation (completion or error);
`Tick` is strongly fair because the model forbids it in the phase in which
`Runone` has read the clock. For the reader, the writing node and the fabric
together are weakly fair: a peer that has been asked goes on writing, and what it writes
lands. In the ring every
rank runs and messages to open endpoints arrive, one after the other (reliable
datagrams). Nothing has to fail, and a
failure is never forced by fairness. Fairness is not assumed for any program's choice
between actions.

What the violated runs show:

- `batch_refused`. `IO::Cancel` is empty, and `batch` is the one program that
  holds several coroutines and may throw in the middle: `fi_writemsg` returning
  `-FI_EAGAIN` unwinds `WriteOne`, its deque destroys the futures whose handles
  are still queued or whose contexts are still with the NIC, and the loop uses
  them. A comment in `batch/main.cc` reports a core dump at that loop.
- `reader_early`. The immediate data travels with the last page of a round. With
  several writes open it may land before the others, so the notification does
  not mean that the round is complete, as the repository's README says.
  `reader_sequential` shows that it does with one write open.
- `reader_lost`. A notification handled while no `Read` is registered is dropped, and the
  reader waits for ever for the one it was to count. Nothing makes the writer wait for
  the reader. `EndsUnlessDropped` says that this is the only thing that stops a reader
  whose peer writes all its rounds.
- `gpu_numa`. `GPUAffinity` promises the cores in the GPU's NUMA node. `Traverse` files
  cores by package: with sub-NUMA clustering the list has those of both nodes, and the
  node is the last one visited. `CoresOfPackage` says what the list does hold.
- `peer_cuda`. The destructor of a class whose constructor throws does not run, its
  base's does: `~Buffer` calls `free()` with the pointer `cudaMalloc` returned. A
  machine without DMA-BUF support takes this path at once.

`reader_sequential` shows one more defect, which no document speaks of and which is
therefore stated as two properties that hold. `Selector::HandleCompletion` makes an
event of each `FI_REMOTE_WRITE` entry it reads, and two of one read that find the
same context queue its coroutine twice: it returns for the first and is resumed,
finished, for the second (`DoubledIsUndefined`: the program always comes to that).
`OnlyDoubled` says that nothing else does: notifications that come one by one, at
whatever moment, and failing calls of the handshake leave no handle behind. A writer
that runs ahead of the reader by a round is enough, and in `dmabuf` and `affinity`
nothing holds it back.

Two things `gpu_affinity` states as conditions and the code does not check. A core
is near to the GPU only where the OS numbers PUs as hwloc numbers cores, because
`Taskset::Set` gets a `logical_index`; and the CUDA memory is on the GPU whose NIC
was chosen only where CUDA numbers devices as NVML does (`PeerIsNear`). `DefinedOn`
names the machines on which nothing is read that is not there: every core and NUMA
node below a package, no group apart from the packages (the I/O devices of one would
be visited before the first Numanode exists), every package with cores, and, for a
Peer, an EFA device on the host bridge of the first GPU; the printing programs need
a NUMA node in each package instead. `main` asserts one process per node, and
without that assertion a second process could index past the end of `efas`.

A last disagreement needs no run: the comment on `~CUDABuffer` says that it cleans
up DMA-BUF resources, and it only forgets the descriptor. `exported` never shrinks.

`LeftOpen` deserves a word. `~Net` closes queue and address vector before the
endpoint they are bound to, and the domain before the memory regions of `conns_`,
which is destroyed after the destructor's body. libfabric refuses to close an
object in use, and `~Net` ignores the refusal: that is why no region is ever
closed after its domain (`NoFault`), and why the queue, the address vector, the
domain and the fabric stay open. That `fi_close` refuses is taken from libfabric's
documentation (`InUse`, external).

Each property of a passing run has a mutant of a modelled definition that breaks it:
definitions marked as a defect in the modules, used nowhere else.

## Proofs

### The runtime

`LoopClientProofs` proves, for any set of frames, any `MaxCQEntries`, any delays
and any clock bound,

    Disciplined => (Spec => []P)     Disciplined == ~(Futures /\ MayThrow)

for `P` one of `TypeOK` (`TypeCorrect`), `NoDangling` (`NothingDangles`),
`QueuedOnce` (`NeverQueuedTwice`) and `phase # "undefined"` (`NeverUndefined`).
The assumptions are those of `EventLoop` and `LoopClient` on their constants
(`LoopAssumption`, `ClientAssumption`). `Disciplined` is needed: `batch_refused`
is a program outside of it, and violates the last one.

`QueuedOnce` and `NoDangling` are not inductive: whether a popped handle may be
resumed depends on what every other frame says about it. The inductive invariant
`IInv` is `TypeOK` with five parts that determine each other:

- `QueueInv`: a frame's `state_` and suspend point say which queue it can be in, so
  no frame is in two, and none is twice in the deque or in the completion queue;
- `AwaitInv`: `next` and `callee` are inverse of each other as long as the child
  lives, and its parent is then `kSuspend`, hence in no queue, so the call in
  `final_awaiter` cannot queue it twice; a scheduled parent has a finished child;
- `RunInv`: exactly one frame is running, and the batch never exceeds the deque;
- `OwnerInv`: children belong to frames suspended in the middle of their body, so a
  frame that is done holds none, and `Descendants` of a frame whose children are
  done are just those children;
- `DisciplineInv`: without futures a frame's one child is the one it awaits, so an
  exception finds only a finished child to destroy; without exceptions nothing
  unwinds at all.

The proof that a step preserves `IInv` has a lemma for every action. The central
ones are `Finish` and `RunNext`, which frees the temporary of an await.
`QueueLemmas` has what they need about `Append`, `Tail`, `SubSeq` and
concatenation of sequences without repetition.

The second half of the module proves, from the same assumptions and under `Disciplined`,
what the first invariant leaves open: `NoLostWakeup` (`NoWakeupLost`), `StoppedMeansDone`
(`RunReturnsWhenDone`) and `NeverEarly` (`TimersAreNotEarly`). Its invariant `WInv`, on
top of `IInv`, has three parts:

- `WakeInv`: a suspended frame is in the queue its suspend point says, or its child
  is alive and names it in `next`, or has finished and it is queued; a frame that has
  left `schedule` has reached its deadline; a selector that is not polling has
  nothing in flight;
- `TreeInv`: the frames in use are finitely many, and a set of frames closed under
  `owner` is empty: they are a tree under the root. Without it frames could await
  each other in a circle, all of them waiting properly, while the loop finds nothing
  to do. With it some leaf is waiting for something other than a frame, and for
  that the loop goes on;
- `StopInv`: when the loop has stopped, the root is done and all others are freed.

### The writers

`SequentialWriterProofs` and `BatchWriterProofs` carry those theorems over to the
programs. `LoopClient` says what any program may do; a writer implements it when every
step of a body is one that `LoopClient` allows, and what has to be shown for that is
that a body never returns over a child that is still running. Both modules prove

- `RunsOnRuntime`: `Spec` of the program implies the safety part of `LoopClient!Spec`;
  hence `KeepsDiscipline`, the refinement `IsLoopClient` that the runs check, and
  `RunsSafely`, which is `NoDangling`, `QueuedOnce`, `NoLostWakeup` and "nothing dead is
  resumed" of this program, from the theorems above by instantiation;
- `EveryPageCounted` (`AllWritten`) and type correctness (`SeqTypeCorrect`,
  `BatchTypeCorrect`), and for `batch` that the counter of `Progress` is at every moment the
  number of writes issued less those whose future is still to be awaited
  (`AwaitedAreCounted`: `OpsAccounted`). It lags the completions: a write that is done
  behind an older one is not counted yet;
- `PromiseKept`: the refinement `KeepsWindow`, that the program implements `WriteWindow`
  with a window of one, or of `BatchSize`.

The argument for the first and the last is an invariant of the program on top of the
runtime's `IInv` and `WInv`, which `INSTANCE LoopClientProofs` provides:

- of the sequential writer, `SeqInv`. Who calls whom is fixed (`CallInv`), so the
  frames form one of six call chains; `CountInv` ties `ops` to round and page, and as
  long as no exception has been thrown `StageInv` and `RoundInv` say where in its body
  each frame is. Its theorems hold whatever call of the start-up, the handshake or a
  page fails, its assertions included: an exception leaves frames whose one child is
  done.
- of the batched writer, `BatchInv`. What is hard here is `DequeInv`: the deque of
  futures holds every slot that is allocated, once, and they stand for the last pages
  that were issued, in order; what was drained is done. It is why the window is never
  exceeded and why `CountInv` (issued is counted plus held) accounts for every write.
  `LoopInv` says which future the loop awaits: the front, or the next one to drain.

The theorems on `batch` have the hypothesis `~MayFail`. It is needed: when a write is
refused, the exception unwinds a frame that holds futures in flight, `Disciplined` is
false of the program, and `batch_refused` shows that the runtime's theorem then fails.
From `Writer` comes `WriterAssumption`: the frames of a writer are different frames, there
is at least one page, and calls may fail or not.

### The reader

`RemoteWriteProofs` proves `ReaderTypeOK` (`ReaderTypeCorrect`), `ContextAlive`
(`ContextStaysAlive`) and `OnlyDoubled` (`OnlyDoubledIsUndefined`) for any number of
pages and rounds, any window, any failing call and any way the fabric delivers
notifications, and `NotifiedMeansWritten` (`NotifiedWritten`) for `Window = 1`, from
`ReaderAssumption`. The reader is not a client in the sense of `LoopClient`, because
the selector schedules a frame for every notification and not for every operation;
so its invariant stands on its own:

- `ChainInv`: the frames are one chain, `Root`, then `Handshake` and `Send` or `Read` and
  `ConnRead`, each awaiting the next; `OneLeaf` derives that exactly one frame, the leaf,
  can be resumed. `RunInv`, `ReadyInv` and `NicInv` say what the queues hold by the point
  the leaf is at, the superfluous handles of `ConnRead` included that a second
  notification leaves in the deque;
- `ContextInv`: a context is registered exactly while `ConnRead` waits and until it returns,
  which is `ContextAlive` and a little more;
- `CountInv`: the calls of `Read` that returned, the notifications in the completion queue
  and those a waiting `ConnRead` was given are together no more than were sent. A
  call of `Read` returns for a notification of its own, although nothing in the code
  counts them;
- `DoubledInv`: until two notifications are read at once the deque holds at most one handle,
  and none while a coroutine runs. It is inductive because a pass of `Runone` takes all
  there is, so that the deque is empty when the selector reads again, and a second handle
  of `ConnRead` can come only from the same read;
- `PeerInv` and, for `Window = 1`, `OrderInv`: pages are opened in order and only one is
  open, so when the last page of a round has landed all have. With a larger window
  the statement is false, which `reader_early` shows: the batched writer's last page can
  overtake others.

### The ring

`RingExchangeProofs` proves `RingTypeOK`, `FromPredecessor`, `NoStray` and
`NeedsKeeping` for every number of ranks, from `RingAssumption` (there is a rank,
and an empty buffer is not one). First come facts of arithmetic: `(r + 1) % n` is a
rank, no two ranks have the same successor, and the inverse is `Pred`. The
invariant `RingInv` ties a message's place to its sender's state (`Addressed`: on
its way only while the sender waits or after it failed), the match to the sender
(`Matched`) and the endpoint to the stage (`Staged`). `NoStray` follows: a rank that has
ended well has received, from the only rank that sends to it, whose message has thus
arrived. It says nothing of a rank that failed: its predecessor's message may then be on
its way to a closed endpoint, and that predecessor, and the successor, poll for ever, as
`RingEnds` allows. With a failure before the exchange of addresses nobody gets past
`MPI_Allgather`.

### What a Peer owns

`PeerLifetimeProofs` proves `LifeTypeOK`, `Backed` and `LeftOpen` for any number of
buffers of either class and any set of failing calls, and `NoFault` and with it
`MemoryReturned` when no `CUDABuffer` fails after `cudaMalloc` (`Safe`:
`NeverFaults`, `AllMemoryReturned`), from `LifeAssumption`. Without `Safe` a Peer
need not come to its end at all, and `MemoryReturned` would only speak of those that
do. `LifeAssumption`. `LifeInv` computes what is open from what `Net` points to and
what is bound (`NetInv`), and says of every buffer that those before the current one
are complete and those after it do not exist (`BufferInv`); `ClassInv` says that the
function that will free the current buffer matches its memory.

### GPU locality

`GPULocalityProofs` proves every property of `gpu_affinity`, `LocalityTypeOK`,
`SameHostBridge`, `ByNvmlIndex`, `CoresOfPackage` (`CoresInPackage`), `PeerIsNear`
(`NicAndCoreNear`) and `DefinedOn` (`DefinedWhereClaimed`), for any set of well-formed
machines, however large their trees, from `LocalityAssumption`. The argument has a layer
for each part of the code:

- `WalkInv`, of `Traverse`. The stack is a path down the tree (`StackInv`); a device
  is recorded with its host bridge (`PairInv`), once, and not while some frame has
  still to visit it (`OnceInv`). All devices of a host bridge end in the same Numanode
  (`ActiveInv`, while the walk is below the bridge, and `ClosedInv` after it): no
  package lies below a host bridge, so no Numanode is begun in between. Nothing is
  missed (`SeenInv`).
- `GroupInv`, of `GetAffinity`: an entry stands for a GPU on a bridge that is done and
  has all its EFA devices; a GPU has one entry, and has none only if its bridge is
  still to come.
- `MatchInv`, of the match with NVML. An index adds at most one entry, since no two
  devices share slot and function. The code compares only lengths, twice; because no
  step adds more than one, a list that has the length of the map got exactly one at
  every index, and since NVML lists no device twice, no GPU is missing.

- `PackInv`, of `Traverse` again, for what is not a PCI device. `Traverse` writes to
  the last Numanode, whatever package it is in, so that cores end where they belong is
  not plain. The invariant gives each Numanode a package: what a Numanode has lies in
  its package or in none (`Only`); as long as the walk is below a package its Numanode
  is the last; and every core and NUMA node of a package is recorded there or still to
  be visited (`Recorded`, `Complete`). That holds because no package lies below
  another. Where cores lie outside of packages they may stand in any Numanode, hence
  the condition of `CoresOfPackage`.
- `FirstInv`: until the first Numanode exists the walk is above a package that is
  still to come, on the machines `Placed` describes. As normal children are visited
  before I/O children, nothing that needs `back()` is met before that package.
- `UseInv`, of the programs: what was admitted, which program comes to which phase,
  and that a Peer's lists have only devices libfabric listed. `NearInv` says from
  `Choose` to the end what `PeerIsNear` says of the end.

The walk is written as actions on a stack and not as a recursive operator, which is
what makes it open to proof at all. `LocalityTypeOK` includes that what a Peer takes
from the lists is there once the three comparisons of `Choose` hold.

### Only model-checked

All liveness (`ReadyRuns`, `SuspendedResumes`, `Terminates`, `DoubledIsUndefined`,
`EndsUnlessDropped`, `RingEnds`): fairness and `ENABLED` are beyond the prover, and
`RunsOnRuntime` therefore is about the safety part of the specifications. Every
safety property of a passing run is the property of a theorem, under the hypotheses
named above.

## Not modelled

- The bytes of pages and messages and the arithmetic of aligned pointers.
  `write_awaiter` ignores its data argument, the seed is used before it is
  received, and sizes are not checked against the aligned size; no behaviour of the
  loop depends on them. `efa`'s buffers, which register with a domain after their
  construction and are destroyed before their `Net`.
- Output: the device lists of `info`, the lines `operator<<` prints of a
  `GPUAffinity` (only which entries it reads is modelled), the progress line.
- A clock that jumps. Deadlines are measured with `system_clock`; `NeverEarly` is about
  the clock the code reads, whose distance from real time is outside of it.
- The command line and the end of MPI. `MPI_Allgather` is part of the ring; the ranks on
  a node are an input of `GPULocality`.
- `Taskset::Set` with a vector of cores, which nothing calls; pinning is with one core
  (`Pin`).
- Rounds that overtake each other: the writer starts a round when its own completions
  are in, and the reader never looks at its buffer, so there is nothing a
  property could compare.
- What a start-up call that fails leaves behind, inside the runtime's modules: there it is
  a throw of the root (`BodyThrows`); its resources are `PeerLifetime`'s subject.
- The failure of the writing node as the reader sees it: the writer of `RemoteWrite` goes
  on. A reader whose peer has failed polls for ever, as one whose notification was dropped
  does. Likewise, how `mpirun` ends the processes of a ring one of which has failed.
- `Future::Cancel` (names a member that does not exist, never instantiated) and
  `ReadOne` (never called).
- What the destroyed coroutine frames do to the loop while `main` unwinds after an
  error entry: the phase `aborted` is final. That suspended coroutines are then abandoned,
  with what they hold, is therefore not judged by any property.

## Plan

Done: every component above that keeps state, and theorems on the runtime, the writers,
the reader, the ring, the Peer's resources and GPU locality. What would come next:

1. A finer abstract specification of the reader, which the two nodes together implement.
2. What a page holds, if a program ever reads it back.
