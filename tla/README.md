# TLA+ models of racey-suite

racey-suite is a collection of small C programs that race on purpose: each mixes
pseudo-random numbers through a shared array `m[]` and prints a signature that
depends on every interleaving of every access. They are used to test whether a
system for deterministic execution really is deterministic. What must be right
in them is therefore not the result (any signature is legal) but everything
around the race: the barriers, locks, futexes, signals and pipes that start,
guard, schedule and end it. A start barrier that leaks, a lost wake-up, a
signature folded before the last store, or a pipe nobody closes makes the test
hang or makes it measure something else. This project models those mechanisms,
checks them with TLC and proves the safety properties with TLAPS.

## 1. Inventory

| part | state | operations | hard behaviour | what makes it correct |
|---|---|---|---|---|
| `racey-basic.c` | `m[]`, `sig[]`, `startCounter`, `threadLock` | decrement-and-spin start barrier, mix loop, create / join / fold | non-atomic decrement, threads running before others exist | exact counter, nobody starts early, final signature, termination |
| `racey-guarded.c` | the same, `locks[NLOCK]`, `barrier` | lock / read / unlock, lock / read / write / unlock | partitions shared by two indices, lock released by a computed index | no data race, no nested locks, iterations atomic, termination |
| `racey-futex.c`, scheduler | `groups[g]`: `owner`, `round`, `threads[]`; sleepers in the kernel | my turn, execute, execution barrier, pick next, wake, wait | `owner` and `round` change one after the other, the leader leaves, wake-up against sleep | one scheduler, turns disjoint, no lost wake-up, termination |
| `racey-futex.c`, set-up | `groups[]`, `NumProcs` | deal threads out, find the own group, assertion | integer division | groups partition the threads |
| `racey-signal.c` | the basic state, `sig2[]`, `threadSelfs[]`, pending signals | `pthread_kill`, handler, two barrier crossings | handler at any point of its own thread, coalesced and late signals, dead targets | signals reach live threads, final signature, termination |
| `racey-forkpipe.c` | pipes, one descriptor table per process | fork, close, read, write, wait | inherited descriptors, full pipes, failed fork, SIGPIPE | everything delivered once and in order, readers end, results present |
| `racey-clonepipe.c` | pipes, one shared descriptor table | create, join, close, read, write | close against write, join order | the same |
| `racey-freqsyscall.c` | the basic state, mappings never unmapped | a syscall per iteration, `mmap`/`mprotect` now and then | division by `MaxLoop/200`, the limit of mappings | at most the pages that fit, dies only of the division |
| `racey-nobarrier.c` | the basic state | the loop without a start barrier | loops overlap with creation | final signature, termination |
| `racey-mmaptmpfile.c` | the basic state, `sig[]` in a mapped file | map, run, unmap, unlink | `sig[]` unmapped while the process goes on | nobody uses it then, the file is removed |
| `racey-forkmmap.c` | `m[]`, `sig[]` in a mapping shared by processes | fork, run, wait | fork fails half-way, children end in any order | final signature, everybody ends |
| `racey-readfile.c` | one shared file offset, `sig[]` | read a chunk, hash it | who gets which chunk, the error `-1` | every chunk read once, final hashes |
| `racey-tcp-server.c` | `client_fds[]`, `client_idx`, two locks, sockets | accept, push, take, pop, copy to the file | both ends of the array, last in first out, polling | each connection in one place, served, copied in order |
| `racey-tcp-server-epoll.c` | the epoll set, events, descriptors | wait, accept, read until there is no more, deregister | data after `EAGAIN`, descriptors never closed | whole quotes copied, every connection dealt with |
| `racey-tcp-client.c` | one quote number per thread, sockets | connect, write, close | refused and lost connections | never stuck |
| `test.pl` | `@pipes` of running jobs, the first signature | start, wait, compare | early return leaves jobs behind | not modelled |
| `simple-*.c`, scripts, Makefiles | none worth modelling | | | not modelled |

The programs do not interact with one another, except the client and the servers of
racey-tcp, which meet on the network. Inside a program the threads (or
processes) meet in shared memory, in the pthread and futex primitives and in
pipes, on a shared mapping or a file offset. Those primitives are not code of this repository; they are modelled by
what the code relies on:

* a mutex excludes and grants in no particular order; `pthread_barrier_wait`
  releases when as many threads as it was initialised for have come;
* `FUTEX_WAIT` compares and sleeps in one step, `FUTEX_WAKE` wakes all sleepers
  (the code asks for 33 and a group has at most 32 threads);
* a pending signal is one bit per thread, and a handler does not interrupt
  itself; a thread that signals itself runs its handler before `pthread_kill`
  returns;
* a write of 64 bytes to a pipe is atomic and blocks while there is no room; a
  read of 128 bytes returns two messages or the one there is; it reports the end
  of the input when the pipe is empty and no descriptor of its writing end is
  open in any process;
* a read from a regular file moves the shared offset in the same step;
* a TCP connection delivers what was written in order, in pieces, at any later time,
  or breaks; `connect` is refused without a listener and waits for room in the backlog.

Memory is sequentially consistent in the models: every access to a shared
variable is one step. `owner`, `round`, `threads[]` and `startCounter` are
volatile; on `m[]` the programs race on purpose, and a weaker memory would only
add further values, none of which any property depends on.

## 2. Modules

    RaceyMix        mix(), the index of a number, the initial m[], the signature
      RaceyMain     main() of a threaded program: create, join, fold
        MixLoop       the unguarded loop, one step per access to m[]
          RaceyBasic    racey-basic.c: the start barrier, the loop, main()
            RaceyFreqSyscall  racey-freqsyscall.c
            RaceyMmapFile     racey-mmaptmpfile.c
          RaceySignal   racey-signal.c: the loop, pthread_kill, the handler
          RaceyNoBarrier  racey-nobarrier.c
            RaceyForkMmap     racey-forkmmap.c
        RaceyGuarded  racey-guarded.c
        RaceyReadFile   racey-readfile.c
    AtomicMix       what racey-guarded.c promises: iterations of two atomic steps
    RaceyFutex      racey-futex.c: the scheduler of one group
    RaceyFutexGroups  racey-futex.c: dealing out the threads, up to the main loop
    PipeExchange    what the pipe programs promise
    Pipes           the pipes and main()'s place, common to the two pipe programs
      ForkPipe        racey-forkpipe.c
      ClonePipe       racey-clonepipe.c

    RaceyVariants   freqsyscall, nobarrier, mmaptmpfile, forkmmap and readfile together
    TcpClient       racey-tcp-client.c and the network
      TcpServer       racey-tcp-server.c
      TcpEpoll        racey-tcp-server-epoll.c
        RaceyTcp        the client against either server

    RaceyMixProofs          the arithmetic, induction without operators, how far main() has come
    RaceyVariantsProofs     RaceyBasic, RaceyReadFile and RaceyVariants
    RaceyGuardedProofs      RaceyGuarded, and that it implements AtomicMix
    RaceySignalProofs       RaceySignal
    RaceyFutexProofs        RaceyFutex
    RaceyFutexGroupsProofs  RaceyFutexGroups
    PipeProofs              ForkPipe and ClonePipe, and that they implement PipeExchange
    RaceyTcpProofs          RaceyTcp

**RaceyMix, RaceyMain, MixLoop.** `Word`, `Prime1` and `Prime2` are the 32-bit
word and the two primes. `Mix` wraps at the word before it takes the remainder,
as unsigned arithmetic does. The arithmetic is kept, and not abstracted away,
because the indices, the locks and the signal targets are computed from it.
`RaceyMain` creates thread `i + 1` in iteration `i`, joins in the same order and
folds `sig[0] .. sig[NumProcs - 1]`; like the code, the fold leaves out the last
thread. `MixLoop` has one action per access to `m[]`; the accesses to
`sig[threadId]`, which is private until the join, ride on the neighbouring one.

**RaceyBasic.** `startCounter--` is `LoadCounter` and `StoreCounter`. The lock
and unlock are actions, and `LeaveSpin` is the read of 0 that ends
`while(startCounter) {}`.

**RaceyGuarded.** One action per lock, load, store and unlock. `Holds` derives
from the position of a thread which mutex it must be holding, by the same index
expressions the code uses to unlock. `IterationsAreAtomic` is the refinement of
`AtomicMix`: an atomic step takes place at its load of `m[]`, and `mBar` shows
the abstract array as if a thread between its load and its store had already
stored. That is legitimate only because the lock hides the difference.

**RaceyFutex.** One action per access to `owner` and `round` (`round++` is a load
and a store). Each scan of `threads[]` is one step, which is exact because entries
are only ever cleared: the result of a scan is right at the moment of its last
read, and so is `groupSize`, whose count passes through every value between.
The mixed numbers are abstracted to the place where `groupPickNext` starts its
search, any place here. A sleeping thread stands at `sleepOwner` or `sleepRound`.
The inner loop `while (futex(...) == EINTR)` is one call: `syscall` returns 0 or -1.

The scheduler has three race windows (section 5). `orderly` is a history variable
that turns false when a thread hits one of them; nothing reads it but
properties. The properties with `orderly` say that everything is right in runs
that hit no window, so the three windows are all there is to repair. The windows are a
turn that begins between the publication of `owner` and the end of `round++`
(`HandingOver`), a scan for the leader when the leader has left (`LeaderLeft`), and a
read of `owner` while it is 0 (`NoOwner`). A local that is dead is reset
(`pick` after `round++`, `oldRound` after a turn alone), so that states that differ
in nothing the code can see are one.

**RaceyFutexGroups.** `NumProcs` is a variable that starts with any value the
program accepts, because the number of threads is what decides whether the
set-up is right. `GroupsPartitionTheThreads` ends in the initial states of
`RaceyFutex`: this is how the two modules fit together.

**RaceySignal.** Extends `MixLoop`: `k` counts the iterations since the last
signal, `Due` says that the next step is `pthread_kill`. The handler is a second
program counter on the same thread, `hpc`; while it is not `"none"` the body of
that thread does not move. `Deliver` interrupts the thread anywhere, at the
barriers too. A signal still pending when its thread returns is dropped.

**PipeExchange, Pipes, ForkPipe, ClonePipe.** `PipeExchange` has no descriptors: writers
send, readers receive in order, a reader may finish when its channel is empty
and all writers are over, and the results are folded when all have finished and every
writer has sent all it had (a failed fork leaves no signature). `ForkPipe` has the descriptor table of every process,
copied at each fork as it is at that moment, and every close of the program;
`ClonePipe` has the one table of a process with threads (only the writing ends of
the inputs are ever closed). Both are shown to implement `PipeExchange`. A
message is `<<w, k>>`, the k-th of writer `w`, and goes to any reader. A thread's
result is one number in its output pipe. `Pipes` declares the parameters and the variables that both
programs have; what is `ClonePipe`'s own is called `Clone...`, so that one module can prove about both.

**RaceyFreqSyscall, RaceyNoBarrier, RaceyMmapFile, RaceyForkMmap.** Each is the basic
program with one thing changed, and extends the module it varies. `MapPage` is the
block at `racey-freqsyscall.c:97-107`: `parts` is 200, the thread maps and protects a page in
every `MaxLoop \div parts`-th iteration, or the process dies of the division when
that is 0; `pages` counts what nobody unmaps. `CloseMmap` ends the life of the file
and of the mapping of `sig[]`. `ForkMain` creates processes, any of which `Wait` may
return, and `ForkFails` ends `main()` but not the children that exist.

**RaceyReadFile.** `ReadChunk` takes the chunk at the shared `offset` and mixes its
numbers, `ReadNothing` is the read that ends the loop, of 0 bytes at the end of the file or
of -1 at any time; both results are mixed in too. `chunks` is a history variable: where
each thread's reads began.

**RaceyVariants.** The five are independent programs; `program` chooses one at the
start, and a step of one leaves the variables of the others alone. This is one run in place
of five that ask the same questions.

**TcpClient, TcpServer, TcpEpoll, RaceyTcp.** `TcpClient` has what both servers share:
the connections (one per client thread and quote), the server's `backlog`, what
was sent, received and written to the output file. A quote has up to `Pieces`
pieces; a piece is its number. In `TcpServer` the array has a cell before and a cell after its
`Slots`, because the code reads the one and writes the other. That the cell in
front is never positive, and what the one behind is, was read off the memory layouts
that gcc produces: `client_fds[-1]` is padding before a 32-byte aligned array and so 0,
`client_fds[WORKER_NUM]` is padding or the variable `barrier`, which nobody reads
any more, or, with `-fno-common`, `client_idx`. In the last case `corrupt` becomes true
and the model says nothing of what follows. `Take` and `Pop` are the accesses of a worker under
the lock; a poll that finds nothing changes nothing and is no action. In `TcpEpoll`
one event is handled per step and one read made per step, so that data may arrive, or a
connection break, in between. `RaceyTcp` runs the client against the server that `server` names.

## 3. Runs

| run | instance | distinct states | what it shows |
|---|---|---|---|
| `basic` | 3 threads, 1 iteration, 2 elements | 3 722 | the counter is exact, nobody starts early, the signature is final, the program ends |
| `guarded` | 3 threads, 2 iterations, 4 elements, 2 locks | 23 438 | no data race, no nested locks, iterations atomic, the program ends |
| `futex` | threads 2..4 of 5 slots, 4 iterations, orderly runs | 982 311 | in orderly runs: one scheduler, disjoint turns, exact barrier, no lost wake-up, termination |
| `futex_hang` | 2 threads, 33 slots, 3 iterations | 11 679 | **violation**: the group stops for ever |
| `futex_scheduler` | 2 threads, 33 slots, 1 iteration | | **violation**: two threads schedule |
| `groups` | 4 groups, `NumProcs` 1..8 | 953 | the groups partition the threads; exactly the uneven numbers abort |
| `groups_assert` | 4 groups, `NumProcs` 1..8 | | **violation**: the assertion at `racey-futex.c:131` fails |
| `signal` | 2 threads, 2 iterations, handler of 1 | 65 017 | signals go to live threads, the signature is final, the program ends |
| `forkpipe` | 2 readers, 2 writers, 2 messages each, pipes of 2 | 67 672 | nobody is killed, results are there, exchange implemented, the program ends |
| `variants` | 2 threads or processes, 5 iterations (`readfile`: 5 chunks) | 159 927 | final signatures, chunks read once, no fault, everybody ends |
| `tcp` | 3 clients; 2 workers and 1 cell + 1, or epoll with 2 descriptors | 183 434 | each connection in one place, copied in order, dealt with |
| `clonepipe` | 2 readers, 2 writers, 3 messages each, pipes of 2 | 57 464 | exchange implemented, the program ends |

Bounds, and why the interesting cases occur within them:

* *Threads.* Three threads in `basic`, `guarded` and `futex`: two can race while a
  third holds, spins, sleeps or has not been created. Signals and pipes need two
  peers, each of which can pick itself or the other.
* *Numbers.* The primes are small, the word wraps, and in `guarded` two elements
  share a lock, so that equal and different elements, and equal and different
  locks, all meet. In `signal` threads pick themselves and each other.
* *Futex.* `End = Slots` makes the search wrap past the last slot, as it does in
  the program for the group 25..32 of 32 threads; a start above the members makes
  it pick the whole group. Four iterations let a thread finish while others go on, and the
  others complete a round after it: with fewer the third window cannot be hit.
  `OrderlyRuns` stops at the step that hits a window, where every property of the run has
  nothing more to say; that `TypeOK` holds beyond is proved (`FutexTypeCorrect`).
  The violation runs have the program's own 33 slots.
* *Groups.* 1..8 threads with four groups covers fewer threads than groups, every
  remainder, and two threads per group.
* *Pipes.* With room for two messages a writer blocks, a read takes one message or
  two, and with two or three messages per writer the order within a pipe shows.
* *Variants.* `PartsSet = {2, 6}` with `MaxLoop = 5` stands for 200 below and above `MaxLoop`: with 2, the
  period is 2 and the rounding makes 3 mappings per thread of what was to be 2, with 6 it divides
  by zero. `MaxMaps = 6` is what two threads can come to, so one page more is a
  violation; in the program it is 32 * 399 = 12768 pages, against the kernel's 65530. The file of 17 bytes
  has four whole chunks and one of a single byte, less than a number.
* *TCP.* `Slots` (the length of the array) and `WorkerNum` are one constant in the code; they are two here,
  so that three connections are enough to fill the array and its one cell too many while
  two workers compete. Clients 1 and 2 differ in what can happen to them:
  `SplitThread` (its quote comes in pieces) and `LossyThread` (its connection may
  break); client 3 is undisturbed. Two descriptors make the epoll server run out of them.
* *Handler.* One iteration of the handler has every one of its accesses and its
  return. (Two iterations were checked as well: 1.2 million states, no error.)

`RaceyFutexGroups.TypeOK` is not checked by a run: it is proved.

`CHECK_DEADLOCK FALSE` stands in two kinds of runs: the `futex` ones, where a group can
stop (that is what `futex_hang` shows), and `forkpipe`, where a failed `fork`
can leave writers behind that wait for ever. What may not stop is stated by the
termination properties.

**Fairness.** Weak fairness of each thread or process as a whole and of `main()`:
the kernel schedules every runnable thread again and again. No fairness of locks
is assumed in the mixing programs. None is needed: a thread takes locks finitely often, so a lock that
is waited for is free for good in the end. The workers of the TCP server poll for ever
under one lock; that a poll which finds nothing is a stutter amounts to the assumption that a thread that keeps asking
for that lock gets it between two such polls. `EveryConnectionIsDealtWith` rests on it. The
network owes nothing: `Lose` has no fairness, and the clients and servers only that they run. `RaceyFutexGroups` needs even less, that the
program as a whole goes on (`WF_vars(Next)`): nothing in it is repeated for ever.

## 4. Proofs

TLAPS checks the following for every value of the constants allowed by the named
assumptions of the modules (`MixAssumption`, `MainAssumption`, `FreqAssumption`, `LockAssumption`,
`SignalAssumption`, `FutexAssumption`, `GroupsAssumption`, `PipeAssumption`, `ReadFileAssumption`,
`ClientAssumption`, `ServerAssumption`, `EpollAssumption`; each is tested by TLC in a run). Every invariant that a run
checks is a theorem, and so are the three refinements.

**RaceyMixProofs.** `MixRange`: `mix` returns a number below `PRIME1`; with `2 * PRIME1 <= 2^32`
it fits an `int`, and indices stay within `m[]`. `Signature` and `AllPages` are recursive
functions. What they compute is proved by induction over a set in place of a predicate:
`LeastNumber` takes the least element from the library's theorem that `<` is
well-founded on `Nat`, `SetInduction` follows, and `FoldExists` shows with it that
there is a function with the recursive equation, which is what the `CHOOSE` behind such a
definition needs. `SignatureRange` (the signature of two or more threads is a number
that `mix` can return) and `LastThreadNeverCounts` (`sig[NumProcs]` never changes it) rest on that.

**RaceyVariantsProofs, racey-basic.** `BasicTypeCorrect`, `BasicCounterExact`, `BasicBarrier`,
`BasicSignatureIsFinal`, all from the invariant `IInv` of `RaceyBasic`.
`CounterExact` is not inductive alone. Between the load and the store of the
decrement the loaded value must still be the counter (`LockInv`, second part),
and that holds because whoever is between lock and unlock is the one holder
(`LockInv`, first part). The store takes one thread out of the counted set, and
cardinality falls by one. `NobodyStartsEarly` follows when the counter reads 0:
the set is empty. `SignatureIsFinal` rests on `MainInv`: what the create and
join loops have established so far.

**RaceyVariantsProofs, racey-readfile.** `ReadInvariant`, `ReadOnce`, `HashesFinal`. The offset stands at
a multiple of the buffer or at the end, and everything read lies before it
(`OffsetInv`), hence the chunk read next is new. The hashes are kept abstract: no
property needs their range.

**RaceyVariantsProofs, the variants.** `VariantsInvariant`, `VariantsSignatureIsFinal`, `VariantsFaultFree`.
The invariant gives each program its part and shows that the others leave it alone.
`racey-freqsyscall` and `racey-mmaptmpfile` keep `IInv`. `racey-forkmmap` cannot keep `MainInv`, because
`wait()` returns the children in any order: `ForkInv` counts the reaped children instead, all of which
have ended, and `NumProcs` of them are all there are. `PageInv` ties the
pages of a thread to its iterations, `(pages - 1) * d < iter <= pages * d` for the period `d`; with
`MaxLoop <= (2 * parts - 1) * d` (`PartsBound`) no thread has more than `2 * parts - 1`, and a
thread about to map has fewer, so the sum of all is below the limit (`PagesBelow`, by induction over
the threads). `FreqAssumption` says that the limit is at least `NumProcs * (2 * parts - 1)`: with the 200
parts and at most 32 threads of the code that is 12768, and Linux allows 65530.

**RaceyGuardedProofs.** `GuardedInvariant`, `GuardedTypeCorrect`, `GuardedLocks`,
`GuardedNoDataRace`, `GuardedNoNestedLocks`. The invariant says that the mutexes agree with the
critical sections (`LockInv`): the index from which a lock is released is the
one it was taken with, although `num` changes in between. `NoDataRace` follows:
equal elements have equal locks, and a lock has one holder.
`GuardedImplementsAtomicMix` is `Spec => IterationsAreAtomic`.
The initial state maps to the initial state; the two loads map to `MixIn` and
`Exchange`, the fold to `Finish`, every other step to a stutter. The two steps
that matter are the second load, where the abstract array changes and the
concrete one does not, and the store, where it is the other way round; both use
`LockInv` to know that no other thread owes a store to the same element.

**RaceySignalProofs.** `SignalInvariant`, `SignalTypeCorrect`, `SignalKillsTheLiving`,
`SignalSignatureIsFinal`. Who signals has passed the first barrier, so the target has come to
it (`BarrierInv`, first part) and is known (`KnownInv`); the sender is not past the second, so
nobody is (second part). A signal is thus pending only on a living thread
(`HandlerInv`), which is why no handler runs when all have returned.

**RaceyFutexProofs.** `FutexInvariant`, `FutexTypeCorrect`, `OneSchedulerAtATime`, `TurnsStayApart`,
`BarrierCounts`, `WakeupsArrive`, `NoDeadlockWhileOrderly`, for a group of any size and any number of iterations.
The invariant has what holds in every run (`TypeOK`, and `BaseInv`: who is present has iterations
left), and what holds as long as no window is hit, `OrderlyInv`. That says: threads that
take a turn do so while nobody schedules, with the current round (`TurnInv`); one thread schedules,
and what it publishes is a member or minus the size of the group (`SchedulerInv`); a
barrier has one leader, the first one present, or somebody who will be it
(`LeaderInv`, `BarrierInv`); a negative `owner` counts those who are still to come (`OwnerInv`); who has
come to the barrier of the current round stays there until it is scheduled over (`RoundInv`);
who sleeps on a word that has changed has somebody who will wake it (`SleepInv`). None of the
five properties is inductive without the others: the barrier counts right only because
turns do not overlap, and turns do not overlap only because one thread schedules.
`NoDeadlockWhileOrderly` follows from the invariant in one state: if all slept, or spun
below the barrier's count, the owner, the awaited or the leader would be none of them.
This proof is what showed the third window: `SleepInv` was not inductive
at a read of `owner = 0`.

**RaceyFutexGroupsProofs.** `GroupsInvariant`, `GroupsTypeCorrect`, `GroupsPartition`. The groups
dealt so far are ranges that follow one another (`DealtInv`), so they are disjoint, and who is past the
lookup is in the group it found (`FoundInv`): if all get to their loops, the
groups cover all.

**PipeProofs, racey-forkpipe.** `PipeInvariant`, `ForkPipeTypeCorrect`, `WritersSurvive`, `ResultsArrive`,
`ForkPipeDelivers`, `ForkPipeExchanges`. `MainInv` and `ChildInv` say
which descriptors each process has open at each place of its program. A writer has
the reading end of every input open itself while it writes, so it is never killed. A
reader sees the end of its input only when no process has the writing end, and then every writer is
over or was never born (`FinishInv`). `DataInv` says that what each reader has
received, followed by what is in its pipe, has every message sent once and
those of a writer in order; `SendDelivers` keeps that for a write to any pipe.
In the refinement the write maps to `Send`, the read of one message or two to `Receive`, a writer's end
and a failed fork, which makes the unborn writers be over, to `Stop`, the reader's
read of the end to `Finish`, `main()`'s last result to `Fold`, every other step to a stutter.

**PipeProofs, racey-clonepipe.** `CloneInvariant`, `ClonePipeTypeCorrect`, `ClonePipeDelivers`,
`ClonePipeExchanges`, which state `CloneTypeOK`, `CloneDeliversEverything` and `CloneImplementsExchange`,
with the same lemmas about messages. There one table of descriptors takes the place of many: an input stays writable until `main()` has joined every
writer (`CloneMainInv`), so no reader finishes before (`CloneReaderInv`).

**RaceyTcpProofs.** `TcpInvariant`, `StackIsSound` (`TcpSpec => []EachInOnePlace`, both servers
in it). The worker at "clear" is the one that holds the lock, and its `fd` is the top of
the stack (`LockInv`); the cells up to the top are full and different (`StackInv`). With that every
step moves one connection from one place to the next (`PlaceInv`): backlog, main(), stack, worker,
served. `QuotesInvariant`, `TcpTypeCorrect` and `QuotesArrive` come on top: the pieces of a connection in
the file, and then those in the buffer of the worker that writes it, are the ones received, in order
(`CopyInv`). A step of one worker leaves another's connection alone because
`PlaceInv` gives a connection to one worker only. For the epoll server `EventInv` says that an
event is about a waiting connection or one in the set, and that of a connection
taken out something has been read. Assumed are `ClientAssumption`, `ServerAssumption` and `EpollAssumption`, that the numbers are positive.

**Why the programs end.** That a program terminates under fairness cannot be proved here, but what
the argument rests on can, without fairness and without `ENABLED`. It has two halves for every program
but racey-futex:

| program | never stuck | every step advances |
|---|---|---|
| racey-basic | `BasicNeverStuck` | `BasicAdvances` |
| racey-guarded | `GuardedNeverStuck` | `GuardedAdvances` |
| racey-signal | `SignalNeverStuck` | `SignalAdvances` |
| the variants | `VariantsNeverStuck` | `VariantsAdvance` |
| racey-forkpipe | `ForkNeverStuck` | `ForkAdvances` |
| racey-clonepipe | `CloneNeverStuck` | `CloneAdvances` |
| racey-tcp | `TcpNeverStuck` | `TcpAdvances` |

* *Never stuck*: `[]`(all is over, or somebody can go on). Who can go on is written out as the guards of
  the actions (`MainRuns`, `Runnable`, `ChildRuns`, `WorkerRuns`, ...): a thread cannot at a
  barrier that is closed, at a lock that is taken, at an empty or full pipe, and so on. A writer of a pipe
  counts as able to go on only if it can write to whichever reader its message is for.
* *Every step advances*: each thread, process, `main()` or connection has a rank, its place in its
  program, and the ranks are bounded (`...RanksEnd`). Every step raises the rank of somebody and lowers
  nobody's (`...Advance`), with three exceptions that come after the ranks in a lexicographic order: a
  read leaves fewer messages in a pipe (`SomePipeEmpties`); a handler starts its way again, but with one
  signal less pending; the epoll server starts its way round its loop again (`LoopRank`), but after a step that took a
  connection further.

A run can therefore neither get stuck before its end nor go on for ever, in whatever order the threads
take their steps. TLC's deadlock check and the termination properties show the same on the small instances. The
limits are part of the statements: in racey-basic and the servers, reading a counter or a stack and finding
nothing to do is no step, and that such a thread is not the only one that runs is what is left to fairness; after a
failed `fork` that left a reader out (`ReaderMissing`) writers of racey-forkpipe may wait for ever; the
servers end their work, not themselves.

What the proofs need beyond the invariants above: `MainInv` says where `main()` is among its
threads (idle are those that it has still to create, and those it has joined have returned), lock and
barrier invariants who is on the way to open what others wait for; in racey-forkpipe `HolderInv` says
who can still close a writing end that a reader waits for: a child that has not come that far in its own
closes, or `main()` (`MainHolds`, `ChildHolds`), so the last one to hold it is never one that waits for the
reader. In racey-tcp `MoveInv` says that what a client is done with is closed (`ClosedInv`), and of the
epoll server that it has what it has accepted in its set or is done with it, and that each event still to be
handled is about a connection in the set with something to read (`EpollInv`), so that the first `read` of an
event never fails with `EAGAIN` and no connection is deregistered unread.

Only model-checked: liveness, because `ENABLED` and fairness are out of the prover's reach. These
are the `Termination` properties, `TerminationWhileOrderly`, `StartsUnlessUneven`, `EveryVariantEnds`
and `EveryConnectionIsDealtWith`. For `RaceyFutex` the proof goes as far as that the group never
deadlocks in orderly runs; that its threads do not sleep and wake each other for ever is left to
`TerminationWhileOrderly`. The violations of section 5 are counterexamples and have no theorem.

## 5. What the runs found

* **`racey-futex.c:184-185`, a hang** (`futex_hang`). `owner` is published before
  `round` is incremented. A thread that is awake takes its turn in between and
  remembers the old round; the increment then makes it leave the execution
  barrier early (`:171`), it publishes a positive owner, and a thread that still
  has to arrive adds 1 to that (`:170`). `owner` names nobody, and the last thread
  spins (or sleeps) for ever.
* **`racey-futex.c:151`, two schedulers** (`futex_scheduler`). The leader may
  remove itself from `threads[]` before another thread of the same round has
  looked for the leader. Both then schedule, against "leader gets to schedule"
  (`:173`).
* **`racey-futex.c:177`, a late wake-up: another hang.** A thread that has made its last iteration may
  be slow to make the `FUTEX_WAKE` of a round. Meanwhile the others complete the next round: one
  of them sleeps on `round`, and the leader is about to schedule, so `owner` is 0. The late call
  wakes the sleeper, which reads `owner == 0` (`:146-150`), is not the owner, and sleeps on
  `owner` (`:193`). The leader then publishes the next owner and wakes those who sleep on
  `round`; if it is this thread's turn, or everybody's, nobody wakes it, against "wake them when it might
  be" (`README.md:41-42`). It takes three threads and four iterations. There is no run of its own
  for it (it violates the same `Termination` as `futex_hang`); without `NoOwner` in `orderly` the
  run `futex` finds it as a violation of `NoLostWakeup`.
* **`racey-futex.c:243`, numbers of threads that abort** (`groups_assert`). For
  `NumProcs > 4` that is no multiple of 4 some threads have no group and the assertion at `:131`
  fails, while `:216` accepts the number.

Read in the code, not turned into runs: `racey-signal.c:165` reads `sig[33]`, one
past the array, into `sig2[0]`, which is never used, and `sig2[]` is not the
reverse of `sig[]` that `:48` announces; a signal may go to its own sender,
though `README.md:43` says "another thread".

Modelled as they are, and covered by properties that allow for them and for nothing worse:

* `racey-freqsyscall.c:99` divides by zero for `MaxLoop < 200`, which the assertion at
  `:130` accepts (`NobodyFaults` says exactly when);
* `racey-tcp-server.c:44` reads `client_fds[-1]` whenever the stack is empty, and `:156-160`
  writes `client_fds[WORKER_NUM]` when the array is full (`EachInOnePlace` up to the overwritten
  `client_idx`);
* the epoll server stops reading a connection at the first `EAGAIN`, and takes it out of its set for
  good: a quote that arrives in two pieces may be cut (`WholeQuotesAreWritten` is about the
  others); it never closes a connection that it has read, and ends when it has no
  descriptors left (`EveryConnectionIsDealtWith`);
* in `racey-readfile.c` the hash of the last thread is not folded, as in all the
  programs (`LastThreadNeverCounts`), though `README.md:51-52` says "Output is a hash of the local hashes".

## 6. Left out, and why

The loop that "seizes the cpu", `printf`, the DMP marker syscalls, and addresses
printed with the signature change no state the properties speak of. A failed
`pthread_create`, `malloc` or `pipe` ends the program before or while it starts.
A failed `fork` is modelled, because it leaves children behind. Spurious wake-ups
of `FUTEX_WAIT` are not modelled: the programs receive no signals and run no debugger. One of a sleeper on
`owner` would repeat the test of `owner`; one of a sleeper on `round` could open the third window of
section 5 without a late wake-up.

`racey-tcp-server.c` after an overwritten `client_idx` is not described, and `accept()` and the calls of the set-up do
not fail, except for the want of descriptors in the epoll server. `test.pl` is a sequential Perl
script with one user of its queue; the `simple-*.c` programs have no shared state; scripts and
Makefiles build and start programs.

## 7. Plan

Done: the modules above, in the order basic, guarded, futex, groups, pipes, signal, TCP, variants; a
theorem for every invariant and every refinement that a run checks; and for every program but
racey-futex that it is never stuck and that its steps come to an end.

1. *Proofs.* Ranks for racey-futex in orderly runs: `round` and the iterations only grow, and within a
   round each thread sleeps on each word once.
2. *Model.* Nothing of the programs is left but what section 6 lists.
