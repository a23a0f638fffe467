# A verification development for DynamoRIO on ARM

This directory models the concurrent core of the ARM port of DynamoRIO 2.0 in
TLA+, checks the models with TLC and proves the central ones with TLAPS. Paths
below are relative to `src/CurrentVersion/cleanDynamo/`; `core/x.c:n` is line n.

DynamoRIO runs a program out of a *code cache*: each application thread
alternates between the cache and the dispatcher, which finds or builds the next
fragment of translated code. Fragments become stale (the application unmaps or
rewrites code, a trace replaces a block, a cache unit is reclaimed) and are then
*flushed*: unlinked at once, and freed when no thread can still be executing
them. The other threads are not suspended for that, so the flush protocol and
the deletion lists carry most of what is hard in this program, and the locks
under them the rest. That is where this development begins.

## Inventory

The tree holds four copies or relatives of the code: `CurrentVersion/cleanDynamo`
(the port being worked on, modelled here), `RunningVersion` (an almost identical
copy: of the files modelled only `vmareas.c`, `utils.c` and `linux/os.c` differ, and
trivially), and the stand-alone `Decoder`, `Encoder` and `MiscCode`. The port was
made by adding ARM code next to the x86 code, commenting out parts that were not
yet needed and adding a `printf` at the start of many functions
(`september2011ProgressReport.tex`). `configure.h` defines LINUX, ARM,
CLIENT_INTERFACE and KSTATS; DEBUG and INTERNAL are off, so the ASSERTs are not
compiled, and neither is HAVE_TLS, which turns shared fragments off by default.
What follows describes the configuration with shared fragments turned on; the
flush handshake is the same in both.

| Component | State | Operations | Interacts by | Hard behaviour | Correct when |
|---|---|---|---|---|---|
| Mutexes (`core/utils.c`, `core/linux/os.c`, `core/Arm/arm.s`) | `lock_requests` | lock, trylock, unlock, contended wait | shared word | three ways to acquire race with requests being taken back | one owner; the word counts the requests; the lock is granted |
| Readers-writer locks (`core/utils.c`) | mutex, `num_readers`, `num_pending_readers`, `writer` | read/write lock, trylock, unlock | shared words, thread_yield | readers and writers look at two words in opposite orders | exclusion; writers get in; counts exact |
| Recursive locks (`core/utils.c`) | mutex, `owner`, `count` | acquire, try, release | as above | `owner` read without the mutex | nesting counted, one owner |
| Events (`core/linux/os.c`, `core/utils.c`) | `signaled`; `num_waiting` | signal, reset, wait; broadcast | polling | early and stale signals | no signal lost or taken for another |
| Flush synchronization (`core/fragment.c`) | `per_thread_t` booleans, lock and events; `flusher`, `flush_threads`, `flushtime_global` | enter_(no/couldbe)linking, stages 1-3, thread exit | locks, events, unlocked flags | every thread against one flusher, flush after flush | nobody links during a flush; every flush ends; every thread goes on |
| Deletion of shared fragments (`core/vmareas.c`) | pending list, lazy list, counts, flush times | unlink, append, move, walk | locks, flush times | threads start, exit and sign off while entries are made | nothing freed in use; counts exact; freed once |
| Deletion of private fragments (`core/vmareas.c`) | marked areas per thread, `flush_queue_nonempty` | mark by the flusher, free by the owner | linking_lock | the mark is set by another thread | freed once, by the owner, out of the cache |
| Dispatch (`core/dispatch.c`) | `last_exit`, `last_fragment`, `next_tag`, at_syscall | enter and leave the cache, system calls | calls | a target is flushed on the way in | never enters a flushed fragment |
| Linking (`core/link.c`) | link flags, incoming lists, futures | link, unlink, shift | change_linking_lock | lists of both ends change together | every link is on its target's list |
| Fragments, hashtables (`core/fragment.c`, `core/hashtablex.h`) | open-addressed tables | add, remove, replace, resize, lookup | table rwlock, lockless reads | readers during removal and resize | lookups find what is in and nothing that is out |
| Traces (`core/monitor.c`) | head counters, trace under construction | enter, exit, extend, emit, abort | flush stage 1 | a flush squashes a trace half built | a trace never contains a flushed block |
| Cache units (`core/fcache.c`) | units, free lists, pending units | allocate, replace, flush units | flush times | unit freed after its fragments | no unit freed with a live fragment |
| All-thread synchronization (`core/synch.c`) | `synch_perm`, `pending_synch_count`, suspend counts | synch with one or all, safe spots | suspension, events | two synchers; start and exit meanwhile | no deadlock; only safe threads suspended |
| Heap and virtual memory (`core/heap.c`) | block bitmap, units, free lists | reserve, free, grow | recursive locks | full, fragmented | blocks disjoint; counts exact |
| Executable areas (`core/vmareas.c`) | sorted interval vectors | add, split, merge, remove, lookup | rwlock | overlaps | sorted, disjoint, same coverage |
| Signals, nudges (`core/linux/signal.c`, `core/nudge.c`) | handlers, pending queues | intercept, record, deliver | interruption anywhere | arrival while entering or leaving the cache | delivered once, in order, at a safe point |
| Threads (`core/dynamo.c`) | `all_threads`, counts | init, exit, fork | thread_initexit_lock | end by another thread | listed while alive |
| ARM code generation (`core/Arm/`) | instruction lists | decode, mangle, encode, emit | none | sequential | equivalence of code |
| Everything else | options, configuration, statistics, module lists, persistent caches, hot patching, client API, libutil, tools, ext, suite, win32 | | | off in this build, sequential or not built | |

`PROJECT.json` lists the same components with their status, and every hazard
found in the survey at the line where it bites.

## Plan

Order: what everything else rests on first.

1. (done) `Mutex` and `MutexLock`, with proofs; `LinkingGate` and `FlushSynch`, with
   proofs; `SharedDeletion` on top of `FlushSynch`; `ReadersWriter` and `RWLock`,
   `RecursiveLock`, both composed with `MutexLock`.
2. (done) `PrivateFlush` on `FlushSynch`; `Suspension` and `ThreadSynch`; `TagSet` and
   `Hashtable`; `HeapUnits`.
3. (done) Proofs about all of these: the invariants of `RWLock` and
   `RecursiveLock` from those of `MutexLock`, of `SharedDeletion` and `PrivateFlush` from
   `HandshakeInv`, of `ThreadSynch`, `HeapUnits` and `Hashtable` by themselves; the
   refinements of `ReadersWriter`, of `Mutex` by the recursive lock, of `Suspension` and
   of `TagSet`.
4. (next) In this order: linking (`is_linkable`, futures, incoming lists), to
   discharge the assumption on links; the old tables that a resized shared hashtable
   leaves to its readers, with their reference counts; queueing and delivery of
   application signals; interval arithmetic of `vm_area_vector_t`; the bitmap of the
   reserved region.

Modules that will be proved about use functions and the library's folds and no
RECURSIVE operator; no module here has one. Bounds: three threads wherever a third
party can interfere, two where the protocol is pairwise.

## The modules

**`Mutex`** — the abstract lock: an owner or nobody.

**`MutexLock`** — `mutex_t`. A step is one access to `lock_requests`; a thread's
program counter says where it is in `mutex_lock` (`try`, `spin`, `inc`),
`mutex_wait_contended_lock` (`undo`, `wait`), `mutex_trylock` (`trylock`) and
`mutex_unlock` (`notify`). `Build` selects the compare-and-exchange: that of x86, or
that of `core/Arm/arm.s`, in which a mismatch leaves the outcome to the unset
register r4. `SpinCount` is `spinlock_count`, 0 on a uniprocessor.

**`ReadersWriter`** — the abstract readers-writer lock with nested reading.

**`InnerMutex`** — what the next two have in common: the constants, the mutex that is a
field of either lock, as `Lock == INSTANCE MutexLock`, and where each thread is in the
routines around it.

**`RWLock`** — `read_write_lock_t`, over `InnerMutex`: the word of its mutex, and every step of it, is in the model, so a request being
taken back makes `mutex_testlock` true here as it does in the code. `spin_yield_rwlock` is
the option of that name and part of the initial state, so one run covers both paths;
the default path differs in what a contended reader
counts. On Linux the notifications are empty and waits are yields, which makes
the pending count a statistic. A writer may nest reads. `MaxReaders` bounds the
leak that the default path has (see Findings): `ReadersCounted` and `WriterGetsIn`
are about the spin-yield path, the other properties about both.

**`RecursiveLock`** — `recursive_lock_t`, over `InnerMutex` as well. `depth` is what the
callers know: how often each thread has acquired without releasing.

**`LinkingGate`** — what a flush promises, abstractly: threads enter and leave a
gate; a flusher closes it to them one at a time and acts on all of them only
while nobody is inside.

**`FlushSynch`** — the protocol of `core/fragment.c:6033-6878`. A thread is in the
cache (`nolinking`), in a system call, in DynamoRIO proper (`linking`), waiting in
`wait_for_flusher_nolinking` (`wait_all`) or `wait_for_flusher_linking` (`signal`,
`wait_with`), or is the flusher (`stage1`, `wait_unlink`, `stage3`). Whatever happens
between taking and releasing `linking_lock` is one step, because all of it is on
fields that this lock protects; the lock itself appears only because one function
never releases it. A wait for an event has three places, before, in and after
it, because the thread holds no lock there and a whole flush can go by. Events are flags that a
successful wait resets, as in `core/linux/os.c:6988`. The flusher visits the listed
threads in any order, which includes both of the orders of its loops. Stage 2
is one step: it happens with every other thread stopped or out of DynamoRIO.
`Listed` never shrinks: in this port nothing calls the removal from `all_threads`.
A thread ends in `SYS_exit` without clean-up, or is cleaned up by another one
(`Cleanup`), as a vfork parent does for a child that has called execve
(`core/linux/os.c:4310`) and a fork child for the threads it has not inherited.

**`SharedDeletion`** — EXTENDS `FlushSynch`: each step of the deletion lists is a step
of the handshake together with what the same function does to the lists, and the
rest of the handshake leaves them alone. `linked` is the set of fragments in the
shared tables; `frag` is what a thread runs or ran last, `targetf` what the
dispatcher is about to enter; `errand` tells a thread that became nolinking to
move the lazy list, or that must go back because its target was flushed. A
fragment is on the lists, linked, or free to be built again. One pending entry
stands for the areas of one flush, which have one count and one flush time.
`fragment_remove_shared_no_flush` and `add_to_lazy_deletion_list` are one step: the
thread is linking, so no flush comes between. `check_flush_queue` has lost its
second half and its return statement, so the answer of `enter_nolinking` is any
boolean.

**`PrivateFlush`** — EXTENDS `FlushSynch` with the fragments of one thread each. Stage 1
unlinks a thread's fragments in the region, marks the area (`delete_me`) and the
thread (`flush_queue_nonempty`); `vm_area_unlink_fragments` is one step, because the
flusher holds the thread's `linking_lock`. The owner hands them to `fragment_delete` in
`check_flush_queue`, with the lock held, when it becomes couldbelinking or
nolinking. `aborted` is the state in which dispatch has been told that its target was
flushed and calls `enter_couldbelinking` with no fragment. What the port has
commented out is left out: the marks stay, and `trace_abort` does nothing. `trace` is the set of
blocks of the trace under construction. Threads that end are left to `FlushSynch`
(`Cleanup = FALSE`). When a live fragment is in an area that stayed marked, the code
hands it to `fragment_delete` as well, as the model does; an ASSERT that is not compiled
in this build forbids it (`core/vmareas.c:9286`).

**`Suspension`** — abstractly: holds on a thread, and a thread that is frozen only while held.

**`ThreadSynch`** — what a thread does that executes SYS_exit_group in a group that is
not the last one of its process: `handle_exit`, `synch_with_thread` and
`check_wait_at_safe_spot`, `thread_suspend`, `thread_resume` and `thread_terminate`, and in
the other threads `handle_suspend_signal`. Every access to the flags of
`os_thread_data_t` and `thread_synch_data_t` is a step, since the handler interrupts a
thread anywhere: `handler` says where in it each thread is, and the thread's own `pc`
stands still meanwhile. `dr` is any place in DynamoRIO that is not a safe spot.
`suspend_lock` is left out because both its users hold
`thread_initexit_lock` here; the loop limit of `synch_with_thread` is a choice (`Abandon`)
after the first turn. `MaxEvents` bounds, per thread, the application's own uses of the
signal plus the times it is given up. Kernel: at most one pending instance of
the signal; a signal to a thread that has ended fails.

**`TagSet`** — what a hashtable promises: a set of tags; a table with a maximal size
may be emptied.

**`Hashtable`** — the template of `core/hashtablex.h` as operators on one table record:
linear probing, `remove_helper_open_address` (Knuth's Algorithm R), `range_remove`,
grooming, `check_size` and the rehash, for tables that hold fragments (`primary`), a
thread's indirect-branch table (`private`) and a shared one (`shared`). An operation runs under
the table's write lock or on a thread's own table, so each is one step; what the
code cache reads without a lock is the array, in which an entry of another thread's
deletion is only ever overwritten by FAKE_TAG. A new table has the groom threshold 0 whatever
its groom factor (finding 15), so the groom at the start of `check_size` (`Entered`) never
happens and only a table at its maximal size is groomed. The adds of a rehash check the size
again in the code; `Rehashed` leaves out only the resize they could ask for, and `LoadKept`
is why they never do. Loops over
slots are recursive functions, and one turn of each is an operator of its own (`Advanced` of
the loop that closes a hole, `Walked` of the range removal's), so that lemmas can be
about it.

**`HeapUnits`** — heap units outside the reserved region, and `dynamo_areas`, the
vector of DynamoRIO's own memory. Neither can be kept up to date while the other
changes, so units mark the vector stale and the next query walks them
(`heap_vmareas_synch_units`), possibly growing the vector, which allocates and
frees units inside the walk. Threads go through `global_alloc_lock` and the areas'
readers-writer lock as the code does, back-out and retry included; what holds
both, or the areas' lock alone for its whole length, is one step. `Needs` says what a larger vector
takes when its present buffer is not a unit of its own: room in a unit, a new shared unit, or one of its
own. `DeadMax` stands for the code's maximum of dead units, which depends on the
number of threads. Running out of memory ends the process (`ended`).

`MC*` modules instantiate these for TLC. `MutexLockProofs`, `FlushSynchProofs`,
`PrivateFlushProofs`, `SharedDeletionProofs`, `ThreadSynchProofs`, `HeapUnitsProofs` and
`HashtableProofs` extend the module they are named after with its inductive invariant, its
lemmas and its theorems; `LockProofs` does so for `RWLock` and `RecursiveLock` at once and
takes the mutex of both from `MutexLockProofs` by INSTANCE; the two modules about
fragments extend `FlushSynchProofs`. The modules also hold, next to the definitions they
replace, the mutants: plausible slips of which each property must notice one.

## The runs

| Run | Bounds | Shows |
|---|---|---|
| `mutex_x86` | 3 threads, spin 2 | exclusion, exact count, the lock is granted, refinement of `Mutex` |
| `mutex_arm` (violation) | 2 threads | two owners with the ARM compare-and-exchange |
| `rwlock` | 3 threads, spin 1, both paths, leak up to 5 | exclusion, `writer` exact, refinement of `ReadersWriter`; on the spin-yield path `num_readers` exact and a writer is not starved |
| `recursive` | 3 threads, nesting 3 | nesting exact, refinement of `Mutex` |
| `flush` | 3 threads, 3 flushes, clean-up | frozen threads, no stale answer, the inductive invariant, refinement of `LinkingGate`; flushes end and stopped threads resume unless a thread was cleaned up |
| `flush_exit` (violation) | 2 threads, 1 flush, clean-up | a flush waits for ever for a lock left held |
| `deletion` | 2 threads, 2 fragments, 3 flush times, lazy list of 1, clean-up | no use after free, exact counts, sorted lists, one list each |
| `private_flush` | 2 threads, 2 blocks in 2 areas, 2 flushes | from visit to release the flushed region stays unreachable; owners delete before they link again |
| `thread_synch` | 3 threads, any of them ends the group; 1 event per thread | ended at a safe spot only, exact claims, fresh flags, the application's signals, refinement of `Suspension`, whoever exits ends |
| `hashtable` | 5 colliding tags, tables of 4 to 16 slots and more, room made for 1, 5 kinds and settings | refinement of `TagSet`, exact counts, lookups end, no table is loaded beyond its threshold |
| `heap_units` | 2 threads, 3 units, 1 dead, 1 foreign area | queries exact, the walk survives its own resizes, no unit lost, the lock is given back |
| `heap_reuse` (violation) | as above, with a vector that takes a shared unit | a query misses a live unit |

*Why the bounds are enough.* A mutex needs three threads for an owner, one taking a
request back and one polling. The handshake is between the flusher and each
thread separately, so what a third thread adds is a second party at the gate
while the flusher waits for the first, and another flusher for the next flush; three
flushes let a signal of the first survive into the third. Both are proved
without bounds as well. The deletion lists need two entries with different flush
times to be out of order and a thread that has signed off on one of them only; the
flush times reach 3, the lazy list overflows at 2. `LazyMax` is 128 in the code. The
same invariants hold with three threads, two fragments, two flush times and a lazy
list of 0 (5.9 million states), which takes too long for a run of every day.
Private fragments are touched by their owner and one flusher; two areas let a second
flush find a mark of the first. In `thread_synch` two threads can be each other's
target while the third one is ended by either; one extra signal per thread meets
each of DynamoRIO's, since signals do not queue. In `hashtable` five tags on four slots
collide at every size, chains wrap around the end, tables grow twice, and a shared table
meets its maximal size at once or after it has grown, asked for more than that size
holds (the same properties hold with room made for 4 entries at once, 57 000 states). In `heap_units`
three addresses are the fewest with which the walk has a unit before and one
behind the vector's own, and memory still runs out; the same properties hold with
`Needs = {"room", "own"}` and two slots, and the invariants with four units.

*Symmetry* is used in `deletion`, `private_flush` and `heap_reuse` only, which check
invariants; what is permuted is interchangeable in the initial states and in
every definition they evaluate. Threads of `ThreadSynch` are numbered, because
`get_list_of_threads` gives every caller the same order.

*Deadlock* is checked for the mutexes, the hashtable and the heap. It is off for the
flush and deletion runs, since every thread may stay in the cache, in a system call or
be dead, with the bound on flushes used up; off for `rwlock`, where the leak of the default
path makes a writer and its readers spin for ever; and off for `thread_synch`, where
the whole group ends and where three things can keep it from ending (below).

*Fairness.* Weak fairness on the steps a thread takes once it is inside a routine:
the kernel schedules every runnable thread, and waiting is by polling. No fairness on
asking for a lock, on leaving the cache or a system call, on starting a flush, on
calling SYS_exit_group or on beginning an allocation or a query.
For locks: owners release. In `RWLock` a writer releases even though it may nest
reads (strong fairness on its release, for nesting disables it now and then). In
`FlushSynch`: code that is linking ends in `enter_nolinking`, which is what the
flusher relies on. `StoppedThreadsResume` is true of finitely many flushes
(`MaxFlushtime`): a comment at `core/fragment.c:5732` admits that an endless series of
them can keep a thread waiting. In `ThreadSynch` strong fairness on the exiting thread's
own steps, because it is itself suspended and resumed over and over, and because
`thread_initexit_lock` is taken and released by the others in between: the loops
sleep between their turns (`synch_thread_yield`), which gives it the time and the lock. Its
handler needs weak fairness only. `ExitEnds` has a hypothesis, that a target is not for
ever found in DynamoRIO's own code, since nothing makes a thread leave it; and it
excepts the three states named in `Derailed`: a target that executes
SYS_exit between the signal and its delivery (`thread_suspend` then waits for ever), a
target that is cleaned up a second time (it is still on `all_threads`, and the first clean-up
kept its `linking_lock`), and one that was given up on, whose count stays too high.

## What is proved

Checked by TLAPS for any finite set of threads (any set at all in `FlushSynch` and
`PrivateFlush`; any finite set of addresses in `HeapUnits`; any tags, width of a tag, initial
size and load factor in `Hashtable`) and any spin count, nesting, number of flushes, of
fragments or of signals. Every safety invariant and every refinement that a passing run
checks is a theorem here. For each module the inductive
invariant comes first, then what follows from it.

* `MutexLockProofs`: `TypeCorrect`, `Exclusion`, `Accounting`, `Refinement`. The
  invariant is the conjunction of type correctness, "the word is the number of
  requesting threads minus one" and "a held lock's owner is unique". Exclusion alone is
  not inductive: that a compare-and-exchange from -1 meets no owner follows from
  the count. The cardinality facts are lemmas of their own (`OneMoreRequest`, `OneLessRequest`).
* `LockProofs`, readers-writer locks: `Exclusion`, `KnownWriter`, `ExactCount`, `Refinement`
  (of `ReadersWriter`, on both paths). What the mutex guarantees is `MutexLockProofs!IInv`; on top of it
  comes which place in the mutex goes with which place in the rwlock (`PlaceIn`), that
  `num_readers` never misses a reader (`Counted`: it may be too large, by the leak of the
  default path), and that a writer is alone from the moment it has *seen* no reader
  (`Alone`), one step before it stores its name in `writer`.
* `LockProofs`, recursive locks: `Nesting`, `RecursiveRefinement`. `NestingIsExact` needs to be told
  where a thread is that has the mutex and is not yet, or no longer, the `owner`.
* `FlushSynchProofs`: `TypeCorrect`, `Handshake`, `Frozen`, `Fresh`, `Refinement`.
  The invariant `HandshakeInv` has a part about the flusher (`FlusherOK`: the stages
  are the flusher's, it waits for a listed thread that it has asked to stop) and
  one per thread (`ThreadOK`: could_be_linking is a matter of place; it
  and wait_for_unlink together mean that the flusher is waiting for this thread; a raised
  event has exactly one thread to consume it; a held thread is stopped or told to
  stop). `FrozenDuringFlush` alone is not inductive: a thread that leaves
  `wait_with` must be known not to be held. Both clean-up settings are covered:
  the lock that is left held costs progress, never exclusion.
* `PrivateFlushProofs`: `Unreachable`, `Deleted`, `ProtocolKept`. The last says that
  every step of `PrivateSpec` is one of the handshake, so its theorems hold here
  too; from them it follows that the owner is stopped while the flusher marks its
  fragments. The strengthening is what the owner relies on when it looks at
  its queue (`Queued`): what was unlinked lies in a marked area, and the queue says so.
* `SharedDeletionProofs`: `FreedWhenUnused`, `CountsAreExact`, `ListsAreSorted`,
  `ListedOnce`, `FreedOldestFirst`. A thread keeps a fragment from being freed by not
  having signed off on the time of its list entry (`Safe`); whatever a thread runs or is about
  to enter is safe in this sense (`HoldsSafely`). That no walk frees such an entry rests on the
  exact count: a walk by u decrements an entry to zero only if u was the one thread
  still to sign off. The hard case is the flusher that signs off for
  a thread found in a system call, and `AsleepInSyscall` is what makes it right: should that thread
  have left the call since, it has dropped what it ran, and the gate keeps it from
  anything new. `TimesOK` keeps every time on a list behind the clock. The
  early exits of the walks are right because the older an entry, the fewer threads it
  waits for (`OlderFewer`), and so entries are freed oldest first. The comment at
  `core/vmareas.c:9212` expects a later entry to reach zero first, "due to
  -syscalls_synch_flush"; as the port does it that cannot happen.
* `ThreadSynchProofs`: `SynchTypeCorrect`, `ClaimsCounted`, `EndedSafely`,
  `AfreshSuspended`, `OwnSignalsOnly`, `LastOneExits`, `SuspensionImplemented`. The invariant
  follows a suspension through its four turns (suspended, woken, awake, resumed) from
  both sides: `SuspensionOK` says what the flags of a thread tell of its
  handler, `StageOK` what the thread that suspends it may conclude, `SignalsOK` on whose
  behalf a pending signal was sent, `DoneOK` which threads a loop over
  the others has dealt with. That the target cannot be in two hands at once is
  `thread_initexit_lock` (`LocksOK`, `OneAtATime`). `ClaimsCounted` counts the claims as sets,
  one more or one less per step (`Claimed`, `Unclaimed`).
* `HeapUnitsProofs`: `UnitTypeCorrect`, `NoUnitLost`, `AnsweredExactly`,
  `WalkStaysOnUnits`. `UnitIInv` says that units are listed once, that dead ones are of normal size,
  that the vector is what is marked, unless it is known to be stale (`Covered`), that the vector's
  own unit is a large one (`BufOK`), that places and locks agree, and that no unit is on its way to
  being freed twice (`FreesOK`). Two lemmas carry most of it: what
  creating and what freeing a unit does to the heap, memory running out
  included (`CreateUnitIs`, `FreeUnitIs`). On top of it `WalkOK` says what a walk has
  before it: units not yet marked are all `Ahead`. The vector
  may grow in the middle of it and free its old unit and take another, and that is
  harmless because the vector's unit is large and therefore never a dead one come back: it is
  new, and a new unit marks the vector stale, so that another walk follows. `AnsweredExactly` has
  the hypothesis that the vector takes no shared unit (`"unit" \notin Needs`), and
  only that one: without it the statement is what finding 3 refutes. `NoUnitLost` and
  `WalkStaysOnUnits` hold with and without. `WalkSurvives` is not inductive either: that a walk is
  on its list at every step is part of `WalkOK`, except after low-memory handling has
  given back the whole dead list (finding 12).
* `HashtableProofs`: `Invariance`, `Types`, `Counters`, `Lookups`, `ThresholdKept`,
  `Refinement`. The
  invariant is `Sound`: a tag is in the array once, on the way of a probe from its own hash
  no slot is empty (`Chained`), `entries` and `unlinked_entries` count what is there, and
  together they stay within the load threshold (`Limit`), which leaves a slot free. Three loops are behind it. *Closing a hole*: slots are looked at in the
  order of the ring from the first hole (`Offset`, `At`), and the loop invariant `Closes` says
  that the present hole is the only empty slot that may cut an entry off, and only one
  that the loop has not reached; when it reaches an empty slot there is none left
  (`ClosedChained`). `RingOfThree` is why the three cases of the code's condition
  are the right ones. *Range removal*: a turn removes an entry or goes down one slot,
  so (filled slots, position) descends and the walk ends; what it has passed stays clean
  (`Behind`) unless closing a hole wrapped around the end, and then the walk starts over
  (`WalkedBehind`; without that the mutant `WalkedOnePass` leaves entries). *Rehash*: after slot i the
  new table holds the real entries of the slots up to i, which are no more than the threshold of
  the old table, and its own is not lower. That a threshold leaves a slot free, and that a larger
  table has a higher one, which is what saves a table that stops growing at its maximal
  size, is arithmetic on the load factor (`ThresholdLeavesRoom`, `Limits`, `NewBitsFit`); it
  needs that a new table takes at least one entry (`LoadAssumption`). `Refinement` lets only a
  table with a maximal size be emptied. The functions of the model are recursive, and
  the recursion equations come from the existence of such functions (`Iterates`, `Descends`),
  which rests on the library's theorem that the order of the naturals is well-founded:
  sets take the place of the predicates of an induction. The theorems have the hypothesis
  `PrivateUnbounded`, that no thread's own table has a maximal size, which is the default
  (`core/optionsx.h:924-929`);
  with one TLC refutes them (finding 11).

Assumptions: the named ones of the modules (`NoThread`, `NoUnit` and the like are not
members of their sets, bounds are natural numbers, sets that are counted are finite; for
`ThreadSynch` threads are numbers). Those about the three locks, but for type
correctness of the mutex, have the hypothesis `Build = "X86"`, the contract that `core/Arm/arm.s` does not
keep; the ARM build refutes them. As everywhere in these models, memory is sequentially consistent.

Only model-checked is liveness: `LockIsGranted`, `WriterGetsIn`, `LiveFlushCompletes`,
`StoppedThreadsResume`, `ExitEnds` and `AreasLockReturned` rest on fairness and ENABLED, which
the prover does not support.

## Findings

Places where the code does not do what a comment beside it says. Three are the
subject of a violation run:

1. `core/Arm/arm.s:68`: a failed compare-and-exchange reports success or loops
   (`mutex_arm`). Under it `mutex_trylock`, the spin path and the contended wait all
   hand out a held lock.
2. `core/fragment.c:5998`: `enter_threadexit` keeps `linking_lock` (`flush_exit`).
3. `core/heap.c:2655`: a dead unit that comes back to life does not mark the areas stale.
   When the vector grows into such a unit during a walk, neither half of the walk
   meets it, and queries are answered without it (`heap_reuse`), against the comment at
   `core/heap.c:2392`.

The others were met on the way and have no run of their own. Four of them, and finding 15,
are stated as properties in the modules, which TLC refutes:

4. `core/fragment.c:5600`: `enter_nolinking` no longer tells that the target was
   flushed (`SharedDeletion.EntersUnflushed`; `core/fragment.c:5833` says it does). The stale
   fragment is still not freed under the thread (`NoUseAfterFree` holds), since the
   thread has not signed off.
5. `core/fragment.c:5978`: no sign-off at synch points
   (`SharedDeletion.SynchPointSignsOff`; `core/fragment.c:6422` counts on it): memory is
   kept, not corrupted.
6. `core/utils.c:1160`: `read_lock` counts contended readers in `num_readers`
   (`RWLock.PendingReadersCounted`; `core/utils.h:264`): on the default path, once a reader
   has contended, the next writer waits for ever. Exclusion is not affected.
7. `core/fragment.c:6496` "must squash the trace": `trace_abort` has lost what it cleared
   (`core/monitor.c:2467-2489`), so a trace with a flushed block can be emitted
   (`PrivateFlush.EmitsNoFlushedBlock`).

The rest was read off the code while modelling:

8. `core/utils.c:926`: `mutex_unlock` returns without notifying when the decremented word
   is 0, that is when one request is outstanding, and notifies when it is -1 (against
   the comment at 932). No effect on Linux, where the notification is empty.
9. `core/synch.c:869`: the jump out of a loop that has run too often passes over "reset
   this back to before" (line 996): the count stays one too high, and the target waits
   at its next safe spot for ever. `PendingExact` counts such cases exactly.
10. `core/linux/os.c:2242`: a target that executes SYS_exit after it was signalled and
    before the delivery makes `thread_suspend` wait for ever.
11. `core/hashtablex.h`, a private table at its maximal size (only with an option that
    sets one): grooming leaves `entries` too high when room is made ahead (against the
    comment at 920-925), and markers can fill the table, so that a lookup of an absent
    tag never ends. The `hashtable` run therefore bounds the size of a shared table
    only; with such a private table added to its `Config`, TLC refutes `CountsExact` and
    `LookupsEnd`, whose proofs exclude it by the hypothesis `PrivateUnbounded`. `unlinked_remove` counts an unsigned index down with `i >= 0`
    (line 1527) and never ends; it is used only with two options that are off.
12. `core/heap.c:2488`: when memory runs out in the walk over the dead units, low-memory
    handling frees the units that are being walked (`WalkSurvives` allows exactly that).
13. `core/heap.c:1287`: `vmm_heap_alloc` keeps its reserved blocks when the commit fails.
14. `core/fragment.c:6000`: `enter_threadexit` empties the queue of a thread that need not be
    couldbelinking, with `linking_lock` held. If that deletes the last fragment of a
    trace in progress, `trace_abort` calls `enter_couldbelinking`
    (`core/monitor.c:2456`), which takes the lock again.
15. `core/fragment.c:730`: the groom factor of an IBL table is set after the threshold was
    computed from it (`core/hashtablex.h:368`, 378 and 519), and nothing computes it again, so
    that the threshold is always 0 and the factor has no effect, against the comment at 727, "every
    time we resize a table we reset the flush threshold" (`Hashtable.GroomThresholdReset`). Such a
    table is as correct as one with the factor 0; it is never groomed before it is full.

## Not modelled, and why

Code generation, options, statistics, the client API and the tools are sequential data
transformations that gain little from a model checker, and they are most of the
tree's lines; persistent caches, hot patching and the Windows port are not part of this
build, and `RunningVersion` is a second copy of the same code. Linking, cache units,
nudges and the delivery of application signals are left for later, as the plan says.
Inside the modelled components:

* mutexes: the spin locks and `mutex_fork_reset`. Memory ordering is taken as
  sequentially consistent.
* flushes: those that suspend all threads (`flush_synchall`), the reset at a flush time
  threshold, unit flushing, `remove_from_lazy_deletion_list`, and the executable-areas
  lock held between stages 2 and 3. `fragment_delete` has lost its body in this port: "freed" and
  "deleted" in the models mean that a fragment was given to it.
* synchronization: `synch_with_all_threads`, of which everything after its first call is
  commented out (`core/synch.c:1306-1440`); requests to set another thread's context;
  threads that have called execve; the last group of a process. The `printf` at the
  start of many functions takes a lock inside the C library, which a thread suspended at that point
  keeps; the model has no such lock.
* hashtables: the second table for lockless lookup, the dead tables of resized shared
  tables and their reference counts, and the payload of entries.
* heap: units inside the reserved region (which are never in the vector), merging of
  adjacent areas, commitment, free lists. Normal units have one size here, which makes the sorted list of dead
  units a stack.

## Running

    tlc -config FlushSynch.cfg MCFlushSynch
    tlapm FlushSynchProofs.tla

The proofs take between seconds (`MutexLockProofs`) and two to three minutes
(`HashtableProofs`, `HeapUnitsProofs`, `SharedDeletionProofs`, `ThreadSynchProofs`) each from
nothing.
