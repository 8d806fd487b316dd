# A TLA+ model of the Loh runtime

Loh is a superset of Python built on CPython. Its source tree is an interpreter
(`src/Python`, `src/Objects`, `src/Parser`), a standard library (`src/Lib`) and
the Loh additions to both. Most of the program is sequential code that tests
reach well. What they reach badly is the layer on which threads meet: the locks
of `Python/lock.c`, the parking lot below them, the critical sections and the
stop-the-world pauses above them, the GIL, and the parts of Loh's own runtime
that call back into Python code between two of their steps. These modules are
about that layer.

## Inventory

| part | source | state | operations | what makes it hard | what makes it right |
|---|---|---|---|---|---|
| `_PyRawMutex` | `lock.c:183-244`, `pycore_lock.h:97-123` | one word: LOCKED and a stack of wait entries that live on C stacks | lock, unlock | entries are read and posted by other threads; no hand-off | exclusion, no lost wakeup, no entry used after its owner left |
| parking lot | `parking_lot.c` | 257 buckets: a raw mutex, a queue of waiters | `Park`, `Unpark`, `UnparkAll` | compare-and-sleep, waits that time out or are interrupted while being woken | no lost wakeup, no post to a waiter that left |
| `PyMutex` | `lock.c:52-181` | one byte: LOCKED, HAS_PARKED | `LockTimed`, `TryUnlock` | barging, spinning on a stale value, timeouts, signals, direct hand-off | exclusion, no lost wakeup, hand-offs arrive, fairness after 1 ms |
| `_PyRWMutex` | `lock.c:426-530` | count of readers, HAS_PARKED, WRITE_LOCKED | `RLock`, `RUnlock`, `Lock`, `Unlock` | everybody is woken at once and decides from the bits | readers xor writer, nobody forgotten, writers are preferred |
| `PyEvent`, `_PyOnceFlag` | `lock.c:246-357` | one byte | notify, wait, call once | set while a waiter is about to park; the function fails | waiters return, one success |
| thread handles | `_threadmodule.c:67-593` | state, reference count, an event, a once flag | start, join, set done, the thread's own begin and end | several joiners, a failed join, the last reference dropped by the thread itself | the OS thread is joined or detached once, joins return, the handle outlives its users |
| critical sections | `critical_section.c`, `pycore_critical_section.h` | per thread, a stack of sections with one or two mutexes | begin, end, suspend all, resume | sections are suspended whenever the thread detaches, also half way through a resume | a section owns its mutexes while it runs, no deadlock |
| thread states, stop-the-world | `pystate.c:1538-1657, 1849-1960, 2130-2440` | state of each thread, one record per pause | attach, detach, suspend, create, delete, stop, start | a countdown kept by several threads; threads come and go; pauses nest over scopes | a stopped world is stopped, the countdown is exact, pauses come about and end |
| GIL | `ceval_gil.c:163-418`, `pylifecycle.c:2062-2083` | locked, last holder, switch number, a drop request per thread | take, drop, request a drop, shut out daemon threads | timed waits, forced switching, threads that exit while they ask | one holder, turns are taken, no waiter is starved, no thread that was shut out runs again |
| pending calls | `ceval_gil.c:696-976` | two bounded queues, who handles them | add a call, make calls | calls run Python code that adds calls | each call is made once |
| QSBR | `qsbr.c`, `pycore_qsbr.h`, `obmalloc.c:1132-1440` | write and read sequence numbers, one number per thread in an array that grows, queues of delayed frees | retire, poll, attach, detach, abandon, collect | readers attach and come and go while a scan runs, polls race | memory is freed after its last reader |
| biased reference counts | `brc.c`, `object.c:371-491`, `refcount.h` | two counts, an owner and a state per object; per thread, objects to merge | incref, decref, try-incref, queue, merge, remove thread | three ways to merge race; the owner exits while others queue | the counts add up, the object dies once and is not touched later, and it does die |
| Loh lazy objects | `bltinmodule.c:3854-4028` | callback, value | any operation on the proxy | arbitrary code runs between test and assignment | one result for everybody |
| Loh star assignments, rescue | `bltinmodule.c:3343-3851` | the target container | assign several keys | a key fails after others were set | all or a prefix is assigned |
| Loh syntax | `Parser/action_helpers.c`, `Python/symtable.c` | none between calls | rewrite trees | long but sequential | the tests under `Lib/test/test_loh` |

How the parts interact: `PyMutex`, `_PyRWMutex`, `PyEvent` and `_PyOnceFlag` put
threads to sleep through the parking lot, whose buckets are protected by
`_PyRawMutex`. A thread that sleeps in the parking lot detaches, which suspends
its critical sections; when it attaches again the top one is resumed. A pause
(`stop_the_world`) takes a `PyMutex` and the `_PyRWMutex` over pauses, sets a bit
in the eval breaker of the other threads, and waits on a `PyEvent` that the last
of them notifies; a thread that attaches while it is suspended parks on its own
state. QSBR attaches and detaches with the thread; its array grows in a pause. A
thread that drops the last shared reference of another thread's object queues the
object for it under a `PyMutex` and sets a bit in its eval breaker, or stops the
world when it cannot. The collector empties both kinds of queues in its pauses. In
the default build attaching is `take_gil` and detaching `drop_gil`.

## Modules

| module | models | abstraction it rests on |
|---|---|---|
| `Lock` | what a mutex promises (abstract specification) | |
| `RawMutex` | `_PyRawMutex`, refines `Lock` | a semaphore is a count |
| `RawMutexSignals` | the same with semaphore waits that a signal interrupts | |
| `ParkingLot` | the parking lot, as steps that a lock on top of it conjoins with its own | a bucket's `_PyRawMutex` is its owner |
| `PyMutex` | `PyMutex` on `ParkingLot`, refines `Lock` | |
| `RWLock` | what a readers-writer lock promises (abstract specification) | |
| `RWMutex` | `_PyRWMutex` on `ParkingLot`, refines `RWLock` | |
| `HandleLife` | what a thread handle promises about its OS thread (abstract specification) | |
| `EventOnce` | `PyEvent` and `_PyOnceFlag` on `ParkingLot`, as steps for a program that calls them | |
| `ThreadHandle` | thread handles on `EventOnce`, refines `HandleLife` | the handle's mutex protects single accesses; a method is called only while the object is alive |
| `CriticalSection` | critical sections, attach and detach | a `PyMutex` is its owner |
| `ThreadStates` | what `StopTheWorld` and `Gil` have in common: the threads, and the null thread state | |
| `StopTheWorld` | thread states and pauses | `PyMutex` is its owner, `_PyRWMutex` its readers and writer, `PyEvent` a flag |
| `LohLazy` | `_LohLazy` | a callback may do anything and return any value |
| `Gil` | the GIL of the default build | what is done under `gil->mutex` or `switch_mutex` is one step |
| `Qsbr` | QSBR and the queues of delayed frees | one published block at a time; the world is stopped when all others are detached |
| `Brc` | biased reference counts and their queues | one object; a `PyMutex` is its owner; a loop around an exchange is the exchange that succeeds |
| `RawMutexProofs`, `PyMutexProofs` | theorems: the safety properties of the mutex, and that it implements `Lock` | |
| `RWMutexProofs` | theorems: the safety properties of `RWMutex`, and that it implements `RWLock` | |
| `CriticalSectionProofs`, `QsbrProofs`, `BrcProofs` | theorems: the safety properties of the module | |
| `ThreadHandleProofs` | theorems: the safety properties of `ThreadHandle` and of `EventOnce` in it, and that it implements `HandleLife` | |
| `ThreadStateProofs` | theorems: the safety properties of `StopTheWorld` and of `Gil` | |

`MC*` modules give the constants model values; each `.cfg` is one run.
A definition whose comment begins "Faulty variant" is not part of any
specification. It is the definition below it with a plausible mistake, kept so
that one can see which property notices that mistake (the `mutants` of
`PROJECT.json` put it in the place of the correct definition).

### State and steps

The grain in the locks is the atomic operation. `pc[t]` is the place of thread
`t` in the C function it is in, `v[t]` is the local variable with the value it
loaded, and one action is one load, compare-exchange or store of the shared word
together with the local computation up to the next one. In the parking lot,
everything done under the bucket mutex that touches only the bucket is one step.
The comparison `*addr == *expected` is a step of its own (`ParkCompare`), because
threads that do not take the bucket mutex change the word between it and the
enqueueing (`ParkEnqueue`); `mutex_unpark` runs inside `Unpark`, as in the code.
The semaphore of a waiter is a count, and a failed wait (`WaitFails`) is possible
while the count is zero: an interrupt for any thread at any time, a timeout in
timed calls only.

All atomic operations are sequentially consistent in the model. The code uses
relaxed loads for the first look at `_bits`, each followed by a compare-exchange
or by `Park`'s sequentially consistent comparison, so a stale relaxed load is
one more reason for the exchange to miss.

`EventOnce` keeps that grain. `_PyOnceFlag_CallOnce` loads the flag twice before
it does anything; the two loads are one, because `_Py_ONCE_INITIALIZED`, the only
value the first asks for, stays. `ThreadHandle` adds the calls: `call[t]` is the
operation of the handle a thread is in, `addr[t]` the event or flag it is about.
`Runner` is the thread the handle is for, "body" its Python code, which may join
or declare done its own handle. `object` says that the Python object is alive; it
dies when no method of it runs, at any time after that, and drops its reference.
An OS call that fails (`FunctionFails`, `CreateFails`) is an outcome of its step.
`HandleLife` is the diagram of states above `ThreadHandleState`, and the promises
of the comment below it: whether the OS thread was created (`created`), how often it
was joined or detached (`reaped`), whether all joins return at once from now on
(`settled`) and whether the memory is gone (`freed`). `Life` in `ThreadHandle` says
where these are in the code.

`CriticalSection` has one step for each call that can block. A section that
begins and one that is resumed look the same: the section on top has NULL in its
fields while `PyMutex_Lock` is called on its mutexes in turn; `pending` and
`taken` say how far that is. `PyMutex_LockFast` followed by the push of the
section is not distinguished from the slow path, nothing happens in between.

In `StopTheWorld` what is done under `HEAD_LOCK` is one step, with one exception:
attaching takes no `HEAD_LOCK`, so a round of `park_detached_threads` can be
overtaken by threads that attach between its load of their state and its
exchange (`late`). A thread that waits for a lock is detached and comes back
when the lock is free or was handed to it.

`LohLazy` has a step for a use of a resolved object, for the call of the
callback, and for its two ways to come back; `MaxDepth` bounds the callbacks of
one object that one thread can be nested in.

`Gil` and `StopTheWorld` extend one module, so that one module of proofs can extend
both; where both would have a definition of the same name that of `Gil` is prefixed
(`gilPc`, `GilInit`, `GilSpec`). They are not composed: the GIL is the default build's,
the pauses are the free-threaded build's.

In `Gil` a step is what is done between a lock and an unlock of one of the two
mutexes, except that the bit of the drop request is read and written outside of
them too (`LookAtRequest`, `Withdraw`). A wait on `gil->cond` is timed, so it can
end at any time and needs no signal in the model. The wait on `switch_cond` ends
when `Take` signals it, or by a `SpuriousWakeup`, since the code does not test
`last_holder` again. The switch number is compared for equality with one saved
value only, so the model keeps, for each thread that waits, whether it has changed
(`switched`). `Take` and `RequestDrop` are apart, although both come after the same
wait: which of them it is depends on `locked`. `shutDown` holds the threads whose
state is SHUTTING_DOWN: `Finalize` puts there the states that exist, and a state
made later (`CreateState`) is not among them. `owesTurn` is a history variable that
no guard reads: the thread that has dropped the GIL and found a request, until
another takes the GIL or a spurious wakeup lets it go.

`Qsbr` has one published pointer. `Read` borrows the block it points to, `Replace`
puts a block in its place that malloc has to give, and `RetireAdvance`,
`RetireNext` and `RetireStopped` are the ways through `free_delayed`. Every load
and store of a sequence number is a step of its own: the two halves of
`_Py_qsbr_attach`, the slots that a scan reads one after the other, the load of
`rd_seq` and the exchange. A queue is a sequence of blocks and goals, the buffers it
is cut into are left out. That `wr_seq` ends at `MaxSeq` is the bound of the model.

In `Brc` `refs` counts the references that exist outside of the functions of the
module; a thread takes one in hand to drop it or to make another. `local` and
`count` are the two fields, `flag` the two bits. The owner's load and store of
`ob_ref_local` are two steps. "abandoned" is the critical section of a bucket in
which the object of a thread that has exited is merged: the only one that takes
more than one step, since a new thread can get the same id meanwhile (`Bind`).
`target` is the `ob_tid` that was loaded before the bucket was locked.

## Runs

Bounds: the constants of each `.cfg`. Three threads are the least number with
an owner, a waiter and a thread that barges in; a fourth in `RawMutex` gives a
stack of two waiters, an unlocker and a thread that barges in.

| run | instance | shows |
|---|---|---|
| `mutex` | 3 threads, 2 mutexes that share a bucket, `MAX_SPIN_COUNT` 1; one thread's waits can be interrupted, one's have a deadline, one only tries; fairness; 199,490 states | exclusion (also in a hand-off), no lost wakeup, no post to a waiter that left, hand-offs arrive, refinement of `Lock`, fairness of the hand-off |
| `raw_mutex` | 4 threads, symmetry; 12,157 states | the stack holds the sleepers, no entry is used after its owner left, no lost wakeup, refinement of `Lock` |
| `raw_mutex_signals` | 2 threads | **violated**: see Findings |
| `rwmutex` | 3 threads, 1 lock, fairness; 63,438 states | readers xor writer, nobody forgotten, writers are preferred and get in |
| `thread_handle` | the thread and 2 others, fairness; 245,873 states | refinement of `HandleLife`: the OS thread is reaped once; the handle outlives its users, the once function runs alone and finds the state it expects, sleepers are announced, joins return |
| `critical_section` | 2 threads, 3 mutexes, nesting 2, fairness; 68,000 states | sections own their mutexes, hold-and-wait is ordered, everybody gets in |
| `stop_the_world` | 3 threads in 2 interpreters, fairness; 269,164 states | stopped means suspended, the countdown is exact, pauses exclude, nobody is left suspended, a pause of the runtime comes about |
| `loh_lazy` | 2 threads, 2 results, nesting 2 | **violated**: see Findings |
| `gil` | 3 threads, fairness; 52,905 states | one holder, the one that is named; a forced switch is waited for only while it is to come; who sees a request gives way before it has the GIL again; who was shut out does not run; no monopoly |
| `gil_exit` | the same | **violated**: see Findings |
| `qsbr` | 2 threads, 3 blocks, an array that starts with 1 slot, `wr_seq` up to 7, symmetry; 604,774 states | no use after free, goals are held back by borrowers, the read sequence never falls |
| `brc` | 3 threads, 3 references, fairness; 25,517 states | counts add up, nothing is written after the death, the queue is served, garbage is reclaimed |

The type invariant of a module (`TypeOK`) is the first conjunct of one of its
invariants (`StackIsWaiters`, `ReadersXorWriter`, `OwnsWhatSectionsName`,
`CountdownIsExact`, `HandleOutlivesUse`, `HolderIsKnown`, `BorrowersHoldBackGoals`,
`CountsAddUp`); that of `PyMutex` is a theorem.

Why these bounds are enough. In `mutex` two mutexes share a bucket, its raw mutex and
its queue. Three threads are too few for `has_more_waiters` to count a waiter of the
other mutex, which needs an owner and waiters of both: that nobody is forgotten then is
not among what this run shows, but `NobodyIsForgotten` in `PyMutexProofs` is for all
numbers of threads. `MAX_SPIN_COUNT` 1 has both a spin and an exhausted spin, the
other 39 repeat the first. `Modes` gives each thread one kind of call, which is what keeps
this instance within reach of a liveness check; the proofs are for every `Modes`. In
`thread_handle` two threads besides the handle's own are what it takes for a join
that fails while another waits for its turn, after the thread has gone; the three
addresses share a bucket. In `critical_section` three mutexes are needed for two
sections that share one, and a nesting of two for a section below the top that is
suspended and resumed later. In `stop_the_world` two threads in one interpreter and
one in another make the pauses of an interpreter and of the runtime differ in scope.
In `gil` three threads are a holder, one that waits for the switch and one that asks,
or the finalizing thread and two others: daemons that it shuts out, or threads that
get their state after that. In `qsbr` three blocks let two be retired
while a third is published, the array grows from one slot to two, and `wr_seq` can
advance three times, so that goals made by `_Py_qsbr_advance` and by
`_Py_qsbr_shared_next` lie behind each other; that a third thread polls adds nothing
the proof does not cover. In `brc` three threads are the owner and two that drop
references or merge at once; with three references the shared count can become
negative and come back (the local one is never negative).

### Fairness

Weak fairness of a thread's own steps stands for a scheduler that runs every
runnable thread. A holder unlocks, and code inside a critical section comes to
its end: the code's contract with its callers. Never assumed: that calls are made,
that signals or deadlines come, that time passes, that a thread detaches, or, but for
`CriticalSection`, that a detached thread attaches. Some assumptions are stronger or
are premises of the property itself.

- `WaitFailuresStop` (in `FairHandOff`) and `InterruptionsStop` (in
  `WritersGetIn`): waits that fail and start again for ever can keep the owner out
  of the bucket, whose raw mutex is not fair.
- `FailuresStop` (in `JoinsReturn`): waits are not interrupted for ever and the OS
  calls do not fail for ever; after a failure the once flag goes to whoever takes
  it first. The function that the thread runs comes to its end.
- In `CriticalSection` a thread that tries to lock a mutex again and again gets it
  (strong fairness): that is the hand-off `FairHandOff` shows. A detached thread
  attaches again (weak fairness of `Attach`): what it detached for comes to its end.
- In `StopTheWorld` a thread that runs Python code comes to the check of the eval
  breaker (strong fairness of `HandleStop`, because it may detach and come back
  before the check), and of infinitely many rounds, one each millisecond, one is
  not overtaken by a thread that attaches between a load and an exchange (strong
  fairness of `Round(t, {})`). A thread is in one of these two places at a time, so
  the formula has one strong fairness of their disjunction.
- In `Gil` timed waits end, and a thread that runs Python code comes to the check of
  the eval breaker; both are in `GilStep`. It need not drop the GIL unasked, and no
  spurious wakeup is assumed to come.
- In `Brc` the same holds of the check for objects to merge, and a world that is to
  be stopped is stopped (strong fairness of `StopAndMerge`): that is `WorldStops`.
- In `Qsbr` nothing is assumed and no liveness is claimed: a thread that never comes
  to a quiescent state keeps memory from being freed, by design.

Deadlock is checked in every run but `thread_handle`, `gil` and `gil_exit`. A
handle's life ends: its thread is gone, its object dead, and there is nothing left to
do. After finalization every thread that was shut out hangs for ever, and the one that
finalizes can end up waiting for them (Findings).

## Theorems

Every safety property that a run checks of the modules in this table, action
properties included, is a theorem: it holds for every value of the constants.

| module | theorem | statement | for every |
|---|---|---|---|
| `RawMutexProofs` | `TheStackIsTrue` | `Spec => []StackIsWaiters` | set of threads |
| | `EntriesAreAlive` | `Spec => []UnlockerFindsWaiter` | |
| | `NobodyIsForgotten` | `Spec => []NoLostWakeup` | |
| | `LockIsImplemented` | `Spec => ImplementsLock` | |
| `PyMutexProofs` | `TypeCorrect` | `Spec => []TypeOK` | set of threads, mutexes and buckets, hash function, `MAX_SPIN_COUNT`, `Modes` |
| | `OneOwner` | `Spec => []MutualExclusion` | |
| | `PostsAreSafe` | `Spec => []PostedWaiterIsThere` | |
| | `HandOffsAreTaken` | `Spec => HandOffIsTaken` | |
| | `LockIsImplemented` | `Spec => ImplementsLock` | |
| | `NobodyIsForgotten` | `Spec => []NoLostWakeup` | |
| `RWMutexProofs` | `WritersAreAlone` | `Spec => []ReadersXorWriter` | finite set of threads, set of locks and buckets, hash function |
| | `SleepersAreWoken` | `Spec => []NobodyIsForgotten` | |
| | `ReadersQueueUp` | `Spec => WritersFirst` | |
| | `RWLockIsImplemented` | `Spec => ImplementsRWLock` | |
| `CriticalSectionProofs` | `CodeRunsLocked` | `Spec => []RunsOnlyInActiveSection` | set of threads, set of addresses, depth of nesting |
| | `NoMutexIsLeaked` | `Spec => []OwnsWhatSectionsName` | |
| | `WaitingIsOrdered` | `Spec => []HoldAndWaitIsOrdered` | |
| `ThreadHandleProofs` | `NoSleeperIsForgotten` | `Spec => []SleepersAreAnnounced` | set of threads and buckets, hash function |
| | `ThreadIsReapedOnce` | `Spec => []ReapedOnce` | |
| | `HandleIsKept` | `Spec => []HandleOutlivesUse` | |
| | `FunctionsTakeTurns` | `Spec => []OneFunctionAtATime` | |
| | `LifeIsImplemented` | `Spec => ImplementsLife` | |
| `ThreadStateProofs` | `TheWorldIsStopped` | `Spec => []StoppedMeansSuspended` | finite set of threads, their interpreters |
| | `TheCountdownIsExact` | `Spec => []CountdownIsExact` | |
| | `ThePausesExclude` | `Spec => []PausesExclude` | |
| | `EverySuspensionEnds` | `Spec => []NobodyIsLeftSuspended` | |
| | `TheHolderIsKnown` | `GilSpec => []HolderIsKnown` | set of threads |
| | `NoSwitchIsMissed` | `GilSpec => []SwitchIsStillToCome` | |
| | `NoDaemonRuns` | `GilSpec => []DaemonsDoNotRun` | |
| | `SwitchIsForced` | `GilSpec => []TurnsAreTaken` | |
| `QsbrProofs` | `NothingIsUsedAfterFree` | `Spec => []NoUseAfterFree` | set of threads and blocks, first size of the array, bound of the sequence numbers |
| | `GoalsWaitForBorrowers` | `Spec => []BorrowersHoldBackGoals` | |
| | `ReadSeqNeverFalls` | `Spec => GoalsStayReached` | |
| `BrcProofs` | `TheSumIsTrue` | `Spec => []CountsAddUp` | finite set of threads, bound of the references |
| | `QueuesAreServed` | `Spec => []QueueWillBeServed` | |
| | `DeadStaysUntouched` | `Spec => DeadIsUntouched` | |

They rest on the named assumptions of the constants and nothing else: null values
are no threads and no pauses (`NullType`, `NoThreadType`, `NoneType`, `NoneIsNoPause`,
`GlobalType`), the two events and the once flag of a handle are three addresses
(`HandleAddrs`, `EventsType`), constants have their types (`BucketOfType`, `SpinType`,
`ModesType`, `SizeType`, `MutexesType`, `NestingType`, `InterpOfType`, `MaxRefsType`), and, where the model counts threads
(readers, a countdown, references in hand), there are finitely many of them
(`ThreadsFinite` of `RWMutex`, `StopTheWorld` and `Brc`).

Each proof has the same shape. The property is not inductive; `Inv` (`IndInv` and
`WakeupInv` in `PyMutexProofs`) adds what it rests on, as named conjuncts. Each was
model-checked on the instance of its run before it was proved. One lemma for each
action, or for each group of actions that do the same to a conjunct, says that it is
kept. What the conjuncts are needed for:

**`RawMutex`.** The heart is `StackIsKept`: from the head along `next` to the null
pointer there is every waiter, once. Only three things happen to the stack, and each
has a lemma: nothing (`StackUntouched`), a push and a pop. That a step is a pop of the
*first* entry is what the unlocker's local variables must guarantee across an
exchange that other threads' pushes can make miss: `UnlockerIsRight` says that the
entry it loaded is still a waiter and that `rest` is still its `next`, which holds
because it is alone (`OwnerIsAlone`) in taking waiters off and entries on the stack
are not written. `PosterIsAlone` says that a popped entry has one poster and its
thread still sleeps. Semaphore waits end with a post only, here and in these theorems:
with signals the property is false (Findings).

**`PyMutex`.** Who owns a mutex during a hand-off is recorded
in the `wait_entry` of a thread that sleeps, so the invariant must say that a
marked entry belongs to a thread that is inside `Park` and cannot leave without
its post. `IndInv` adds that: `ParkInv` (where a thread is in `Park`, its mark and
its semaphore agree), `WaitersInv` (a queue holds each unmarked waiter of its
bucket once), `PostedWaiterIsThere` (an owed post has its waiter), `HandInv` (a
hand-off is part of an unparking) and `CasInv` (the first exchange is tried on an
unlocked value). Most actions are one of "locals only", "acquires", "releases" or
"moves in the parking lot", with one lemma for each of these.
`NoLostWakeup` needs two facts more (`WakeupInv`). `EnqueuerInv`: between the
comparison and the enqueueing the thread has the bucket's mutex, and `_bits`
still has the value it compared, since whoever would turn HAS_PARKED off needs
that bucket and an unlocker that finds HAS_PARKED goes there too. `InQueueInv`: a
thread that nobody has begun to wake is in the queue of its bucket, so that an
unlocker that finds nobody there leaves nobody behind.
`LockIsImplemented` uses `IndInv` only. `Owns` and `Wants` are the mapping to the
two sets of `Lock`; a handful of lemmas say, in these terms, what a request, an
abandoned call, an acquisition, a release and a hand-off look like, and each
action of `PyMutex` is one of these or changes neither set.

**`RWMutex`.** `BitsCount` relates the bits to who is inside and does not depend on
the queue. `NobodyIsForgotten` does: `WaitersAreAnnounced` (who waits keeps HAS_PARKED
on, or the queue is about to be emptied), `ParkedMeansWriter` (HAS_PARKED without
WRITE_LOCKED is there for a writer, because only a writer turns it on while readers are
inside) and `LastReaderWakes` (when it is on and nobody is inside, the queue is about
to be emptied or such a writer is on its way). The last one is why `RUnlock` must look
at HAS_PARKED exactly when the count comes to zero.
`RWLockIsImplemented` needs `BitsCount` only (`FindsRoom`). `StopTheWorld` rests on it,
which models this lock as its readers and its writer. It is proved without a run of its
own: what it says of single states is `ReadersXorWriter`, which `rwmutex` checks.

**`ThreadHandle`.** The argument goes through the once flag. `FlagShowsFunction`: it
is locked exactly while one thread runs the function. A function that has joined or
detached the thread, or has given up its creation, cannot fail any more (`Succeeds`),
and from then on the flag is `Decided`: it stays locked until it says initialized, for
ever, so nobody else gets a turn. `StateFits` ties the state to that: DONE while there are
references means decided, STARTING that one thread is in the methods, RUNNING that the
thread was created and somebody holds a reference. What a caller read before it waited
for its turn is then still true when it gets it (`CallersFindState`), and
`ReapedWhenDone` counts the reaping by the state and by who is between the reaping and
the state. `RefsAddUp` names who has each reference: the object, boot, the thread;
nobody is in a method of a dead object. That sleepers are announced is argued as in
`RWMutex`, with the byte in the place of the bits. `LifeIsImplemented` follows from
the same invariant: each step leaves what `HandleLife` shows as it is (`Silent`) or is
one of its steps, which the lemmas named `...IsMapped` say one by one. `ReapedOnce` is
what `ImplementsLife` says of single states; the run checks the latter, and both are
proved.

**`CriticalSection`.** `Pile` is about one thread's stack: the active sections are
those above some depth, no mutex is in two of them, only the top one has empty fields.
`Place` says which of these a thread has where, and `OwnersAreNamed` that it owns what
they name and what it has taken for the next one. All of it is said of one thread's
stack, so a step has to be looked at for the thread that makes it; what connects the
threads is that a mutex has one owner.

**`StopTheWorld`.** `LocksAreHeld` and `RequestersRun` say that a pause is run by the
thread that has its mutex, and the runtime's pause has the lock of the pauses for
itself. From these follows that a thread is in the scope of one requested pause at
most, so that a thread that suspends itself counts down the pause that counted it
(`SuspendedByPause`, `CountdownCounts`: the countdown is the number of threads in scope
that are not suspended or are about to report). A thread that is deleted, or attaches
between the load and the exchange of a round, is a change of that set by one.

**`Gil`.** `HolderIsKnown`, `SwitchIsStillToCome` and `DaemonsDoNotRun` are inductive
together, with one fact more: `DebtorIsInDropGil`, the thread that owes the others a
turn is the last holder and still in `drop_gil`, at `switch_mutex` or in the wait.
`TurnsAreTaken` follows, since the thread that has the GIL is not there. It is kept
because `Take` by another thread, which is what ends the wait, pays the debt, and
because between the look at `last_holder` and the wait nobody can take the GIL.
`NoDaemonRuns` is about the threads in `shutDown` and does not assume that the others
are gone: states made after `Finalize` run in these behaviours.

**`Qsbr`.** `NoUseAfterFree` needs that no item is freed whose block somebody borrows,
that is, that no poll finds its goal reached. `BorrowersHoldBackGoals` says so of the
read sequence and of the numbers in the slots. A poll does not look at these at once,
but at one slot after the other while threads attach, retire and poll, so the heart of
the inductive invariant is `ScanInv`: a scan has either lowered its minimum below the
goal of each retired block that is borrowed, or has yet to come to the slot of the
borrower. A thread that attaches behind the scan shows a number, but can only borrow
what is still published, whose goal will lie ahead of every minimum there is
(`SeqInv`). `SlotsInv` says that a slot belongs to one thread or is free and offline,
through growth and reuse; `HeldInv` where threads can borrow; `PollInv` that one
thread at a time is at the interpreter's queue, so that the item a poll was made for
is the one that is freed after it. For each part there is a lemma for each group of
actions (`Places`: slots come and go; `Stores`: numbers change; `Polls`).

**`Brc`.** Three merges race for one object: the owner's own when its count comes to
zero, the owner's from its queue, and that of a thread that finds the owner gone. The
sum is kept because `OneIsQueued` (one reference is on its way to a queue, in it, or
taken from it, and only once), `OwnerCounts` (the local field is nobody's but the
owner's, and empty without one), `OwnerIsAsked` (who pushes or merges does it for the
owner the object has, or finds that it has none by now) and `OwnerMergesAlone` (between
the owner's two stores nobody else is at the merge). `SumIsKept` counts the references
in hand as the cardinality of the set of threads that have one. `DeadIsLeft` says that
nobody has anything left to do to a dead object, from which `DeadIsUntouched` follows.

Only model-checked: `LohLazy`, whose property is violated, and everything about
liveness and `ENABLED` (`FairHandOff`, `WritersGetIn`, `WorldStops`, `JoinsReturn`,
`EverySectionIsEntered`, `NoMonopoly`, `GarbageIsReclaimed`), which is outside what the
prover treats. So is induction over data: the models say "the positions in ascending order" (`Ascending`)
and "a bijection that follows `next`" (`IsStack`) where a recursive filter or walk
would compute them, and the theorems are about these.

## Findings

- `raw_mutex_signals`: `_PyRawMutex_LockSlow` (`lock.c:215`) ignores what
  `_PySemaphore_Wait` returns. "Wait for us to be woken up" (`lock.c:213`) does not
  hold when a signal interrupts `sem_wait` (`parking_lot.c:176`): the thread goes
  back to the top of its loop with its entry still on the stack of waiters. It can
  then push the same entry a second time, or take the mutex and return, after which
  the entry on the stack is a dangling pointer. `_PyParkingLot_Park` handles the
  same result.
- `loh_lazy`: `README.md:1191` says of a lazy object "The result is then cached for
  all future accesses". `lazy_resolve` (`bltinmodule.c:3861-3875`) assigns the
  result without looking whether another thread, or the callback itself, resolved
  the object meanwhile; later accesses then see a different value than an earlier
  one, and the replaced value is never released.
- `gil_exit`: `take_gil` of a thread that must exit releases `gil->mutex`
  (`ceval_gil.c:343`) and only then withdraws the drop request it has made (`:351`).
  "Otherwise, drop_gil() can block forever waiting for the thread which exited", says
  the comment in between (`:345`). It can block all the same: between the two lines
  the finalizing thread, which holds the GIL, drops it, sees the request, and waits on
  `switch_cond` for another thread to take the GIL. The other threads hang. The window
  is a few instructions wide, at the end of the process, with a daemon thread that has
  waited for the GIL before. Only a spurious wakeup, or a thread that gets a new state
  and takes the GIL, can end the wait, and neither need come. With the reset before the
  unlock the same instance satisfies `SwitchWaitEnds`.

Two more divergences bound what the properties of `gil` say. They have no run of their
own; each can be seen by putting the formula given in the place of the property in the
instance of `MCGil.cfg`.

- Thread states made after finalization run. `Py_FinalizeEx` sets the states it finds
  to SHUTTING_DOWN (`pylifecycle.c:2079-2082`), which is all that
  `_PyThreadState_MustExit` looks at (`pystate.c:3107-3112`), and neither
  `PyThreadState_New` nor `PyGILState_Ensure` (`pystate.c:2876-2899`) asks whether the
  runtime finalizes. A thread that makes its state later passes the three tests of
  `take_gil` and runs when the finalizing thread drops the GIL. The comments say "no
  other Python thread can take the GIL at this point" (`pylifecycle.c:2087-2088`) and that
  other OS threads will not "be able to create new thread states" (`:2096-2097`); an "XXX"
  at `:2105` has doubts. So `DaemonsDoNotRun` speaks of the threads that were shut down.
  What the comments claim, as the invariant
  `\A t \in Threads : gilPc[t] = "run" => finalizer \in {None, t}`, fails in 8 states:
  one thread takes the GIL and finalizes, another makes its state, enters `take_gil`,
  and takes the GIL as soon as the first drops it.
- A forced switch can be cut short. `drop_gil` waits on `switch_cond` once
  (`ceval_gil.c:270`), while the comment has it wait "until the value of last_holder is
  changed" (`:41-42`). A condition variable may wake a thread that nobody has signalled;
  the thread can then be the first to take the GIL again, its request cleared, and the
  one that asked has to ask again. `TurnsAreTaken` excepts these wakeups. Without the
  exception,
  `[][\A t \in Threads : gilPc[t] = "switchWait" /\ gilPc'[t] # "switchWait" => lastHolder' # t]_gilVars`
  fails in 10 states. `NoMonopoly` holds with spurious wakeups as well.

## Plan

Done: locks bottom up, what is built on them, then the GIL, QSBR and the biased
reference counts, and the proofs of their safety properties. Next, in this order:

1. Lemmas about the steps of `ParkingLot` that `PyMutexProofs`, `RWMutexProofs` and
   `ThreadHandleProofs` have in common.
2. Delayed decrefs: `Qsbr` and `Brc` composed for one object, for the decrefs that a
   thread makes in `PyThreadState_Clear` after it has left the table (`pystate.c:1835`).
3. `PendingCalls`: the bounded queues and `handling_thread`.
4. `LohAssign`: the star assignments and what is left after a failure.

## Not modelled

Weak memory, and the sequence lock that depends on it: `Qsbr` takes for granted what
the fence in `qsbr_poll_scan` and the store in `_Py_qsbr_attach` are there for. Forks;
Windows' `WaitForMultipleObjects` beyond its three results; interpreter finalization
beyond the shutting out of the threads that exist; the joining of threads at shutdown; a
detach that fails in a destructor; pending calls; `PyThreadState_Swap` under a held GIL
and the GIL of the free-threaded build, which can be enabled and disabled; delayed
frees that are decrefs, and destructors in general; mimalloc's pages and their goals;
more than one object in `Brc`, so the local stack of the owner has one element at most.
The cyclic collector beyond its two steps on the queues, and the allocator; the
compiler and parser, the object implementations and the standard library, which are
sequential or single calls as far as this layer is concerned. The Loh star assignments
and rescue are loops that call arbitrary Python code on arbitrary containers: what they
leave behind after a failure follows from their text, and the effort went to the parts
where it does not.

The modules are about some two thousand lines of a source tree of nearly a million.
The rest is for the greater part generated tables and parsers, bindings of libraries,
and types whose operations are single calls under a lock or the GIL.
