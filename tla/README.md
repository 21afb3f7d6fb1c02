# A TLA+ model of DoraOS

DoraOS is a small preemptive kernel for Cortex-M micro-controllers, written in C.  This
directory holds TLA+ models of the kernel and its libraries, the configurations that check
them with TLC, and proofs of their main invariants that TLAPS checks.  `PROJECT.json` links
every definition to the lines it models and lists runs, mutants, findings, hazards and
theorems.

## The system

| part | source | state | operations | module |
|---|---|---|---|---|
| task list | `src/src/list.c` | items in ascending order of a value, a cursor | insert, delete, first, next | `TaskList` |
| scheduler, tick | `src/src/task.c`, `src/src/sys.c` | ready lists and bitmap, two sleep lists, tick, next wake tick, status bits, current task, lock | sleep, wait, wake, set priority, lock/unlock, `dos_tick_update`, `dos_scheduler`, PendSV | `TaskSched` |
| life of tasks, priority table | `src/src/task.c`, `src/include/task.h` | control blocks and stacks, recycle list, table of more than 32 priorities | create, delete, exit, recycle | `TaskLife` |
| semaphore | `src/src/sem.c` | count, pend list | create, delete, pend, post | `Sem` |
| mutex | `src/src/mutex.c` | count, owner, saved priority, pend list | create, delete, pend, post | `Mutex` |
| message queue | `src/src/queue.c` | two token counts, two pointers, two pend lists | create, delete, read, write | `Queue` |
| event flags | `src/src/event.c` | flags, pend list | create, delete, wait, set | `Event` |
| software timers | `src/src/swtmr.c` | two timer lists, command queue | create, start, stop, delete, overflow, timer task | `Swtmr` |
| memory heap | `src/mem/mem.c` | list of nodes | init, alloc, free | `MemHeap` |
| memory pool | `src/mem/memp.c` | free list, count | create, alloc, free | `Memp` |
| log | `src/common/salof` | byte ring, two mutexes, one message buffer | create, write, read, log, the idle task | `Fifo`, `Salof` |

Everything hangs on the scheduler: the kernel objects block tasks with `dos_task_wait` and
free them with `dos_task_wake`, the tick handler ends timed waits, interrupt handlers post.
Critical sections are short stretches with interrupts disabled.  What makes the code hard:

* a task that times out becomes ready but stays on the pend list of the object until it
  runs again, so a post can still find it there;
* `dos_scheduler` runs with interrupts enabled after most calls;
* the 32-bit tick wraps, and `dos_next_wake_tick` is a cached value;
* priority inheritance moves ready tasks between lists;
* many operations touch shared state outside any critical section: all the deletes, the end
  of `_dos_queue_handler`, the scan of `dos_event_set`, `dos_mem_free`, the memory pool, task
  creation, exit and recycling, the message buffer of the log.

The list of hazards in `PROJECT.json` gives each at its line, with the property that
watches it.

## Modules

A critical section is one step; so is a stretch of code that shares nothing.  Where the
code leaves interrupts enabled, each access to shared state is a step of its own.

**`TaskList`** - a list is the sequence of its items; a list whose cursor (`task_item`)
matters is a record of the sequence and the cursor.  `InsertItem`, `DeleteItem`,
`FirstItem` and `NextItem` are the functions of `list.c` and the two getters of `task.c`.

**`TaskSched`** - one action for each kernel call of a task (`Sleep`, `Yield`, `Wait`,
`WaitReturn`, `Post`, `Lock`, `Unlock`), the boot (`Create`, `StartRun`), the tick handler
(`TickStart`, one `TickWake` for each iteration of its loop, `TickEnd`, `TickLeave`), a
device interrupt that posts (`DeviceISR`), and `PendSV`.  `dos_scheduler` with interrupts
enabled is two steps (`SchedRead`, `SchedCheck`): it reads the highest ready priority, and
later stores it and decides.  One pend list stands for all kernel objects;
`Post(t, restore)` covers semaphore and mutex, with priority inheritance.

**`TaskStatus`** - the status bits as the kernel objects see them: `Blocked`
(`dos_task_wait`), `Woken` (`dos_task_wake`), `TimedOut` (tick handler), `Resumed` (the end
of a timed-out call), and `Runs`, the rule by which a ready task of the best priority runs.
The kernel objects use it in place of the scheduler: a timeout may expire and an interrupt
may come at any time, which is more than the scheduler allows.

**`Sem`** - `Create`, `Pend` and `PendReturn` (before and after the switch), `Post`,
`IsrPost`, `Delete` and `DeleteFree` (the unprotected test and the free), `Sleep`,
`Timeout`.  `posted` and `taken` count the calls that returned `DOS_OK`.  **`SemSpec`** is
the abstract counting semaphore it implements: exact without timed waits and deletion, and
otherwise allowed to lose a token to a call that is waiting, or to the deletion.

**`Mutex`** - several mutexes and tasks with nesting, recursion, inheritance and deletion;
`holds` is what each task was told (pends that returned `DOS_OK`, not yet posted).
`PendFree`, `PendAgain`, `PendWait` and `PendReturn` are the branches of `dos_mutex_pend`,
`PostInner` and `PostLast` those of `dos_mutex_post`.  `Delete` looks at the pend list and
not at the owner, as the code does, and `DeleteFree` frees; whether the deleting tasks keep
to mutexes that they hold is part of the usage (`own`).  The 16-bit count is kept modulo
`CountMod`.

**`Queue`** - `_dos_queue_handler` in the steps in which it touches shared state: `Enter`,
`Resume`, `Leave`, `Copy`, `Check`, `Wake`, and the increment of a token count as `Load` and
`Store`, because from `Check` on it runs with interrupts enabled.  In an interrupt it is one
step (`IsrOp`).  The counts wrap at `CountMod`, as 16-bit counts do.  Messages are numbered
modulo `MsgIds`, more than twice the length of the queue, so that an old, a lost and a
repeated message are told apart.  `fault` records a call of `dos_task_wake` with `DOS_NULL`
or the use of a freed queue, after which nothing is modelled.

**`Event`** - `dos_event_wait` before and after the switch, and `dos_event_set` step by
step: `SetFlags` (a critical section), `SetTest`, `SetLock`, then for each item of the list
`SetNext`, `SetTake` and `SetWake`, and `SetUnlock`.  A timeout may fall between any two of
these, and so may an interrupt handler that calls `dos_event_set`: `IsrSet` sets the flags
and counts the items, and each `IsrVisit` visits one; `isr` is what is left, and no task
runs until it is 0.  `fresh` is what the flags stand for.

**`Swtmr`** - the loop of the timer task (`Choose`, `Read` to `ReadStore`, `ReadExpired`,
`Fire`, `Rearm`, `NoneDue`, `Handle`, `HandleDelete`, and `Clear`, the `memset` of a timer
that is already freed), the tick with its overflow message, and the calls that send
commands.  The command queue is the ring of `Queue`, with its counts, pointers and places;
the timer task reads it in the steps of `_dos_queue_handler`.  A command from an interrupt,
or with interrupts disabled, is one step (`Command`); a task that sends with interrupts
enabled takes the steps `Send`, `SendCopy`, `SendCheck`, `SendWake`, or `SendLoad` and
`SendStore`, with ticks and the timer task between them.  `fault` records a
`dos_task_wake(DOS_NULL)`, after which nothing is modelled.  `left` counts the ticks until
each callback is wanted.

**`MemHeap`** - the nodes by address; `dos_mem_alloc` is one step (it locks the scheduler),
`dos_mem_free` (no lock) the steps `Release`, `GoBack`, `GoForward`, `Merge` and `Link`.
`corrupt` is set when a node is looked for where none is.  The call then goes on with
whatever it finds there (`Stray` ends the search or merges with any size), and no further
call is modelled.  **`Memp`** puts a pool into a block of that heap and composes both:
`PoolAlloc`, `Take`, `PoolFree`, `Unlink`, `Put`.

**`TaskLife`** - control blocks and stacks that the heap gives out and takes back,
`dos_task_create` (`Create`, with its test of the priority, `CreateStack`, `GiveBack` where
there is no memory for the stack, `LoadTable`, `Insert`), `dos_task_delete` (`Delete`,
`Unlist`, `Unpend`, `Free`, `FreeStack`), `dos_task_exit` and the recycling idle task, among
sleeping, waiting, ticks and posts, over the two-level priority table of `task.h`.  It does
not extend `TaskSched`, whose set of tasks is fixed.

**`Fifo`** - creation with the rounding of the size, and write and read in their steps under
one mutex each; the indices run freely and wrap at `IdxMod`.  `DOS_MIN` names the difference
of the indices twice and they are not `volatile`, so a build may read them twice
(`SpaceAgain`, `FilledAgain`) or `once`.  A writer that gives up may have been handed the
mutex meanwhile (`Expire`, `GiveUp`) and then keeps it without knowing.  **`FifoSpec`** is
the abstract FIFO of bytes, whose reads are no longer than the reader asked for.
**`Salof`** composes loggers, which format into one global buffer before they take the
mutex, and readers (the idle task) over one `Fifo`.

From `Mutex` on, a variable `usage`, chosen once in `Init`, says how the application uses
the component; one run then covers several usages, and a property names in its premise the
usages it is claimed for.  Operators that a comment calls a fault are not part of the
models: they are wrong variants of the definition that follows them, used to see that each
property notices a plausible mistake in the code.

## Runs

Three tasks are enough for a waiter, a poster and a bystander of the middle priority; two
application tasks and the idle task for `sched_full`, which has the larger state.
`CHECK_DEADLOCK FALSE` stands where the modelled system may stop: all tasks wait for ever,
a bound is used up, or the processor was given to no task (`sched_window`).

| run | shows |
|---|---|
| `sched_full` | every call, a device interrupt, timeouts and a tick that wraps after 3: the inductive invariant `IInv` holds (types, bitmap and lists agree, the sleep lists always switch at the wrap), every task is on the lists its status bits name (`LinkedWhereStatusSays`), no wake-up is missed (`NoMissedWake`), delays end exactly at their tick (`WakesOnTime`) |
| `sched_sleep` | three sleeping tasks, tick modulo 5: the best ready task runs, sleepers wake, tasks of one priority take turns although a better one keeps preempting them |
| `sched_window` | violation: a tick between the two halves of the `dos_scheduler` of a post switches to the task that was woken, which waits again; the post then stores a stale priority and PendSV takes its task from an empty list |
| `sem` | all kinds of waiting, posts from tasks and interrupts, deletion: no idle token, no count above the maximum, the right tasks on the pend list (`SemInv`), no token twice, timed waits end, `SemSpec` is implemented |
| `sem_lost` | violation: a token given to a timed-out waiter is lost |
| `mutex` | two mutexes; everything the calls allow, plain use, deletion by a holder, by the highest task and by a lower one, recursion past the count, timeouts and sleeps with one mutex at a time: mutual exclusion, informed owners, no waiter on a mutex that the highest task deletes, inheritance works and ends, the best task gets its mutex |
| `queue` | tasks that take turns (messages in order, exact counts, best reader served), preemption anywhere (pointers and lists stay right), deletion by the highest task (no waiter is left) |
| `event` | two flags, waits for any and for all: no waiter is missed, flags are exact and serve one clearing wait, the scan ends, the list end is never taken for a task; with an interrupt that sets flags no waiter is missed and the scan still ends; deletion leaves no waiter |
| `swtmr` | a one-shot and a periodic timer over a tick that wraps after 5: with a prompt timer task and commands sent with interrupts disabled callbacks come exactly on time and never after a stop; with ticks at any moment and a task that sends in steps the lists stay right |
| `mem` | a heap of 24 words with and without a pool: blocks of rounded sizes never overlap, exact accounts, no gap and no two free neighbours after any order of frees, the pool inside its block and its free list exact; other sizes, 0 among them, overlap only after a call met an address without a node |
| `life` | three control blocks, four priorities in words of two bits: the best ready task is found, no freed task is listed, stacks are neither lost nor shared, a task that exits is freed |
| `log` | FIFOs of 2 and 4 bytes with indices modulo 8: `FifoSpec` is implemented across both wraps, messages arrive whole, the FIFO drains, also when mutexes are lost to writers that gave up; sizes 1 to 300 are rounded right |

The bounds: the tick's modulus, the FIFO's indices and the width of counts are small so that
every wrap happens within each behaviour; sleeps, timeouts and requests go up to and past
them.  `MaxLock`, `MaxPosts`, the semaphore's `MaxCount` and the `held` and `depth` of a
usage bound nesting, posts, token counts and recursion; each is above what the properties
need to go wrong, as the mutants show.

The two violations state what comments of the repository say and are quoted under
`findings`.

### What the premises exclude

A property with a premise holds in the usages the premise admits.  Each premise is needed:
without it TLC finds a counterexample on the same configuration or, where none of its
usages reaches the case, on one that is widened for it (a queue of two places for `Fifo`; a
fourth control block for ticks inside a create; posts inside a delete).  The exceptions are
`OnTime` and `NeverLate`, as `left` is only followed where they are claimed; `InRange` in
the life of tasks, `once` in `Drains` and `Intact` in `PoolExact`, which exclude writes to
foreign memory, whose consequences are not modelled.
`Plain` use of a mutex is one premise for several properties, and not every part of it is
needed by each: TLC finds no counterexample to `DeletedUnused` where tasks sleep with a
mutex, nor to `PriorityRestored` where waits have timeouts or tasks sleep and the highest
task deletes.
The premises are the conditions under which the code may be relied upon.

| property | premise | what happens without it |
|---|---|---|
| the last conjuncts of `Queue!WaitersListed` and `Event!Served` | the deleting task has the highest priority | the test of the pend list and the free are two unprotected steps |
| `Mutex!DeletedUnused` | `Plain`: one mutex at a time, no timed waits, no sleep while holding, only the highest task deletes; for the part about holders, `own` | the same; `dos_mutex_delete` frees a mutex that another task holds; and with a second mutex or a timed wait another task may keep an inherited priority as high as the deleter's |
| `Sem!SemInv`, that the count stays within the maximum | it starts there | `dos_sem_create` only warns, and the limit is tested with `==` |
| `Mutex!MutualExclusion` | fewer nested pends than the count can hold | the count wraps to 0 and the mutex is free |
| `Mutex!OwnerKnows` | the same, and no timed waits | a waiter that has timed out is handed the mutex and told `DOS_NOK` |
| `Mutex!Inherited` | `Plain` | the comparison is with the priority saved when the mutex was taken, so a second, less urgent waiter lowers an inherited priority |
| `Mutex!PriorityRestored` | one mutex at a time; no deletion, unless `Plain` | a second mutex taken with an inherited priority saves that as the task's own; `dos_mutex_delete` gives no priority back |
| `Queue!CountsAgree`, `NoIdleToken`, `Fifo`, `TopServed` | tasks take turns: no sleeps, no timed waits, no interrupt, distinct priorities | the end of the handler is preempted: a reader waits beside a message, a count loses an increment, or `dos_task_wake` gets `DOS_NULL` |
| `Event!FlagsExact`, `NoEndItem` | no interrupt sets flags; for `NoEndItem`, no deletion | the scan writes back flags it read before the interrupt, or finds the list emptied by it or the event freed (no waiter is missed all the same: `Served` has no such premise) |
| `Swtmr!OnTime`, `NeverLate` | `Timely`: the timer task is alone at priority 0, nothing delays it, and commands are sent with interrupts disabled | an overdue timer gives a wait of almost 2^32 ticks; messages stay uncounted or are lost; a tick that wraps inside `dos_queue_write` puts its message behind the command, so a start is handled before the lists are exchanged |
| `MemHeap!NoOverlap`, `Tiles` | heap calls do not interleave | `dos_mem_free` merges a block that was just allocated |
| `MemHeap!Tiles`; `NoOverlap` and `Memp!PoolExact` once a call has met an address without a node (`Intact`) | block sizes that leave no rest too small for a node | a block taken whole is recorded with the requested size, and the next node is looked for inside it, where anything may be merged |
| `Memp!PoolExact` | neither heap calls nor, for the free list, pool calls interleave | a block is handed out twice |
| all of `TaskLife` | priorities with a ready list (`InRange`) | `dos_task_create` compares with `>`, so `DOS_MAX_PRIORITY_NUM` is accepted and the task is put on a list behind the array |
| `TaskLife!HighestFound` | no priority but 0 is a multiple of 32; no tick inside a create | the table takes 32 for 0; a bit set by the tick handler is lost |
| `TaskLife!FreedUnlisted` | a deleting task above the others and no post inside a delete | the status was read before the wake |
| `TaskLife!StacksOwned` | a task is deleted by one task at a time, and in none of these calls itself (`exclusive`); nothing preempts between the two frees | it is freed twice; the stack's address is read from a block that is in use again |
| `TaskLife!ExitedRecycled` | no tick between the two list operations of an exit; the idle task runs again and again, and other tasks do not come to the recycle list for ever | the task is on no list; the recycle list is sorted by old wake times, and others may always come first |
| `Salof!IsFifo`, `Untorn`, `Drains` | the build reads the indices once (`once`) | a writer or reader between the two readings gives a length above the one asked for: a read overruns its caller's memory, a write copies what lies behind the message |
| `Salof!Untorn` | calls of `dos_salof` do not overlap | another task overwrites the buffer |

One more remark on `mem.c`: line 77 only considers blocks larger than the request, so the
test for an exact fit in line 79 never holds and a free block of exactly the size requested
is passed over.  `Alloc` has the same strict comparison.

## Fairness

* Scheduler: the timer interrupt and a pending PendSV are delivered and the boot
  completes.  Tasks may compute for ever.
* Semaphore and queue: the tick handler runs (`Timeout`), and a task that is inside a kernel
  call and may run goes on.  Nothing is assumed about what applications call.
* Event: interrupt handlers return (`IsrVisit`), and the task that scans the pend list, which
  has locked the scheduler, goes on between them (strong fairness: each handler disables its
  steps for a while, and however many there are, they leave it some time).
* Mutex: also strong fairness of the last release: a critical section of the application
  is finite, as long as its task gets to run.  `TopGetsMutex` means nothing without it.
* Timers and heap: none is needed, their properties are safety properties.
* Life of tasks: strong fairness of the idle task's loop and of an exiting task, as both
  are preempted again and again; `ExitedRecycled` also presumes that the idle task gets the
  processor infinitely often, which is up to the application.
* Log: the readers go on, since the idle task runs whenever every other task waits.
  Loggers may stop.

## Proofs

Eight modules are checked by TLAPS for all values of the constants: `TaskListProofs`,
`TaskSchedProofs`, `SemProofs`, `MutexProofs`, `QueueProofs`, `EventProofs`, `SwtmrProofs`
and `MemProofs`.  Assumptions are the named `ASSUME`s of the component modules, which TLC
evaluates in the runs: types of the constants; the tasks are finitely many where they are
counted; the idle task has the lowest priority; a pool's parameters are those that
`dos_memp_create` accepts and its size does not overflow; a timer's timeout is shorter than
the range of the tick; a count can hold the length of its queue.  What an application must
respect is no assumption but the premise of the property, the same in the run and in the
theorem.  All inductive invariants were checked by TLC on the instances of the runs before
they were proved.

Leaves that need no arithmetic name `Zenon`: the translation of a leaf for SMT becomes slower
with every such leaf before it in the module, and tlapm gives it up after five seconds,
whatever time the pragma allows the solver.

| module | theorem | property |
|---|---|---|
| `TaskSchedProofs` | `Inductive`, `TypeCorrect` | `IInv`, `TypeOK` |
| | `BitmapCorrect`, `LinksCorrect` | `BitmapMatchesLists`, `LinkedWhereStatusSays` |
| | `NoWakeMissed`, `WrapIsClean`, `WakesWhenDue` | `NoMissedWake`, `WrapSwitches`, `WakesOnTime` |
| | `HighestIsRunning` | `HighestRuns`, for applications that only sleep |
| `SemProofs` | `SemInductive`, `NeverIdle`, `Sound` | `SemInv`, `NoIdleToken`, `NeverOverdrawn` |
| | `Refinement` | `ImplementsSem` |
| `MutexProofs` | `Excludes`, `Informs` | `MutualExclusion`, `OwnerKnows` |
| | `DeletesUnused`, `Inherits`, `RestoresPriority` | `DeletedUnused`, `Inherited`, `PriorityRestored` |
| `QueueProofs` | `ListsWaiters`, `CountsExact`, `NoTokenIdle`, `ReadsInOrder` | `WaitersListed`, `CountsAgree`, `NoIdleToken`, `Fifo` |
| `EventProofs` | `ServesWaiters`, `FlagsStayExact`, `ScansOnlyTasks` | `Served`, `FlagsExact`, `NoEndItem` |
| `SwtmrProofs` | `KeepsLists`, `NoneLate`, `CallsOnTime` | `ListsRight`, `NeverLate`, `OnTime` |
| `MemProofs` | `NeverOverlaps`, `FillsHeap`, `KeepsPool` | `NoOverlap`, `Tiles`, `PoolExact` |

*Task list.*  `TaskListProofs` says what insertion and deletion do to the items, the order
and the duplicates of a list.  Every other proof of a component with lists uses it.

*Scheduler.*  `IInv` (module `TaskSchedInv`) strengthens the invariants to an inductive
one.  `LinkedWhereStatusSays` and `BitmapMatchesLists` are not inductive alone: whether a
task that runs may be put to sleep depends on where it is in the kernel (`CallInv`), and
the two wake-up invariants need the order of the sleep lists and the position of every wake
tick relative to the current tick, which differs inside the tick handler (`SleepInv`).
The first half of `TaskSchedProofs` lifts the facts about lists to ready lists, bitmap and
sleep lists; the second has one lemma for each action, and the theorems.

`HighestRuns` needs a premise, as `sched_window` shows: once `dos_scheduler` runs with
interrupts enabled a stale priority may be served.  `HighestIsRunning` proves it where the
application only sleeps (`Calls \subseteq {"sleep"}`, as in `sched_sleep`).  Its invariant
`TurnInv` adds what each stage between a change of the ready lists and the switch has
computed: the highest priority in the handler's variable, then in `dos_cur_priority`, then
that of the running task.

*Semaphore.*  `SemInv` adds to `NoIdleToken` and `NeverOverdrawn` who is on the pend list
(`WaitInv`) and the bound of the count; the cardinality of the set of granted tokens changes
by at most one in each step.  `Refinement` proves that every step of `sem.c` is a step of
`SemSpec` or leaves it unchanged, with every kind of waiting and with deletion.

*Mutex.*  `MutualExclusion` and `OwnerKnows` are not inductive: a post hands the mutex to a
task that does not run, so the invariant `MutexInv` describes how each task stands to each
mutex (`Pair`).  A task on the pend list is inside the call and does not own the mutex; one
inside the call and no longer on the list owns it with count 1; any other owner believes it
holds as often as the count says, or once less after a wait that was given up as the mutex
was handed over.  That last case is why exclusion needs one level of recursion more below
the wrap where waits have timeouts.

What the mutex says of priorities rests on more invariants, together `PrioInv`. `Owning`: a
task that knows what it owns owns at most one mutex, which has saved the task's own
priority, and a task without a mutex has its own priority.  A task that was handed a mutex
after it gave up (`Stuck`) is exempt, since it never releases it.  `Lending`, without timed
waits: the owner is ready, its priority is at least that of every waiter and its own if
nobody waits, and a mutex that is being deleted has no waiter.  (A task that deletes does
not block: `Deleting`.)  It is inductive only because an owner that is ready and has the
best waiter's priority keeps every waiter of that priority or below from running before the
release.

*Queue.*  `ListInv` says how tasks stand to the two pend lists whatever preempts the
handler, and gives `WaitersListed`.  The other three hold where tasks take turns and need
`TurnInv`: at most one task is in the middle of the handler, and it runs (`Turns`); a count
is short of what the queue has by the tokens of the tasks that have one and have not used it
(`Owed`, in `Tokens`); and the stored messages lie in order between the two pointers modulo
the length (`Ring`).

*Event.*  The scan of `dos_event_set` walks round the pend list from wherever its cursor
was left, waking an item moves the cursor back, and an interrupt handler's scan in the middle
of it uses the same cursor.  What a scan has still to visit is therefore counted from the
cursor (`Ahead`), and while a handler scans from where the cursor will be at its end
(`TaskAhead`).  `Kept`, the heart of `Inv`, says that a waiter whose flags are there is within
what the task or the handler has still to visit, or another `dos_event_set` is about to scan;
and the same of a waiter whose flags the scan has read before an interrupt and may write
back.  `LaterMoves` shows that a visit of the handler leaves every item where it was for the
task's scan, or nearer.  `Exact` adds, for events that interrupts leave alone, that the scan
has no more items to visit than there are and serves a waiter with the flags it has tested.

*Timers.*  `Inv` makes `ListsRight` inductive for every usage, with senders whose steps are
interleaved with everything else: it needs nothing of what the queue holds but its types
(`Queued`), and adds which timer the task has chosen, or is about to clear, at each of its
places (`Chosen`).  `PromptInv` is for `Timely` usages.  `Ring` says that the queue holds at
most one message, at the read pointer, and `Prompt` which one and which wait was computed;
`LeftOf` relates the ticks left until a callback is wanted to the list the timer is on, the
wake time and the tick, also between the wrap of the tick and the exchange of the lists,
when the overflow list already is the current one (`DueAt`), and while a command for the
timer is under way (`Asked`) or its callback was just called (`Called`).

*Heap and pool.*  `dos_mem_free` walks over `prev` and the sizes, so the invariant behind
`NoOverlap` says that links lead to neighbours, except for the one that a free under way has
still to set.  It holds until an address without a node is followed, which `Tiles` shows
never happens with rounded blocks: so `NoOverlap` is unconditional there.  `Tiles` needs in
addition that the nodes form one chain to the end of the heap and all their sizes are
rounded (`Chained`), that the links back are right but for that one (`Backward`), that
during a free all pairs of free neighbours are around the block that was given back
(`Joined`), and that `mem_heap_size` is what is not in use (`Accounted`, a cardinality).
For the pool, `Inside` keeps its heap block in use and `PoolInv` gives the free list as a
sequence, which is one block apart from the count between two steps.

Only model-checked:

* all liveness properties (`SleepersWake`, `RoundRobin`, `TopGetsMutex` and the others),
  since the provers have no rules for fairness;
* `TaskLife`: the table of priorities is searched with divisions and remainders of sets of
  bits, and the blocks that are given out again make every list a matter of which life of a
  block it means; its invariants are checked on the configuration only;
* `LargestPower`, which is about exponents, for the sizes 1 to 300;
* `Untorn` and the refinement of `FifoSpec`, where positions are remainders modulo a size
  that is itself a power of two dividing the range of the indices; non-linear arithmetic of
  this kind is not in the provers' reach.

## Not modelled

* The assembler of the port: its effect on the scheduler (masking that nests, PendSV with
  interrupts disabled) is in `TaskSched`, register saving is not.
* Text formatting beyond the length it returns, log levels, and the command parser:
  sequential string handling.
* The lwIP adapter (`sys_arch.c`): every function is one call of a kernel object that has a
  module; the Ethernet interface, whose guarantees depend on the HAL and the DMA hardware.
* Board support, HAL, CMSIS, lwIP and the demos.  They are almost all of the lines under
  `src/`; the kernel and its libraries, which the modules cover, are some four thousand.
* `dos_fifo_read_able` and `dos_fifo_write_able`, which nothing calls and which change
  nothing.  The first uses the formula of wrapped indices on free-running ones, so it is
  wrong once `in` has wrapped and `out` has not.
* The pointers of `list.c`: lists are sequences with a cursor.
* In the kernel modules, calls with null pointers, from an interrupt where that is refused,
  or with the scheduler locked return an error without changing state and are left out.  So
  is logging from an interrupt handler, where the refusal of `dos_mutex_pend` itself logs.
* In `TaskSched` a device interrupt falls between two iterations of the tick handler's
  loop, not inside one; in `Event` a wake-up is one step although the scan calls it with
  interrupts enabled.
* That `TaskStatus` over-approximates `TaskSched` is argued above and not checked.
