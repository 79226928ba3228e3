# A formal model of skynet

TLA+ modules that model the core of this repository (the C runtime in
`src/skynet-src`), TLC configurations that check them on small instances, and
proofs, checked by TLAPS, that hold for every size.  `PROJECT.json` maps each
definition to the lines it models.

## The system

skynet runs *services* (actors).  A service has a context, a handle, a message
queue and a callback.  Worker threads take a message queue from the *global
queue*, run the callback of its service on one message and put the queue back.
Timer and socket threads turn time and sockets into messages, a monitor thread
looks for callbacks that do not return.  There is no persistence; the process
ends when the last service is gone.

| part (source) | state | operations | how it meets the others |
|---|---|---|---|
| dispatch, contexts (`skynet_server.c`) | context: handle, ref, init, cb, session_id; count of contexts | dispatch, send, launch, kill, lock, callback, delete | called by workers; services call `skynet_send`/`skynet_command` from callbacks; timer, socket and monitor threads call `skynet_context_push`/`_endless` |
| message queue (`skynet_mq.c`) | ring, in_global, lock_session, release | push, pop, lock, unlock, pushglobal, mark_release, release | under its own spin lock; decides who puts it into the global queue |
| global queue (`skynet_mq.c`) | head, tail, two arrays | push, pop | lock-free, shared by all threads |
| handle table (`skynet_handle.c`) | slots, index, sorted names | register, grab, retire, names, retireall | a reader-writer lock; holds one reference of each context |
| reader-writer lock (`rwlock.h`) | two words | rlock, wlock, unlock | spins |
| timer (`skynet_timer.c`) | wheel, time, last clock | timeout, update | one lock; executes events by pushing messages while it holds it |
| threads (`skynet_start.c`) | sleepers, condition variable | worker, timer, socket, monitor loops, join | workers sleep when the global queue is empty; the others wake them |
| monitor (`skynet_monitor.c`) | version, check version, destination | trigger, check | written by a worker, read by the monitor thread, no lock |
| modules (`skynet_module.c`) | table of 32 | query, insert | double-checked search |
| harbor (`skynet_harbor.c`) | own node, harbor context | send, register, isremote | sends to a context without a reference |
| sockets (`socket_server.c`, `skynet_socket.c`) | slots, write buffers, pipe | open, connect, send, close, poll | services write requests into a pipe, the socket thread does them |
| environment, error log, configuration, memory accounting | - | - | sequential or plain output |

What is hard: the decision, made in six places with four values of
`in_global`, of who puts a queue into the global queue; reference counts that
any thread can take to zero; services killed while they start, run, wait for
an answer or have messages on the way; a lock-free ring; flags read without a
lock; sleeping and waking; wrapping counters.  The full list, with lines, is
`hazards` in `PROJECT.json`.

## Modules

| module | models | refines |
|---|---|---|
| `Dispatch` | workers, helpers, contexts and queues: the core | `Actor` |
| `MessageQueue` | one queue with its ring buffer | `Actor` (one service) |
| `GlobalQueue` | the lock-free ring, access by access | `Fifo` |
| `Handle` | the handle and name table | `Directory` |
| `RWLock` | the reader-writer lock, access by access | |
| `Timer` | the timing wheel and the clock | `AbstractTimer` |
| `Start` | sleeping, waking and the end of the threads | |
| `Monitor` | the watchdog's words, access by access | |
| `ModuleTable` | the double-checked table of C modules | |
| `Sync` | `RWLock`, `Monitor` and `ModuleTable` composed by the loops that use them | |
| `SocketServer` | socket slots, the request pipe, write buffers, events | |
| `Actor`, `Fifo`, `Directory`, `AbstractTimer` | what these parts promise | |
| `DispatchProofs` | theorems about `Dispatch` | |
| `MessageQueueProofs`, `GlobalQueueProofs`, `HandleProofs`, `TimerProofs`, `StartProofs`, `SocketServerProofs` | theorems about the module of that name | |
| `SyncProofs` | theorems about `RWLock`, `ModuleTable`, `Monitor` and `Sync` | |
| `MC...` | instances for TLC: orders of services, symmetry | |

They fit together like this.  `Dispatch` uses the global queue as a FIFO, a
message queue as a sequence and the handle table as a set, one step each;
`GlobalQueue`, `MessageQueue` and `Handle` show that the code's data structures
deserve that.  In the other direction, `GlobalQueue` and `MessageQueue` rely on
a queue being with one owner at a time, which is `SingleOwner` of `Dispatch`.
`Handle` takes its critical sections as steps, which `RWLock` justifies
(`MutualExclusion`, checked in `Sync` with the calls that the code makes); `Dispatch` keeps the write lock visible (`hlock`) where it
is held over the deletion of a context.  `Start` abstracts a dispatch to its
effect on the amount of work.

Definitions whose name extends that of the operator they stand before
(`GrabUncounted`, `WakesNever`, `ExpandedShort`, ...) are deliberately wrong
variants.  No specification uses them; `PROJECT.json` pairs each with the
property that fails when the variant takes the operator's place.

### Dispatch

`pc[w]` follows a worker through `skynet_context_message_dispatch`: `idle`,
`empty` (the pop found nothing; `CheckAbort`, which reads the total, is a step
of its own, and others may push and end services before it), `popped` (has a queue), `grabbed` or `orphan` (the handle was or was not
found), `call` (callback running), `back` (about to pushglobal), `unref`.
`npc[w]` follows `skynet_context_new`, which a callback may call; `ppc[t]`,
`dst`, `out` follow `skynet_context_push` on any thread; `kill[w]` is the
retire that `handle_exit` still has to do; `del[t]` is the context whose last
reference the thread has dropped.  A frame waits for the calls it made
(`Returned`), as on a stack.

A step is a section under the queue's spin lock, under the handle table's
lock, or one atomic operation; all other interleavings are explored.
Callbacks are arbitrary programs: in `call` and in `init` a service may send,
request, reply, launch, kill anyone including itself, lock, unlock, set its
callback, in any order, or return.

`Harbor` is `REMOTE`: what is sent to another node, or registered as a global
name, goes to its queue (`SendRemote`, `CallRemote`, `Register`) without a look
at the handle table and without a reference.  Which destinations are remote is
the sender's choice.  Nothing in the code keeps the harbor's context alive, so
the model assumes what `skynet_harbor.c:28` needs: nobody kills that service
(`Kill`).  With `Harbor = None` a node sends nothing to others.

Left out of `Dispatch`: message payloads and types, names (see `Handle`), and
what a launcher does with a context whose reference it has given up (`skynet_server.c:148-154`, `158`, `489`): that is memory it
does not own, `NoUseAfterFree` says nothing about it.  Its effect on `init` is
kept, as a write that may come late.  The assertions of `skynet_mq_lock` and
`_unlock` that user code can fail are guards of `Lock` and `Unlock`: a service
that does LOCK, UNLOCK and LOCK again in one callback finds `in_global` at 2
and ends the process at `skynet_mq.c:276`.

### The other modules

* `GlobalQueue`: a thread that holds queues (`holds`) pushes one with three
  accesses or pops one with up to six.  With `Lap = FALSE` no call is
  overtaken by `Size` pushes, i.e. no thread sleeps while 65536 queues pass.
  With `Lap = TRUE` `EmptyIsEmpty` fails: a thread delayed between its
  compare-and-swap and `flag = false` wipes out the flag of a push one lap
  later, and from then on every pop says that the queue is empty.
* `MessageQueue`: `stage` is what the worker with the queue has done.
  Elements that were allocated and not written are `Junk`.
* `Handle`: a newcomer is a service between its publication in the table and
  `skynet_context_init`.  Others grab, retire, launch and abort then as at any
  other time, and read whatever its memory holds where a handle will be:
  `Register` leaves any number there.  A growth of the table in that window
  hashes that number; `moved` remembers the services to which the last growth
  did so.  `Reachable` and the mapping to `Directory` speak of a service once
  it has its handle, and `Reachable` excuses those of `moved` alone:
  what a newcomer suffers otherwise mends itself.  Memory is recycled: `Ctx` are
  places, and reading the handle of a freed one gives any handle.
* `RWLock`: one action per access to `write` or `read`.
* `Monitor`: one action per access of `skynet_monitor_trigger` (`Name`,
  `Count`) and of `skynet_monitor_check` (`Compare`, `Test`, `Suspect`,
  `Copy`).  The destination is read twice; the second value is the one blamed.
* `ModuleTable`: `query[t]` follows a launch through `skynet_module_query`:
  the search without the lock, the lock, the second search, loading, the copy
  of the name, the count.  The order of the last two is that of the program
  text, which x86 keeps; the source has no barrier there.  A module without
  `_init` leaves a filled entry that is not counted.
* `Sync`: `at[w]` follows a worker through a dispatch (`grab` under the read
  lock, the two stores of the trigger, the callback, the queue given back, the
  two stores of the last trigger) and through a callback that launches or kills
  (module table, then the write lock); the monitor thread looks at the workers
  in turn and marks a suspect under the read lock.  `looks` and `moved` only
  remember what the two properties of the monitor speak about.
* `Timer`: the wheel's shifts and masks are divisions and remainders by
  powers of arbitrary bases, so that two lists per level suffice to see every
  cascade.  `Mask` are the spans of the levels, given by their ratio; a list that
  is spread keeps the order of its nodes (`Sublist`).  `clock` is real time, `owed` the calls of `timer_update` that the
  last reading of the clock still owes.
* `Start`: what any thread does with services comes down to its effect on three
  numbers: queues of living services in the global queue (`ready`), those of
  ended services (`dead`), and services (`total`).  A worker with a service, the timer
  thread in `skynet_updatetime`, the socket thread in its poll and the monitor
  thread in its round may `Push` to an idle service, or drop the last reference
  of one: `MarkRelease` puts its queue into the global queue, and `ContextDec`, a
  step later, lowers the total.  A worker is at `popped` (has a queue), `orphan`
  (its service has gone), `run`, `unref`, and, when it popped nothing, at
  `check`, `lock`, `locked`, `wait`, `woken`.  `pthread_cond_wait` releases the mutex and waits in one step, may
  wake spuriously, and needs the mutex to return; a signal wakes any waiter.
* `SocketServer`: a service reserves a slot and writes a request into the pipe
  in one step (`Create`, `Ask`, `Send`); the socket thread follows
  `socket_server_poll` through `pc`: after `sp_wait` one event, then all the
  requests (`CtrlCmd`, `NoCmd`), then the other events.  A request or an event
  is one step, since nobody else touches a slot that is in use.  What the
  kernel does is a choice: a connect or a write succeeds, goes on later, takes
  any part, or fails.  `told` is the last message about an id, `open` the
  descriptors the server has to close, `lost` those that `start_socket` gave up
  when `sp_add` failed (633), `wire` what was written.  The request to end
  (`Exit`) comes when no service is left, so it is the last one in the pipe;
  `Release` is `socket_server_release`.
  A service sends when it likes, also before its connection is open; `early`
  remembers that it did so while the socket was `CONNECTING`, which is what
  `report_connect` forgets.  Two assumptions narrow the module.  `Quiet` and
  `Outdated`: a slot is not reserved again while a request or an event for its
  last user is on its way, and nobody asks for that id between the
  reservation and the request that follows it.  With 65536 slots taken in turn
  that needs a table that is nearly full; then the assertions on RESERVE can
  fail (`socket_server.c:241`, `279`, `953`).  And nobody sends to a listening
  socket (a guard of `Send`): the assertion at 524 is assumed, not checked.
  `MaxEvent` is `MAX_EVENT`: one `sp_wait` reports at most that many sockets.

## Runs

All passing runs explore their whole state space.

| run | instance | shows |
|---|---|---|
| `dispatch_launch` | 1 service at the start, 1 to launch, no harbor, 2 workers, 1 helper, 3 messages, exits reported to the first service, fair | `RefCount`, `NoUseAfterFree`, `SingleOwner`, `Assertions`, `CleanExit` under launch (also failing), kill and send; `Drained` and `Reclaimed`: while a service lives, messages are taken, and retired services are freed (170,170 states) |
| `dispatch_lock` | 2 services, one the harbor, 2 workers, 1 helper, 3 messages, 1 session each | `NoLostWakeup` and `Assertions` under session locks and remote sends; `ImplementsActor` (303,778 states) |
| `gq` | 2 threads, 2 queues, 4 slots, 6 pushes (more than one lap), fair | `ImplementsFifo`, `InOnePlace`, `EmptyIsEmpty`, `Popped` |
| `mq_ring` | 7 messages, initial size 2 (two expansions, every offset) | `NoGarbage`, `GoesRoundOnce`, `ImplementsMailbox` |
| `handle` | 3 places, 2 threads, 2 names, 2 slots growing to 4, 4 handles, so the index wraps; newcomers at any moment | `Reachable`, `FindsNames`, `ImplementsDirectory` (163,983 states) |
| `sync` | 2 workers, the monitor thread, 2 services, 2 dispatches with at most one launch or kill each, 3 modules (one without `_init`) of which one fits in the table | `MutualExclusion`, `NoReaderSlipsIn`, `WriterNears`; `LoadedOnce`, `QueryExact`; `Blamed`, `EndlessSeen` |
| `timer` | 3 levels of base 2, 2 events, delays on and around each border, a clock that wraps at 6, fair | `ExactTimer`, `TicksMatchClock`, `EventuallyFires` |
| `start` | 2 workers, timer, socket, monitor, 2 services, 3 pushes and launches, fair | `SleepExact`, `NobodyLeavesEarly`, `WorkIsDone`, `ServiceThreadsEnd` (218,404 states) |
| `socket` | 2 slots, 3 ids, packages of 2 units, 3 requests to start, close or send, also before the connection is open, 1 request in the pipe at a time, 2 events per wait, to the release of the server | `Accounted`, `WriteArmed`, `Intact`, `Assertions`, `NothingAfterEnd` (4,239,506 states) |

Why the bounds are enough.  The races of `Dispatch` are between the worker
that has a queue, a sender or killer, and the thread that drops the last
reference: two workers and a helper are all three at once, and each can take
any role; two services are needed for a launch, a kill of another and an
answer.  Three messages let a queue be emptied, refilled and abandoned.  The
rings go round more than once, the handle table grows and its index wraps, the
wheel passes each border of each level.  Three ids on two slots reuse a slot;
three requests are a start or close and two packages, or three packages, of
which one is written in part, one waits and one overtakes it.  A pipe of one
request loses little: a request that waits meets events handled before it, and
any number of requests are read in one round as they come.  Two dispatches in `sync` are two workers in callbacks at once,
or one worker that leaves one service and enters another while it is looked at;
a service that a launch registers is not dispatched there.  Symmetry is used
only for sets whose members the specification never tells apart, and not with
liveness.

Deadlock is not checked where a bound or an idle system ends a behaviour: in
`Dispatch` all workers may have left or all messages be spent, in
`GlobalQueue`, `MessageQueue`, `Timer`, `SocketServer` the bound on pushes,
messages, time or requests is used up.

### Fairness

* `Dispatch`: a thread keeps running its own frames (weak fairness of
  `CallStep`, `WorkerStep`: workers loop for ever); the code of a service ends
  after finitely many calls (strong fairness of `CodeEnds`, since a service may
  be busy with calls whenever it could return).  No fairness on what services
  do.  `Start` justifies that a worker comes back while there is work.
* `GlobalQueue`: a push that began goes on; workers keep popping.
* `RWLock`, `Sync`: none.  `WriterNears` bounds a writer's wait without it: once
  the flag is taken, whoever moves gets nearer to letting the writer in.
  Readers have no such bound, and the code gives them none: a stream of
  launches and kills can keep every `skynet_handle_grab`, the monitor thread's
  too, in its first loop (`rwlock.h:17`).
* `Timer`: time passes, the timer thread runs.
* `Start`: every thread runs; strong fairness for the socket thread reading
  its exit request, which stays in the pipe between the events it handles.

### Runs that refute something the code says

| run | statement | what happens |
|---|---|---|
| `handle_grow` | assertion `skynet_handle.c:67` | a launch grows the table between another's registration and its `skynet_context_init`, and hashes an uninitialised handle |
| `start_join` | `skynet_start.c:141`: all workers are woken | a worker on its way to sleep misses the broadcast, and `_start` waits for it for ever |
| `socket_connect` | `socket_server.c:441`: the write event is turned off when both lists are empty | `report_connect` turns it off with data in the lists; nothing sends them |

Other disagreements between the code and its words, seen in the models and
not kept as runs: `skynet_mq.c:18` says that `in_global` 0 means "not in the
global queue", while `skynet_mq_mark_release` (339) puts a queue in and leaves
0; `skynet_mq.c:16` gives the ring 65536 places, but a ring that holds that
many looks empty to `skynet_globalmq_pop` (77); `skynet_handle.c:271` reserves
handle 0, which is issued when `handle_index` wraps; `socket_server.h:18` says
that `ud` is the listening id of an accept, while `report_accept` (816, 817)
puts the listening id into `id` and the new one into `ud`.

What `CleanExit` and `NobodyLeavesEarly` had to allow says what the end of the
process leaves behind.  A worker pops (`skynet_start.c:156`) and then looks at
the total (157).  If another thread drops the last reference in between, its
`skynet_mq_mark_release` puts a queue into the global queue and the total goes to
0, so the worker leaves and the queue is never freed; every worker may do so.  It
is the queue of an ended service, nobody is left to answer, and the
process is about to end.  So `CleanExit` promises that no service lives and that
what is left is marked and in the global queue, and `Drained`, `Reclaimed` and
`WorkIsDone` hold while a service lives.

What `Blamed` and `EndlessSeen` had to allow says how exact the watchdog is.
`skynet_monitor_trigger` names the new service before it counts (46, 48): a
look between the two blames a service that has just begun.  A worker gives its
queue back before its last trigger (`skynet_server.c:305`, `307`), so a service
can be blamed for a worker that is done with it.  A service that hangs is
marked by the third look at its worker, normally by the second.

## Proofs

All theorems hold for every value of the constants that the modules' `ASSUME`s
allow: any numbers of workers, services and queues, any sizes.  A hypothesis
beyond those is named below and is in the statement of the theorem.  Each
inductive invariant was checked by TLC on the instance of the run first.

* `DispatchProofs` (`Dispatch`, eight theorems).
  `TypeCorrect` first: a frame has a context exactly while it is at work.
  - `RefCountExact`, `NothingFreedInUse` from `RefInv`: `ref[c]` is the number
    of holders (`Counts`), `mem` is live with a count of 0 exactly while one
    thread deletes (`LastDeletes`), whoever refers to a context finds it live
    (`RefsLive`), and nobody deletes in the midst of a push (`DeletesLast`).
    The count alone says nothing about a context that is between its last
    release and its `free`.
  - `OneOwnerAlways`, `EveryWakeup`, `AssertionsHold` from `OwnInv`, of which the
    core is `FlagOf`: what each value of `in_global` says about the owner of a
    queue (1: owned; 0 and 3: nobody; 2: its worker is in the callback or
    about to give it back), and `LifeOf`, how far a queue has got that is
    marked for release.  A push decides by `in_global` alone, so `SingleOwner`
    is not inductive without that table, and the table not without it.
  - `WorkersLeaveNothing` from `ExitInv`: the total is the number of services
    alive (`Total`), and who has left has seen the last of them (`EndIsFinal`).
    That it stays at 0 is `TotalStays`: a launch needs a running service, and a
    service that is being launched is alive.  What is left in the end is marked
    by `LifeOf` of `OwnInv`.
  - `DispatchIsActor`: initial states map to initial states of `Actor`, and
    every step to a step of it or to none, by the frame that takes it.
* `MessageQueueProofs`: `NeverGarbage`, `RoundOnce` and `RingIsMailbox` (the
  refinement of `Actor`).  The inductive
  invariant is `TypeOK /\ NoGarbage /\ Round`: `Round` lists the states the
  queue can be in (in the global queue; with its worker; out and empty; out
  and locked), each with its `in_global` and `lock_session`, because
  `GoesRoundOnce` alone says nothing of a queue a worker has.  The arithmetic
  is in `Wrap` (an index once round the array) and `FullRing` (a ring about to
  grow holds messages in every slot but the one at `tail`).  For the refinement
  a ring is read as a sequence (`Reads`), and `TailRing`, `TailGrows`,
  `HeadRing`, `HeadGrows` and `PopRing` say what each change of the array is
  on that sequence: the `Append`, `<<m>> \o` and `Tail` of the mailbox.
* `GlobalQueueProofs`: `EachInOnePlace`, `EmptyIsSo` and `RingIsFifo` (the
  refinement of `Fifo`) from `RingInv`.  It keeps the tickets within one lap of
  `tail` (`Tickets`), says which ticket raised each flag (`Flags`: a complete
  push, or the pop that has yet to clear it), what a pop has read so far
  (`Slots`) and where each queue is (`Places`).  `PlacesApart` is the arithmetic:
  two tickets less than a lap apart have different places.  Two
  hypotheses.  `FewQueues`: fewer queues than places; with as many, a full ring
  looks empty (see above, 65536), and the theorem would be false.  `~Lap`: no
  thread sleeps in a call while `Size` queues pass; without it the run of the
  text above breaks `EmptyIsEmpty`.
* `HandleProofs`: `EveryServiceIsFound` (`Reachable`) and `TableIsDirectory`
  (the refinement of `Directory`) from `Inv`, whatever others do to the table in
  the window between 55 and 58.  `Inv` says that every service that has its
  handle is in the slot of it (`Placed`), a newcomer in the slot of the handle it
  will get unless it was retired meanwhile (`Given`), and none in two
  (`OneSlot`); the first two leave out the services in `moved`, which the last
  growth hashed before they had a handle, because there the code puts them
  anywhere.  `Counted`, the references of a service are its users and
  the table, is what keeps `malloc` from handing out a place that the table
  still holds.  That growth keeps services apart is `HashDouble`: handles that
  differ modulo the size differ modulo twice the size.  That the loop of
  `skynet_handle_register` ends with a free slot within one round, also when the
  index wraps, is `Cover` and `HashIs`, from the sizes dividing `Mask + 1`.
  In the mapping to `Directory` a handle belongs to its service once the
  service knows it, so that what a search finds in the slot of a newcomer by
  chance is nobody's.
  For `SearchIsExact` (`FindsNames`), `Ordered` keeps the array
  sorted through insertions (`InsertSorted`) and retirements (`SublistSorted`),
  and a sorted array is searched rightly (`SearchIs`, from `StepRight`: an
  answer is right if the answer for the next span is, and there is only one,
  `RightIsOne`).
* `TimerProofs`: `ClockIsFollowed` (`TicksMatchClock`) and `WheelIsExact`
  (the refinement of `AbstractTimer`) from `TimerInv`.  Its `ClockInv` bounds
  the ticks to come and the age of the last reading, without which a wrapped
  clock cannot be told from one that stood still (`ElapsedIs`).  Its `WheelInv` says of
  the wheel that every node is in the list of its *present* place, that
  none is late, and that nodes of one deadline are in the order of their
  numbers wherever they are.  A tick keeps it because a node that `timer_shift`
  leaves alone has the same place before and after (`StaysInPlace`), because the
  one list that is spread has nodes of no deadline that another list has
  (`ConcatFits`), and because it is spread in order (`SublistIs`, `GoodShift`);
  and the list of the time holds exactly what expires then (`NowList`).  From
  `TimerAssumption`: each level spans `Level` times the one before, and the
  time stays within the wheel, as the 32-bit time of the code does for 497 days.
* `SyncProofs`.  `Exclusion`, `WritersFirst`, `WriterWaitsBounded` from
  `LockInv`, in which `Exact` (the word `read` is the number of registered
  threads) is what makes a writer's wait for 0 mean something.
  `ModuleLoadedOnce` and `ModuleQueryExact` from `ModuleInv`: the one caller
  inside the spin lock, and what its second search saw, are remembered with the
  place it is at (`LockHeld`, `FillsNext`, `Answers`).  `NoFalseBlame` and
  `EndlessMarked` from `WatchInv`: how old the watchdog's copies of a worker's
  words are.  `SyncSafe`: inside the composition the lock and the table still
  behave as their own specifications (`LockInside`, `QueriesInside`), so that
  everything proved of them alone holds there.
* `StartProofs`: `SleepCounts` (`SleepExact`) and `NobodyEndsEarly`
  (`NobodyLeavesEarly`) from `StartInv`.  Its `Counted` says that queues of living
  services in the global queue, workers that have one and threads that delete a
  service are not more than the total; so at 0 nobody is left who could launch or
  push (`NothingLives`), and what a thread has seen of the end stays true
  (`EndSeen`).
* `SocketServerProofs`: `NothingLeaks` (`Accounted`), `WritesWait`
  (`WriteArmed`),
  `PackagesIntact` (`Intact`), `AssertionsAlways` and `SilentAfterEnd`
  (`NothingAfterEnd`), all from one invariant, `Inv`.
  - `ReserveInv` ties slots, requests and events: a reserved slot has one request
    that makes its socket, and no other request and no event finds it.  On it
    rest the assertions on RESERVE, and with `OpenInv` (each open descriptor is
    that of a slot, of a listen request, or lost by a failed start) that nothing
    leaks.  `ToldInv` says that a slot in use has not been ended: the next
    message about its id may follow.
  - `StreamInv` is stronger than `Intact`: what was written and what is left, as
    one sequence of units, is a `Row` (each package a block of `Length` units
    in its place, the numbers growing within a priority), it has only packages
    older than any that is still to come, and the low list holds whole
    packages only.  The last is what `raise_uncomplete` is for: the rest of a
    package that was cut goes to the front of the high list, so that nothing
    gets in between its units.  `RowGrows` says that
    a package put between two blocks leaves a `Row`, `AppendedIs` and `WroteIs`
    what `append_sendbuffer` and `send_buffer` do with it, whatever part the
    kernel takes.
  - `ArmInv`: what is left to write waits for the write event, unless it was
    queued before the connection was open; while it is still being opened the
    event is on in any case.  `OffWhenEmpty` has no such exception and is what
    `socket_connect` refutes.
  - The many outcomes of a request or an event come down to eight kinds of step
    (`Silent`, `Says`, `Works`, `Frees`, `Fails`, `Opens`, `Accepts`, `Ends`;
    `CtrlCmdIs` and `EventIs` show that each is one), and the parts of `Inv` are
    proved for each kind.

  `SocketAssumption` asks for a slot, for a unit in each package, and that `None`
  is neither an id nor a slot.

Where an argument is an induction over numbers, a smallest counterexample takes
its place (`Least` of `TimerProofs` and `HandleProofs`).

Only model-checked: liveness (`Drained`, `Reclaimed`, `Popped`,
`EventuallyFires`, `WorkIsDone`, `ServiceThreadsEnd`), because the prover has no
ENABLED or fairness.  Every other property of the passing runs is proved.

## Not modelled

The environment (a Lua table under one lock), the error log, the configuration
and the memory counters: see the notes in `PROJECT.json`.  Known gaps in what is
modelled: session numbers at their width, the commands that only read or set a
value, a MONITOR that changes while services exit, the death of the harbor's
service, the wrap of the timer's 32-bit time (after 497 days `timer_shift` does
not end, 134-155) and negative delays, a name registered by a service that was
retired meanwhile (the name stays bound to a dead handle), that ABORT ends,
`skynet_module_insert`, which nothing calls.
Gaps of `SocketServer`: `socket_server_block_connect`, which runs `new_fd` in
the thread of a service, so that the socket thread can meet an event of a slot
in state RESERVE; a full table, whose -1 nobody tests (915); who owns a socket;
a package of low priority to a closed socket, which is never freed (967).  A
bound socket that is closed with data left becomes `HALFCLOSE`, and its
caller's descriptor is then closed too (598, 246); `Accounted` allows that.

## Plan

1. `socket_server_block_connect`, with the event it lets the socket thread see,
   and who owns a socket (`skynet_socket.c`).
2. Session numbers at a reduced width, and the proofs of `DispatchProofs` with them.
