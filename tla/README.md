# Verification of lass

lass is a C++ library (`src/lass`): containers and lock-free structures (`stde`),
utilities with threads, locks, allocators, singletons, shared pointers and a thread pool
(`util`), streams, sockets and pipes (`io`), numerics, geometry and spatial search (`num`,
`prim`, `spat`), and an adapter of CPython (`python`). There is no main program. What can go
wrong in ways that tests hardly reach is where several threads or processes share state, and
in the structures whose promise takes long sequences of calls to break:

* the four lock-free structures of `stde` and the allocator two of them stand on,
* locks, condition, thread, thread pool, singletons and shared pointers of `util`,
* the message pipe and the buffered socket stream of `io`,
* the singly linked list and the vector in place of `stde`,
* five search trees of `spat`.

Paths below are relative to the repository; `.inl`, `.h` and `.cpp` names without a directory
are in `src/lass/stde`, `src/lass/util`, `src/lass/io` or `src/lass/spat`.

## 1. Inventory

### Components and what they keep

| Component | State | Operations | Called by / shares state with |
|---|---|---|---|
| `lock_free_spsc_ring_buffer` | `ring_`, `head_`, `tail_` | `try_push`, `try_emplace`, `try_pop`, `empty` | one producer and one consumer thread |
| `lock_free_spmc_ring_buffer` (values) | `ring_` of atomics, `head_`, `tail_` with a lap tag | the same | one producer, several consumers |
| `lock_free_spmc_ring_buffer` (objects) | a value ring of pointers and a free-list allocator | the same, constructing, moving and destroying objects | value ring, `AllocatorConcurrentFreeList` |
| `AllocatorConcurrentFreeList` | `top_`, a tagged pointer; a next word in each block | `allocate`, `deallocate` | any threads; the fixed allocator under it |
| `lock_free_stack` | `top_`, nodes with `next` | `push`, `emplace`, `pop`, `pop_swap`, destructor | any threads; allocator |
| `lock_free_queue` | `head_`, `tail_`, nodes with a tagged `next` | `push`, `emplace`, `pop`, destructor | any threads; allocator |
| `ThreadPool` | queue of tasks, `numWaitingTasks_`, `numRunningTasks_`, `error_`, `abort_`, `shutDown_`, the threads | `addTask`, `completeAllTasks`, `clearQueue`, destructor; `doRun` in each consumer | `lock_free_queue`, `Thread`, `Condition` |
| `RWLock` | `spinLock_`, `writersTrying_` | `lockr`, `tryLockr`, `unlockr`, `lockw`, `tryLockw`, `unlockw` | any threads |
| `Semaphore`, `atomicLock` | one counter | `atomicLock`, `atomicTryLock`, `atomicUnlock` | any threads; `Singleton`, `LASS_LOCK_INTEGRAL` |
| `Condition` | mutex, condition variable, `threadsWaiting_`, two flags | `wait`, timed `wait`, `signal`, `broadcast` | `Thread`, `ThreadPool`, `BinaryOSocket` |
| `Thread` | `isJoinable_`, `isCreated_`, `error_`, a condition | `run`, `join`, destructor; the worker's start, `doRun`, detached self-deletion | `Condition` |
| `Singleton`, `SingletonGuard` | the instance pointer, the dead flag, a lock; the guard's list by priority | `instance`, subscription, `killEmAll` at exit | constructors and destructors of other singletons |
| `SharedPtr` | a pointer per handle, a counter per object | reset, copy, move, destruction | any threads |
| `BinaryOSocket` | socket, buffer, `current_`, two flags | write, flush, `clear`, `setSocket`, destructor; the flush thread | `Thread`, `Condition`, `Socket` |
| `MessagePipe` | two descriptors, a flag | `create`, `connect`, `accept`, `close`, `send`, `receive`, `transact` | the other process; all code of its own process that opens files |
| `slist` | linked nodes | assignment, insertion, erasure, `splice`, `merge`, `sort`, `unique`, `remove`, `reverse`, `resize`, `swap` | constructors of the values |
| `static_vector` | `size_` and slots of memory | assignment, `insert`, `erase`, `resize`, `swap`, `clear` | constructors of the values |
| `KdTree` | a heap of objects with their split axes | `reset`, `nearestNeighbour`, `rangeSearch` | `nth_element` |
| `QuadTree` | nodes with objects in the leaves, `numObjects_` | `add`, `remove`, `reset`, `find`, `contains`, `nearestNeighbour`, `rangeSearch` | object traits |
| `AabbTree`, `QbvhTree` | nodes with boxes, objects in the leaves | `reset`, `find`, `contains`, `nearestNeighbour`, `rangeSearch` | split heuristics, `partition`, `nth_element` |
| `AabpTree` | nodes with two planes, objects in the leaves | the same | the same |
| all others | none, plain sequential data, or floating-point numbers | | |

`PROJECT.json` lists every component, those not modelled included, with the reason.

### How they interact

* The object ring, the stack and the queue take their nodes from a free list. Blocks go
  round: a block is freed by one thread and is another thread's node a moment later,
  while a third still holds an old pointer to it. Tags exist for this.
* The thread pool has a lock-free queue with **one** producer (the control thread) and
  several consumers, and two counters beside it, changed in steps of their own.
* A `Condition` is a flag under a mutex. `Thread` waits on one until its worker has
  started, the socket stream puts its flush thread to sleep on one; both count on a
  signal that is sent just before the wait.
* Constructors and destructors of singletons ask for other singletons, each under a spin lock of
  its own, and all of them for the guard.
* A descriptor that a pipe closes is the next one the system gives to other code of the process.

### What is hard here

Interleavings of plain and atomic accesses; decisions on values that are stale when used;
orders of memory weaker than sequential consistency; the ABA problem; an exception
between two updates that belong together; a thread that stops in the middle of a
"lock-free" operation; loops that wait on counters that only others change; objects that
are deleted while somebody is still inside; the end of a process or of the program in the middle of
it all; in the containers and trees: equal keys, empty ranges, full stacks and objects on
an edge. `PROJECT.json` lists these hazards one by one, with their lines and the
properties that would catch each of them going wrong, or the reason why none does.

### What makes each component correct

* **Rings**: items come out once, in the order they were pushed; a verdict of full or
  empty is right for the indices it was taken from; no two threads touch a slot at once.
* **Free list**: every block is in one place at a time; nobody waits for anybody.
* **Stack, queue**: linearizable; no node lost or used twice; an exception loses nothing.
* **Pool**: `completeAllTasks` returns when everything is done, the limit is kept, and the
  destructor returns and leaves nothing running.
* **Locks**: exclusion; counters that say who is inside; ordering of critical sections;
  while somebody waits, somebody gets in.
* **Condition**: a signal is kept until somebody takes it.
* **Thread**: `join` tells how `doRun` ended; `run` and `join` return; nobody uses a deleted object.
* **Singletons**: one of each, never handed out incomplete or dead; destroyed by priority.
* **Shared pointers**: the counter is the number of owners; one deletion, after all uses.
* **Socket stream**: every byte once, in order, to the socket it was written for; what is
  written is sent without being asked for; the destructor returns.
* **Message pipe**: it uses and closes descriptors of its own only, and leaves none behind.
* **List, vector**: each operation makes of the sequences what is said of it; every
  node and object is constructed once, destroyed once and in one container.
* **Trees**: a search finds what a look at every object would.

## 2. Modules

### Abstract specifications

| Module | Promise | Implemented by |
|---|---|---|
| `BoundedFifo` | a FIFO channel with a capacity; a call that fails changes nothing | `SpscRing`, `SpmcRing` |
| `BlockPool` | every block has one owner: heap, pool or a thread | `FreeList` |
| `LifoStack` | a stack; pop says empty only of an empty stack | `LockFreeStack` |
| `FifoQueue` | an unbounded FIFO queue | `LockFreeQueue`, with one producer |
| `AutoResetEvent` | a signal releases one waiter, now or later; a wait may give up | `Condition` |
| `Neighbours` | which answers of nearest-neighbour and range searches are right | `KdTree`, `QuadTree`, `AabbTree`, `AabpTree`, `QbvhTree` |

The first five have a refinement mapping at the end of the detailed module (`INSTANCE ...
WITH`) and the abstract `Spec` as a property, `Implements...`. `Neighbours` holds
predicates on an answer, the objects' distances and the limits of the search.

### Detailed modules

| Module | Code | Notes on the correspondence |
|---|---|---|
| `SpscRing` | `lock_free_spsc_ring_buffer.inl` | `head_` and `tail_` are modification orders `heads` and `tails`; an acquire load returns any entry from the last one seen on. `readBy` and `wroteBy` record the last access to each slot: the plain access of one thread must happen before the conflicting one of the other. |
| `SpmcRing` | the value ring of `lock_free_spmc_ring_buffer.inl` | as above, with tags, slots that are atomics with orders of their own, `headKnew` and `tailKnew` for what an acquire brings along, and compare-exchange that may fail spuriously |
| `SpmcObjectRing` | the object ring of the same file | extends `SpmcRing` and conjoins to each of its steps what happens to the block behind the pointer: allocated, constructed (or the constructor throws), moved from (or the move throws), destroyed, freed |
| `FreeList` | `AllocatorConcurrentFreeList` in `allocator.h`, tags of `atomic.h` | one step per access to `top_` or to a block's next word |
| `LockFreeStack` | `lock_free_stack.inl` | nodes are recycled with the contents of their last use; user code that throws is an action beside the one that does not |
| `LockFreeQueue` | `lock_free_queue.inl` | `head_`, `tail_` and `next` are read in separate steps; `MakeNode` is the node's constructor, with the tag of `next` back at 0 |
| `ThreadPool` | `thread_pool.inl` | the consumers' `doRun` and the control thread's calls, one step per access to a counter, flag or the queue. The queue is `FifoQueue` in one step: there is one producer, and the run `pool_queue_and_free_list` justifies it. Both idle policies come back by themselves, `Signaled` after 50 ms, so sleeping is no step. A task may throw when it is run, copied into the queue (after `++numWaitingTasks_`) or moved out of it (before the decrement). |
| `RWLock` | `rw_lock.cpp` | one step per atomic access; all have the default, sequentially consistent order |
| `Semaphore`, `SemaphoreParameters` | `atomicLock`, `atomicTryLock`, `atomicUnlock` in `atomic.h` | the counter is a sequence of messages with release sequences; what a message releases is how many critical sections of each thread happened before it. The parameters and their assumption are a module of their own, for runs that have two instances. |
| `Condition` | `Condition` in `impl/thread_posix.inl` | a step is what a thread does between getting the mutex and giving it up; the system may wake anybody at any time, and a time limit may expire at any time |
| `Thread` | `Thread`, `impl/thread_posix.inl` | owner and worker, composed with `Condition` for `runCondition_`; the volatile flags are sequentially consistent; what is read from a deleted object can be anything |
| `Singleton` | `singleton.inl`, `impl/singleton_impl.cpp` | the guard is one more object; each thread has a stack of calls, as constructors and destructors ask for others; constructors may throw. No constructor asks for its own singleton, over others or not, and other threads have ended when `main` returns; both are asked of users. |
| `SharedPtr` | `shared_ptr.h`, `DefaultCounter` and `IntrusiveCounter` | a counter changes by read-modify-writes only, so its newest value is always seen; `known` and `released` follow what happens before what. `count()` is not modelled. |
| `BinaryOSocket` | `binary_o_socket.cpp` | what is done under `bufferLock_` is a few steps, each send one, partial or throwing; composed with `Condition` for `flushCondition_` |
| `MessagePipe` | `message_pipe.cpp`, local sockets | descriptors are the lowest free number of the process and other code opens and closes some too; sockets, queues and `poll` are the system's (external); a call that waits in `poll` is two steps; a process may end anywhere. `Careful` restricts the calls to the order in which finding 6 cannot happen. |
| `SList` | `slist.inl` | a heap of successors and values; each operation as what it makes of the heap, `sort` with its counters; constructors that throw half-way |
| `StaticVector` | `static_vector.inl` | slots that are raw, hold an object or a moved-from one; the moves of the tail slot by slot; constructors that throw. `Prudent` leaves out the two calls that are known to destroy something (section 5). |
| `KdTree` | `kd_tree.inl` | points with integer coordinates; `balance` call by call with every split that `nth_element` may make, both searches step by step |
| `Boxes` | `prim/aabb_2d.inl` | intersection, containment, join and distance, used by the next ones |
| `QuadTree` | `quad_tree.inl` | leaves by their path from the root; `add` and `remove` are actions, searches are operators that descend as the code does |
| `ObjectTrees` | `split_heuristics.h`, and what three trees have in common | every split that either heuristic may choose and every arrangement that `nth_element` may leave; what a search does with the objects of a leaf; `AreExact`, which each tree's `TreeExact` applies to its own searches |
| `BinaryTrees` | `balance` with two children | `balance` call by call, the right child linked when it is made |
| `AabbTree` | `aabb_tree.inl` | searches with the stack of their own and the recursion they fall back to when it is full |
| `AabpTree` | `aabp_tree.inl` | planes instead of boxes, recursive searches |
| `QbvhTree` | `qbvh_tree.inl` | nodes by their path from the root; a call of `balance` divides twice, makes leaves of halves that are small enough, and forces a split where a leaf cannot count the objects; `sort4` as its five comparisons |

`map` in `PROJECT.json` has the source lines of every definition. A definition whose name
starts with `Fault_` is a plausible bug in place of the definition after it; `mutants`
names the property that finds it.

Ghost variables (`sent`, `received`, `done`, `late`, `sections`, `readBy`, `known`, ...) are
marked as history and no guard reads them, but for the bounds on the number of operations.

**Memory model.** `SpscRing`, `SpmcRing`, `Semaphore` and `SharedPtr` follow the C++ rules for the
orders the code asks for: modification orders, stale reads bounded by coherence and
happens-before, release and acquire. `FreeList`, `LockFreeStack` and `LockFreeQueue` take
interleavings of single accesses only: their decisive loads are checked by a
compare-exchange on a tagged pointer, which fails on a stale one. `RWLock` and the counters
of `ThreadPool` are sequentially consistent in the code. `Condition` is under a mutex. The plain
and volatile flags of `Thread` and `BinaryOSocket` are taken as sequentially consistent, which the
code does not ask for and the supported processors give for single words.

**What the data are.** Coordinates of the trees are integers, in two dimensions: equal keys
and points on edges, which integers have in plenty, are where searches go wrong; rounding is not
modelled. In `QuadTree` they are not below 0, so that every half is rounded the same way. A squared radius
above all distances stands for infinity, and in `KdTree` a `maxCount` above the number of
objects for the overload without one. The SAH heuristic of the object trees may choose any center
of an object on any axis, or a leaf: its costs are floating-point, and what searches
find must not depend on them.

**Proof modules.** `KdTree_proofs`, `MessagePipe_proofs` and `StaticVector_proofs` extend the module they are named
after. `MemoryOrders_proofs`, `ObjectRingAndStack_proofs`, `PoolAndFreeList_proofs`, `Synchronization_proofs` and
`OwnersAndContainers_proofs` extend the MC module of a run, so that a theorem states the very property the run
checks; what is proved there is proved for every value of the constants that the `.cfg` gives. What is proved of any
k-d tree, pipe and vector is carried to the instances in those modules by `INSTANCE`.

## 3. Runs

Components whose checks are small share a run. A variable `part` chooses the component
of a behaviour; only its actions are enabled and the variables of the others stay as they began, so
a run explores the state graphs side by side and not their product. Every action is still a
disjunct of its own.

| Run | Components and instances | Shows |
|---|---|---|
| `memory_orders` | SPSC ring: capacity 2, 6 pushes, 2 values. SPMC ring: capacity 2, 3 pushes, 2 consumers. Semaphore: 3 threads, 2 slots, one call each | no slot race; right verdicts; both rings implement `BoundedFifo`; with the SPSC sides retrying, and with one SPMC consumer running, everything is delivered. Never more inside the semaphore than slots; the newest value releases every section that has ended; every call returns |
| `object_ring_and_stack` | object ring: capacity 2, 3 blocks, 3 pushes of 3 objects, 2 consumers. Stack: 2 threads, 3 nodes, 2 values, 3 operations each | no block is used after it was freed, freed twice, or lost, other than by a throwing move; objects come in order. The stack implements `LifoStack` and accounts for every node, also when constructors and moves throw |
| `pool_queue_and_free_list` | pool: 2 consumers or none, 3 tasks that may throw when run, copied or moved, limit none or 1. Queue: a producer with 4 operations and a consumer with 2, or both with 2; 3 nodes. Free list: 2 threads, 3 blocks, 4 operations each | `completeAllTasks` returns normally only when all is done; the limit is kept and the counters never pass below what is queued; the destructor is right; it and `addTask` return if nothing throws, for whatever reason. The queue implements `FifoQueue`, with right empty verdicts and every node in one place; the consumer finishes although the producer may stop between linking its node and moving `tail_`. The free list implements `BlockPool`; one thread finishes wherever the other stopped |
| `synchronization` | lock: 3 threads, 2 places, calls for ever. Condition: 3 threads, calls for ever. Thread: joinable. Stream: 2 sockets with buffers of 2 and 1, 2 bytes. Singletons: 4 and the guard, 2 threads | **lock**: exclusion, exact counters, a reader enters at most once after a writer began to try, a waiting writer, or another one, gets in (not more: one writer may lose for ever to the others). **Condition**: no signal is lost; implements `AutoResetEvent`. **Thread**: `join` tells the outcome, nobody is in a deleted object. **Stream**: bytes come once, in order, to their socket; they are sent without a flush, once the user has stopped writing. **Singletons**: one of each, destroyed by priority. `run` and `join` of the thread, the destructor of the stream and `instance` return |
| `owners_and_containers` | shared pointers: 2 threads, 3 handles, 2 objects. Pipe: 2 processes, 2 descriptors, 5 sockets. Lists: 2, 4 nodes. Vectors: 2, 3 slots. k-d tree: up to 4 points. Quad tree: 3 objects, 6 shapes, depth 2. AABB, AABP and QBVH tree: up to 4 objects, 5 shapes, stack of 3, none and 2 | **shared pointers**: counters are exact, one deletion after all uses. **Pipe**: each descriptor of a process is one its pipe or other code knows; no message lost, doubled or overtaken. **Lists, vectors**: every operation does what is said of it, nodes and objects are in one place. **Trees**: every search is right; the k-d tree's array of visits suffices, the stacks of the AABB and the QBVH tree do not overflow |
| `queue_two_producers` | 2 producers, 3 operations each | **finding 1** |
| `thread_pool_failure` | 2 consumers, 2 tasks | **finding 2** |
| `semaphore_order` | 2 threads, 1 slot, 2 calls each | **finding 3** |
| `condition_broadcast` | 3 threads | **finding 4** |
| `detached_thread` | a detached thread and its owner | **finding 5** |
| `message_pipe` | 2 processes, any order of calls | **finding 6** |
| `slist_splice` | 2 lists, empty ones included | **finding 7** |

### Why these bounds

* **Rings**: capacity 2 is the least at which full, empty and neither differ. Six pushes
  take the SPSC ring, which has three slots, round twice, so every index is used again; three
  pushes take the SPMC ring into its second lap, where only the tag tells full from empty.
* **Free list, stack, queue**: three blocks or nodes and two threads are what an ABA
  needs: one thread suspended between the read of `next` and the compare-exchange, the
  other popping two nodes and pushing the first back. In the queue the producer's four
  operations let a node be the dummy, free, in the queue, and the dummy again during one
  `pop`. With the tag left where it is (`nextTag(p) == p.tag`) all three parts fail.
* **Tags**: `TagMod` is above the number of operations of a run in `FreeList`,
  `LockFreeStack` and `LockFreeQueue`, as the tag must only outrun one suspended operation.
  The code's tags have 16 bits or more: a thread suspended during exactly 2^16 operations is
  outside of the models and is listed as a hazard. `SpmcRing` counts laps modulo 3.
* **One producer in `pool_queue_and_free_list`**: the promise does not hold with two (finding 1).
* **Thread pool**: two consumers and three tasks let one task be queued, one be counted and
  one be running or failed, under both participation policies. A pool of one thread that participates has no consumer.
* **RWLock, Condition**: no bound at all on calls; `late` stops counting at 2.
* **Semaphore**: one call each for three threads and two slots: a third of the threads finds the
  lock full, and stale values of every kind occur. The theorems have no bound.
* **Thread**: one owner and one worker is all a thread object has.
* **Stream**: two bytes over a buffer of one and one of two: the buffer fills, is sent
  in parts, and the socket is changed in between.
* **Singletons**: one that asks for others when it is made, three that ask in their destructors,
  in both directions, and one that is never destroyed.
* **Shared pointers**: three handles on one object are needed for one thread to drop its last one while
  the other copies. Three threads, three handles and one object pass as well; the theorems have no bound.
* **Pipe**: with five sockets an `accept` takes the place of an earlier connection and a client
  connects again; two descriptors make the lowest free number collide with the one just closed. Two
  messages each way over a connection and room for two in a socket: full, empty and one message behind another occur. When all
  five sockets are made, an end sends no second message.
* **Lists**: four nodes take `sort` over three of its counters. **Vectors**: three slots move a tail
  of two by one and of one by two.
* **k-d tree**: four points are three levels and leave one child without a partner. Six places make equal
  keys the rule. Targets are two of them. Squared radii are 2 and 9, which is above every distance; with 9 the
  counts are 0, 2 and 5 (none, some and all), with 2 the count is 2.
* **Quad tree**: three objects, one per leaf, two levels: a split leaves objects in several leaves; shapes
  lie within quarters, on the lines between them, and over all of them. **AABB tree**: three levels over a
  stack of three: the fallback to recursion occurs at the second level already. **QBVH tree**: two levels over a
  stack of two, and leaves that can count one object where the heuristics allow two, so that splits are forced.

Symmetry is used in `object_ring_and_stack`, `owners_and_containers` and `queue_two_producers`, where the
identities are only compared for equality and no liveness is checked. Choices that make no difference are
made once: the n-th object pushed into the object ring is object n, as the code never looks at objects; the first value
pushed into the SPMC ring is always the same; other code opens files in one process at a time, as the files of
one process do not matter to the other. In the trees it
makes no difference which object is at which place, so their places are taken in
order, and objects outside of the tree are all at one place.

### Fairness

* The two sides of the **SPSC ring** retry and go on running (weak fairness of each side);
  a stale load may not be stale for ever.
* **SPMC ring, free list, queue**: only *one* thread runs for ever, the others may stop
  anywhere, which is what lock-free means. A weak compare-exchange must not fail spuriously for
  ever (strong fairness of its success).
* **Thread pool**: each thread runs on; no call is ever forced on anybody.
* **RWLock**: a thread inside a call or inside the lock goes on. For the writer's
  compare-exchange strong fairness: the lock becomes free again and again only if no one takes it,
  and readers are held back.
* **Semaphore**: a spinning load sees the newest value some time, which C++ asks of
  implementations ("in a reasonable amount of time").
* **Thread**: owner and worker run on; the time limit of a wait expires some time, whatever wakes
  the sleeper in between (strong fairness).
* **Stream**: user and flush thread run on inside their calls; the time limit expires; a thread that
  waits for the mutex gets it (strong fairness), as the other holds it for moments only. Nobody is made to write.
* **Singletons**: a thread in a call goes on; a spin lock that is free again and again is taken (strong fairness).

The other components have no liveness: their operations are single steps or end by
themselves, and a pipe without time limit may wait for ever.

## 4. Proofs

TLC's runs are small instances; the theorems hold for every value of the constants that the
named assumptions allow. A property seldom says *why* it holds, and an invariant that does is what each
proof is about. `theorems` in `PROJECT.json` lists the results with the property of a run that each one states.

**SPSC ring** (`MemoryOrders_proofs`): any capacity, values and number of pushes. `RingTypeCorrect`,
`DataRaceFreedom`, `FifoOrder`, `ExactVerdicts` and `RefinesBoundedFifo`. The invariant is `Walk` (the
n-th index of `tail_` is the n-th index of `head_`, and any capacity + 1 consecutive ones
differ), `Distance` (how far apart the sides can be, and what each knows of the other, however
stale), `Contents` (the slot of the n-th index has the n-th item until it is popped) and
`Accesses` (which index made the last access to each slot). The refinement is proved
from this: the initial states map to initial states and every step to a step or a stutter.

**SPMC ring and object ring** (`ObjectRingAndStack_proofs`): any capacity, consumers, values and objects, with fewer
pushes than capacity × tags. `RingVerdicts`, `RingRefinesBoundedFifo`, `ObjectRingBlocks`, `ObjectRingOrder`. A verdict
of full or empty is exact for the entries of `head_` and `tail_` that were loaded; these may be older than the call, but not
than what the thread knew when it began (`NothingForgotten`). The n-th
entry of `head_` and of `tail_` is the index that stands for position n, and an index stands for one position only,
which is where the bound on pushes comes in. The entries of a slot are the items that fell into it, in order. A consumer
that still has the current tail works on the next position; nobody else has taken the item there, the newest entry of its
slot is that item, and what the consumer acquired with `head_` makes it see that entry, however stale its loads may be. For the blocks:
what waits in the ring, what a consumer holds, what the producer is pushing and what a throwing move
spoilt are different blocks, and every block that is not free is one of them; so the destructor's walk
meets exactly those that wait.

**Free list and stack** (`PoolAndFreeList_proofs`, `ObjectRingAndStack_proofs`): any finite sets of threads and
nodes, as many operations as the tag tells apart (operations × threads below the number of tags, twice that for the
stack, whose `pop` may have to push again). The nodes from `top_` on are a list without repetition, every
node is in one place, and the tag of `top_` counts the successful compare-exchanges, so a thread whose copy still has the tag
has `top_` itself, and what it read for the new top is still right: no ABA. From this `AllocatorBlocks`, `StackNodesAccounted`, and the
refinements of `BlockPool` and `LifoStack`. What a linked list contains is defined by recursion; instead of an induction the
invariant has the list as a sequence, and that the recursion finds it is proved by the smallest counterexample.

**Queue with one producer** (`PoolAndFreeList_proofs`): any threads that pop, any finite set of nodes, fewer
operations of the producer than tags (`SoleProducer`, `TagsSuffice`); with two producers finding 1 refutes it. `EmptyVerdictRight`,
`NodesInOnePlace` and `QueueIsFifo`. The tags of `head_` and `tail_` are positions in
the history: `head_` has passed as many values as its tag says, and `tail_` is at the last link or at the one before. Nobody but
the producer moves the end of the list, so what a `pop` has read is right as long as `head_` still has the tag it read, and if
it does not, the compare-exchange fails. The nodes are again given as a sequence, of which `Chain` is what the
destructor would walk.

**Thread pool** (`PoolAndFreeList_proofs`): any finite set of consumers, any limits and number of tasks.
`CompleteAllTasksIsRight` is the point of the pool: the two counters are read one after the
other, and yet nothing slips through. The invariant needs `Covered` (`numWaitingTasks_` is at
least what is queued, popped and not discounted, owed by the control thread, or
lost to an exception on the way into the queue, out of it or in the control thread; `numRunningTasks_` at least the consumers between the counters and those
that ended with a task that threw), `Kept` (no task is forgotten: each is done, failed, cleared, queued,
in a consumer or in the control thread), and `Seen` (after `numWaitingTasks_` was 0, nothing
is queued or between the counters until the control thread adds something, so a 0 in
`numRunningTasks_` read later is final). Inequalities suffice, and are what failures
leave of the counts. `LimitKept` (which also says that the counters never pass below
what is queued, nor below 0), `DestructorIsRight` and `TypeCorrect` follow from the same invariant.

**RWLock** (`Synchronization_proofs`): any finite set of threads and number of places. `ExclusionHolds`,
`CountersExact`, `ReadersHeldBack`, `UnlockwFindsZero` and `LockTypeCorrect`. Exclusion and the
accounts are inductive only together, with two facts about readers in between: one that is about
to compare-exchange saw a place (`PlaceSeen`), and one past the test of `writersTrying_` has not
entered since a writer began to try (`LateSpent`).

**Semaphore** (`MemoryOrders_proofs`): any finite set of threads, slots and calls. `MutualExclusion` under stale
loads (the compare-exchange compares with the newest value), `ReleaseSideIsRight` and
`SemaphoreTypeCorrect`. The second needs `NotAhead`: no view, of a thread or in a message, has more sections
than have ended, so joining the newest message with any view adds nothing to it.

**Condition** (`Synchronization_proofs`): any set of threads. `SignalsAreKept` (`NoLostSignal` in every state) and
`RefinesAutoResetEvent`. That no signal is lost is inductive with facts about each thread alone
(`ClientsPlaced`): a wait has expired only if it has a limit and its thread was woken, and a thread outside has
neither. In the refinement a signal is pending while `signalFlag_` is set, and who takes it with a
time limit behind it still takes it.

**Thread** (`Synchronization_proofs`): `JoinIsRight`. The state of a joinable thread is a matter of where owner and
worker are; the invariant tells for each pair of places what the flags and `error_` are.

**Stream** (`Synchronization_proofs`): `BytesGetThrough`, for any sockets, buffer sizes and lengths of writes. What was
written for a socket is what was sent to it and, if it is the current one, what waits in the buffer (`AllBalanced`). This is
inductive with `OneHolds` (one thread at a time is between taking and giving up the buffer, whatever the condition does) and
`BeginOfFlush` (only a flush is in the middle of the buffer, and one that fails there has torn the stream).

**Singletons** (`Synchronization_proofs`): `SingletonsAlive` and `PriorityKept`, for any threads, singletons, priorities
and needs of constructors and destructors. The invariant is about the stacks of calls: what each call may count on at its
step (`MayCount`), that the call below one on a stack is asking for it, that a lock has one thread in it, and that a singleton
that was made is published or about to be, once. Priorities add what the list of the guard is at exit.

**Shared pointers** (`OwnersAndContainers_proofs`): any finite sets of threads and handles, any set of objects. `CountersExact`: the
counter of an object is the number of handles that own it and of temporaries about to be
dropped, an account by cardinalities of sets that change by one. `NoUseAfterDeletion`: deletion comes
after every use. That needs `Remembered`: as long as an object lives, each thread's uses are
known to some owner or were released by the counter; the last owner has both.

**Message pipe** (`MessagePipe_proofs`): any processes, descriptors, room in a socket and numbers of sockets and messages,
in careful use. `PipeInvariant`, `DescriptorsKept` and `MessagesKept`; `OwnersAndContainers_proofs` carries the last two to
the pipe of the run (`PipesKeepTheirDescriptors`, `PipesLoseNoMessages`). The invariant says that a socket is open
under one descriptor of one process only; that one which waits to be accepted is open nowhere and waits once; that peers are
each other's peers; that what was taken from a socket, followed by what is in its queue, is what its peer sent, in order;
and, for each process, which descriptors its pipe answers for, between calls and in the middle of `accept`, `send` and
`receive`, where other code may open and close files meanwhile.

**Vector** (`StaticVector_proofs`): any number of vectors, slots and values, in careful use (`Prudent`; without it, section 5 says
what is destroyed). `VectorsAreVectors`; `OwnersAndContainers_proofs` carries it to the vectors of the run
(`VectorsDoWhatVectorsDo`). The invariant is small: a vector in which no constructor threw has an object in each slot below
its size and in no other. What needs proof is each operation. A vector with that property is the vector of a
sequence (`VectorOf`), and `insert`, `erase`, `resize`, `swap` and the assignments take the vector of one sequence to the vector of the
right one. The tail is moved object by object, by recursion over the slots; what the slots hold after n moves has
a closed form (`MovedBack`, `MovedFront`), and that the recursion comes to it is again proved by the smallest
counterexample. Ranges may overlap themselves, so each form says which slots were left raw, which have been
filled, and which not yet touched.

**k-d tree** (`KdTree_proofs`): any finite set of objects at any places, any targets, radii and counts.
`InvariantHolds`, `SearchesAreExact` and `StackIsLargeEnough`; `OwnersAndContainers_proofs` carries the last two to the
tree of the run. Each node keeps what `balance` was given for its children; a child is made of
exactly that, or the call that makes it is still to come, or there was nothing to make, so what is below a node is known
without a look further down. In a search, what could still be part of the answer is below a visit, or a call, that is
still to be made; for `rangeSearch` the furthest that was found bounds `squaredRadius`. The stack: the median leaves at most
half of the objects on either side (`Halved`), so the k-th visit on the stack is for a node with at most n / 2^(k - 1)
objects of n, and above it is one with two more (`StackInv`); powers of two are proved of by the number of subsets.

Assumptions: the named assumptions of each module only, which TLC evaluates in the runs. They are
positive capacities and counts, finite sets of threads and nodes, distinct special values, and, for what has tags,
that no tag comes back (`TagsSuffice`): 2^16 and more operations during one suspension are a hazard of its own.

Only model-checked: all liveness, which is out of the prover's reach, as are ENABLED and induction over data. The latter is
what lists (`ListsAsDocumented`: what `merge`, `sort` and `unique` make of a list is defined by folds and recursion over
it), the quad tree (`IndexExact`) and the box trees (`TreeExact`: searches that recurse over the tree) would need. Also the
queue with two producers. `SpmcIsBoundedFifo` is stated as it stands in its run by no theorem, its two parts
are `RingVerdicts` and `RingRefinesBoundedFifo`.

## 5. Findings

1. **Two producers can reorder the queue** (`queue_two_producers`, `lock_free_queue.inl:229`).
   The constructor of a node resets the tag of its `next` to 0. A producer that has read
   `(null, 0)` from `tail->next` and was suspended still succeeds with its compare-exchange after
   that node was popped, freed and allocated by another producer. Its value then hangs on a node
   that is not in the queue yet: `push` has returned and the value cannot be popped, and a
   later push of the same thread overtakes it. The header promises a FIFO structure.
2. **After a failed task the pool never completes** (`thread_pool_failure`,
   `thread_pool.inl:348`). An exception skips `--numRunningTasks_`, or `--numWaitingTasks_` when the
   control thread participates. So does an exception of the task's copy in `waitingTasks_.push` (112, after
   `++numWaitingTasks_`) and of its move in `pop` (332, outside of the `try`, and 149): the task is gone and stays
   counted. Once the error was reported, the next `completeAllTasks`, which
   the destructor calls, spins for ever.
3. **`atomicLock` does not acquire** (`semaphore_order`, `atomic.h:237`). The compare-exchange
   releases but does not acquire, and the loads of the loop are relaxed: a section need not
   happen after the one before it. The comment argues that relaxed loads are enough. The release side is
   right, which is proved.
4. **A broadcast releases one** (`condition_broadcast`, `impl/thread_posix.inl:361`). It sets
   `signalFlag_`, which the first waiter to wake clears; the others sleep on. `thread.h:182` says that a
   broadcast releases all. As an auto-reset event the condition is right, which is proved.
5. **A detached thread may be gone before `run` has returned** (`detached_thread`,
   `impl/thread_posix.inl:442`). `run` waits on a condition and a flag of the object which the
   detached thread deletes when `doRun` has returned. `thread_fun.tmpl.h:59` shows that use.
6. **A pipe may close, read or write a file of other code** (`message_pipe`, `message_pipe.cpp:510`).
   `accept` closes its connection and keeps the number; after a wait that times out the next call uses
   it, although the system may have given it away. `close` on a client and `create` after
   `connect` do the same. In the order `Careful` allows nothing of the kind happens
   (`DescriptorsAccounted`).
7. **Splicing an empty list takes the tail of the other** (`slist_splice`, `slist.inl:1252`). The case is
   excluded by an assertion only, while `slist.inl:865` promises that the emptied list is the one given.

Disagreements met while reading that have no run:

* `rw_lock.h:70` speaks of only one subsequent reader: each reader that was past the test of
  `writersTrying_` may still enter once (`LateOnce` says exactly this).
* `lock_free_stack.inl:221` says that reading `next` of a recycled node "should be safe"; `next` is a
  plain pointer and the read races with a write. The model lets it return the old or the new value.
* `lock_free_spmc_ring_buffer.inl:63`: `empty()` loads two indices one after the other; a thread that
  is neither the producer nor a consumer can be told empty of a ring that never was.
* `ThreadPool`: a thread that cannot be bound to a processor after its `run` (`thread_pool.inl:219`) is destroyed while it
  runs and not joined, which `thread.cpp:239` warns of. The model lets a thread fail before it runs only.
* A pool with one thread, `SelfParticipating` and a limit has nobody who makes room: `addTask` on a full queue never returns.
* `Condition`: a wait that timed out takes a signal that is sent before it has the mutex again
  (`thread_posix.inl:332`) and reports the time-out. `AutoResetEvent` says so in `TimeOut`.
* `BinaryOSocket`: after a send that failed behind a partial one (`binary_o_socket.cpp:282`) the
  bytes that are left are the wrong ones, if the user clears the error and goes on (`torn`). A write of no bytes also
  makes the flush thread skip a beat (line 207): a user who writes nothing before every beat puts off the flush for ever, so
  `WrittenIsSent` is about users who stop writing.
* `MessagePipe` on POSIX has no destructor, the Windows variant closes its handles
  (`message_pipe.cpp:98`): descriptors of a destroyed pipe stay open until the process ends, and the
  other end is not told. A send to an end that has gone raises `SIGPIPE`; a message shorter than asked for is
  accepted; after a `transact` that timed out the next one gets the late answer.
* `SharedPtr(TPointer)` leaks what it is given when the allocation of the counter throws.
* `slist`: constructors leak the nodes they have when a copy throws (`lost`). `slist` and
  `static_vector` compare less than only by elements up to the first that is not less.
* `static_vector`: `erase` of an empty range destroys the tail (lines 602 and 669), self-assignment
  empties it (153), an `insert` that throws leaves raw slots below `size_`, and one of an element of
  its own reads a slot that was moved from.
* `QuadTree`: an object added twice counts once when it is removed; `decompose` that throws leaves objects in
  a node that queries do not look at; the average depth leaves out the first child (line 1050).
* `KdTree` with integral values: infinity is 0, so `nearestNeighbour` without a radius finds nothing.
* `AabbTree`, `AabpTree`, `QbvhTree`: `balance` does not look at the `maxDepth` that the split heuristics keep. Splits are in
  the middle of a box, so objects at distances in geometric progression make the tree, and the recursion of `balance`
  and of searches, as deep as there are objects.
* `AabpTree::intersects` pushes onto an array of 32 visits without a test (`aabp_tree.inl:271`), and such a tree is deeper.
  It and `find` of a ray compare strictly with the ends of the ray's way through the box, so flat objects in
  the face where it enters or leaves are passed by, while `intersect` finds them.
* `QbvhTree`: the constructor throws for more than 2^31 - 1 objects, but a leaf refers to one of the first 2^27 only
  (`qbvh_tree.h:239`), which is an assertion. `qbvh_tree.inl:590` asks for room for `maxCount` results; the
  search writes `maxCount` + 1 before it takes one out, as `kd_tree.inl:314` says of its own.
* `util::future`: `bind` calls a function that does not exist, so it does not compile when used.

## 6. Not modelled, and why

* `win32` variants: second implementations of the same promises.
* `IdGenerator`: one loop around a compare-exchange. Mutex, thread-local storage and processor binding: the
  system's.
* The deprecated counters and semaphore overloads on volatile integers; `ScopedPtr` and the other smart
  pointers of one owner.
* Searches of the object trees along rays, and the planar mesh: floating-point geometry with tolerances. `num` and
  `prim`: the same, and sequential.
* Dictionaries, callbacks, streams, XML, images, arguments, meta-programming and the
  adapter of CPython: sequential, without behaviour of their own over several steps, or pure input
  and output.
* Within modelled components: the sleeping of the pool's idle policies, exceptions of its condition and mutex, a task
  whose default constructor throws, and binding to processors; allocation of null by
  `AllocatorMalloc` (`allocator.h:904`); `EINTR` loops, connects in progress and names of message
  pipes; the box a `QuadTree` computes from a range, and failing allocations in it; `findNode` and the
  recursive variant of `KdTree`'s search, which the code does not call.

Most of the lines of the library are of these kinds, so what the map covers is a small share of them.

## 7. Plan

Done, in the order of importance: rings, free list, stack, queue, pool, locks; condition, thread, singletons,
shared pointers, socket stream, message pipe; list, vector, five trees. Proofs of everything with more than one thread or
process, of the k-d tree with its stack, and of the vector.

What remains is extension: `vector_map`, rays along the axes, `IdGenerator`.
