# libcvc: TLA+ models, checks and proofs

libcvc is a C++20 library for visual computing: volumes, geometry and meshing,
signed distance fields, navigation and physics, rendering, and, under these, a
*state tree* that applications share, replicate between machines, and program
with *state_exec*, a Lisp whose processes are run by schedulers. Most of its
volume is numerical. What is hard to get right and hard to test is the
concurrent part, and that is what is modelled here, the hardest first: the lock
manager of `state_exec`, the scheduler that runs its processes, the thread pool
and the lanes under both, and the replication of the tree between nodes.

Paths below are relative to the repository; `core/`, `state/` and `state_exec/`
stand for `src/cvc/core/`, `src/cvc/state/` and `src/cvc/state/state_exec/`.

## 1. Inventory

### 1.1 The lock manager of state_exec (modelled)

`(with-lock KEY BODY)` runs BODY in a section: shared or exclusive, on one or
several keys of the state tree, each of which stands for its whole subtree.

| part | state | operations | talks to |
|---|---|---|---|
| lock table, `state_exec/lock_manager.cpp` | a record per process with holds or a ticket, holds, tickets queued by seq, flags of abandoned keys, the generation counter; a trie as index | `attach_home`, `detach_home`, `try_acquire`, `block`, `resume`, `start_body`, `cancel`, `release`, `end`, `set_base`, `read_inh` | called by every home; returns the posts its caller has to deliver |
| lock home, `lock_home.cpp`, one per scheduler | a mirror of its processes' holds, their tickets and counts, a port (a mutex-guarded queue) | `try_enter`, `wait`, `collect`, `start_body`, `release_frame`, `process_ended`, `wait_expired`, `deliver`, `drain_port`, the destructor | its scheduler's thread; other homes' ports |
| with-lock, `stackless_evaluator.cpp`, `lock_intrinsics.cpp` | a lock frame on the process's stack | acquire, park, resume, begin the body, release on return and on unwind | its home |

*Hard:* each home has a thread of its own. An operation on the table is atomic,
but a blocking entry is two of them (`try_acquire`, then `block`), the park is
a third step, and a wake is delivered after the unlock, to another thread's
port. A grant can race a timeout, a throw, a kill and the destruction of either
home. One pass over the queue grants several tickets, over a hierarchy of keys,
with an exemption for a process whose own hold blocks the waiter it would queue
behind, and a cycle is sought only when a request blocks. An exclusive section
cut short leaves a flag that exactly one later section must be told of.

*Correct means:* conflicting sections of different processes never overlap;
records, holds, tickets and mirrors agree; the queue is served in order but for
the exemption; no grantable ticket is left queued; no wait-for cycle; every
wake reaches its waiter and no late one ends a newer wait; an abandonment is
reported once, and to the first that enters; generations increase.
`docs/STATE_EXEC_LOCKS_PROTOCOL.md` lists these as I1-I15.

### 1.2 Core threading (the thread pool and the lanes are modelled)

| part | state | operations | hard |
|---|---|---|---|
| `core/thread_pool.cpp` | a FIFO of jobs that live on their callers' stacks, an idle count, two condition variables | `parallel_for`, the workers' loop, the destructor | the lifetime of a job; lost wakeups; a task that throws; how many to wake |
| `core/async_lane.cpp` | a queue of tasks, a mode (own thread, or deferred to a pump), stop flags | `submit`, `run_deferred`, `stop` | submit against stop; stop from inside a job; the pump's drain against stop's; one reply per task |
| `core/async_task.cpp`, `sliced_task.cpp`, `world_clock.cpp`, `clock_driver.cpp` | task state, time budgets | resume, cancel, step | control is single-threaded; time is floating point |

*Correct means* (pool): a fan-out returns after every participant has left it,
each index is run once or, after a throw, at most once and the first exception
comes back; no worker sleeps through work it could do; the pool can end.
(Lane): one job at a time and in order, each submitted job refused or run, its
waiter answered exactly once, its captures released before it leaves the count,
and `stop` returns with nothing left behind, also from inside the lane's own
jobs. It need not return when jobs of two lanes stop each other's lanes: see
Findings.

### 1.3 The schedulers of state_exec (the synchronous one is modelled)

| part | state | operations | hard |
|---|---|---|---|
| `state_exec/process.cpp`, the process table | run queue, sleepers, receivers by channel, lock waiters, a heap of deadlines with stale entries | `insert`, `update`, `set_status`, `take_receivers`, `wake_due`, `check` | five indexes of one status; one timer for three kinds of deadline |
| `state_exec/scheduler.cpp` | the run and stop flags, the queue of posted commands, queued messages | `run`, `step`, `post_control`, `stop`, send, receive, signal, kill, pause, resume, sleep, the destructor | posts and stops from other threads; exceptions in the middle of a timer pass or a batch of commands; handlers that interrupt a process |
| `async_scheduler.cpp`, `exec_coordinator.cpp`, `data_job.cpp` | the same over frames and worker threads | | not modelled |

*Correct means:* the indexes agree with the processes whenever the scheduler is
between steps; no deadline and no message is lost; a wait ends by what it waits
for; every posted command is heard of once and in order; a stop ends the run.

The evaluators, heap and memory tracker interpret the language: sequential, and
about data. `with-lock` is in LockHomes.

### 1.4 Distributed state (replication is modelled)

| part | state | operations | hard |
|---|---|---|---|
| `state_sync_adapter.cpp`, `state_change_journal.cpp` | the journal of a node's own writes | a handler of the tree's signals; append, replay, trim | a handler reads the value after the write; remote writes must not come back |
| `state_cluster_shard.cpp`, `state_replica.cpp`, `state_hybrid_time.h` | a cursor, the seen-set, the last remote mutation of each path, a hybrid clock | drain, replay, ingest | duplicates; which of two concurrent writes wins, everywhere the same |
| `state_transport_ipc.cpp` | connections with their peers' names | accept, dial, HELLO and backfill, publish, readers | two connections to a peer; a backfill against live writes; each end fails by itself; a peer is counted as served before the write that may fail |
| the other transports, sessions | | | I/O of the same kind |
| `state_cluster_membership.cpp` | peers with last-heard times, a tick thread | `start`, `stop`, `on_heartbeat`, `register_peer`, `scan_peers` | registry and replica are updated after the unlock; start against stop |
| `state_delegation_manager.cpp`, `state_authority_map.cpp` | which cluster owns which prefix, until when | delegate, renew, revoke, route | check, read and write are separate calls |
| `state_inbound_gate.cpp`, `state_write_policy.cpp`, `state_subscription_router.cpp` | rules | decide, route | stateless decisions |
| `state_blob_store.cpp`, `state_eviction_store.cpp`, `state_data_hydrator.cpp`, `state_memory_manager.cpp` | files, refcounts, budgets | put, evict, hydrate | an install that comes late; mostly I/O |
| `state.cpp`, `state_list.cpp` | the tree and its signals | get, set, notify | callbacks under a guard |

*Correct means:* a write reaches every connected node, whenever they connect; no
older write of a node replaces its newer one (both but for the case at
`claim_peer` in Findings); replicas that have heard the same
mutations agree, whatever the order; a live peer is not dropped from one
structure and kept in another; an authority revoked stays revoked.

### 1.5 Not modelled

Volumes, geometry, meshing, fields, physics, navigation, level of detail,
media, rendering, the Ariadne UI, the language bindings, tools, examples and
vendored code: numerical, I/O or user interface, and by far the most of the
lines. `PROJECT.json` lists them. The level-of-detail store and the navigation
world load in the background on the pool and lanes above; only their use of
those could be of interest here.

## 2. Plan

Written, in this order:

1. **LockKeys, LockTable**: the table, every operation but inheritance.
   **LockTableProofs**: types, links and exclusion, the queue, deadlock,
   generations and reports.
2. **WithLock** (abstract), **LockHomes** (composes the table with the homes,
   implements WithLock). **LockHomesProofs**, **LockPromiseProofs**.
3. **ThreadPool**, **AsyncLane**, with **ThreadPoolProofs** and
   **AsyncLaneProofs**.
4. **LockInherit**: the inherited priorities. **LockInheritProofs**.
5. **Scheduler**: the synchronous scheduler and its table.
   **SchedulerProofs**.
6. **ClusterShard**: replication of a path. **ClusterShardProofs**.

To come:

7. **Membership** with delegation: threads against heartbeats and the tick;
   with it the restart of a node, whose sequences start again at one.
8. **LockTrie**: the trie with its subtree counters and its nodes' lives, and
   the homes' key caches, against the enumerations LockTable defines.
9. The frame waits and worker threads of the asynchronous scheduler.

To prove next: the theorems of the modules to come. Every invariant and action
property that the runs of the modules written so far check is proved, but for
HomesGoOn as it is worded (section 5).

## 3. The modules

| module | models | extends |
|---|---|---|
| LockKeys | keys, canonical requests, conflict, own holds that cover or forbid a request | |
| LockTable | `lock_manager.cpp` | LockKeys |
| LockTableProofs | theorems | LockTable, TLAPS |
| LockInherit | `relevel_all`, `set_base`, `read_inh`, the homes' relevel notes | LockTable |
| LockInheritProofs | theorems | LockInherit, LockTableProofs |
| WithLock | what with-lock promises a program (abstract) | LockKeys |
| LockHomes | `lock_home.cpp`, with-lock's steps, the ports | LockTable |
| LockHomesProofs | theorems on the homes' side | LockHomes, LockTableProofs |
| LockPromiseProofs | the refinement; that calls always fit | LockHomesProofs |
| ThreadPool | `core/thread_pool.cpp` | |
| ThreadPoolProofs | theorems | ThreadPool, TLAPS |
| AsyncLane | `core/async_lane.cpp` | |
| AsyncLaneProofs | theorems | AsyncLane, TLAPS |
| Scheduler | `scheduler.cpp`, `process.cpp`, what `intrinsics.cpp` calls of it | |
| SchedulerProofs | theorems | Scheduler, TLAPS |
| ClusterShard | adapter, journal, shard, replica, clock, ipc transport | |
| ClusterShardProofs | theorems | ClusterShard, TLAPS |
| MCLockTable, MCLockInherit, MCLockHomes, MCThreadPool, MCAsyncLane, MCScheduler, MCClusterShard | constants for TLC | |

`PROJECT.json` maps each definition to its lines.

### 3.1 LockKeys and LockTable

A key is an element of a set with the relation `Prefix`, because the code only
ever asks whether one key is at or above another. A request is a mode and a
canonical set of keys. Each public operation of the table takes the guard for
its whole length and is one action. `Finish` is the tail all releasing
operations share: `re_examine` walks, in seq order, the queued tickets that
touch the keys that changed, and grants those that are grantable by then. The
walk is defined by its result: `IsPass(.., G)` says of the set G that a ticket
is in it exactly if nothing blocks it, counting those of G before it. Which
posts an operation returns is derived in LockHomes from the tickets it granted.

`MayRequest` is the precondition under which a home calls the table: the home
has refused an upgrade, found the request not covered, and applied the rule for
handlers between a grant and its body (`Interrupts`; handlers appear only
there). `Reaches` says by closed sets what the code computes with a worklist.
`pendingReport` is a ghost: keys whose abandonment nobody has been told of.

Left out: the trie (an index of the same holds and tickets), the references of
the key cache, owner texts, `lock_stats`, allocation failures, and, in this
module, inherited priorities, which no other state of the table depends on.

### 3.2 LockInherit

Each operation of LockTable is conjoined with what it does to the priorities.
`base`, `inh` and `pending` are fields of the records (functions on the same
domain as `recs`); `priority` and `inherited` are the process's own fields, on
its home's side. `RelevelAll` follows the code's *implementation note*: it
recomputes only `SetA`, what is within `Cap` edges downstream of the seeds in
the graph before the operation or after it, each by a search along
`Predecessors`, which is found from what a process holds and queues.
`LevelsExact` compares the result with `InhFormula`, which goes along the edges
themselves from every process (the code's `inh_def`). A note is in flight until
its home applies it, also where the code applies it at once on the same thread:
other homes act between the unlock and the delivery anyway. `Cap` is 8 in the
code and a parameter here, so that small instances reach past it.

### 3.3 WithLock and LockHomes

`work[h]` holds the calls that home h's thread has still to make; while it is
non-empty that thread does nothing else, and everybody else goes on. So a
blocking entry is `TryEnter` (busy), `RunWait` (`block`), `RunPark`, each a
step that other threads come between. A wake is a *note*: applied at once if
the waiter is of the same home, else posted to its home's port. `DrainPort`
takes all the posts that have landed. `WakeDue` lets any set of waiting
processes expire, since deadlines are times the model doesn't keep; cancelling,
the notes that frees, and the collection of the outcome follow as calls.
`RunThrow` is the exception between `wait` and the park; `Destroy` closes the
port, detaches, then discards. Which of several covering holds a re-entry
counts on depends on the order of keys, which the model doesn't have: any may.
A wait that fails pops its frame where it is collected.

WithLock has one variable, the stack of sections of each process. The
refinement mapping `Sections` gives it the frames whose bodies have begun;
`KeepsPromise` is `WithLock!Spec` under it.

Left out: parsing of the form, texts of errors, snapshots of processes that
wait, a timer pass that throws (it is in Scheduler), and the end of a process that has no lock state, which does nothing here.

### 3.4 ThreadPool

A thread's steps are those others can see: a critical section of `_mtx` is one
step except the caller's wait, where the predicate and the sleep are two, with
the mutex held from `Join` to the sleep - the window in which the last worker
out, which decrements without the mutex, must not get its notification lost.
Condition variables are the sets of threads asleep; a notification with nobody
asleep is lost, and a sleeper may wake for no reason. The job is named by its
caller, whose stack it lives on: `Return` takes it away. n, the cap and the
size of the pool only matter through the number `enlisted`.

Left out: fan-outs within a task (they run inline on the same thread and are
part of it), the fan-out context around a worker's share, and stale values of
the relaxed cursor, which can only send a worker to a job that has run out.

### 3.5 AsyncLane

Lanes nest on a thread, so each thread has a stack of lane calls, and
`RunningHere` (the code's `lane_running_on_this_thread`) looks along it at any
depth. A job may submit to a lane, drain it or stop it, once each run of
`MaxCalls`; in the run, the jobs of either lane may stop both. The count `in_flight` is decremented after the job's captures are
released, which are two steps (`EndJob`, `Count`). A join waits for the one
event that the worker has left. `WaitsOn` is who a stop waits for, the worker it
joins or the thread that drains the lane, and `Hung` the threads on a ring of such
waits, and those that wait on one: `CallsReturn` and `LanesSettle` hold but for
those, which the code leaves there (Findings).

Left out: the error handler and the record of the last error, job times, and
the names of reply channels.

### 3.6 Scheduler

A process is its fields and, in `idx`, its entry in the table's indexes; only
`Update` brings the two in line, as in the code, and `SetStatus` takes the
code's shortcut between runnable states. Time is what a deadline says of itself:
"none", "later" or "due", and `Tick` makes one due at any moment. A program is
the set of calls it may make. The scheduler's thread goes through `pc`; a step
of the evaluator is one action (`Own`, `Send`, `Control`, `Finish`), with the
limits and the end of a handler that `execute_process_step` settles afterwards
(`Settled`). Other threads post (`Post`, then `PostNotify`: the wait is notified
under the same mutex) and stop (`Stop`, then `StopNotify`: it is not), between
any two steps. `load` says which calls, posts, stops and exceptions a run of the
model may still have.

`LastCalls` is what a handler's last call may do to its own process. In
`scheduler` it may pause it; a kill is what `scheduler_last` is about, and a
sleep leaves a ready process with a wake time: see Findings. The one channel stands for each of them; a lock
wait is its deadline and its wake, which LockHomes has in full.

Left out: which runnable process a policy picks, frame waits (the synchronous
scheduler has none), forks, reaping, snapshots, and a timer pass that fails a
second time while it puts a deadline back.

### 3.7 ClusterShard

One path, and per node: the application (`Write`, then `Journal`, the handler of
the signal, which reads the value of that later moment), the pump (`DrainLocal`,
then a `Publish` for each mutation), the accept loop, and a reader per
connection (`Ingest` records and merges the time, `Apply` applies, with the
ingest mutex between). `admit_connection` holds the connection's write mutex
over its registration, HELLO and backfill, so `Admit` is one step. A node with
two connections to a peer sends on the first whose HELLO it has read and on each
whose HELLO it hasn't (`Claimed`). Nodes are named by the rank of their ids,
because ties go by id.

Each end of a connection has a state of its own (`link`): not yet admitted,
`alive`, `dying` (the code's flag `alive` is cleared, and its reader hasn't come
round to see it), or `closed` (the reader has shut the socket). A connection in
the plan's `frail` fails once, at either end, at any moment, in one of three
ways: a write of `Publish` fails after the peer has been claimed (`failed`), and
the frame goes out on no other connection; a write of `Admit` fails, and of HELLO
and backfill a prefix has gone out; or a read fails (`Fail`). Once an end is
closed the other's writes on it must fail (`Shut`), and its reader, when it has
read what was still on its way, ends too (`End`). What was on its way to the end
that closes is lost (`Close`). Of what a node does with a dead connection, one
thing matters to the properties: `Claimed` may now hold a connection to the same
peer that it passed over before. `switched` remembers for which peers that has
happened (`Turn`); nothing depends on it but the properties.

What is taken for granted: conflicts are resolved (`set_resolve_conflicts`, off
by default); the wall clocks stand still over a run, each as far ahead as
`Ahead` says, so that time is what the counters of the hybrid clocks make of it;
each node's application writes from one thread; a send doesn't block; the gates for interest, partition, authority, delegation and
policy are off, their default. Other operations on a node, trimming, blobs and
snapshots are left out, and the ipc transport stands for the others.

## 4. Runs

TLC with two workers; times are from a small machine.

| run | question | instance | distinct states |
|---|---|---|---|
| lock_table_queue | who is granted, in which order, can a cycle form | 1 home, 3 processes, 2 unrelated keys, 3 tickets, 3 holds | 143,947, 40 s |
| lock_table_homes | homes detach; a key, its child, and the child with a sibling in one request; is anyone missed; abandonment | 2 homes, 3 processes, 2 tickets, 3 holds | 314,059, 90 s |
| inherit_chains | are inherited priorities exact, do they arrive, is anyone inverted; one change of priority | 2 homes with or without a priority policy, 3 processes, 1 key, paths of 2 edges, priorities 1 and 2 | 331,226, 137 s |
| homes_wakes | is a wake lost, mistaken or late; does a call ever meet a table that can't take it; does every decided wait end | 2 threads, 3 processes, 1 key, 2 tickets, 4 holds | 509,361, 150 s |
| homes_sections | does the mirror match; is WithLock implemented | 2 threads, 2 processes, a key and its child, depth 3 | 252,920, 68 s |
| homes_starve | if programs leave their sections, does every wait end | 1 home, 2 processes, 2 keys nested in either order | 88,179, 26 s |
| pool | job lifetime, indices, exceptions, wakeups; does every fan-out return, can the pool end | 2 workers; 2 callers with 2 indices each, or one with 3 and then 2, and a spurious wakeup | 372,929, 117 s |
| lanes | order, captures, answers, what holds after a stop; does every call return | a threaded and a deferred lane, the pump and another thread, 3 jobs that call a lane once, any of them to stop either | 129,150, 93 s |
| scheduler | indexes, deadlines, messages, waits; posted commands and stops against the idle wait | 2 processes, 4 loads of calls, up to 3 posts, a stop, 2 failures | 273,387, 40 s |
| scheduler_last | the same, where a handler's last call kills its process: **violated** | 1 load | 344 |
| cluster | is a newer write replaced, do replicas match what they heard, does every write arrive | 3 nodes, 2 writers; mutual dials, with or without a failure on one of the two connections, or a failure and a second dial; up to 3 writes, one clock ahead | 176,281, 71 s |
| cluster_pair | do replicas agree when two nodes write: **violated** | 2 nodes, a write each | 1,334 |

**Why these bounds.** A queue hazard needs a holder, a waiter and a third that
overtakes, converts or closes a cycle (p1 queues behind the waiter p2, which
waits for a hold of p3, which asks for what p1 holds): three processes, three
tickets, three holds. Hierarchy needs a key, its child and one apart. Cross-thread hazards
need two homes, and a granting home with two waiters of which one is remote.
A late wake needs two waits of one process: two tickets. A path of two edges
that no edge cuts short needs one key: a shared request behind an exclusive one
behind a shared hold. `Cap` is as long as the longest path there, so what a path
longer than the cap does is not run. A hold shared by nesting needs depth two,
and three to have the count go up and down within. In the pool, a lost wakeup
takes one worker and one caller; jobs side by side take two of each; waking all
of the pool takes a job of three indices on two workers. The lanes need one of
each kind, jobs that stop either, a job that calls the other's, and a thread that stops them meanwhile.
A scheduler's trouble is between two processes (a sender and a receiver, one
that controls another, two lock waiters of which the first one's expiry throws)
or with the host, and `MostLoads` has one load of calls for each; three posts
make a batch with one that throws, one put back and one posted since. A conflict
needs two writers and a third node that hears both; a stale copy needs two
connections to one peer, or a failure and a backfill: one of `Joins` has each, and
one fails one of two connections. (That a writer goes over to another connection
and an older write then lands on a newer takes a third connection to the peer,
which the run doesn't have; Delivered fails without its premise in these plans
already.) Ids,
tickets, posts and writes are bounded per run, since they only grow. The bounds
stop requests, never an operation midway: tickets already queued are still
granted, and LockHomes keeps room for the waits on their way (`Queued`,
`Pending`). Symmetry is over processes of one home, and not used with liveness.

`CHECK_DEADLOCK FALSE` everywhere: programs may stop, wait for one another's
sections for ever, or use up a bound.

**Fairness.** Only what the threads do by themselves is fair.

- LockHomes: the pending calls of each home (`Run`) and its drain of the port,
  which `step_once` performs before every step; no process is assumed to take
  steps and no deadline to pass. `NoStarvation` adds the premise it needs, that
  programs leave their sections unless they wait. Wake traffic is bounded by the
  tickets, so endless overtaking of one waiter is a matter of `Fifo`.
- ThreadPool: every thread goes on, tasks end, a mutex that stays free is taken,
  and spurious wakeups are finite. Posting and destroying are not fair.
- AsyncLane: threads run on and jobs end. Strong fairness stands where the code
  retries: a `stop` spins for the flag until it finds it free, and the pump
  drains every lane each frame (`pump_exec_frame`).
- Scheduler: its thread goes on, a poster and a stopper complete their call, and
  the host runs the scheduler again or destroys it. That the 10 ms slice of the
  idle wait ends is *not* assumed: a post is heard by its notification alone.
  Nor is it that time passes.
- ClusterShard: some of the nodes' own threads goes on as long as one can
  (`WF(SystemStep)`): writes, dials and failures being finite, that suffices for
  `Delivered`. A reader that is told of the peer's end (`End`) is among them, a
  failure (`Fail`, a failed write) is not.

**Properties not in a run.** The type invariants of LockHomes (`Typed` of
LockHomesProofs), ThreadPool, AsyncLane, Scheduler and ClusterShard are proved.

**Mutants.** Beside the definition it spoils stands an operator that is a
plausible bug of the code (a pass that tests holds only, a deadline not put
back, a run published before an earlier stop is discarded, a backfill from the
cursor on...). `PROJECT.json` names one per property of each run.

## 5. Proofs

LockTableProofs proves of `Spec`, for any sets of keys, processes and homes
and any bounds:

- **TypeCorrect**: the state keeps its types, ids never exceed the counters;
- **Consistency** (I2, I3): records, holds and tickets name each other exactly,
  a granted ticket's hold is its owner's and its body hasn't begun, no record
  is empty or on a detached home;
- **Exclusion** (I1): holds of different processes never conflict.

Assumed are only LockTable's and LockKeys' ASSUMEs: `Prefix` is a reflexive
relation on the keys, key sets are canonical, homes and bounds are naturals;
that keys form a tree (`TreeAssumption`: they are paths, `key_prefix`) is needed
for the sections of LockPromiseProofs alone. TLC evaluates them in every run of these modules.

Exclusion isn't inductive alone. A release takes away the hold a record names,
so it needs that records and holds agree; a grant is put under a new id, so it
needs that ids are below the counter; a ticket granted by a pass names a hold
that its owner can collect, so links must survive a pass. `IInv` is the
conjunction TypeOK, RecordsMatch, MutualExclusion; each action has a lemma
(`TryAcquireKeeps` ... `DetachHomeKeeps`), and those that end in `Finish` rest
on `FinishKeeps`, which rests on what a pass does: `GrantIdsFresh` (ids handed
out in one pass are new and distinct, by cardinality of initial segments),
`PassTypes`, `PassExclusive` (what the walk grants conflicts neither with holds
nor with itself), `PassLinks`, and `DropKeepsLinks` for the records dropped.

It also proves of `Spec`, from the same assumptions,

- **NoMissedGrantHolds** (I6), **FifoHolds** (I5), **NoDeadlockHolds** (I7),
  **GenerationsIncreaseHolds** and **SectionsAreToldHolds** (I11),

which with the three above are all the properties of LockTable that the runs check.
`Reading` says that, where records match, who waits for whom can be told from
holds and tickets alone: `Behind`. Then every step is one of four (`StepIs`):
`Quiet` ones change no queued ticket and no holder; `AtOnce` grants a request
that nobody blocks; `Refused` queues one that somebody does, or fails it because
the wait would close a cycle; `Passing` drops some holds and tickets and lets a
pass grant what it can. Lemmas `QuietWaits` ... `PassingWaits` say what each does
to the edges of the wait-for graph. Nobody is missed, since a ticket that has
lost its last blocker touched a key of what was dropped, and the pass looked at
it. No cycle is closed: a grant adds edges only towards the process granted,
which waits for nobody, and the one step that gives a process edges, `Refused`,
searches first. Fifo and the generations are what `PassedByRule` and
`FencedGrants` say of one step, within a pass by the order of its tickets: a
shared grant has the greatest of the counter before the step and the exclusive
grants before it, and no other, and the counter ends at the greatest of them all.
For the reports, `ReportsInv` adds to what is pending where it is: flagged, or
taken by a hold whose body hasn't begun; that no flag stands on a key an
exclusive section is about to begin on; and that two grants of one process that
wait for their bodies, or a grant and a queued request, don't conflict, as
otherwise the second would be told instead of the first. `QueueInv` is the
conjunction, inductive on the strength of `IInv`. By `InheritsTable` (below) all
of it holds of `InheritSpec` too. What a pass may grant is found by a walk over
a set of tickets; `PassExists` says that for any such set there is an outcome,
by induction on how far the walk has come.

LockInheritProofs proves of `InheritSpec`, for any bound on the paths besides,
that

- **InheritsTable**: `InheritSpec => Spec`, so that what is above holds with
  inheritance as well;
- **Bases** (I8, base clause): the table's copy of a priority is the process's,
  by an invariant, `BaseIs`, that is inductive by itself;
- **LevelsAreExact** (I8, manager clause): every record's level is what the
  whole wait-for graph gives;
- **NotesDoArrive** (I8, quiescent clause) and **NoInversionHolds**.

The invariant is `LevelInv`: levels are exact (`LevelsAre`), and a scheduler
uses the table's level or has a note under way (`NoteInv`). It is inductive on
the strength of `IInv`, `BaseIs` and a clause of `QueueInv`. That an operation
may recompute only the processes within `Cap` edges of its seeds is an argument
about paths. `Ball`, a recursive function of the depth, is what walks of at most
so many edges reach (by induction on the depth), and `relevel_all` takes the
balls around its seeds in the old graph and around those and the processes
granted in the new. Each operation's lemma says that every edge it takes has an
end among the seeds, and every edge it makes one among those of the new graph
(`EdgesMove`). So a walk that ends outside both balls meets no such edge, as the
rest of it would put its end within the ball: it is a walk in both graphs, from
the same lender at the same priority (`FormulaKept`). The levels outside stay
right, and those inside are computed anew. Induction here is over a set of
natural numbers, as the least number at which the claim would fail (`Least`):
the induction theorems of the library take an operator, which the provers can't.

LockHomesProofs proves of `HSpec`, for any processes on any homes, that

- **HomesUseTable**: `HSpec => Spec`, so that all of the above holds of the
  table with the homes on it;
- **HomesTyped**, **MirrorsMatch** (I2, I3, home side), **WakesReach** (I6, home
  side), **WakesTimely** (LX-11);

and LockPromiseProofs, on that,

- **PromiseKept**: `HSpec => KeepsPromise`, the refinement of WithLock;
- **SectionsApart**: no two processes are in conflicting sections;
- **CallsAlwaysFit**: the call a home makes next always finds the table able to
  take it.

The invariant, `HomeInv`, is inductive on the strength of `IInv`. Of each home it
says which calls may stand in its row (`Shape`: wakes first, and at most one
call that is not a wake after them, some calls only by themselves) and where it is in
its life (`Life`). Of each process on an attached home (`Fine`): that its
frames, its ticket, `waiting` and what its thread is in the middle of for it
(`Business`) agree (`Status`); that the mirror is what the table has of it, but
for grants not yet collected and the hold being released (`Mirror`); that what
its frames count on covers what they ask for (`Stands`); and that a decided
ticket has its wake on the way (`Reached`). `Matching` and `Timely` are of the
table and the wakes. A process notices little of what others do: `View(E)` says
that a step of the table about the processes E leaves to everyone else its holds
and its ticket, unless that ticket is granted and so among those woken
(`Stable`), and that what is decided stays decided (`Forward`). Each operation of
the table has its lemma (`ReleaseView` ... `DetachView`), all that end in
`Finish` over `PassView`; `BystanderFine` turns a view and the notes posted into
`Fine` of the others; and each action of LockHomes has its own for the process
that acts (`EnterFastKeeps` ... `RunDiscardKeeps`).

For the refinement, a process's sections are a function of its frames alone
(`Begun`), so a step that moves one process's frames enters, leaves or cuts that
process's sections (`Enters`, `Exits`, `Cuts`). `Admits`, WithLock's guard, is
taken from the state after the step, in which sections exclude each other
already: by `Stands` each key of a section is covered by a hold its process has
(`SectionsBacked`), holds of two processes don't conflict, and so, keys being
paths, nor do keys below them (`BackedApart`).

CallsAlwaysFit is what HomesGoOn says, guard by guard in place of `ENABLED`:
`Fits(c, h)` is the conjunction of the guards of `Run(h)` on the call c. With the
constants of `homes_wakes` and `homes_sections` TLC finds it to be `ENABLED
Run(h)` in every state (a check made beside the runs, which test HomesGoOn
itself). Most of it follows from HomeInv: what is to be collected is decided,
what is to be given back is held. Three things have to be carried along
(`GoInv`). A request on its way was let through by the mirror, and what its
process holds hasn't changed (`LetThrough`); the bodies that run are under holds
whose sections have begun (`BodiesBegan`), so that none that is granted and yet
to begin forbids it (`Interrupts`); and the bounds have room for all that is
queued or on its way (`Room`). A call that ends in a pass can be made because
the pass has an outcome (`PassExists`).

ClusterShardProofs proves of `Spec` of ClusterShard, for any finite set of
nodes, any connections between them, any clocks and any plan of writes, dials and
failures:

- **Typed**: every variable keeps its type;
- **PrefixHeardHolds**: what a node has heard of another is the first so many of
  its writes, with no gap;
- **NewestKeptHolds**: a reader never puts an older write of a node over its
  newer one;
- **WinnerHeldHolds**: a node that doesn't write itself holds the winner of what
  it has heard, if the copies carry times in the order of the writes.

The last three are of writers that haven't gone over to a connection with the
node that they had left out (`switched`), in PrefixHeard and NewestKept the writer
in question, in WinnerHeld all. Without that premise they are false of the code
(Findings). It is no assumption on failures: any connection may fail, at either
end and in the middle of a publish or of a backfill, and be replaced; what is
excluded is that another one to the same peer lived already and takes over.

Assumed are only the module's two ASSUMEs on its constants. NewestKept says that
what a reader is about to apply is the newest heard of its origin. That follows
if writes are heard without gaps (`PrefixHeard`), which needs that frames on a
wire stand in an order in which each earlier write comes before or has been
heard (`Ordered`). A backfill keeps this because it starts at one, also when it
breaks off; a publish appends a single mutation, and keeps it because of
`Complete`: all the pump has published before is on that wire or heard already,
for every connection that publish would choose and the peer hasn't shut. A failed
write would break `Complete` for a connection chosen after it, and a lost one for
a connection chosen in its place: `TurnFacts` says that a connection is newly
chosen only along with an entry in `switched`, and a dead one never again. When a
HELLO is read the choice narrows (`ServesShrinks`). An end that closes takes with
it what was on its way to itself, and no longer reads (`CloseKeeps`). `Pended`
ties the pump's mutations to the cursor, `OwnFrames` says whose frames a wire
carries, and `OneApplying` is the ingest mutex. `IInv` is their conjunction; the
lemmas `WriteKeeps` ... `IngestKeeps` are one per action or kind of action, over
two on wires that all of them use, `SendKeeps` and `ReadKeeps`. WinnerHeld has an
invariant of its own, `Winning`, over IInv: the last mutation applied beats all
that was heard, or the one being applied does, because `Beats` is a strict total
order (`BeatsOrder`). What `Winning` needs of IInv is that a write which is
applied without a comparison, the last one being of the same origin, is newer
than that; times in the order of the writes then make it the winner of the two.

ThreadPoolProofs proves of `Spec` of ThreadPool, for any sets of workers and
callers, any plan of fan-outs and exceptions and any bound on indices:

- **Typed**, and **JobOutlivesUseHolds**, **EachIndexOnceHolds**,
  **NobodySleepsThroughWorkHolds**.

A job outlives its use because the count of those still on it is exact
(`Counted`: the workers on it, and its caller until it has joined), and the list
holds just the posted jobs whose caller hasn't joined (`Listed`): when the count
is zero nobody is on it and nobody can find it. An index is run once because
threads claim different ones below the cursor (`Claims`), what is below the
cursor has been run or is about to be, unless the job was aborted (`Ran`), and a
caller joins when the cursor has run out (`AllClaimed`). `Caught` ties the first
exception to the abort. NobodySleepsThroughWork follows from `IdleCount` and is
then argued over pairs: each seat and each wakeup on its way is a member of a
finite set, and each step adds as many of the one as of the other (`CallsExact`,
`SeatsExact`). Assumed are the module's ASSUMEs: finite disjoint sets of threads,
`None` outside them, positive bounds.

SchedulerProofs proves of `Spec` of Scheduler, for any processes and loads:

- **Typed** and **HeardInOrderHolds**, whatever handlers do last;
- **IndexesMatchHolds**, if no handler's last call is a kill of its own process;
- **MailNeverWaitsHolds**, **DeadlinesKeptHolds**, **WaitsEndRightHolds**, if no
  handler's last call is a sleep.

The premises are what the code lacks: the first finding of section 6 shows the
properties violated without them, and the run `scheduler` satisfies them. The
argument is per process. `Sound(r)` says of one record that its indexes are
exact (`Indexed`), that it has its slot (`Slotted`, under the first premise) and
waits for one thing at most (`OneWait`, under the second); each operation of the
process table turns sound records into sound ones (`UpdateSound`, `StatusSound`,
`WokenSound`, `ExpiredSound`, ...), and each action of the scheduler is such
operations on some processes. The commands (`PostsOK`) and the run's flags
(`RunOK`) are invariants of their own: the log, the batch and the queue together
are the numbers posted, in order.

AsyncLaneProofs proves of `Spec` of AsyncLane, for any lanes and threads, any
relation of who may stop whom, any bounds, and lanes nested to any depth:

- **TypeCorrect**, **SerialInOrderHolds**, **AnsweredOnceHolds**,
  **StoppedIsDrainedHolds**, **IdleHoldsNothingHolds**.

The stacks come first (`Stacks`): they are well nested, a job directly on the
scope of its own lane and only a job below anything (`Nested`); a lane is drained
by one call at most, and its flag is set meanwhile (`Sole`); so a lane runs one
job at most (`Alone`). Then (`Rest`): the queue holds in order all that the lane
took after the job it runs (`Queued`, `Order`), the count is both together
(`Counted`), and a job is answered when it is in neither (`Answered`). A stop
ends with its lane drained (`Drained`) and stays so since a stopping lane takes
no job.

Every invariant of these was checked by TLC on the instances of section 4
before it was proved. The theorems are about the modules as they are checked:
what section 3 leaves out is left out of them.

Only model-checked are liveness under fairness (GrantsWake, NoStarvation,
FanOutReturns, WorkersEnd, CallsReturn, LanesSettle, PostsHeard, StopEnds,
Delivered) and HomesGoOn, whose `ENABLED` is out of the prover's reach as
fairness is: CallsAlwaysFit is as near to it as a proof gets. The longest
proofs, those of LockHomesProofs, take about 13 minutes to check from nothing.

## 6. Findings

**A process that its own handler has killed is made ready again**
(`scheduler_last`). When a signal or watch handler has finished,
`execute_process_step` sets its process to ready (`scheduler.cpp:615`, and
`async_scheduler.cpp:434`), whatever the handler's last call did: the evaluator
is done in the same step in which that call returns. After `(kill (self-pid))`
the process has given up its slot, so it is ready and in no run queue, and never
finishes; `process_table::check` would fail. A `(pause (self-pid))` is undone,
and a `(sleep n)` ends at once, leaving its `wake_time`. The header says "An
ended process leaves every index" (`process_table.h:20`). The run
`scheduler` allows a handler to end in a pause of its own process, and the
theorems say which of them need that it doesn't end in a kill or in a sleep.

**Two nodes that write a path may swap their values for good** (`cluster_pair`).
A node's own writes are not in the table of last mutations that `ingest_remote`
resolves conflicts against (`state_cluster_shard.cpp:313`), so the first write
of another origin always replaces the node's own, also one that beats it. Both
nodes journal, publish and ingest once, and hold each other's value.
`state_replica.h:46` promises "a total order that all peers agree on without
coordination". What does hold, and is proved, is that nodes which do not write
the path agree with what they have heard (`WinnerHeld`); its premise on times is
needed because a replayed write is stamped anew (`state_cluster_shard.cpp:377`).

**Jobs of two lanes that stop each other's lanes hang** (premise of CallsReturn
and LanesSettle). A job of a threaded lane that stops a deferred one spins until
nobody drains it (`async_lane.cpp:192`); if the pump runs a job of that lane just
then, and the job stops the threaded lane, it joins the worker (`:186`) that is
spinning. `lane_running_on_this_thread` looks along one thread, and neither finds
itself in the other's lane. The header doesn't say who may stop whom; it does say
of tasks that "a waiter never hangs" (`async_lane.h:44`), which the waiters of
the jobs queued behind these two do. The run has it happen, and in its instance nothing
else leaves a lane call or a task stuck: what hangs is on a ring of such waits, or
waits for a thread that is.

**After a failover writes may be missing, or come in the wrong order** (premise of
NewestKept, WinnerHeld and Delivered). `publish` counts a peer as served when it
claims one connection to it (`state_transport_ipc.cpp:829`). A write that then
fails (`:832`) goes out on no other, and what had been on its way on the dead
connection isn't sent again either. The pump goes over to the second connection,
whose backfill is long past: the peer hears later writes and not these. If it is
dialed once more, the backfill of that connection brings them, and since they have
not been seen they are applied over the newer ones. The comment on `claim_peer`
holds that "per-peer order is the order they were published in" (`:257`), which is
so on one connection. With the premise dropped TLC finds Delivered violated in the
plans of the run, and NewestKept where node 2 has three connections to node 3, of
which the first fails. With it both hold, and NewestKept is proved.
