# A TLA+ development of coresched

coresched hands out the CPUs of one Linux machine to jobs. It has no daemon:
every command is a short-lived process that locks `~/.coresched/state.json`,
reads it, changes it and renames a new copy into place. What makes it correct is
therefore spread over processes that interleave, die and start each other. This
directory models that system in TLA+, checks it with TLC and proves properties
of it with TLAPS. All paths below are relative to the repository, whose
own `README.md` is meant by that name.

## 1. Inventory of the system

| Part | Source | State | Operations |
|---|---|---|---|
| Topology | `src/topology.rs` | cores, logical CPUs and sibling pairs, detected once per process | `detect_topology`, `logical_cpus`, `physical_cores` |
| Allocation engine | `src/scheduler.rs` | none of its own; works on a `CoreschedState` | eligibility by priority, `needed_for`, `alloc_cfd`, `alloc_py`, `free_job`, `orphan_cleanup`, `next_queued_job_index`, `try_dispatch_one` |
| State file | `src/state.rs` | `state.json`: `cfd`, `cpus`, `pids`, `pending`, `queued`, reserved cores, next id; `state.lock` | `with_lock`, `init`, `load_from_disk` (with `migrate`), `save_to_disk` (temporary file and rename), `next_jid` |
| `run` | `src/main.rs:147-409` | a parent that registers the job and a forked waiter that allocates, pins, spawns, waits, frees | `cmd_run`, `cmd_run_child` |
| `enqueue` and dispatch | `src/main.rs:412-475, 577-695` | the durable queue; a dispatcher that has taken a job holds it in memory until it has forked | `cmd_enqueue`, `dispatch_queued_jobs`, `dispatch_child_exec` |
| `reserve-core` | `src/main.rs:479-574` | the reserved cores | `cmd_reserve_core` |
| `cancel`, `wait` | `src/main.rs:982-1114` | none | `cmd_cancel`, `cancel_one`, `cmd_wait` |
| Process control | `src/process.rs`, `src/pin.rs` | processes, groups, affinity | `fork_detach`, `spawn_detached`, `wait_for_child`, `cancel_job`, `pin_to_cpus` |
| Reports | `src/main.rs:698-979, 1117-1177`, `src/progress.rs` | none (read only) | `list`, `status`, `tail`, `progress` |
| Command line | `src/cli.rs` | none | clap parsing |

**How the parts interact.** Processes share nothing but the state file. They see
each other's life only through `kill(pid, 0)` in `orphan_cleanup`, on the pid an
entry records: first the parent of a `run`, then its waiter, then the command;
an entry without a pid is taken to be alive. A process forks its successor
(parent to waiter, dispatcher to waiter), and whoever finishes (a waiter that
has freed its job, an `enqueue`, a `reserve-core`) runs `dispatch_queued_jobs`
before it exits. That call is the only thing that ever starts a queued job.

**What is hard.** Another command's cleanup between any two critical sections of
a process; two dispatchers at once; a fork, pin or spawn that fails after the
resources were booked and saved; a process killed while its command goes on; a
restart that leaves only the file; the missing wake-up when the process that
should dispatch does not; numbers at the edge (`u8` counts, core numbers against
CPU numbers).

**What makes each part correct.**

* Engine: nobody gets a core that belongs to a higher level only; a job gets as
  much as it asked for; what is marked in `cfd` and `cpus` is what the entries
  of `pids` hold, and no two entries hold the same CPU.
* `run`, `enqueue` and dispatch: a job is in one place of the file, is started
  once, keeps its CPUs as long as its command runs, gives them back afterwards;
  queued jobs of one level keep their order; nobody overtakes a waiting job of a
  higher level; every job runs.
* State file: a locked read-modify-write is atomic, whatever fails in it.
* `cancel`, `wait`: a cancelled job's CPUs are given to others only when its
  processes are gone; `wait` returns when the job has ended.

## 2. Modules

| Module | Models | Role |
|---|---|---|
| `Topology` | what the rest of the code uses of `topology.rs` | constants and their assumption |
| `TopologyDetect` | `detect_topology` and `cpu_count_fallback` | the scan of `/sys` as a state machine |
| `Scheduler` | `scheduler.rs` and the types of `state.rs` | operators on the state record |
| `Coresched` | `cmd_run`, `cmd_run_child`, `cmd_enqueue`, `dispatch_queued_jobs`, `dispatch_child_exec`, `cmd_reserve_core` | the state machine, its properties, its inductive invariant |
| `CpuPool` | nothing in particular | what `Coresched` promises: the abstract specification it implements |
| `Cancel` | `cmd_cancel`, `cancel_one`, `cmd_wait` | extends `Coresched` with the users who cancel and wait |
| `ProcessTree` | `cancel_job` of `process.rs` | the walk over `/proc` and the signals, against a job that forks meanwhile |
| `StateFile` | `with_lock`, `init`, `load_from_disk`, `save_to_disk`, `next_jid` | one critical section of `Coresched`, taken apart |
| `StateStore` | nothing in particular | the abstract specification `StateFile` implements |
| `MCCoresched`, `MCTopologyDetect`, `MCCancel`, `MCProcessTree`, `MCStateFile` | | values for TLC |
| `TopologyDetectProofs` | | what detection guarantees |
| `CoreschedProofs` | | lemmas about the engine; type correctness of the state machine |
| `CoreschedSafety` | | its inductive invariant and the safety theorems |
| `CoreschedService` | | what the users of the scheduler are promised |
| `PoolRefinement` | | that `Coresched` implements `CpuPool` |
| `CancelProofs` | | safety with users who cancel and wait |
| `StateFileProofs` | | safety of the critical section, and that it implements `StateStore` |
| `ProcessTreeProofs` | | who survives `cancel_job`, and whom it finds |

How they compose: `Scheduler` extends `Topology`, `Coresched` extends
`Scheduler`, `Cancel` extends `Coresched`. `StateFile` justifies what the other
modules take for granted, that a critical section reads the file, changes it and
replaces it in one step, and says which failures break it. `ProcessTree`
justifies the step `Kill` of `Cancel`, that what is in the snapshot dies, and
says which processes escape. `TopologyDetect` gives the assumption of `Topology`.

### State

`disk` is the contents of `state.json`, a record with the fields of
`CoreschedState`. A map from numbers to flags is the set of the numbers whose
flag is set; an absent `Option` is an empty set; `pid` is the *kind* of process
recorded (`"sub"`, `"wtr"`, `"cmd"` or `"none"`), for an entry only ever names a
process of its own job. Times, commands and output paths are left out.
`taken[p]` is the local variable `info` of `dispatch_queued_jobs`, `pin[j]` the
`pin_cpus` of a waiter, `mask[j]` its affinity, `pc[p]` its place in the code,
`cmd[j]` the life of the spawned command, `parent[j]` who forked the waiter (a
dead waiter answers `kill(pid, 0)` while its parent lives and has not reaped it).

### Actions

One action is one critical section of `with_lock`, or one step between two of
them. The order of each process:

```
cmd_run          Register -> RunFork (or RunForkFails) -> ParentExits
cmd_run_child    UpdatePid -> (AllocWaits -> Sleep)* -> AllocRun (or GiveUp)
both waiters     -> Launch (LaunchUnpinned, LaunchPanics) -> RecordPid
                 -> [CmdExits] Reap -> Free -> dispatch
cmd_enqueue      Enqueue -> dispatch
cmd_reserve_core ReserveCore -> dispatch
dispatch         (DispatchTake -> DispatchFork)* -> DispatchStops,
                 DispatchRequeue when the fork fails
```

Every action that calls `orphan_cleanup` in the code works on `CleanedUp`, the
file's contents after the cleanup; `DispatchStops` does not save it, as in the
code. `Dispatchable` and `NextQueuedJobIndex` are sets with at most one element,
the `Option` the code returns. `Alloc` describes the loops of the two allocators
by their result: the first `n` free elements of the eligible list, whose order
(own exclusive core first, then ascending) is `Before`. `NeededForPriority`
keeps the cast of the count to `u8`.

Faults are actions of the environment with the guard `Fault(kind)`: a failing
`fork`, `spawn` or `sched_setaffinity`, the death of a coresched process, a
reboot. `sched_setaffinity` also fails, without a fault, on the empty set of a
request for nothing (`--cpus 0`).

A request that `validate_request` refuses never reaches the model: `Init` draws
the requests from `ValidRequest`. That check has a critical section of its own
in the code, but its answer depends on the topology only.

`TopologyDetect` is the loop of `detect_topology`: `sys` is what `/sys` shows of
each CPU, `Visit` and `VisitUnnumbered` the two branches of the loop's body, in
ascending order of the CPUs, and `groups` the `BTreeMap`. It stands beside the
other modules: a process detects the topology once, before it does anything.

`Cancel` adds users, who each run one `cancel`, `cancel --all` or `wait`.
`cancel_one` is three critical sections with the kill outside of them:

```
cancel J      CancelQueued -> CancelLookup -> CollectTree -> Terminate -> KillRest
                                           \-> CancelPurge   (no pid recorded)
cancel --all  CancelAll (takes the lock) -> (CollectTree -> Terminate -> KillRest)*
              -> FreeAll (saves, releases the lock)
wait J        WaitReturns, possible in every state in which a poll would end it
```

While `cancel --all` holds the lock, `OpenStep` (forks, exits, reaping, spawning)
goes on and `LockedStep` does not. `Kill` ends what is in the snapshot; SIGTERM
ends the processes of coresched and may be caught by a command. `purged` and
`withdrawn` are history.

`ProcessTree` numbers the processes of one job in the order of their births.
`phase` and `todo` say where `cancel_job` is in which of its loops; the job may
fork, call `setsid`, change user and exit between any two of its steps. `missed`
is history: who was forked by a process whose children had been read, or has
lost an ancestor through which the walk would have come to it, or is not in the
list that was read. A list is not read at once: `OpenList` opens it, `ReadChild`
takes one child, `CloseList` comes to its end, which is where the kernel finds
itself after counting those it has given; if some of these have been reaped
meanwhile it passes over others. And it is the list of the main thread: `hidden`
are the children that other threads have forked, `mainless` the processes whose
main thread has ended. `still` is history, too: the job has not moved since the
walk began. The recorded process is a waiter or a command, which leads its group,
or a submitter: in the group of its shell, or at the head of a `pipeline` whose
other members are not of the job.

`StateFile` has one operation per process and one step per system call that
matters: `Lock`, `InitFile`, `Load` (or `LoadBlindly`, the `unwrap_or_default`
of most callers, or `LoadRefused` of `reserve-core`), `Open`, `Write`, `Rename`,
`SaveFails`, `Unlock`, and `Start` of a taken job. `fd` says which *name* the
open file has, so that without a lock a writer may write into what another has
renamed in the meantime. `LockFails` is the `lock.write` whose result nobody
looks at; `unlocked` is history, who has gone in that way. An acquisition fails
by itself: one process may be without the lock while others wait for it.

## 3. Runs

`topology` uses `MCTopologyDetect`: every machine of up to four CPUs in
two packages with two core numbers, any of them unlisted or without a `core_id`.
Four CPUs make every case of the grouping happen (siblings, equal numbers in two
packages, a key taken twice, three threads in a core), and a `u8` of four values
makes the casts wrap. The runs of `Coresched` and `Cancel` have three cores with
two threads each. That is the smallest machine with a shared core, a P2 core and
a P3 core, and its siblings are numbered so that a core number and a CPU number
differ. Three jobs are enough for two that compete and one that comes between;
one fault is enough for each kind of inconsistency the file could be left in.
`cancel` has two jobs, one user and one fault: the job that is named, one that
wants its CPUs, and one process that dies at the worst moment. With two users and
no faults it was checked once by hand (2.8 million states).
`state_file` has three processes, enough for one that loses a job, one that lost
it and one that is given its id, and two faults. `process_tree` has three
processes: the recorded one, a child and a grandchild, or two siblings of which
one may hide the other. `faults` starts from three mixtures of
three jobs for the shared core: two queued jobs that fit side by side, so that
two dispatchers may have one each, and a run of the whole core; two queued jobs
that do not fit together and such a run; and a queued job behind two runs that
do. One fault is the bound, so one fork fails, while others change the queue.
Bounds: `MaxJobs` bounds the submissions, `MaxFaults` the faults, `MaxPids` the
processes of a job, and the number of `Procs` and `Users` that of the operations;
nothing else is bounded. Deadlock is not checked: when every job has ended the
system stops, and it may also be idle.

| Run | Checks | Shows |
|---|---|---|
| `core` | `TypeOK FullGrant ExclusiveCores Confined QueueServed PriorityOrder` | three jobs of P0, P2 and P3, `run` and `enqueue`, `--cfd` and `--cpus`, without faults |
| `faults` | `IInv Booked OnePlace Isolation DispatchOnce QueueFIFO NotForgotten ImplementsPool` | any one fault of any kind at any point; direct runs may time out, queued jobs fit side by side or do not |
| `live` | `NoLeak EveryJobRuns` | under fairness, two queued jobs and a P3 run of the whole machine between them |
| `cancel` | `CTypeOK Booked KeepsCpus WithdrawnNeverRuns EntryAlive` | one `cancel`, `cancel --all` or `wait` against two jobs, `reserve-core` and a failing fork or a killed process, the user's own among them |
| `state_file` | `TypeOK NeverTorn Kept FreshIds StartedOnce ImplementsStore` | three operations of any kind with two failures, of the lock among them |
| `process_tree` | `TypeOK OnlyMissedSurvive StillJobCovered` | `cancel_job` against a job that forks from any thread, leaves its session, changes user, exits |
| `topology` | `OwnCpus CoresAreCores` | the scan of every small machine, and the fallback |

Each of the other runs shows a disagreement between the code and what the
repository says of it; section 4 has them in order.

| Run | Violated | Finding |
|---|---|---|
| `pending_window` | `Accounted` | 1 |
| `spawn_leak` | `NoLeak` | 2 |
| `give_up` | `QueueServed` | 3 |
| `early_wait` | `WaitTruthful` | 4 |
| `acked_once` | `AckedOnce` | 5 |

**Properties.** `Booked`: the maps and the entries tell one story, on every path
that books or frees. `FullGrant`: the count that admits a job and the allocator
that serves it agree. `ExclusiveCores`: no CPU of a higher level's core.
`OnePlace`: a job is in one place of the file, once. `DispatchOnce`: a taken job
is in one dispatcher's memory and nowhere else. `Isolation`: two running
commands have disjoint CPUs, whoever was killed. `Confined`: a command's
affinity is what the file books for it. `PriorityOrder`: no allocation while a
higher job waits, in either structure. `QueueServed`: while the head of the
queue could start, some process is on its way to dispatch. `NoLeak`: what is
booked will be freed by somebody. `QueueFIFO`, `EveryJobRuns`: as named.

`NotForgotten`: until its command starts an
enqueued job is in the queue or has an entry; a fault strands it, none loses it.
`ImplementsPool`: see section 5.

`KeepsCpus`: a command that runs has its CPUs booked, whatever is cancelled. The
exception is a job cancelled before its pid was recorded: the comment at
`main.rs:1068` takes it for an orphan, but its waiter may be about to spawn, and
then the command runs on CPUs that are free in the file (finding 1).
`WithdrawnNeverRuns`: a job that cancel took from the queue never starts.
`EntryAlive`: once a waiter has replaced its parent's pid, the file never names a
dead process for a job that is not over; what `cancel` kills and `wait` waits for
is the job. Before that the file may name the parent that has exited, or nobody
(findings 1 and 4).

`NeverTorn`: whoever opens `state.json`, locked or not, finds a whole state.
`Kept`: an acknowledged job stays in the file until it is freed, unless its own
save failed or a process that could not read the file wrote over it.
`FreshIds`: an id is given twice only after such a loss, and never that of a job
whose output exists. `StartedOnce`: a queued job is started twice only by a
dispatcher whose save failed. `ImplementsStore`: the file changes by one whole
operation at a time, applied to what was there or to the default state. All of
these speak of the time before a process goes in without the lock; that, and the
failures which they except, are what `AckedOnce` is about (finding 5).

`OnlyMissedSurvive`: when `cancel_job` succeeds, only those survive whom the
walk could not come upon *and* who are out of the groups of the snapshot or run
as another user. `StillJobCovered`: if the job stands still while it is looked
at, the walk comes upon everybody but the children of threads other than the main
one and what is below these, and each group whose leader it has come upon will be
signalled.

`OwnCpus`: no two detected cores share a CPU. `CoresAreCores`: on a machine with
two threads per core at most, a `core_id` for each CPU and fewer than 256 cores,
the cores are the hardware's. Section 4 says what happens on the others.

**Fairness.** `live` assumes weak fairness of each process (the operating system
runs it, and the lock is granted some day) and of the end of each command; a
command that never ends keeps its CPUs by design. Nothing is assumed of
submissions, `reserve-core`, timeouts or faults. `ProcessStep` is the step of a
process, not of an action: fairness never forces one alternative.

**Known limits of the properties.** Cancelling a pending run while its waiter
allocates kills the waiter and leaves an entry without a pid, which a second
cancel removes; so `NoLeak` is not claimed of `Cancel`. Neither path of
`cmd_cancel` dispatches (`main.rs:987-1017, 1032-1089`), so neither is
`QueueServed`: what a cancel sets free is used by the next command. A command
that is spawned after the snapshot was taken survives the cancel, with its CPUs.
A process of another user ends `cancel_job` with an error, and `cancel --all`
frees every job all the same (`main.rs:998`); `Cancel` has no such processes, so
no property covers that.

**Mutants.** For each property of a passing run the modules hold a mutated
definition, marked `Mutant:` and placed before the definition it replaces; with
it TLC finds the property violated.

## 4. Findings

The runs marked `violation` check what the repository says of the code, and TLC
shows how the code comes to do something else.

1. `pending_window`: the comment at `src/main.rs:245-249` says the waiter
   replaces its parent's pid in the pending entry lest `orphan_cleanup` remove
   it. Between the parent's exit and that update any other command still does;
   the update then finds no entry (`main.rs:252`) and the waiter waits without
   being pending, so lower levels do not yield to it and `cancel` cannot find it.
   `Accounted` is also violated, later in the same run, by `cancel` of a job whose
   waiter is about to spawn: its entry has no pid and is removed as an orphan's
   (`src/main.rs:1068`), and the command runs on CPUs the file has as free.
2. `spawn_leak`: a waiter that cannot spawn panics (`main.rs:381, 670`) and its
   entry has no pid, which `orphan_cleanup` never removes, against
   `src/scheduler.rs:207`.
3. `give_up`: a run that times out exits without dispatching (`main.rs:342`)
   what its priority held back, against `README.md:15`.
4. `early_wait`: `wait` says that a job has ended while it is in the queue, or
   while its pid is not recorded (`main.rs:1096`), against `src/main.rs:1092`
   and the advice of `main.rs:221`.
5. `acked_once`: `enqueue` prints the id of a job whose save has failed
   (`main.rs:464`), against `src/main.rs:411` and `README.md:15`.
   `AckedOnce` holds without faults. Each kind of fault alone violates it: a
   failing `write` also in `try_dispatch_one`, which starts a job that is still in
   the queue (`scheduler.rs:409`); a failing `read`, after which the next save
   writes the empty state (`main.rs:580` and every other `unwrap_or_default`); a
   failing `lock`, which `with_lock` ignores (`state.rs:249`); a `crash` between
   the dispatcher's save and its fork, after which the job is booked for ever and
   never runs.

**Disagreements that no run shows.** Each was met while modelling, and the
properties above are stated so that they hold: a condition of a theorem, a bound
of a run or a clause of the property keeps these cases out.

* Two dispatchers whose forks fail put their jobs back in the order of the
  failures (`main.rs:624`), against `src/scheduler.rs:311-312`: `QueueFIFO`
  with two failing forks.
* `dispatch_child_exec` ignores a refused pin (`main.rs:642`), and the command of
  a queued job runs on every CPU, against `src/main.rs:634`: `Confined` with
  failing pins.
* 256 free CPUs are none as a `u8` (`scheduler.rs:268`). On 128 cores with two
  threads each a P3 job that asks for one CPU of the idle machine never starts,
  against `README.md:84`: `EveryJobRuns` on that machine. The levels below P3
  do not see all CPUs.
* `reserve-core` stores its cores and no allocation looks at them
  (`scheduler.rs:61, 87` ignore the state), against `src/main.rs:477-478`.
* `collect_process_tree` reads the children of main threads only
  (`process.rs:120`). A child of another thread, with a session of its own, is
  neither in the snapshot nor in one of its groups although the job stands
  still, against `src/process.rs:110-113`: `hidden` in `StillJobCovered`.
* Until the waiter replaces it, the recorded pid is the submitter's
  (`main.rs:188`). If the submitter is the first of a pipeline, its group has
  others in it, and `cancel` signals them (`process.rs:147`), against
  `src/process.rs:92-93` and `:136`: `pipeline` in `ProcessTree`.
* 256 cores are none as a `u8` (`topology.rs:70`), while there are 256 pairs of
  siblings, against the module's test (`src/topology.rs:171`).
* A CPU without a `core_id` is grouped under a key that another core may have
  (`topology.rs:62`): it joins that core or takes its place, against
  `src/topology.rs:61`.
* Of a core's CPUs the first two are kept (`topology.rs:76`); a third or a fourth
  thread is in no core, against `src/topology.rs:3-4`.

## 5. Proofs

The proofs hold for every value of the constants that satisfies the named
assumptions: `TopologyAssumption` (CPU numbers fit a `u8`, each core has a pair
of CPUs, cores share none), `CoreschedAssumption` (the types of the bounds and of
the requests), and those of the other modules, which say no more than the types
of their constants. No bound on cores, CPUs, jobs, users, processes or faults is
used. TLC evaluates the assumptions on every run, and it found the invariants
below true of the runs' instances before they were proved.

Every invariant and action property that a passing run checks, and both
refinements, are stated by a theorem. Only `EveryJobRuns` is left to TLC: it is
liveness, and the prover has no fairness.

### The engine: `CoreschedProofs`

A state with its type (`CoreschedState`) stays one under booking
(`StartJobFacts`), freeing (`FreeJobsFacts`) and cleanup (`CleanupFacts`), and a
consistent one stays consistent, because a grant consists of free CPUs
(`AllocIsFree`), an entry's CPUs are its own, and two cores share no CPU.
`TypeCorrect == Spec => []TypeOK` has one step per action.

`AllocIsFull` says that whom `needed_for` admits gets as much as he asked for.
`needed_for` counts the free cores, the allocator takes the first `n` of them in
an order. Proving that these are `n` seems to need an induction. It does not: the
*rank* of an element, the number of elements before it, maps the free cores
one-to-one into `0 .. m-1`, so every rank occurs (a one-to-one map between finite
sets of one size is onto), and the first `n` are those of rank below `n`
(`TakeFirstSize`). The cast of the count to `u8` can only make it smaller
(`CastIsLess`), and therefore refuse a request but never admit a wrong one.

### Safety of the processes: `CoreschedSafety`

These hold under every fault of the model (any number of kills, reboots and
failing forks, pins and spawns):

| Theorem | Property | Follows from |
|---|---|---|
| `Invariant` | `IInv` | itself: it is inductive |
| `BookedAlways` | `Booked` | `IInv` |
| `OnePlaceAlways` | `OnePlace` | `IInv`: `WaitingJob`, `QueuedOnce` |
| `DispatchedOnce` | `DispatchOnce` | `IInv`: `TakenJob` |
| `IsolationAlways` | `Isolation` | `IInv`: `StartedJob`, `Booked` |

*Why the invariant is needed.* None of the four is inductive alone. `Booked`
breaks if a job that already has an entry is booked a second time, so one must
know that whoever is about to book a job (its waiter, a dispatcher that found it
in the queue) finds no entry for it: `WaitingJob`. `Isolation` speaks of what
commands were assigned, `Booked` of the file; they meet only if a running
command still has its entry, with the same CPUs, and that entry is never taken
for an orphan: `StartedJob` says so by the pids it may carry, `"none"` (never an
orphan) or that of the command itself (alive). And from the dispatcher's memory
to the new waiter, across a fork, the entry must be known to be the job's own:
`TakenJob`. `FreshJob` says that a job not yet submitted is nowhere. `IInv` is
`TypeOK`, `Booked`, `QueuedOnce` and these four for every job.

*How the proof goes.* A step works on one job at most. For every other job `k`
it does no more than `Untouched(k)` allows: an entry that is needed stays, a
process moves on but not into a place the invariant speaks of, nothing is added
to the queue or to a dispatcher's hands. Lemma `Frame` shows once that this keeps
the parts of the invariant about `k`, and `CleanupKeeps` that `orphan_cleanup` is
such a thing. What is left of each action is the job it works on, and the books
(`StartJobConsistent`, `FreeJobsConsistent`). `DieStep` covers both kinds of
death.

The lemmas are stated for `IInvBut(X)`, in which the jobs of `X` may have lost
their entry to a cancel. `NobodyExempt` says that `IInvBut({})` is `IInv`; the
general form, `StepBut`, is what `CancelProofs` needs.

### What users are promised: `CoreschedService`

| Theorem | Property | Holds when |
|---|---|---|
| `FullGrantAlways` | `FullGrant` | always |
| `ExclusiveCoresAlways` | `ExclusiveCores` | always |
| `PriorityOrderAlways` | `PriorityOrder` | always |
| `NotForgottenAlways` | `NotForgotten` | always |
| `ConfinedAlways` | `Confined` | the kernel refuses no pin, nobody asks for nothing |
| `NoLeakAlways` | `NoLeak` | no fault but failing forks, nobody asks for nothing |
| `QueueServedAlways` | `QueueServed` | no faults, nobody asks for nothing, no run times out |
| `QueueFIFOAlways` | `QueueFIFO` | one fork at most may fail |

The conditions are hypotheses of the theorems (`EverybodyAsks`, `NoFaults`,
`Patient`, `OneForkFails` and conditions on `FaultKinds`), and the code needs them.
Who asks for no CPU (`--cpus 0`) is pinned to the empty set, which the kernel
refuses; then the command runs unpinned if it was queued, and the waiter of a
direct run dies with its entry booked. A failing spawn or a kill leaves an entry that
nobody frees (finding 2). A timeout leaves a queue that could move (finding 3),
and so does a dispatcher that stops after a failed fork. Two forks that fail put
two jobs back in the wrong order. The runs that check these properties satisfy
the conditions, and section 4 says what happens without them.

All eight rest on `Matched` (`MatchedAlways`): an entry, pending or queued
record of a job has the type, the priority and the amount of its request. The
proof of it goes through `EntriesStep`: each step leaves an entry as it is, but
for its pid, or makes it by an allocation. `FullGrant`, `ExclusiveCores` and
`PriorityOrder` then follow from what an allocation checks. The others have an
auxiliary invariant each:

* `Remembered`: no pid is recorded before the command has started, so no cleanup
  removes the entry of a job that was taken but has not started.
* `Masked`: a running command has the affinity its waiter wanted.
* `TakenOnce` (a theorem, `TakenOnceAlways`) and `Attended` (`AttendedAlways`): a
  dispatcher holds one job at most, and only while it forks; whatever is booked is
  in the hands of a dispatcher or of a waiter that will free it.
* `Waiting` (`WaitingAlways`): whoever is pending waits. With `Attended` it gives
  `QueueServed`: if the head of the queue could start while nobody is on his way
  to dispatch, then nobody holds anything and nobody waits; the last process to
  leave saw the same file and would have taken the job.
* `TakenFirst`: while a fork may still fail, the job in a dispatcher's hands is
  older than those of its level in the queue, so that it may go to the front.

### The refinement: `PoolRefinement`

`PoolImplemented == Spec => ImplementsPool`, where `ImplementsPool` is the
specification of `CpuPool` with the entries of the state file as grants and what
became of the commands as lives. The argument has one step per kind of change.
Every step of the processes gives back entries, books one, starts a command or
ends some, and these are the pool's `GiveBack`, `Allocate`, `Start` and `Finish`
(lemmas `Releases`, `Allocates` and those after them); a step that does none of
them gives back nothing. A cleanup inside a step is a `GiveBack`, or the set of
jobs an `Allocate` drops on its way. That a grant shares no CPU with another is
`Booked'`; that the pool never loses the grant of a job whose command exists is
`StartedJob` together with `CleanupKeeps`. So the refinement needs `IInv` before
and after the step, and nothing else.

### Cancel and wait: `CancelProofs`

| Theorem | Property |
|---|---|
| `CancelTypeCorrect` | `CTypeOK` |
| `BookedUnderCancel` | `Booked` |
| `KeepsCpusAlways` | `KeepsCpus` |
| `WithdrawnNeverRunsAlways` | `WithdrawnNeverRuns` |
| `EntryAliveAlways` | `EntryAlive` |

`IInv` is not an invariant here: cancel removes entries that others rely on.
`CInv` (`CancelInvariant`) therefore says three things.

* `JobsInv`: `TypeOK`, and `IInv` but for the jobs `Exempt`, that is those whose
  entry cancel took for an orphan's (`purged`) and those whose command is dead.
  In addition a pending job has no command (`Registered`), and a withdrawn job is
  nowhere (`Nowhere`). The steps of `Coresched` keep it by `StepBut`; of the users'
  steps, those that take jobs out of the file keep it by `JobsRemoved`, and the
  signals by `JobsKilled`.
* `UsersOK`: the types of what users know, and that one user at most has the lock.
* `Covered`: while a user holds the lock, every running command with a recorded
  pid is still to be cancelled or in the tree that is being killed. It is kept
  because only `OpenStep` goes on meanwhile, which records no pid. When nothing
  is left to cancel, no such command runs: `FreeAll` frees the CPUs of none but
  those `KeepsCpus` excepts.

### The state file: `StateFileProofs`

| Theorem | Property |
|---|---|
| `TypeCorrect` | `TypeOK` |
| `NeverTornCorrect` | `NeverTorn` |
| `KeptCorrect` | `Kept` |
| `FreshIdsCorrect` | `FreshIds` |
| `StartedOnceCorrect` | `StartedOnce` |
| `RefinesStore` | `ImplementsStore` |

The invariant is `Types`, `Counted`, `Unissued`, `Plain`, `Exclusive` and, as
long as nobody has gone in without the lock (`AllLocked`), `Locked`. `LockFails`
makes the hypothesis false, and no step makes it true again. `Counted` says that
no id exceeds the number of submissions; without it the type of an id would not
be known. `Exclusive` is the lock, `Files` the rename (whoever has the temporary
file open is in its critical section, and what it will rename is whole). The
heart is `Changing`: what a process is about to write is what its operation
makes of the state that the file has *now*, or of the default state if it could
not read the file, or is the default state of a file that is absent. This is
what the lock is for, and the refinement follows from it: `Rename` is the
store's operation, `Crash` and `SaveFails` are stutters. `Origin` and `Traced`
say where an entry came from and where a lost one may have gone. With them
`KeptJobs`, `FreshJobs` and `TakenJobs` extend the three properties to the
processes that are still saving.

### Killing a job: `ProcessTreeProofs`

`TypeCorrect`, `OnlyMissedSurviveCorrect` and `StillJobCoveredCorrect`, for jobs
of any size. `Family` and `Led` are facts about processes: a parent is alive and
older than its child, a group has a leader who stays in it. `Reachable` is about
the walk: whoever it has not found and may still find has a parent whose list it
will read, or whom it may still find itself. When nothing is left to read, the
oldest process that was not found would have a parent that was not found either,
which is older: so there is none (`WalkEnds`). `Killed` says who is dead after
which loop. `Stood` is for the job that stands still: nobody vanishes from a list
that is being read, so a list that is closed has been read whole (`ListWhole`),
and the snapshot with the children of other threads, and those below them, is
closed under the children; `Below` is within every closed set.

### Detection: `TopologyDetectProofs`

`OwnCpusAlways` is the part of `TopologyAssumption` that is hard to see, that
cores share no CPU. Its invariant `Grouped` says that a visited CPU is in one
group at most and an unvisited one in none; a group that is overwritten only
loses CPUs. `CoresAreCoresAlways` says that on a regular machine the cores are
the hardware's. Where each CPU has a `core_id`, the groups are exactly the
visited CPUs with their keys (`Sorted`); the cores are numbered without gap or
repetition in the order of the keys (`Numbering`), and the first two CPUs of a
group of two are all of it (`WholePair`). What is required of the machine is in
the property itself, `Regular`.

### The model and the prover

Three definitions are written so that one can reason about them: `Below` of
`ProcessTree` and `CollectProcessTree` of `Cancel` are closures, stated as the
intersection of the closed sets and not by recursion, and the assumption of
`TopologyDetect` says "at most one `core_id`" with a quantifier
and not with a cardinality.

## 6. Not modelled, and the plan

Not modelled, and why:

* `list`, `status` and `tail` change no state: they read the file and format it.
  (`status` splits the line of CPUs at eight, `main.rs:882`, and so panics on a
  machine with fewer.)
* `progress` is read only as well, and its substance is log files, `/proc` and
  floating-point arithmetic. It reads the state file without the lock; what it
  needs for that is `NeverTorn`.
* The command line is parsed by clap; its result is the record `Request`.
* `migrate` when the topology has changed since the file was written, and the
  older forms of the schema: the topology is a constant here. `migrate` adds what
  is missing and removes nothing, against `README.md:87`.
* Pids that the kernel reuses or a namespace hides: a process is a name, never
  reused and visible to everyone. `is_alive` takes a process it may not signal
  for dead; the model has one user.
* The counts at their real widths: no model has 256 free CPUs. The cast is in
  `Scheduler`, and `topology` checks the same cast where it wraps.

What is worth doing next:

1. The conditions of `CoreschedService` weakened one by one, for instance
   what `QueueServed` still promises when forks fail but somebody submits later.
2. `NoLeak` and `QueueServed` under cancel, in the form that the code does keep.
3. `migrate` under a changed topology, as another way to fill the state file.
