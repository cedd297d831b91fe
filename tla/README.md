# TLA+ models of the tsm group-message kernel module

This directory holds TLA+ models of `src/kmodule` (the `tsm` kernel module),
of the parts of its client library `src/lib/tsm_lib.c` that carry protocol,
and of one of its test programs.
The module gives each *group device* a message queue with optional delayed
publication, a revoke that flushes delayed messages, and a barrier.
Each model is checked with TLC. `PROJECT.json` lists:

- the components;
- every run with the properties it checks;
- a mutant for each property of a passing run;
- the map from each TLA+ definition to the source lines it translates;
- the findings;
- the hazards.

## 1. The system

| Part | Source | State | Operations |
|---|---|---|---|
| Control device `tsm` | `tsm.c`, `ioctl.h` | its char region and `/dev/tsm` | `tsm_init`, `IOCTL_INSTALL_GROUP` → `install_group`, `IOCTL_MAX_MESSAGE_SIZE`, `tsm_exit` |
| Registry | `group_dev_manager.c` | `group_devs` list, `used`, the major number | `install_group`, `_install_group`, `get_group`, `group_free`, `group_free_all` |
| Message engine, per group | `group_dev.c` (`group_read`, `group_write`, `add_delayed_work`, `delayed_work_fun`, `_fflush_workqueue`, `fflush_workqueue`) | `message_list`, `pending_list`, `delay_list`, `messages_number`, `delay`, `FLUSHING_BIT`, `delay_wq`; semaphores `message_sem`, `pending_sem`, `wq_sem` | read, write, set delay, revoke, timer expiry, worker |
| Barrier, per group | `group_dev.c` (`set_barrier`, `clear_barrier`, the two barrier ioctls) | `BARRIER_BIT`, `wait_queue` | sleep on barrier, awake barrier |
| Client library | `src/lib/tsm_lib.c` | file descriptors | wrappers that check arguments and issue ioctls; `open_group` retries `open` until udev creates the node |
| Tests and examples | `src/lib/*.c` | — | multi-thread and multi-process clients of the above |

How the parts interact:

- Writers, readers, the revoker and the barrier ioctls run on user threads.
- `delayed_work_fun` runs on the device's single-threaded workqueue. Kernel
  timers feed it when a delayed work expires.
- A delayed write does three things:
  - it counts the message;
  - it links the message into `pending_list` under `pending_sem`;
  - it queues a `struct work` on `delay_list` under `wq_sem`.
- When a work's timer expires, the worker moves the *oldest* pending message
  to `message_list`. It then unlinks and frees its own work, unless
  `FLUSHING_BIT` is set.
- A revoke does the following:
  - it splices all of `pending_list` into `message_list`;
  - it sets `FLUSHING_BIT` while holding `wq_sem`;
  - it walks `delay_list` with `list_for_each_prev_safe`, which caches the
    next element. For each work it calls `list_del` and
    `flush_delayed_work`;
  - it drains the workqueue and clears the bit.
- `BARRIER_BIT` and `FLUSHING_BIT` share the byte `dev->flags`. Both are
  updated by non-atomic read-modify-write.

## 2. Modules

### GroupQueue.tla — the message engine of one group

| Variable | Code |
|---|---|
| `visible` | `message_list`. Index 1 is `list_last_entry`, the next message read. |
| `pending` | `pending_list`, oldest first |
| `messages_number` | `dev->messages_number` |
| `delay` | `dev->delay` |
| `flushing` | `FLUSHING_BIT` |
| `delayList` | `delay_list`, in the order `list_for_each_prev_safe` visits it |
| `work[w]` | life of each `struct work`: none, timer, ready, running, freed |
| `readyQ` | the workqueue's FIFO of expired works |
| `wpc`, `kpc`, `fpc` | program counters of the writers, the worker and the revoker |
| `fpos`, `fnext` | the revoke cursor and its cached next pointer |
| `wmsg`, `kmsg` | the message a writer or the worker still points at after `up(message_sem)` or `up(pending_sem)` |
| `wpos` | the `pos` of a writer's `message_list_print` walk |
| `snap`, `delayed`, `delivered`, `lost`, `memError`, `staleRead` | ghost history for the properties |

Each critical section under `message_sem` or `pending_sem` is one action,
because nothing inside it blocks. `wq_sem` spans several steps (the
revoke's walk, and a writer's `queue_delayed_work` and `list_add`), so it
is modelled by the pcs of the revoker and the writers (`WqSemFree`). The actions and the code they
translate:

| Action | Code |
|---|---|
| `WriteStore` | `group_write` up to the capacity check and the enqueue of an undelayed message |
| `PrintStart` | `group_write`'s `message_list_print(dev->message_list)` after `up(message_sem)`: the `list_empty` test and `pos = list->prev` |
| `PrintVisit` | one pass of its `list_for_each_prev`: `message_print` of `pos`'s message, then `pos = pos->prev` |
| `WriteLog` | `group_write`'s closing `info()` of the message data, after the semaphore is released |
| `WritePush` | link into `pending_list` |
| `WriteQueueWork` | `add_delayed_work`: `down(wq_sem)` and `queue_delayed_work`, which arms the timer |
| `WriteLinkWork` | `add_delayed_work`: `list_add` into `delay_list` and `up(wq_sem)`; the work may already have run and been freed |
| `WriteWorkAllocFails` | `add_delayed_work` when `kmalloc` fails |
| `TimerFires` | a timer's expiry |
| `WorkerStart` | `delayed_work_fun`: take the oldest pending message |
| `WorkerPublish` | `delayed_work_fun`: add it to `message_list` |
| `WorkerLog` | `delayed_work_fun`: the debug print of that message after `up(message_sem)` |
| `WorkerCheckFlushing` | `delayed_work_fun`: the `FLUSHING_BIT` test and `kfree` |
| `WorkerUnlink` | `delayed_work_fun`: the `list_del` (harmless on a work not yet linked, whose list still points to itself) and `kfree` |
| `RevokeStart` | `IOCTL_REVOKE_DELAYED_MESSAGES` enters `fflush_workqueue` |
| `RevokeSplice` | `_fflush_workqueue` |
| `RevokeLock` | the start of `fflush_workqueue` |
| `RevokeVisit` | the loop body: `list_del`, then `flush_delayed_work` starts |
| `RevokeNext` | `flush_delayed_work` returns and the cursor advances |
| `RevokeDrain` | `drain_workqueue` and clearing the bit |
| `SetDelay` | `IOCTL_SET_SEND_DELAY` and `_set_delay`, whose `msecs_to_jiffies` is `MsecsToJiffies` (rounding up, with `HZ = 250`) |
| `Read` | `group_read`, including a failing `copy_to_user` |
| `GroupFreeStart` | `group_free` at unload: the `fflush_workqueue` call (it reuses the revoke steps) |
| `GroupFreeLists` | `group_free`: free `delay_list`, the pending list (with its `list_entry(dev->pending_list)` slip) and the visible messages |

`Freed` is the set of messages already freed: read ones (`kfree` in
`group_read`) and the ones `group_free` freed. The log steps set
`staleRead` when the message they print is in it. The print walk holds no
lock, and it starts at the entry the next read takes. `PrintVisit` sets
`staleRead` when it reaches a message that a reader has since unlinked
(`Released`): that message was `kfree`'d, and its `prev` pointer is
`LIST_POISON2`, so the walk is taken to end there.

`CanUnload` enables the teardown. Teardown starts only when no writer or
revoker is inside the device, because an open file pins the module. Timers
and the worker keep running until the flush drains them.

Data is abstracted as follows:

- A message is an integer id, given out in queueing order.
- A work carries the id of the write that queued it.
- Time is left out: any armed timer may expire at any moment. `Delays =
  {0, 1}` is enough because the code only distinguishes zero from non-zero.

`MCGroupQueue.tla` sets the writers to two model values, with symmetry.

### MessageStore.tla — what a group promises

`MessageStore` is the abstract specification of one group, written from
`spec.md` (it translates no code and is not in the map). It has:

- `visible`: the messages a read can return, oldest first;
- `pending`: accepted delayed messages, oldest first;
- `count`: accepted and not yet read, at most `Capacity`.

A write lands in either store. `Publish` moves the oldest pending message
behind the visible ones. `Flush` moves all pending messages, in order,
behind them. `Read` takes the oldest visible message. `FairSpec` adds
`WF(Publish)`: a pending message is not held back for ever.

`GroupQueue` instantiates it as `Store` with this refinement mapping:

| Abstract | GroupQueue |
|---|---|
| `visible` | `visible` |
| `pending` | `InFlight \o pending`: the message the worker holds between `WorkerStart` and `WorkerPublish`, then `pending_list` |
| `count` | `messages_number` minus the writers between the count and the link (`Pushing`) |

`StoreRefinement == Store!Spec` and `StoreRefinementFair == Store!FairSpec`
are checked as temporal properties.

### GroupFlags.tla — the shared flags byte

`dev->flags` holds `BARRIER_BIT` and `FLUSHING_BIT`. `group_dev.h`
redefines `set_bit` and `clear_bit` as a plain `|=` and `&=`. So every
update is a load into a register and a later store, and no lock is shared
by the barrier ioctls and `fflush_workqueue`. The bits are computed with
the `Bitwise` module's `&` and `|` (`SetBit`, `ClearBit`, `CheckBit`).

| Action | Code |
|---|---|
| `SleepLoad`, `SleepStore` | `set_barrier` in `IOCTL_SLEEP_ON_BARRIER` |
| `SleepCheck` | `wait_event(..., !is_barrier_up(dev))` |
| `AwakeTest` | `if (is_barrier_up(dev))` |
| `AwakeLoad`, `AwakeStore` | `clear_barrier` |
| `AwakeWake` | `wake_up_all` |
| `FlushSetLoad`, `FlushSetStore` | `set_flushing` in `fflush_workqueue` |
| `FlushClearLoad`, `FlushClearStore` | `clear_flushing` after `drain_workqueue` |

The ghosts `barrierWant` and `flushWant` hold what the last completed store
of each bit meant to leave. Memory is sequentially consistent here; the
store buffer is `Barrier`'s concern. `MCGroupFlags.tla` defines one sleeper
and one awaker.

### Barrier.tla — the barrier of one group

| Variable | Code |
|---|---|
| `barrierUp` | `BARRIER_BIT` |
| `spc` | each sleeper's place in `wait_event` (idle, check, waiting = in `wait_queue`) |
| `apc` | each awaker's place in the ioctl |
| `pendingClear` | a `clear_barrier` store still in the CPU store buffer |

The actions:

- `SleepRaise` is `set_barrier`.
- `SleepCheck` is `wait_event`'s `prepare_to_wait` followed by the test. The
  full barrier in `set_current_state` lets the enqueue and the load be one
  step.
- `AwakeClear` is `is_barrier_up` followed by `clear_barrier`.
- `AwakeWake` is `waitqueue_active` followed by `wake_up_all`.
- `StoreDrains` lets a buffered store reach memory. It can only fire when
  `StoreBuffering` is TRUE. `SCSpec` is the specification without it, for
  sequentially consistent memory, where no store is ever buffered.
- `wake_up_all` takes the wait-queue spinlock, which is a locked
  instruction. So when `waitqueue_active` finds sleepers, `AwakeWake`
  first makes the awaker's own buffered clear visible (`Drained`). Only
  the load in `waitqueue_active` can pass the store.

`MCBarrier.tla` uses three sleepers and two awakers as model values.

### SleepTest.tla — the barrier test program

`src/lib/mp_sleep.c` (and `sleep.c`, its one-child case) composed with the
barrier: `B == INSTANCE Barrier WITH Sleepers <- Children, Awakers <-
{Parent}, ...`, with one sleep per child and one awake.

| Action | Code |
|---|---|
| `ChildSleep` | `child_fun` calls `sleep_on_barrier`: `set_barrier` |
| `ChildWait` | the child inside `wait_event` (`B!SleepCheck`) |
| `ChildExit` | `sleep_on_barrier` returned: `close_group`, `exit(0)` |
| `ParentAwake` | `sleep(5)` returns, `awake_barrier`: `is_barrier_up` and `clear_barrier` |
| `ParentWake` | `waitqueue_active` and `wake_up_all` |
| `ParentDrain` | the parent's buffered clear store reaches memory |
| `ParentReap` | one `wait(&status)` of the loop |
| `ParentClose` | `close_group` after `CHILDREN` waits |

Nothing but the parent's `sleep` orders the awake after the children's
sleeps, so the children run at any speed. The ghost `late` records an awake
issued while some child was not yet queued in `wait_event`.
`MCSleepTest.tla` defines three children.

### Registry.tla — load, install_group and unload

The install path runs with no lock. Every line that touches shared state is
its own step. Each step is one action, and `ipc` holds the thread's place in
the code:

| Action | Code |
|---|---|
| `TsmInit` | `tsm_init`: `alloc_chrdev_region` (`TSM_MAJOR` is 0) and `/dev/tsm`; a failed region ends the load (`phase` "failed") |
| `InstallStart` | `tsm_dev_ioctl(IOCTL_INSTALL_GROUP)`, the copy into `unsigned char desc` (`Narrow`) and the range check (`Rejected`) |
| `InitCheck` | `if (!group_devs)` |
| `InitAlloc` | `init_group_devs`. Its two failures store NULL, or leave a pointer to a freed structure. |
| `Lookup` | `get_group` |
| `Space` | the `used` capacity test |
| `InstallAlloc` | `_install_group`'s read of `major` and its allocations, which fail together and unwind |
| `Region` | `alloc_chrdev_region` or the uninitialised `err`, then `cdev_add`/`device_create` (`Create`) or `dev_reg_fail` (`RegFail`), which leaks the workqueue |
| `Link` | `list_add` |
| `IncRead`, `IncWrite` | `used++` as a load and a store |
| `Oops` | a dereference of a NULL or freed `group_devs` |
| `Exit` | `tsm_exit`: `group_free_all` (`FreeAll`, which destroys nodes as `MKDEV(group_devs->major, minor)`, and `GroupRegion`, the one region it unregisters), then `/dev/tsm` and the control device's region |

The kernel objects are tracked as abstract sets:

- `nodes` holds the `/dev` nodes as `<<major, minor>>` pairs.
- `regions` holds the registered majors, the control device's (`tsmMajor`)
  included; `tsmNode` is `/dev/tsm`.
- `devAlloc`/`devFreed` count the `group_dev` structures created and freed.
- `devMinor` holds, for each `group_dev`, the minor it was created with;
  the ghost `iarg` holds the id the caller passed.

The id is an `unsigned char` in the code, so the `desc >= GROUP_DEV_COUNT`
test (256) can never hold. The model keeps the width (`Narrow(d) = d %
2^DescBits`). With `DescBits = 1` and `GROUP_DEV_COUNT = 2` the test can
never hold, as in the code; with `DescBits = 2` and three groups it can,
so both outcomes of `Rejected` happen. `registry_seq` passes id 5, which
`DescBits = 2` narrows onto group 1: `get_group` finds or the install creates
group 1 and `install_group` returns 0, but `open_group` formats
`group_dev5`, a node that never appears, so its open loop gives up after
`Attempts` tries.

After a successful install the thread goes on as the client library does
(`src/lib/tsm_lib.c`):

| Action | Code |
|---|---|
| `OpenStart` | `open_group`: argument checks and the path allocation (which may fail) |
| `OpenTry` | one `open` of `/dev/<name>`; on failure, `sleep` and retry while fewer than `ATTEMPTS` tries were made, then give up |
| `Reached` | the `group_dev`s a file of that minor reaches (`group_open` via the cdev) |
| `CloseGroup` | `close_group` |
| `Udev` | udev creating a file for a node, or removing a file whose node is gone, at any time |

`files` holds the `/dev` files, `catt` each thread's attempt count and
`cfd` the group its descriptor holds.

`MCRegistry.tla` defines one installer or two, interchangeable.

## 3. Runs

| Run | Checks | Shows |
|---|---|---|
| queue_safety (pass) | `TypeOK`, `Conservation`, `RevokeCompleted`, `TeardownFreesAll` | While the group exists, the count equals the stored messages plus writes in flight, stays at or below `max_storage_size`, and each message is in exactly one place. When a revoke ends, nothing that was pending or moving at its start is still hidden. After `group_free`, every accepted message was read, lost by `copy_to_user`, or freed. This holds across every interleaving of 2 writers, reads, delay changes, timers, the worker, one revoke, failing work allocations and unload. |
| queue_liveness (pass) | `StoreRefinementFair` | Without revoke, and when allocation never fails, GroupQueue implements `MessageStore` under its fairness: every step maps to a write, publish, read or stutter of the abstract store, delayed messages are published oldest first, and every pending message is eventually published. |
| queue_memsafe (violation) | `MemorySafe` | `add_delayed_work` arms the timer before it links the work. The timer fires, and the worker runs and frees the work; then `list_add` writes into the freed work (use after free; finding 1). A timer that fires during a revoke's walk reaches the same invariant. |
| queue_revoke_order (violation) | `StoreRefinement` | With a revoke, the refinement fails: the splice puts pending messages where `group_read` takes the next one, so when message 1 is written with no delay and message 2 with a delay, a revoke makes the next read return message 2 (finding 2). |
| queue_stranded (violation) | `PendingEventuallyPublished` | A failed `kmalloc` of the work leaves the accepted message pending with no timer (finding 3). |
| queue_log_uaf (violation) | `NoMessageUseAfterFree` | After `up(message_sem)`, `group_write` walks `message_list` in `message_list_print` with no lock. A reader takes and frees the entry the walk stands on, and the walk reads it (finding 4). The `info()` lines of `group_write` and `delayed_work_fun` after the same `up()` read freed messages in the same way. |
| barrier_sc (pass) | `NoStrandedSleeper` | Under sequentially consistent memory, no thread sleeps on a lowered barrier once every awake has returned. |
| sleep_test (pass) | `TestTerminates` | `mp_sleep.c` with three children, under the store buffer, always ends unless its single awake came before some child was asleep: the lock in `wake_up_all` drains the buffered clear before the woken children recheck. |
| barrier_tso (violation) | `NoStrandedSleeper` | With the unfenced store buffered past `waitqueue_active`, the wakeup is lost (finding 5). |
| registry_seq (pass) | `RegistryInvariant`, `CleanUnload` | A single installer, with every allocation, region and `err` failure allowed (the load's included), keeps the spec's registry invariant: ids are unique, `used` equals the list length, and `used` is at most `GROUP_DEV_COUNT`. This holds also for id 5, which `install_group` narrows onto group 1. After unload no node, region or unfreed `group_dev` is left, `/dev/tsm` and the control region included. |
| registry_dup (violation) | `RegistryInvariant` | Two unlocked installs of the same id list it twice (finding 6). |
| flags_race (violation) | `NoLostBitUpdate` | A revoke's `set_flushing` loads `flags` before a sleeper's `set_barrier` and stores after it, so the barrier bit is lost (finding 7). |

`TestTerminates` excuses a late child because that is the test's own
assumption. When the child is late, TLC shows the test hanging in two
ways:

- the late child raises the barrier after the awake and sleeps for ever;
- with three children, the late child raises the barrier again between the
  wake-up and the recheck of the two children already asleep, and they go
  back to sleep (the re-raise hazard).

Every property of a passing run has a mutant in `PROJECT.json`. Each mutant
is a plausible bug in the translated code, and TLC finds it:

| Mutant | Property it breaks |
|---|---|
| off-by-one capacity test | `TypeOK` |
| worker peeks without unlinking | `Conservation` |
| splice that drops the message in flight | `RevokeCompleted` |
| worker takes the newest message | `StoreRefinementFair` |
| `wake_up` instead of `wake_up_all` | `NoStrandedSleeper`, `TestTerminates` |
| group teardown without the flush | `TeardownFreesAll` |
| lookup that never matches | `RegistryInvariant` |
| allocated major not stored | `CleanUnload` |

### Bounds

GroupQueue:

- `MaxMsgs = 3` and `MaxStorage = 2`. The store fills while a third write is
  refused.
- Two writers. Two delayed writes can interleave with each other.
- `MaxDelaySets = 1` in the safety run: the delay is set once, so writes
  before and after a change are both explored; the liveness run allows three
  changes, so the delay also goes up and down again.
- One revoke. A revoke meets works in every state: timer, ready, running
  and freed.
- The liveness run has no revoke.
- Violation runs use smaller bounds, so the counterexample stays short.

Barrier:

- 4 sleeps and 3 awakes over 3 sleepers. Several sleepers can be queued
  while a new one raises the barrier again.

SleepTest:

- Three children. That is enough for two children to be asleep while a
  third is late, and for a wake-one mutant to leave a child behind.

Registry:

- Up to 6 installs by one thread, with three groups and ids
  `{0, 1, 2, 3, 5}`. Id 3 is refused, and id 5 narrows to group 1. The
  registry can fill, and loading can fail.
- The duplicate run uses 2 installs by two threads. With two threads every
  pairing of shared-state steps is explored, and the violation needs only
  two installs.

GroupFlags:

- One sleeper, one awaker and one revoke, each called once. The race needs
  one load-store pair of each kind, and the run stops at its first
  counterexample.

Registry client:

- `Attempts = 2` makes both the retry and the give-up path reachable.

Distinct states explored by the passing runs:

| Run | Distinct states |
|---|---|
| queue_safety | about 4.4 million |
| queue_liveness | about 953,000 |
| registry_seq | about 37,000 |
| sleep_test | 738 |
| barrier_sc | 388 |

### Fairness

Fairness is assumed only for steps that the code guarantees:

| Step | Fairness | Why |
|---|---|---|
| worker thread, its log step included | WF | the kernel runs a runnable kworker |
| expired timers | WF | an armed timer fires |
| the revoker's steps inside the ioctl | WF | a thread inside the ioctl runs |
| a writer's pending-list link, `delay_list` link, print walk and log step | WF | the writer is inside the syscall |
| a writer's and the revoker's `wq_sem` acquisition (`WriteQueueWork`, `RevokeLock`) | SF | `down` on a semaphore that is released again and again eventually succeeds, but the step is only intermittently enabled while another thread holds `wq_sem` |
| every step of the test program's processes; the parent's store buffer draining | WF | a process runs its program, and a store buffer drains |

New ioctl calls from `GroupQueue`'s users get no fairness: a user is never
obliged to call. The test program's calls are different: its code makes
them.

## 4. What is not modelled, and the plan

Done so far:

- the refinement of `MessageStore` by `GroupQueue`;
- the flags byte (`GroupFlags`);
- the char truncation of the id;
- the client's `open_group` retry loop;
- the log reads of freed messages;
- the load and unload of the control device;
- the barrier test program;
- the unlocked `message_list_print` walk in `group_write`.

Still to do, in this order:

1. **GroupFlags, passing.** A run that fixes the race (atomic bitops) and
   checks that the barrier then never drops without an awake, and that
   `FLUSHING_BIT` is clear after every revoke.
2. **First install race.** Two first installs both run `init_group_devs`.
   The overwritten structure's group survives unload (`CleanUnload` with
   two installers). This is listed as a hazard without a run, because the
   project is limited to twelve runs.
3. **Registry, continued.** The check-then-create race on
   `group_dev_class`, and the NULL `delay_wq` left by a failed
   `init_workqueue`. `add_delayed_work` then returns early (line 418) for
   every delayed write, so no timer is armed. `group_free` skips the flush
   (`group_dev_manager.c:381`) and reaches its faulty pending-list loop.
4. **Client timeout.** A property that `open_group` succeeds once udev has
   created the file; it needs fairness for `Udev`, which udev does not
   promise within `ATTEMPTS` tries.
5. **Time.** A timed variant of `GroupQueue` for the publication order
   after a delay change.

Checked in the model but not stated as a run:

- A failed `init_group_devs` makes `get_group` dereference NULL or freed
  memory. `Oops` marks this as `memError`.
- The uninitialised `err` (`ErrGarbage`) makes a later install fail. The
  workqueue it leaks is not tracked.

Both are listed as hazards.

Left out entirely:

- **Payload bytes.** These cases are listed as hazards:
  - the one-byte overflow at `data[length] = 0` in `group_write`;
  - `send_message`'s access to `msg[max_message_size]`.
- **Runtime writes of the module parameters.** `max_storage_size` and
  `max_message_size` have mode 0644. GroupQueue takes the capacity as a
  constant. This is listed as a hazard.
- **The other test programs.** The read/write, revoke and multigroup tests
  drive the paths `GroupQueue` models without ordering assumptions of their
  own. The install tests are single calls of the Registry's install path.
  `readwrite_delay.c` overwrites its 5000 ms delay with `delay = -1`
  (line 254), so `set_send_delay` rejects it and the test closes the group
  without writing: it never exercises the delay path.
- **The library's argument checks.** `send_message`, `retrieve_message`,
  `set_send_delay` and `revoke_delayed_messages` only reject bad arguments
  before their call.
- **Logging output.** It changes no state. Only its reads of messages are
  modelled (`WriteLog`, `WorkerLog`, `PrintStart`/`PrintVisit`).
  `group_devs_list_print` walks a list that is never freed while it runs.
- **The sysfs class and `device_create` internals.** Nodes and files are
  abstract pairs.
- **`group_t`.** Its header, `common.h`, is not in the repository.
