# Formal verification of the A733 PowerVR stack

The repository is a working open-source GPU stack for the Allwinner A733 (an Imagination PowerVR BXM GPU): patches
to the Linux `drm/imagination` driver and a backport of the GPU VA manager to an older kernel, patches to Mesa's
`pvr` Vulkan driver and a native Gallium GL driver, patches to the FEX x86 emulator, and scripts for the board. This
directory holds TLA+ models of the parts that carry state shared between threads, their TLC configurations, and
proofs checked by the TLA+ proof system.

Modelled now: in the kernel, the command ring to the GPU firmware (`Kccb`), the GPU address space (`GpuVm`) with its
operation lists (`GpuVmOps`) and its object lists (`VmBoList`), and the geometry and fragment queues (`FragQueue`); above
it, the render slots of the native GL driver (`RenderSlots`), the Vulkan layer that fakes features (`FeatureStrip`) and
the programs that put images on the panel (`PageFlip`, `Scanout`, `PanelTest`). The safety properties of all of these but
the queues are proved for instances of every size, and so are the refinements of the command ring and of the address
space.

Contents: [inventory](#inventory), [plan](#plan), [modules](#modules) (how state and actions correspond to code,
bounds, fairness, results), [proofs](#proofs), [findings](#findings), [not modelled](#not-modelled), [running](#running).


## Inventory

`PROJECT.json` lists every component with its files and status, and the hazards at their lines. This section says
what state each keeps, what acts on it, what makes it hard, and what makes it correct.

### How the parts interact

An application records commands through Mesa's Vulkan driver (`pvr`) or through the native GL driver
(`gallium/pvr`), natively or under FEX through a thunk library. The driver maps buffers with the VM bind
ioctls (`GpuVm`) and submits jobs: a geometry job, the partial-render fragment job it may trigger, and a final
fragment job. The kernel links the three, and one DRM scheduler per queue prepares and runs them (`FragQueue`).
Running a job writes its commands to a client ring in shared memory (a CCCB) and then announces them by one *kick*
in the kernel command ring (`Kccb`). The firmware reads kicks and client rings, writes timeline values and raises
an event; the interrupt thread then signals fences, wakes jobs that wait for ring space, and wakes jobs that wait
for a kick slot. A job that makes no progress for 500 ms is examined by a timeout worker.

### Kernel driver

| Component | State | Operations | Hard behaviour | Correct when |
|---|---|---|---|---|
| Kernel command CCB (`pvr_ccb.c`) | ring offsets, return statuses, reservation count, list of waiting fences | reserve (polling or with a fence), send reserved, wait for completion, release, wake waiters | firmware moves the read offset without the lock; wake-up loop against new arrivals; return slots reused | no slot promised twice, no command dropped, no fence lost, a status is the caller's own |
| Firmware command CCB (`pvr_ccb.c`) | ring read by the driver | process one command with the lock dropped | the handler may restart the GPU | each command handled once, in order |
| Geometry and fragment queues (`pvr_queue.c` patches) | per queue: scheduler entity, pending list, in-flight count, fence contexts, one registered waiter; client ring | link and push a submission, `prepare_job`, `run_job`, event processing, timeout | two schedulers write the same ring; checks and writes are separated; the firmware may be faster than the scheduler | nothing dropped, jobs in order, every job finishes |
| GPU VA manager (`drm_gpuvm.c`, `pvr_vm.c` patches) | mappings in an interval tree, lists of mappings per buffer, page tables | map, unmap; each a walk with unmap, remap and map callbacks | a callback may fail half way; splits; two binders | page tables say what the tree says, at every step |
| Page-table preallocation (`pvr_mmu.c` patches) | preallocated tables of an operation | count, take, undo | undo of a half-finished map | the count suffices; a failure leaves nothing mapped |
| `vm_bo` references and lists (`drm_gpuvm.c`) | reference counts, external and evicted lists, one local-list pointer per list | find or create, put, link, evict; lock and validate every object for a submission | iteration drops the list's lock; a lock may be lost to another thread in the middle | no use after the last put, no element lost, a submission holds every lock |
| GPU VA operation lists (`drm_gpuvm.c`) | a list of operations and its separate allocations | create, process, abandon, free | the tree may change between making and processing; every allocation may fail | the list does what was asked, nothing leaks |

### Mesa

| Component | State | Operations | Hard behaviour | Correct when |
|---|---|---|---|---|
| Native GL driver: render slots and batches | 8 draw slots, a pending batch, double-buffered render-target data, cached buffers | draw, flush, submit batch, map, release and reuse | submission is asynchronous and may fail | nothing in flight is reused, waits cover the last writer |
| Vulkan queue synchronisation | job syncs per type, unconsumed waits, geometry timeline | submit, merge, signal | waits outlive the submission they came with | no wait is dropped, no signal early |
| Command-buffer rewriting | held clears, batched copies, recycled blocks | record, flush | rewriting is delayed past other commands | same result as the commands as recorded |
| Compiler and state patches | none between calls | code generation | encodings | numeric equality, outside this project |

### FEX and the board

| Component | State | Operations | Hard behaviour | Correct when |
|---|---|---|---|---|
| FEX thread-context pools | pools of look-up caches and stacks | create, destroy thread, invalidate code | invalidation reaches registered threads only | a reused cache holds no stale code |
| FEX trampolines | patched code, a global spin lock | patch on a fault, emulate | two threads fault on one instruction | one patch, atomic effect |
| Feature-strip layer (`vk_layer_pvr_strip.c`) | what it reports, the one instance and device it knows | query, list, strip and give back, destroy | it writes into the program's own structures, which are read again and passed again | the driver is never asked for a fake; what is read back is what the device has |
| Panel programs (`pvranimate.c`, `pvrscanout.c`, `display-fix-test.sh`) | flip counts of three buffers, the CRTC, the release on the way out | draw, flip, wait, release, execute itself; the script that runs four of them | late flips, time-outs, signals during the release, a panel slow to switch off | no tearing, the display handed back, the script ends |
| Board clocks | `scaling_min_freq` and `scaling_max_freq` of two clusters | boost loop, fan-curve loop, mode switch, restart | three writers of the same files; partial failure | floors and caps are released |
| binfmt guard, zram set-up, driver switching, overlays, wrappers, benches | system files | straight-line scripts | little | see `PROJECT.json` for why each is left out |


## Plan

Order of importance: what can corrupt memory or hang the GPU, then what can hang an application, then what leaves the
board in a bad state.

| # | Module | Models | Composes or implements | State |
|---|---|---|---|---|
| 1 | `Kccb`, `SlotQueue`, `KccbProofs` | kernel command ring | implements `SlotQueue` | checked; safety and refinement proved |
| 2 | `GpuVm`, `AddressSpace`, `VaSplit`, `VaSplitProofs`, `GpuVmProofs` | map and unmap walks | implements `AddressSpace` | checked; safety and refinement proved |
| 3 | `FragQueue`, `JobOrder`, `FragQueueProofs` | geometry and fragment queues | implements `JobOrder` | checked; safety and refinement proved |
| 4 | `VmBoList`, `VmBoListProofs` | object lists, their walks and references | – | checked, proved |
| 5 | `GpuVmOps`, `GpuVmOpsProofs` | operation lists | shares `VaSplit` with `GpuVm` | checked, proved |
| 6 | `DisplayRelease`, `PageFlip`, `Scanout`, `PanelTest`, `PanelProofs` | panel programs and their script | `PanelTest` runs `Scanout` and `PageFlip` on one panel; both extend `DisplayRelease` | checked; safety proved |
| 7 | `FeatureStrip`, `UserspaceProofs` | Vulkan layer | – | proved; the documented restoring refuted |
| 8 | `RenderSlots`, `UserspaceProofs` | GL slots, batch, render-target data, transfer queue, buffer cache | – | checked, proved |
| 9 | `BoardClocks` | boost, fan curve and mode switch on shared files, restarts | three loops | next |
| 10 | `FexPools` | pools of thread contexts and code invalidation | – | next |

Every safety and action property and every refinement that the passing runs check are stated by a theorem. What is
left to prove comes with the models that are left: the floors and caps of `BoardClocks`, the reused caches of `FexPools`.


## Modules

### Kccb: the kernel command CCB

Source: `src/open-driver-perf/captures/tq-fault/pvr_ccb.c.stock`.

| TLA+ | Code |
|---|---|
| `ccb`, `readOffset`, `writeOffset` | the ring and `ctrl->read_offset`, `ctrl->write_offset` |
| `rtn` | `kccb.rtn`, as the client whose command last set *executed* in the slot |
| `reservedCount`, `waiters` | `kccb.reserved_count`, `kccb.waiters` |
| `lock`, `available` | `kccb.ccb.lock`, the local `available_count` of the wake-up loop |
| `pc`, `wantsRtn`, `kccbSlot` | where a client is in the code, and its arguments |
| `SendCmd`, `TryReserve`, `ReserveTimedOut` | `pvr_kccb_send_cmd`, the polling of `pvr_kccb_reserve_slot_sync` |
| `ReserveSlot`, `ReleaseSlot` | `pvr_kccb_reserve_slot`, `pvr_kccb_release_slot` |
| `FillSlot`, `PublishSlot` | `pvr_kccb_send_cmd_reserved_powered` before and after its write barrier |
| `WaitCompleted`, `WaitTimedOut` | `pvr_kccb_wait_for_completion` |
| `WakeBegin`, `WakeOne`, `WakeEnd` | `pvr_kccb_wake_up_waiters`: the count, a turn of the loop, the unlock |
| `FwExecute` | external: the firmware reads the oldest command |

A critical section is one step, except sending and the wake-up loop, during which the firmware moves the read
offset. The retries of the polling loop are abstracted to "at least one try failed, then `-EBUSY`".

Runs:

* `kccb_safety` – 4 slots, one sender, two jobs that may also release. Three clients compete for three usable
  slots, so the ring is full, empty and wraps, and both the polling and the fence path are taken. Checks that
  reservations are accounted for and never overcommit the ring, that no reserved command is dropped, that waiting
  fences stay on the list exactly once, that a status cannot be stale, and that the ring implements `SlotQueue`.
  About 2.7 million states.
* `kccb_live` – 2 slots (one usable), fairness. Fairness assumed: the firmware reads (`WF`), the wake-up loop
  and the publishing step go on (`WF`: they hold the lock and wait for nobody), and whoever needs the lock gets it
  although it is taken again and again (`SF` on `WakeBegin` and `FillSlot`; the ring's lock is a
  mutex, which hands itself to its first waiter when that has been passed over). A queued job gets its slot *provided that from some point on nobody takes a slot past the queue*: the
  code lets arrivals overtake waiters, so without the premise the property fails. Nobody releases in this run: the
  release function does not wake waiters, and has no caller in the driver.
* `kccb_rtn` – see [findings](#findings).

Not modelled: allocation failures of `pvr_ccb_init`, `pvr_kccb_fini`, and the re-initialisation after a hard reset,
whose caller is not in the repository.

### GpuVm: the GPU address space

Sources: `src/kernel/open-driver-spike/shim/drm_gpuvm.c` and `.h`, and patches 0003 and 0007 of
`src/kernel/powervr-backport`, which hold the parts of `pvr_vm.c` that are text here.

| TLA+ | Code |
|---|---|
| `vas` | the interval tree of `struct drm_gpuva` |
| `ptes` | the page tables, address → object and page |
| the `vm_bo` links | `vm_bo->list.gpuva` |
| `lock` | `vm_ctx->lock` |
| per binder: request, position, cursor, spare mappings | the bind operation's context |
| `Begin`, `Return` | `drm_gpuvm_sm_map/unmap` from the lock to the unlock |
| `UnmapVa`, `RemapVa`, `MapVa`, `UnmapDone` | the callbacks, one step each |
| `CallbackFails` | the MMU refuses, before it has changed anything |
| `Insert`, `Find…`, `IterFirst` | the tree operations of the same names |
| `PrevPart`, `NextPart` and the rest of `VaSplit` | what `__drm_gpuvm_sm_map` and `__drm_gpuvm_sm_unmap` compute for a split, and the look-ups of the tree |

The walk's comparisons (`addr == req_addr`, `end < req_end` and so on) appear as set conditions on ranges. A
callback that finds no preallocated mapping goes to the state `"oops"`. An insertion that overlaps is refused
silently, as the code does. Requests that the checks refuse have no effect; `pvr_vm_unmap`'s exact look-up only
restricts the range; unmapping everything is a sequence of unmaps.

Run `gpuvm`: addresses modulo 8 (so that the end of a request can wrap), 4 of them mappable, a reserved kernel
address, two objects of three pages, two binders. A mapping of three pages can be cut in the middle, leaving two
parts; a request can meet two mappings and a gap; objects can be mapped with the same or another offset; both
binders can run requests back to back. More addresses add longer walks of the same steps. The run has no fairness:
every property is safety.

References, lists of objects, locking over `drm_exec` and operation lists are in `VmBoList` and `GpuVmOps`. Not modelled: of
the MMU, only that an operation happens or fails.

Seen while modelling: `drm_gpuva_find_prev()` searches the closed interval from `start - 1` to `start` (line 1947). When
the address before `start` is free and a mapping begins at `start`, it returns that mapping, although its comment
(1934-1937) speaks of the mapping *before* and says that across free space none is returned. The driver does not call it;
`LookUpsFind` states what it does find: the mapping that ends at `start`, where there is one.

### VmBoList: objects of an address space

Sources: `src/kernel/open-driver-spike/shim/drm_gpuvm.c` and `.h`, for a VM without `DRM_GPUVM_RESV_PROTECTED`, as the driver
sets it up.

| TLA+ | Code |
|---|---|
| `obj`, `kref`, `numVas`, `evicted`, `inGem` | `struct drm_gpuvm_bo`: its object, reference count, mappings, flag, place on the object's list |
| `link`, `owner` | `list.entry.extobj` and `.evict`; `extobj.local_list` and `evict.local_list`, as the thread whose stack they point to |
| `lock`, `contended` | dma-resv locks; the lock `drm_exec` lost and must take first |
| `Begin` … `PrepareVmFails` | `drm_gpuvm_exec_lock` up to the VM's own lock |
| `PutPrevious`, `NextVmBo` | `get_next_vm_bo_from_list`, before and under the spinlock |
| `PrepareObject`, `ValidateObject`, `BodyFails` | the loops of `__drm_gpuvm_prepare_objects` and `__drm_gpuvm_validate` |
| `RestoreVmBoList`, `RestoreAndRetry` | `restore_vm_bo_list` at the end of a walk and of one cut short |
| `target` | the objects whose locks a client holds: a request unlinks what was mapped in its range, of whatever object |
| `Obtain`, `ExtobjAdd`, `LinkVa`, `MapFails`, `UnlinkVa`, `Evict` | a client's map, unmap and eviction |
| `FindsDying` | a client comes upon a vm_bo that another thread is destroying: undefined, and not followed further |
| `DestroyUnlist`, `DestroyFree` | `drm_gpuvm_bo_destroy`, one step per spinlock |

A step is what runs under one spinlock or between two; the order of a list is left out, since no property depends on it.
`outer` says whether the driver's map requests hold the VM's lock as well; both are checked. `owed` is a history
variable: what was listed when a walk began.

Run `bo_lists`: two submissions, two clients, one external and one local object, memory for three vm_bos, up to two
mappings of each. Two threads of each kind are what a race needs; three vm_bos let a released one come back while
another dies. No vm_bo is freed early (`NothingDangles`), walks neither meet nor leave elements behind (`WalksAlone`,
`NoForgottenElement`), a submission that goes ahead holds every lock it owes and has validated what was evicted
(`EveryObjectReady`). The last reference goes under the object's lock (`LastPutLocked`), with one exception that is
stated and occurs; with `outer` nobody comes upon a vm_bo in destruction (`FoundAlive`). 1.2 million states. Deadlock
checking is off: after the VM is closed nothing runs.

Seen while modelling, and stated as that exception: a walk whose callback fails breaks off and puts its reference
(`drm_gpuvm.c:1134`, 1376) without the lock of the object it may just have failed to take. Where map requests do without
the VM's lock, one of them may have unlinked the last mapping meanwhile; the put is then the last one, against the comment on
`drm_gpuvm_bo_put` (1533-1535), and a client that holds the object's lock can find the vm_bo while it dies, although the walk
is documented as "safe against concurrent insertion and removal of external objects" (1174-1175). The driver's map
requests take the VM's lock (`drm_gpuvm_exec_lock`, patch 0003), and with it neither happens.

Clients hold the locks of all objects they unlink, as `drm_gpuva_unlink` asserts (1874). Patch 0007 (lines 37-39) says
that the driver does not see to this yet where a request meets mappings of other objects; nothing here speaks for that.

Not modelled: the `RESV_PROTECTED` variants, and `drm_gpuvm_exec_lock_array` and `_range`.

### GpuVmOps: operation lists

Source: `drm_gpuvm.c`, the `*_ops_create` functions, `drm_gpuva_sm_step` and `ks_drm_gpuva_ops_free`. `Create`, `Visit`, `AddMap` and
`Made` make a list, one mapping of the walk per step; `Process` carries out the next operation; `Finish` and `OpsFree` end.
`heap` is the set of separate allocations, `CanFail` the ones that may fail.

Run `vm_ops`: four addresses of which three can be mapped, one object, two callers. The list does what the request asks
although it was made before anything was changed (`ProcessedIsWanted`), every operation is about a mapping that exists
when its turn comes (`OpsAreCurrent`), and what a list holds is allocated until it is freed (`OnlyUnmapCopiesLeak`). Any
allocation may fail. One failure leaks: when the copy of the part *after* a remap cannot be allocated, the code frees the
operation and the copy before it but not the copy of the unmap. `OnlyUnmapCopiesLeak` says that nothing else is ever left
over; run `ops_leak` shows that this is ([findings](#findings)). An allocation is named by the place it was made for, so
a leak is forgotten when its place is used again: the model says what can leak, not how much.

### FragQueue: geometry and fragment queues

Sources: `0002-pvr_queue-check-paired-and-chained-fragment-commands.patch` of `src/kernel/powervr-backport`, and
`kernel-chain-apm.patch`, `kernel-combine-pr.patch` and `kernel-sched-start-recovery.patch` of
`src/open-driver-perf/backup-2026-10-10`. The driver's base file is not text in the repository: what the patched functions
call is marked external in the map and modelled from the way they use it.

| TLA+ | Code |
|---|---|
| `sub` | what was submitted: a lone fragment job, geometry with partial render, or geometry, partial render and final fragment job |
| `entity`, `ready`, `waitsFor`, `scheduled` | the DRM scheduler's entity queue, a job between `prepare_job` and `run_job`, its dependency, its scheduled fence |
| `pending`, `inFlight` | the scheduler's pending list, `in_flight_job_count` |
| `cccbFence`, `waiter` | the job's CCCB fence, and the one registered job with the space it needs |
| `seqno`, `lastSeqno`, `signaled`, `finished` | done fences and finished fences |
| `ring`, `geomRing`, `timeline`, `executed`, `event` | client rings, timeline values, the firmware |
| `Submit` | `pvr_jobs_link_geom_frag` and the push |
| `PrepareGeom`, `PrepareFrag`, `PrepareWithGeometry` | the three outcomes of `pvr_queue_prepare_job` |
| `RunGeom`, `RunFrag`, `RunWithGeometry` | `pvr_queue_run_job`; the geometry job writes the fragment ring too |
| `Process`, `WakeWaiter` | event processing, the check of the registered waiter |
| `TimedOut` | stop, process, full recovery, in-flight count |

Linking and pushing are one step: the context's lock covers both. The geometry ring's space, the kick slot and
foreign fences only delay a job, which a model without fairness already covers by a step that is not taken. Sizes
count headers. A native dependency may signal between the sizing of a job and its writing, which only shrinks it. `MaxSubmits`, `MaxDeps`
(outstanding at a time) and `Kinds` bound what is submitted. A
command that finds no room is dropped and remembered in `ring.dropped`; the kick is still sent, as in the code.

Runs:

* `frag_queue` – 16 units, three submissions of every kind, with combined partial renders. The ring holds two to
  three sequences, so that jobs wait for space, two schedulers look for space in turn, and writing crosses the end of the
  ring with and without a padding command. With native dependencies the state space is bounded to full submissions
  whose partial render is not combined (constraint `DependenciesOfFull`): every sequence is then long, and what was sized
  and registered with the dependency is written with or without it.
* `frag_live` – two submissions, one dependency, no combination. Fairness: each scheduler thread, each firmware
  data master, the interrupt thread, the timeout worker and the signaller of the dependency run when they can (`WF`):
  the driver's own work queues, and a firmware that is alive. Without the timeout worker the property fails: the
  firmware can finish a paired fragment job before the scheduler has listed it, the event passes it over, and only
  the timeout looks again.

Deadlock checking is off in both: after the last of the bounded submissions the system stops.

Seen while modelling and not counted as findings: the branch for a second job that waits for space cannot be reached
by the two schedulers, because a geometry job waits for the last queued fragment job to be scheduled; the timeout
handler's in-flight count can fall short by the jobs in the window just named; the size check at submission
looks only at the dependencies known then.

Not modelled: killing an entity, `pvr_queue_stop` and `pvr_queue_start` around a reset, `pm_runtime` references beyond
the flag that says one was taken, reference counts and `free_job`, compute and transfer queues.

### RenderSlots: the native GL driver

Sources: the patches 0310, 0314, 0323, 0324, 0367, 0377 and 0399 of `src/mesa/open-driver-series`, which together hold the
functions of `pvr_draw.c` that the table names.

| TLA+ | Code |
|---|---|
| `slot`, `curSlot`, `pend` | `d->slots`, `d->cur`, `d->pend` |
| `hwrt`, `curHwrt` | the cache of render-target data sets, each with two RT data used in turn |
| `seq`, `renderSeq`, `tqSeq` | sequence numbers: of jobs, of the last job on a resource, of the transfer the next batch waits for |
| `call` | the driver function under way and what it still waits for |
| `Close`, `Submit`, `Idled` | `pvr_draw_flush`, `draw_submit_pending`, `draw_slot_idle` |
| `BeginOpen`, `ChooseHwrt`, `CommitOpen`, `OpenFails` | `draw_open` and `draw_hwrt` |
| `BeginGen`, `GenTakesSlot`, `GenSubmits`, `GenFails` | mip generation on the transfer queue; its programs cannot be made |
| `BeginMap`, `EndMap`, `Unmap` | `pvr_draw_resource_sync` and the CPU's access |
| `Release`, `Recycle` | the last reference, and the buffer cache |
| `Complete` | external: the kernel finishes jobs, each queue in order, across queues only by syncobj |

Run `render_slots`: three slots, four jobs, two target sizes with one place for a data set, two resources; a submission,
a data set, an encoding or a generation may fail. The RT data of a size come round before the slots do, and the other
size has to evict. The choice among places, and a second set of one size, are left to the proof, which is for any number. No two renders share RT data (`RtDataExclusive`); the CPU never touches what a job still
uses, recycled buffers included (`CpuIsAlone`); both queues complete in the order of the calls, which the code relies
on when it waits for the last syncobj only (`CompletionInOrder`). Deadlock checking is off: after `MaxSeq` jobs the system
may rest.

`CpuIsAlone` is qualified by the history variable `lost`. When the last render on a resource was never submitted (its
batch failed, or it was empty), no syncobj carries its number, and a CPU map waits for nobody although earlier renders
still use the resource. A comment of patch 0314 (line 323) says that a CPU access waits "for the last render that used
it".

Not modelled: deferred clears, which become renders of their own, the compute fallback, and destroying a context.

### DisplayRelease, PageFlip, Scanout, PanelTest: the panel

Sources: `src/bench/pvr-vulkan/pvranimate.c`, `pvrscanout.c` and the script `display-fix-test.sh`.

| TLA+ | Code |
|---|---|
| `crtc`, `flip`, `turning`, `Vblank`, `TurnOff` | external: the CRTC, its pending flip, switching off that takes time |
| `rel`, `armed`, `blocked` | the innermost `release_display`, `g_restore_crtc`, signals being handled |
| `SwitchOff`, `Switched`, `Confirm`, `Returned`, `Signal` | `release_display` call by call, and the handlers |
| `issued`, `completed`, `pending` | `flips_issued`, `flips_completed`, `flips_pending` |
| `WaitBuffer`, `Gate`, `FlipTaken`, `FlipBusy`, `AfterBusy`, `Drain` | the frame loop of `pvranimate` |
| `Open`, `WrongSize`, `Exec`, `Show`, `Hold` (`Scanout`) | `pvrscanout`, which executes itself with the panel's size |
| `AfterScanout` … `AfterSecond` | the steps of the script, with its checks for faults |

Run `panel`: one scan-out and three animations of five frames in three buffers on one panel, at either pace, with calls
that may fail, flips that may be late by any time, switching off that may lag, and both signals at any time. Five frames use a
buffer twice after it was shown; the release looks once instead of fifty times (`Tries`), which only shortens the same
loop. `NoTearing`: no frame is drawn into a buffer on screen or next to be. `AllFlipsLanded`: the counts agree at the
verdict. `GateSuffices`: with `PACE=gate` a flip finds the CRTC busy only after a time-out. `HandBackLeavesNoFaults`: on
a machine whose calls succeed no process leaves its buffer on screen, unless a CRTC was still on when the call that
switches it off returned and a release stopped looking at it (history variable `cut`): it has looked often enough, or the
handler of another signal takes over. So the loop that confirms matters, and its mutant looks once and goes. Faults count
from the moment a program has ended with its buffer on screen (`Counting`), as the script looks at once.
`ScriptEnds` (liveness): fairness on each process, the script and vertical blanks – they are scheduled by the kernel and
the hardware – but none on signals.

Seen while modelling: at the default pace the second `EBUSY` ends the program although the first was waited out
(`pvranimate.c:763`); a second signal during the release finds nothing armed and exits before the CRTC is confirmed off
(`pvranimate.c:288`), although `release_display` is called "idempotent, and safe to call from a signal handler" (271): the
exception of `HandBackLeavesNoFaults`, on machines whose CRTC is slow; after
`pvrscanout` has executed itself the released CRTC is off, so the mode is the first listed rather than the one asked for
(`pvrscanout.c:930`).

Not modelled: the Vulkan set-up and pixel checks, which are calls that succeed or end the program.

### FeatureStrip: the Vulkan layer

Source: `src/gpu/vk-feature-strip/vk_layer_pvr_strip.c`. `GetFeatures`, `CountExtensions` and `ListExtensions` report;
`Strip`, `DriverCreates` (external) and `GiveBack` are `PVRSTRIP_CreateDevice` before, in and after the driver's call;
`Ask`, `AskAgain` and `ReadBack` are a program that asks, asks again with the same structures after a failure, and reads
them.

What the driver is asked for comes by three ways, each stripped by code of its own: the extension's name (`NamesGiven`),
`pEnabledFeatures` (`LegacyGiven`), and the program's own chained structures (`ChainGiven`). `want` is a history variable:
what the program had put in its chained structures when it called.

Run `strip`: either switch on or off, a driver with up to three extensions, room for any number of names: the structures
are not restored to what the program asked for ([findings](#findings)). What the code does instead, and says in its last
comment, is proved: `geometryShader` stays away (`ChainedRequestIsNotGivenBack`). Also proved: with `PVR_FAKE_GS` set the
driver is asked for no fake (`DriverIsNotAsked`). The premise is needed: the list of extensions looks at `PVR_FAKE_R2`
alone (line 193) and stripping at `PVR_FAKE_GS` too (253). The layer's manifest loads it with `PVR_FAKE_GS` only, so
that the two differ only for a process that is made to load the layer in another way.


## Proofs

Eight modules hold proofs; all are checked to the last leaf, and from no assumption but the named ones on the constants
(`…Assumption`, which TLC evaluates in every run) and the one that the table below states. No bound of a run occurs in
them: where a model counts jobs, requests or frames up to a constant, the constant is any number. Each inductive
invariant was checked with TLC on the instance of the run before it was proved.

`KccbProofs`, for every number of slots from two up and every finite set of senders and jobs. The inductive invariant `Inv`
is the conjunction of five properties with two facts:

* `LockOwnerFills`: a client is between filling and publishing exactly when it owns the lock. Without it,
  publishing might act for two clients at once.
* `WakeRoom`: while the interrupt thread works through its count, the count fits in what is free. It is why a
  count taken once remains valid: the lock keeps other reservations out, and the firmware only frees slots.

The ring lemmas (`Next1Value`, `UsedSlotsRange`, `PublishUsesOne`, `ExecuteFreesOne`, `RoomMeansSlot`) turn the offsets modulo
the ring into a count; the holder lemmas (`HolderGained`, `HolderLost`, `HoldersKept`) relate the counter to the
cardinality of the set of holders; `HolderFindsSlot` combines the two into the fact that a holder cannot take the path
that warns and drops. On top of `Inv`: `SlotIsOwn` (a slot between filling and publishing holds the filler's command and
no status) gives `NoStaleCompletion`; `AllRoomCounted` (the loop counted all the room there was) gives `NoStrandedWaiter`. The
latter assumes `Releasers = {}`: `pvr_kccb_release_slot()` wakes nobody, and has no caller. For the refinement `PendingShape` says
what the commands between the two offsets are, position by position, and one lemma per action maps it to a step of
`SlotQueue`.

`FragQueueProofs`, for any number of submissions and native dependencies, any size of the CCCB and of its commands, with
combined partial renders or without. The invariant `IInv` says where each job of a submission is:

* `SchedOk`, `SeqnoOk`: what a scheduler still has, in the order of its queue; whose done fence is initialised, in which
  order, and what has gone before. A fragment job that is written with its geometry job is taken after it.
* `FenceOk`, `ReadyOk`: who asks for space, and that the one registered job is held back (`WaiterIsKnown`); what
  `prepare_job` has found out about the job that is run next.
* `SpaceOk`: the space a job was promised is there until its commands are written. It is inductive because between
  the promise and the writing nobody else gets to write, which `SeqnoOk` and `ReadyOk` tell. `FoundSpaceIsKept` and
  `NothingIsDropped` follow.
* `CommandsOk`, `ExecutedOk`, `DoneOk`: the rings hold the commands of what is not executed, in the order of the
  jobs, and a geometry job has a wait of its paired job in the ring; what the timelines and the pending lists tell of what
  is executed. `UpdatesAreAscending` and the refinement of `JobOrder` rest on them: an update comes after the command of its
  job, and after everything in front of it in the queue.

The size of a sequence and its writing go through the commands one by one, with a recursive function each. Instead of
induction over them the proofs take the least index at which the claim fails, from the well-founded order of the
natural numbers (`LeastExists`); `WriteSteps` has what the ring is after each command, `Sums` the sizes so far. The
crossing of the ring's end, with a padding command or without, is in `Cost` and the lemmas on it.

`VmBoListProofs`, for any number of objects and vm_bos and any finite sets of submissions and clients. First, walks of an
object list never meet and leave nothing behind. The walk itself keeps nobody away: one pointer per list says which
local list is in use. The strengthening is `HoldsVm`: whoever walks, or goes ahead, holds the VM's dma-resv lock. Hence
two walkers are one (`OwnerIsTheWalk`), a walk finds the pointer free or its own (`NextKeeps`), and splicing back empties
its list and no other (`RestoreKeeps`, `EndKeeps`). Second, the references (`RefInv`): a count is the number of mappings and
of threads with the vm_bo in hand (`Counted`); it is zero exactly while the vm_bo is being destroyed (`Alive`); clients and
walkers hold the locks their position says (`ClientsHold`, `WalkersHold`, `DyingHeld`); what a submission owes is alive and has
been done or will be come to (`OwedAlive`, `OwedDone`). The count uses cardinalities, hence finite sets of threads.

`UserspaceProofs` holds the proofs of two components that share no state, `RenderSlots` and `FeatureStrip`. For the GL
driver, with any number of slots, sizes, data sets, resources and jobs: it never asks the kernel about
a resource or about RT data, only about a slot that carries the number it noted. The invariant therefore ties numbers to
what they stand for: a number is being recorded, in the batch, lost, with the kernel or complete, and below a complete
one none is with the kernel (`Numbers`); a job with the kernel has its slot (`SlotKept`), its RT data still carry its number
(`DataNoted`), its resources no smaller one (`UsesNoted`). That jobs of two queues complete in one order needs `Ordered`: what
each job waits for on the GPU. `CallKept` says what the call under way decided before it waited and still goes by.

For the Vulkan layer, with any number of extensions and any switches, `Asked` bounds what the program may ask for by the
fakes that are switched on; `Clean` says that with `PVR_FAKE_GS` the three ways of asking lose all of them, and `Lost` that a
structure that went through the layer in the chained form has lost `geometryShader` until the program asks anew.

`VaSplitProofs` and `GpuVmProofs`, for address spaces of any size, managed and reserved ranges anywhere in them, any objects
and any threads. `VaSplitProofs` has the facts about ranges, look-ups and splits: range checks whose sums could wrap
(`RangeValidIs`), the part after a range, whose offset has a formula for each position (`PartsAre`), the tree after a split
(`SplitTree`), the leftmost of a set of mappings (`LeftmostIs`, from the well-founded order of the addresses). In `GpuVmProofs` the
page tables agree with the tree only together with where the walk is: `Reached` says that the mapping it goes to next is
the first left that the range overlaps, or that none is, and which preallocated mappings are still there. For the
refinement each callback clears a part of the request's range, and the last sets all of it.

`GpuVmOpsProofs` uses the same facts for operation lists. A list is made from the tree as it was (`before`) and applied to the
tree as it is; the invariant says how the two differ at any time (`Executed`): the mappings of the operations processed are
gone, their parts have come. `Listed` says that the list has one operation for each mapping the request is about, so that no
operation takes another's mapping (`StillThere`) and no part is in the way of another (`NextApplied`); the translation at the
end follows address by address (`InTheEndWanted`). `OnlyUnmapCopiesAreLost` says that memory besides that of
the lists is unmap copies only, and none if the copy of the part after a remap cannot fail.

`PanelProofs`, for any number of frames, modes and signals and however often the CRTC is looked at. `Paced`: the kernel takes
a flip only when the last one has landed, so at most the two frames before the one drawn are on the panel or about to be,
and three buffers are enough. `Counted`: the program's count of flips in flight is the kernel's flip and the unread events,
until a wait gives up. `HandedBack`: while a buffer of the program is on the panel the release is armed, and every way
out, interrupted or not, goes through it; the buffer can outlive the release only if a CRTC that was on was looked at no
more (`cut`). `Balanced` and `Booked` follow the program's counts to its end: the flips to a buffer are
those it has heard of, those whose events are unread and the one the kernel has; there is one for every frame but
the first; and the end goes from buffer to buffer until none is owed one. With every buffer even, nothing is unread
and nothing in flight (`EveryFlipLands`).

| Theorem | States |
|---|---|
| `KccbTypeCorrect` | `Spec => []TypeOK` |
| `KccbReservationsAccounted` | the counter is the number of holders |
| `KccbNeverOvercommitted` | reserved and used slots fit in the ring |
| `KccbNoCommandDropped` | a holder's command is never lost |
| `KccbWaitersAreQueued` | the list holds each waiting job exactly once |
| `KccbNoStaleCompletion` | no sender sees an earlier command's status in its slot |
| `KccbNoStrandedWaiter` | if `Releasers = {}`: no job waits beside an idle ring |
| `KccbImplementsSlotQueue` | `Spec => ImplementsSlotQueue` |
| `Invariant` (`FragQueueProofs`) | `Spec => []IInv`, the invariant above with `TypeOK` |
| `NothingIsDropped` | no command is dropped for want of space |
| `FoundSpaceIsKept` | space that was found is there until it is used |
| `UpdatesAreAscending` | the updates in the ring raise its timeline |
| `WaiterIsKnown` | the job registered for space is held back by its scheduler |
| `Implementation` | `Spec => ImplementsJobOrder` |
| `WalksDoNotMeet`, `WalksPutBack` | `WalksAlone`, `NoForgottenElement` |
| `NothingIsLeftDangling` | no vm_bo that is free is on a list or in hand |
| `LastPutIsLocked` | the last reference goes under the object's lock, or by a walk that breaks off where map requests do without the VM's lock |
| `NoDyingVmBoIsFound` | where they hold it, no client comes upon a vm_bo in destruction |
| `SubmissionIsReady` | a submission that goes ahead has locked and validated what it owes |
| `RtDataIsExclusive` | no two renders use the same RT data |
| `CpuHasItAlone` | the CPU touches nothing a job uses |
| `JobsCompleteInOrder` | the action property `CompletionInOrder` |
| `PageTablesAreTheTree` | page tables and tree agree after every callback |
| `LinksAreRight`, `CursorIsAlive`, `SparesAreEnough` | the links, the walk's position, the preallocated mappings |
| `MappedIsAllowed`, `LookUpsDoFind` | nothing mapped outside, every mapping found |
| `GpuVmImplementsAddressSpace` | `Spec => ImplementsAddressSpace` |
| `NoOperationIsStale` | an operation's mapping is there when its turn comes; two splits at most |
| `ListsDoWhatIsAsked` | a list processed to its end gives the translation asked for |
| `OnlyUnmapCopiesAreLost` | memory is that of the lists, and unmap copies of remaps whose copy of next failed |
| `NothingTears` | no frame is drawn into a buffer on screen or next to be |
| `GateIsEnough` | with `PACE=gate` a busy CRTC means a wait gave up |
| `EveryFlipLands` | a run in which no wait gave up has heard of all its flips |
| `NoFaultIsLeft` | no program leaves its buffer on screen, unless a release stopped looking at a CRTC still on |
| `DriverIsNotAsked` | with `PVR_FAKE_GS` the driver is asked for no fake |
| `ChainedRequestIsNotGivenBack` | a chained request loses `geometryShader` |

Only model-checked:

* Liveness (`QueuedJobGetsSlot`, `EveryJobFinishes`, `ScriptEnds`): fairness and `ENABLED` are out of the prover's reach.
* The three findings are counterexamples, found by TLC.


## Findings

* `kccb_rtn` / `ResultIsOwn`: `pvr_kccb_wait_for_completion()` identifies a command by its slot. The slot can be
  reused before the waiter runs, which then waits for and reports another command's status, although the comment
  promises the command's own result.
* `ops_leak` / `MemoryIsTheLists`: `drm_gpuva_sm_step()` leaks the copy of `unmap` when the copy of `next` cannot be
  allocated (`drm_gpuvm.c:2460`): it jumps past the `kfree()` of that copy, and the operation is not on the list that
  `drm_gpuva_ops_free()` frees "including all the ops associated with it".
* `strip` / `RestoredToWhatItAsked`: the layer leaves `geometryShader` cleared in the program's chained structure, on
  purpose and with the reason beside it (`vk_layer_pvr_strip.c:299`), while its `README.md` (13-14, 120) and the comment
  on the saved values (251) still say that the structures are restored.

Smaller observations are with their modules above.


## Not modelled

* Most C files of the repository are Vulkan probes and benchmarks under `src/bench` and `src/open-driver-perf` (`vktex.c`,
  `vkrender.c`, `vkalu.c` and many more): variants of one straight-line program that creates a device, runs one shader and
  prints a time. They have no state to check, and make up most of the implementation by lines; so the modelled share of
  lines is small although the modelled share of the stack's own logic is not. The logic of the drivers is in patches.
* Firmware command CCB handlers, `pvr_queue_stop` and most of the reset path, the Vulkan queue (`pvr_arch_queue.c`) and
  command-buffer rewriting: patches change functions of which only fragments are text in the repository. A model
  would have to invent the rest.
* Page-table preallocation: `GpuVm` takes the MMU operation as one step that happens or fails.
* Mesa's compiler and state patches: sequential code generation; correctness is numeric equality of shader results.
* FEX: the pools and the trampolines are patches to a large emulator; the pools are next in the plan. Thunks
  and launchers forward calls.
* Board clocks, binfmt guard: small loops over system files; the clocks are next in the plan. zram set-up, driver
  switching, overlays, wrappers, installer, firmware knobs and the vendor module's import hook are straight-line.


## Running

    tlc -workers 2 -config MCKccb.cfg MCKccb
    tlc -workers 2 -config MCKccbLive.cfg MCKccb
    tlc -workers 2 -config MCGpuVm.cfg MCGpuVm
    tlc -workers 2 -config MCVmBoList.cfg MCVmBoList
    tlc -workers 2 -config MCGpuVmOps.cfg MCGpuVmOps
    tlc -workers 2 -config MCGpuVmOpsLeak.cfg MCGpuVmOps
    tlc -workers 2 -config MCKccbRtn.cfg MCKccb
    tlc -workers 2 -config MCFragQueue.cfg MCFragQueue
    tlc -workers 2 -config MCFragQueueLive.cfg MCFragQueue
    tlc -workers 2 -config MCRenderSlots.cfg MCRenderSlots
    tlc -workers 2 -config MCPanelTest.cfg MCPanelTest
    tlc -workers 2 -config MCFeatureStrip.cfg MCFeatureStrip
    tlapm KccbProofs.tla
    tlapm VmBoListProofs.tla
    tlapm FragQueueProofs.tla
    tlapm UserspaceProofs.tla
    tlapm VaSplitProofs.tla
    tlapm GpuVmProofs.tla
    tlapm GpuVmOpsProofs.tla
    tlapm PanelProofs.tla

`MCKccbRtn.cfg`, `MCGpuVmOpsLeak.cfg` and `MCFeatureStrip.cfg` show the findings and end with a counterexample. Definitions whose comment
begins with "Mutation of" or "Mutant" are faulty variants of the definition they precede; each property fails when its
variant takes the definition's place.
