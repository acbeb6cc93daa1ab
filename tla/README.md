# TLA+ models of the Vision SDK links framework

This directory holds TLA+ specifications of the framework on which Vision SDK
use cases run: the queues, mailboxes and links of `src/src/utils_common` and
`src/src/links_common`. TLC checks them on small instances and TLAPS proves the
theorems of the modules `*_proofs` for every size. Paths below are relative to
the repository.

## 1. The system

A use case is a chain of *links* spread over the CPUs of one chip (M4, A15,
DSP, EVE). Every link has a task and a mailbox, takes full buffers out of the
previous link's output queue (`getFullBuffers`), and gives them back when it is
done (`putEmptyBuffers`). A producer tells the next link with a
`SYSTEM_CMD_NEW_DATA` message; a control thread creates, starts, stops and
deletes the links with messages it waits to be acknowledged. Where a chain
crosses CPUs, an *IPC OUT* and an *IPC IN* link exchange indices of shared
buffers through two rings in shared memory, and *notify* interrupts.

| component | state | operations | interacts with |
|---|---|---|---|
| Inter-processor queue, `utils_ipc_que.c` | `curRd`, `curWr`, slots in uncached shared memory | create, reset, delete, write, read, isEmpty, isFull; interrupt lock of one CPU only | IPC OUT, IPC IN |
| IPC OUT, `links_common/ipcOut` | link state, `localQue` (free indices), IPC buffers | create, process buffers, release buffers, notify callback, stop, delete | previous link (calls), IPC IN (rings, notify) |
| IPC IN, `links_common/ipcIn` | link state, system buffers, `outBufQue`, `lock` | create, process buffers, get full, put empty, notify callback, stop, delete | next link (calls from its threads), IPC OUT |
| Queue of one CPU, `utils_que.c` | circular buffer, two binary semaphores, two force flags | put, get (no wait, timed, for ever), unblock, reset | every link, mailboxes |
| Buffer queue, `utils_buf.c` | a queue of empty and one of full buffers | get/put empty/full lists | every link |
| Mailboxes, `utils_mbx.c` | message pool, a receive queue per link, ack queues | send command, send message (and wait), receive, ack or free | tasks, interrupts |
| Link tasks, `utils_tsk.c`, `utils_tsk_multi_mbx.c` | task loops, flush; one task serving many mailboxes by priority | receive, flush, trigger | links' handlers |
| Commands between CPUs, `system_ipc_msgq.c` | one message per CPU in shared memory, its lock, the ack semaphore, the queue of its MsgQ task | send (and wait), interrupt, serve, acknowledge | control threads, links, notify |
| Notify, `system_ipc.c`, `system_ipc_notify.c` | registered callbacks, one event per pair of CPUs | send (waits until the last event was taken), handler | IPC links |
| Dup link, `links_common/dup` | `dupCount` per buffer, descriptors per output, `lock` | create, new data, get full, put empty, delete | previous and next links (calls) |
| Select link, `links_common/select` | map of input channels to output queues and channels, output queues | create, new data, reconfiguration, get full, put empty, delete | previous and next links (calls), application |
| Gate link, `links_common/gate` | `opStatus`, `bufCount`, `lock` | create, new data, ON, OFF, get count, get full, put empty, delete | previous and next links (calls), application |
| Merge link, `links_common/merge` | maps between input and output channels, output queue | create, new data, get full, put empty, delete | previous and next links (calls) |
| Sync link, `links_common/sync` | a queue of frames per channel, composites, a timer | create, start, new data, timer, get full, put empty, stop, delete | previous and next links (calls) |
| Algorithm, null, null source and AVB links | queues, plug-in state | create, new data, get full, put empty | neighbours in the chain, files, network |
| Hardware links, applications, examples, build | BSP drivers, menus, algorithms | – | – |

What makes each correct, and where it is hard:

* *Rings.* Two CPUs, no common lock. FIFO order, no element read while it is
  written, no confusion of full with empty, stale indices after a new creation.
* *IPC pair.* An index and its buffer go through seven queues touched by four
  threads and two interrupts. Conservation, no early return, no lost notify.
* *Queue of one CPU.* Semaphores are used outside the critical sections, so
  every test can be stale when the task acts on it; they are binary.
* *Mailboxes.* Commands are flushed without being looked at; triggers and
  messages are kept in different queues; every queue and pool has a limit.
* *Commands between CPUs.* One message per CPU and one task to serve the others;
  commands nest and cross. No answer to another's command, no late
  acknowledgement taken for a new one, no dropped command, no deadlock.
* *Dup link.* `dupCount` is set by one task and decremented by others, and
  buffers come back before their descriptors do.
* *Select, gate and merge links.* They hand on the buffers of others and rewrite
  their channel numbers on the way there and back, while an application remaps
  channels and switches the gate. Each buffer back where it came from with the
  number it had; the gate's count right, so that links behind it can be deleted.
* *Sync link.* Frames of several channels come late and in any order; composites
  come back from another task. Frames that belong together are put together and
  no others, nothing is lost or kept for ever, the handler's loop ends.

## 2. Modules

| module | models | role |
|---|---|---|
| `IpcRing` | `System_IpcQueueHeader` and the data operations on it | operators, used by `IpcQue` and `IpcLink` |
| `Fifo` | – | abstract: what a ring promises, a FIFO channel |
| `IpcQue` | `utils_ipc_que.c`, each access to shared memory a step | component, refines `Fifo` |
| `IpcLink` | `ipcOutLink_{drv,tsk}.c`, `ipcInLink_{drv,tsk}.c` | composes two rings with the links, the notify events and a use case's control thread |
| `BoundedQueue` | – | abstract: what `utils_que.h` promises |
| `UtilsQue` | `utils_que.c` with its tasks and semaphores | component, refines `BoundedQueue` |
| `Mbx` | `utils_mbx.c`, `utils_tsk.c`, `utils_tsk_multi_mbx.c` | composes senders, controllers and tasks |
| `Rpc` | – | abstract: what `System_linkControl` and `System_linkGetInfo` promise |
| `MsgQ` | `system_ipc_msgq.c`, `system_linkApi*.c`, `system_ipc_notify.c` | composes the CPUs, their MsgQ tasks and the links, refines `Rpc` |
| `DupLink` | `dupLink_tsk.c` with its queues and the next links' calls | component |
| `LinkChain` | `selectLink_tsk.c`, `gateLink_tsk.c`, `mergeLink_tsk.c` | composes the three links with a source, a next link and the application |
| `SyncLink` | `syncLink_tsk.c` with its neighbours' queues, the timer and the clock | component |
| `IpcQue_proofs`, `IpcLink_proofs`, `UtilsQue_proofs`, `Mbx_proofs`, `MsgQ_proofs`, `DupLink_proofs`, `LinkChain_proofs`, `SyncLink_proofs` | – | theorems |
| `MC*` | – | instances for TLC |

### IpcRing, IpcQue, Fifo

A ring is a record of `curRd`, `curWr`, `max` and `slot`. A call of
`Utils_ipcQueWrite` is `WriteTest` (arguments and full test), `WriteStore` (the
element) and `WritePublish` (`curWr`); a read is `ReadTest`, `ReadLoad`,
`ReadConsume`. The interrupt lock makes the last two of each exclude the other
threads of the CPU, never the other CPU, and the test is outside it. The
constant `Credits` bounds what is written and not yet returned, as the pool of
indices of `IpcLink` does. The refinement mapping takes the ring's contents for
the contents of the channel.

### IpcLink

One action per atomic piece of a handler; a handler that loops over buffers is
a program counter (`outPc`, `inPc`, `putPc`) with one step per buffer, so a
returner, the interrupt or the other CPU may run in between. A ring operation
is one step: `IpcQue` shows that it acts as one. A mailbox is the *set* of
commands in it, because handlers flush duplicates. `ctl` walks through the
control sequence of the generated use cases (`chains_*_priv.c`): creation
downstream, stop and deletion upstream, `MaxSessions` times. The frame's content
is the previous link's buffer its IPC buffer names (`shm`, for
`orgSystemBufferPtr`).

### UtilsQue, BoundedQueue

A call goes through `try` (critical section), `post`, or `wait`, `blocked`,
`woken` and `leave`. `force` is the pair of `forceUnblock` flags, which a woken
task tests (`Interrupted`) and later clears (`WaitFails`) with no lock held; so does
one whose time is up (`Expire`). `BoundedQueue` makes a call one step that succeeds or
finds the queue full (empty), or, if the timeout or an `UnBlock` allows it, two: it
gives up, and fails. `kick` is mapped to `force`, `leaving` to the tasks at `leave`.

### Mbx

Senders are interrupts and tasks that call `Utils_mbxSendCmd`, controllers call
`Utils_mbxSendMsg`. A queue operation is one step (`UtilsQue`). `recvQue`,
`trigger`, `ackQue` hold messages and mailboxes in the code's order; `data`
counts the buffers a link has been or will be told of and `refused` records that
a send about them failed, which the caller sees.

### MsgQ, Rpc

A CPU owns one message in shared memory (`procMsg`), under `msgQLock` for the
whole of a command. `Lock`, `ClearAck`, `Notify`, `Await` are the steps of
`System_ipcMsgQSendMsg`; `NotifyHandler` is the interrupt, which posts
`msgQAck` or queues the *number of the sending CPU*, not the message;
`Get`, `TaskRun`, `TaskAck` are the loop of the MsgQ task. A notify is raised
only when the previous one of the same pair of CPUs was taken (`Raise`). A link's
task is a mailbox of commands (`Mbx` has the details) and three steps:
`LinkReceive`, for CREATE the `System_linkGetInfo` of the previous link, which
may itself go to another CPU, and `LinkAck`. All commands but CREATE are `START`.
`by` in a message and `ran` are history variables. The refinement maps each
client to idle, called, or run; a command that is lost runs on nobody, one run
twice or on another link maps to `astray`, which `Rpc` has no step to.

### DupLink

A descriptor is a wrapper `System_Buffer` of an output and is identified with
the buffer it points to; `outBufList`, `fullQue`, `held` and `todo` are the sets
of those on their way through the link, the next link and back. `Load` and
`Store` are the two halves of `dupCount--`. The buffers of a list are counted in
any order. Filling a queue at creation and emptying it at deletion are part of
`Recreate`, as use cases delete all links after they have stopped them all; the
next links drop a NEW_DATA they take when stopped and return what they hold.

### LinkChain

The source's buffers run through the select link; queue 0 of it is input 0 of
the merge link, queue 1 is input 1 through the gate. `getFullBuffers` and
`putEmptyBuffers` are calls up the chain made by the merge link's task and by the
next link's: `MergeGate`/`MergeCount` and `PutGate`/`PutCount` are the two halves
of the gate's functions, before and after the call they make under the gate's
lock. `chNum` and `orgChNum` are the fields of the buffer that select and merge
rewrite. `SetOutQueChInfo`, `SetOn`, `SetOff` and `Poll` are the application's
commands; `safe` records that it was told a count of 0 after OFF. The output
queue 2 of `SetOutQueChInfo` is the one too many that the test at
`selectLink_tsk.c:108` lets pass; the array has more entries than that, and
frames routed to it go back. A list of channels may be longer than the one its
queue was created with, up to `SYSTEM_MAX_CH_PER_OUT_QUE`, as the code has it.
`HaltDirect` and `HaltCount` are then the failing assertion of the merge link:
`UTILS_assert` (`system_trace.h:78-126`, enabled by `component.mk:95`) prints and
loops for ever in the task that calls it, and the rest of the chain goes on.

### SyncLink

A frame is a channel and a timestamp, since the timestamps of a channel grow; a
local queue is the set of its timestamps. Clock and timestamps are in us; the link
divides by 1000 (`Ms`, with `Kilo`) wherever it reads one (`syncLink_tsk.c:296`,
`:411`, `:741`), and multiplies by it for a composite (`Stamp`, `:572`). The handler
of NEW_DATA is
`DropStale`, `Fill`, and rounds of `DropUnsynced` or `Compose` until `NoSet`.
`Masters` is what `computeMasterTimeStamp` can give: the average is taken over
all `numCh` entries of an array of which those of inactive channels were never
written (`syncLink_tsk.c:763`), so they are any value of `Stack`. `Low`, `High`,
`Dropped` and `Synced` are the decision, with the arithmetic of a `UInt32`
(`Word`). The next link returns a composite in two steps, its frames
and then itself, as `putEmptyBuffers` does.

## 3. Runs

| run | instance | shows |
|---|---|---|
| `ipcque_fifo` | 3 slots, 2 credits, 1 reader, 2 writers, 2 elements | `NoTornElement`, refinement of `Fifo` |
| `ipclink_safe` | 3 indices, 2 system buffers, 2 buffers, 2 returners, 1 session | indices and buffers conserved, frames intact |
| `ipclink_live` | 2 indices, 1 system buffer, 1 buffer, 2 returners, 3 sessions | indices conserved across stop, delete and create; a buffer always returns |
| `ipclink_burst` | 2 indices, 2 buffers | violated: a batch as long as the ring stalls the pair |
| `utilsque_impl` | 2 slots, 2 putters (one waits for ever, one not at all), 2 getters (one waits for ever, one for a time with `minCount` 2), 1 `UnBlock` | refinement of `BoundedQueue`; the putter that waits alone does not sleep without reason and is served |
| `mbx_control` | 1 link on its own task, 2 on a shared one with two priorities, 3 controllers, pool 3, 2 ack queues | `TypeOK`, messages conserved, acks reach who waits for them, no sleep beside a trigger |
| `mbx_data` | 2 links on one queue of a shared task, 1 sender, 1 controller, pool 2, 2 triggers | a message loses its trigger to stale ones of another link only; until then data is processed and calls return |
| `msgq_call` | 3 CPUs, 2 controllers on one and 1 on another, a chain of 3 links that crosses twice | one command per CPU, answers are one's own, refinement of `Rpc`, commands return |
| `duplink_safe` | 2 buffers, 2 outputs, 4 descriptors each, 2 sessions | counts right, no double return, descriptors suffice, buffers return |
| `link_chain` | 2 buffers of 2 channels, one channel per queue, lists of up to 2, 3 commands | buffers conserved and back with their channel, only a list that is too long fails the merge link's assertion, the gate's count right, deletion safe after OFF and a count of 0, frames come back |
| `sync_link` | 2 channels of 2 buffers, 4 composites, 3 ms of 2 instants, 2 starts, every set of active channels | composites in sync and stamped less than a ms before their frames, matches kept, buffers conserved, composites suffice, the loop ends, stale frames go back |
| `sync_stamp` | the same with a word of 6, in which 3 ms do not fit as instants | violated: the timestamp of a composite is cut |

**The violated runs** each contradict a line of the repository (PROJECT.json,
`findings`).

* `ipclink_burst`: when one NEW_DATA finds as many buffers as the ring has
  slots, `IpcOutLink_drvProcessBuffers` writes them all, the two indices are
  equal again and the ring reads as empty; the notify that follows is ignored.
  The comment at `ipcOutLink_drv.c:384` says processing continues when no index
  is left.
* `sync_stamp`: `syncLink_tsk.c:572` multiplies a `UInt32` of ms by 1000 before it
  is stored in the 64 bits of `srcTimestamp`, so after 71.6 minutes the value is
  no time "in units of usec's" (`system_buffer.h:342`). The run shrinks the word,
  not the arithmetic: in `sync_link`, where the product fits, `StampWithin` holds.
  `StampWithin` allows for the rounding: two frames of 1900 us make a composite of
  1000 us, before both, but by less than a ms.

More facts came up that no run is spent on. Those with constants can be
seen by changing a configuration.

* Semaphores are binary, so two puts in a row wake one of two getters, although
  `utils_que.c:310` says a getter blocks *until* an element is available, and the
  pool of messages (`utils_mbx.c:428`) has several such getters. `UtilsQue` with one
  element, one putter and two getters that all wait for ever, `MinCount` 1 and
  `MaxUnBlocks` 0 violates `Served` once its `Alone(t)` is dropped; `Served` and
  `SleepJustified` speak of a side on which one task waits.
* The force flags are tested and cleared without a lock (`utils_que.c:270-272`,
  `:425-427`): one `UnBlock` may fail two calls of a side, and a call that fails,
  or whose time is up, may wipe out an `UnBlock` made since it looked.
* `utils_tsk_multi_mbx.c:23` says the task "is trigger whenever a message is sent to
  any of the possible mbx's". It is not: a flush takes messages out of a mailbox and
  leaves their triggers, all links of one priority share a trigger queue (ipcIn,
  ipcOut, dup, merge, select, gate, sync and save, every instance of each, have
  the highest), and when stale triggers fill it, the trigger of another link is
  dropped (`:130`). `Utils_mbxSendCmd` then fails, but its message is in the
  mailbox, and the link stays one message behind until another is sent to it: a
  command may wait behind, and its controller with it. This happens in `mbx_data`,
  which therefore sets `CHECK_DEADLOCK FALSE`; as an invariant,
  `\A l \in Sharing : Triggered(l)` is violated there, and without their exceptions
  so are `DataProcessed` and `CallReturns`. `LostToStale` says that there is no other
  way to it.
* The dup link's `putEmptyBuffers` returns the buffer before its descriptor, so
  with one descriptor per buffer the assertion at `dupLink_tsk.c:165` can fail:
  `DupLink` with `Pool` 2 violates `DescriptorAvailable`.
* If a second CPU commanded the links of the CPU that commands all others, the
  two MsgQ tasks would wait for each other and `CommandReturns` would fail. Use
  cases have one commanding CPU; `c3` of `msgq_call` is the exception that is safe,
  a second commander of a CPU that commands nobody.
* With two priorities on a shared task `DataProcessed` fails by starvation too
  (`utils_tsk_multi_mbx.c:66`).
* OFF between a NEW_DATA that the gate forwarded and the fetch it announces
  strands the frames in the previous link's queue: a closed gate's
  `getFullBuffers` gives nothing, and nobody returns them until another NEW_DATA
  (`gateLink_tsk.c:104`, against `:41-43`). `FrameReturned` excepts exactly
  these (`Stranded`).
* The test of the output queue of a reconfiguration uses `>` for `>=`
  (`selectLink_tsk.c:108`); and a command unmaps the channels its queue was last
  set to even if another queue has taken them since (`:114`), which `SetMap` does.
* A reconfiguration may give a queue more channels than it was created with: the
  select link tests only for 8 (`selectLink_tsk.c:105-109`), and does not tell the
  next link of the new number. The merge link asserts that a frame's channel is one
  it knew of when it was created (`mergeLink_tsk.c:225`), so the first frame of an
  added channel halts its task for ever, with the frames of that list; the delete
  command is then never answered. In `link_chain` it happens, and `[]~Halted` is
  violated there. `HaltedByLongList` says that it takes such a list since creation,
  whatever else is remapped; `CountIsBeyond` and `FrameReturned` hold in the halted
  chain too, but for the frames left with the halted task (`LeftBehind`).
* The select link writes the changed-resolution flags to a local copy, then copies
  `chInfo` over the frame (`selectLink_tsk.c:337-346`): the flags are lost.
* The sync link's average takes in entries that were never written when a channel
  is inactive (`syncLink_tsk.c:763`). `InSync` holds all the same; `MatchKept` and
  `ProcessReturns` are claimed for links whose channels are all active.
* The sync link's handling of timestamps around the wraparound of the counter is
  dead: `==` binds tighter than `&` in its tests (`syncLink_tsk.c:221-225`), so
  `firstQuadrantFlag` stays 0. And each CPU extends the 32 kHz counter by itself
  (`utils_global_time.c:173`), so two may disagree after 36 hours.
* Two reading tasks on one CPU would break a ring (the test at
  `utils_ipc_que.c:330` is outside the lock; no link has two); an `UnBlock` nobody
  waits for fails later calls (`utils_que.c:596`; `BoundedQueue` allows it);
  `freeBufList` of IPC OUT is not reset after 64 buffers (`ipcOutLink_drv.c:641`,
  a ring has 10 slots); IPC OUT and the sync link skip, and so lose, a buffer with
  a channel they do not have (`ipcOutLink_drv.c:450`, `syncLink_tsk.c:521`; linked
  links agree on channels); and a link of the multi-mailbox task that commanded
  another of its links would wait for itself (`utils_mbx.c:470`; none does).

## 4. Bounds

* *Rings.* With 3 slots the indices wrap, and a ring is empty, partly filled and
  as full as credits allow. The theorems have no bound.
* *IPC pair.* Three indices and two buffers make returns overtake frames; two
  returners make the lock of `putEmpty` matter; three sessions let a notify of
  the first be delivered in the second, and once more. One index more than
  buffers keeps `ipclink_safe` and `ipclink_live` off the case of `ipclink_burst`.
* *Queue.* Two slots give empty, middle and full; `minCount` 2 is the full queue. Two
  getters are woken by one `UnBlock` and by one another's elements.
  `MaxUnBlocks` bounds the calls of `UnBlock`, `Reset` is not bounded.
* *Mailboxes.* A pool of 3 is exhausted by three controllers; two ack queues for
  three of them are too. In `mbx_data` the pool and the queue of triggers have 2
  elements, as long as one another, as in the code: two NEW_DATA of one link and
  a flush leave the stale triggers that crowd out another's. `MaxData` 2 bounds the
  buffers under way. The two links are alike there, so the data of one is looked at
  (`LowProcessed`).
* *Commands.* Three CPUs is the least number with a third party whose command
  waits behind another's in a local queue (`QueMax` 2). The chain `src` (IPU),
  `alg` (DSP), `disp` (IPU) makes both directions of nested `GET_INFO` occur.
* *Dup link.* Two outputs are enough for the counts to differ and the lock to be
  contended; two buffers for one to come round while the other is held. Pools of
  2 and 3 violate `DescriptorAvailable`, 4 does not; the theorem says twice the
  number of buffers suffices always.
* *Chain.* Two buffers of different channels overlap beyond the gate once both
  channels are mapped to its queue, or one goes directly; three commands (`MaxCmds`)
  are ON, a remapping, and OFF or another remapping around any frame. The queues are
  created with one channel each and the commands give none, one or two (`MCLists`),
  so lists that fit, that are too long and that move a channel occur. The theorems
  have no bound.
* *Sync link.* A ms has two instants (`Kilo` 2), so that timestamps are rounded down
  and two of them can be the same ms. Six instants, which are 0 to 3 ms, with
  `SyncDelta` 1 and `SyncThreshold` 1, both in ms, give frames that match, that are
  too old and that are too new, and one that gets stale; with two starts the timer
  stops and starts again. `Stack` has a value below and one above all times.

`MaxSessions`, `MaxData`, `MaxUnBlocks`, `MaxCmds`, `MaxTime` and `MaxStarts` appear
in guards and bound the model only; the last session of a link is not deleted, so that the liveness
properties have an unending run to speak of. Symmetry is used only in runs
without liveness properties. `ipclink_burst`, `mbx_data` and `link_chain` set
`CHECK_DEADLOCK FALSE`: the stalled pair, the finding itself, has no step left, nor
have a sender without buffers and a controller whose command lost its trigger, nor
a chain whose buffers are all with a halted task.

## 5. Fairness

Tasks and interrupts run: SYS/BIOS schedules by priority, and links wait most
of the time, so a task that can run gets to. The environment (producers, control
threads, callers) is under no obligation to start anything.

* `IpcLink`: weak fairness of the steps of both links, interrupts and the next
  link; strong fairness of `OutNewData` and `OutRelease` because a mailbox is
  FIFO and here a set; of a returner's step because the lock is a FIFO semaphore.
* `UtilsQue`: weak fairness of each task.
* `Mbx`: weak fairness of tasks and of controllers that wait; strong of sending
  threads, which queue in order for a message or a slot.
* `MsgQ`: weak fairness of links and interrupts; strong of `Lock` (FIFO
  semaphore), of `Notify` and of the MsgQ task's acknowledgement, which spin until
  the event is free and are not overtaken for ever.
* `DupLink`: weak fairness of the dup task and of every next link, which takes
  what it is told of; strong of `PutLock` (FIFO semaphore) and of returning what
  is held; a stopped use case is created again.
* `LinkChain`: weak fairness of the tasks; strong of `MergeGate` and `PutGate`,
  which wait for the gate's FIFO semaphore, and of returning all that the next
  link holds. No command is ever due. A halted merge task takes no step.
* `SyncLink`: weak fairness of the clock, the timer, the task and the next link.

## 6. Proofs

`tlapm` proves every step; nothing is assumed but the named assumptions on
constants and what the theorems state.

**`IpcQue_proofs`**, for any number of slots, writers and elements. The
hypothesis `Disciplined` says that fewer elements circulate than there are
slots and that one task reads; the links guarantee the first by their pool of
indices and the second by their structure. The inductive invariant `IInv` has
`TypeOK`; the count of what is in the ring and in the hands of callers against
`Credits` (`Accounted`); what each call in progress knows (`CallsOK`); that the
interrupt lock excludes a second store (`StoreExclusive`); and that a reader past
its test has an element to read (`ReadSafe`). It is needed because neither
`NoTornElement` nor the refinement is inductive: both depend on the reader's stale
test still being true, which depends on the count. Before the steps come lemmas
on the operators of `IpcRing` (what storing, publishing and consuming do to the
contents), where the modulo is eliminated.

* `TypeCorrect`: `[]TypeOK`.
* `NeverFull`: `Utils_ipcQueIsFull` never answers TRUE, whatever the ring.
* `NoTearing`: `Disciplined` implies `[]NoTornElement`.
* `Refinement`: `Disciplined` implies `Fifo`'s specification under the mapping of
  `IpcQue`; initial states map to initial states, each step to a step or a
  stutter (`WritePublish` is the send, `ReadConsume` the receive).

**`IpcLink_proofs`**, for any number of indices, system buffers, buffers, returning
threads and sessions, under one hypothesis, `Roomy`: the previous link has fewer
buffers than a ring has slots (and there are as many indices as slots). The checked
properties count with sequences; the inductive invariant `IInv` says the same
pointwise. `IndexPlaced`: an index is in the pool, in the hand of a task, in a slot of a
ring or carried by a system buffer, and nowhere else. `BufPlaced`: the same for a
buffer of the previous link, and an index away from the pool names one. `Filled`:
the slots between the indices of a ring are those written and not read. `Apart` and
`Returning`: a system buffer is in one place and one thread is in
`putEmptyBuffers`. `Phases`: what is quiet at each point of the use case's
creation, stop and deletion. The argument for the rings is twice the pigeonhole
principle: indices away from the pool have buffers of their own, so with `Roomy` one
index is always in the pool; hence a ring about to be written has at least two
slots free (the new index and the spare one are not in it) and its two indices
cannot meet. Last, the lemmas on `Lists` (a sequence that has each element of a set
once) bring the pointwise invariant back to the counts. `IInv` was checked by TLC on
the instance of `IpcLinkSafe.cfg` first, and with two sessions on a smaller one.

* `TypeCorrect`, `IndicesConserved`, `BuffersConserved`, `FramesIntact`: each of the
  safety properties of `IpcLinkSafe.cfg`.
* `BuffersAwaited`: the safety half of `BufferReturned`. One notify event stands for
  any number of indices, the interrupt drops it when the ring is empty by then, one
  command stands for any number of events, and a task polls its ring until it is
  empty. `Told` says that all the same whoever has a ring to empty or a queue to
  fetch was told of it or is about to be; with `IInv`, a buffer that is not back is
  in the hands of a task that goes on or in a place whose reader was told (`Moving`).
  On the instance of `IpcLinkBurst.cfg`, where `Roomy` is false, TLC finds it violated:
  the full ring looks empty.

**`DupLink_proofs`**, for any number of outputs, buffers and sessions. The
inductive invariant `IInv` has the types (`Shape`), where the task has its
descriptors (`TaskOK`), that a descriptor of an output is in one place
(`Disjoint`), what a next link in `putEmptyBuffers` holds and that its loaded
count is good (`PutOK`, the lock's role), `ReturnedOnce` and `CountIsRefs`
themselves, and the number of descriptors per output (`Conserved`). The step
that matters is `Store`: the buffer was out on the caller's output, so it is not
with the previous link, and one output less has it now; at zero none has.

* `TypeCorrect`: `[]TypeOK`, with the bounds of `dupCount` and of the queues.
* `CountCorrect`, `OnceReturned`: `[]CountIsRefs`, `[]ReturnedOnce`.
* `DescriptorsSuffice`: if `Pool >= 2 * Cardinality(Bufs)`, `[]DescriptorAvailable`.
  A list being returned accounts for at most all the buffers, and the buffer about
  to be duplicated is not among the descriptors in use.
* `BuffersAwaited`: the safety half of `BufferReturned`, from `IInv` and `Told` (a
  queue that is not empty has a NEW_DATA waiting or the task about to send one).

**`UtilsQue_proofs`**, for every size, any tasks, timeouts and `minCount`s.
`SleepJustified` is not inductive: it follows from `SleepInv`, which says of a task
that is alone in waiting on its side what its stale test still tells it (if it
is about to wait, what it waits for is not there, or the semaphore is posted, or
another task is about to post). `CallInv` keeps the labels, timeouts and flags in
step. The refinement adds `IndexInv`: `curWr` is `curRd` plus `count`, modulo the size,
so that the slots between them are the abstract queue; the lemmas on the modulo are
for this.

* `TypeCorrect`, `WakeupsKept` (`[]SleepJustified`), `Refinement` (implements
  `BoundedQueue`; the critical section of a call is its abstract step, or the test of the
  flag and its clearing are its two).

**`Mbx_proofs`**, for any links, priorities, senders, controllers and ack queues.
`Shape` has the types, what a call in progress knows, and that a controller in a
call owns its ack queue alone (`Owned`). `Swept` says what
`SleepJustified` leaves out: while the multi-mailbox task scans, the priorities it
has passed hold no trigger, or it will be woken again. `Placed` gives the message of
a controller that waits one place (a mailbox, the hand of a task, its own ack
queue) and that of any other none. Both were checked by TLC as invariants of the
instance of `MbxControl.cfg` before they were proved.

* `TriggersKept`: `[]SleepJustified`, from `Shape` and `Swept`.
* `AcksExpected`: `[]AckExpected`, from `Shape` and `Placed`.
* `MessagesConserved`, `TypeCorrect`: `[]MessageConserved`, `[]TypeOK`. The messages in
  the mailboxes are a sum over the links, `Total`, a fold of the library, which expands
  to the `CHOOSE` of a recursive function. That the function exists, and that the
  fold is the number of places of the queues (`Places`: pairs of a queue and a
  position), is shown by induction on the size of a set, in the form the provers
  can do: a counterexample would have a smallest one. After that a put and a take are
  facts about a finite set that gains or loses an element. `Books` is the
  inductive invariant.
* `OnlyStaleCrowdsOut`: if `TriggerMax >= PoolMax` (both are 1024, `utils_tsk.h:86` and
  `utils_mbx.c:54`), `LostToStale`, whatever links share a queue. Any other step leaves a
  message with a trigger of its own (`NextEnough`). When the sender of link `l` finds
  the queue full and `l` has fewer triggers in it than messages, another link
  has more: if none had, the triggers in the queue could be numbered into the
  messages of the mailboxes with one of `l` left over (`AnotherStale`), and there
  would be more messages than the pool has.
* `QueuesSuffice`: no mailbox passes `PoolMax` messages and no ack queue one. The code's
  mailboxes have as many elements as the pool and its ack queues two
  (`UTILS_MBX_RECV_QUE_LEN_MAX`, `UTILS_MBX_ACK_QUE_LEN_MAX`), so the paths of
  `utils_mbx.c` for a put that finds no room, which the model leaves out, are dead.
* `DataComing`: the safety half of `DataProcessed`. Data that was not refused has its
  sender about to put a NEW_DATA, a NEW_DATA in the mailbox, or a task that took
  one and has not yet looked at the data (`Announced`). The flush comes before the look.

**`MsgQ_proofs`**, for any number of CPUs, controllers and links and any chain.
The inductive invariant `Inv` says where the one command of each CPU is: nowhere,
on its way, in a local queue, being served, acknowledged on the way back, or
posted (`Placed`); that a caller past `Lock` owns its CPU's lock and message
(`Locked`); what each call knows and whether its command has run (`Calls`); and
that each command in a link's mailbox or hand has exactly one requester, who
waits for it (`Mailboxes`). All conjuncts need one another: that a link runs a
command once depends on the local queues having a CPU once, which depends on the
lock, which is given back only when the acknowledgement has come.

* `TypeCorrect`: `[]TypeOK`. `AnswersOwn`: the action property `AnswerOwn`.
* `CommandsCounted`: if `QueMax >= Cardinality(CPUs) - 1` (`Room`; the code has 20
  elements and 9 CPUs), `[]OneCommandPerCpu`, hence the full queue the interrupt
  ignores never occurs.
* `Refinement`: `MsgQ` implements `Rpc`, with or without room.

**`LinkChain_proofs`**, for any number of buffers, channels and commands and any
maps. Three invariants rest on each other: `Kept` (a buffer has one place, and
away from the source `orgChNum` has its channel), `Numbers` (the map and
the frames that wait have channels their input has, unless its queue got too long a
list), and
`Counted` (`bufCount`, the two counts in progress and who has the lock). Last come
the modes of the tasks, which give the types.

* `BuffersConserved`, `OriginsRestored`, `OnlyLongListsHalt` (`HaltedByLongList`),
  `CountsBeyond`, `SafeToDelete` (`PollSafe`) and `Typed`.
* `FramesAwaited`: the safety half of `FrameReturned`. A frame is at the source, on its
  way (`Moving`, from `Told`), stranded or left with a halted task; and the action
  property `OffStrands`: a step
  that strands a frame is the command OFF, whatever else happens at the time.

**`SyncLink_proofs`**, for any number of channels, buffers and composites and
whatever the average was taken of. `IInv` gives `CompositesInSync`: both heads are
within `SyncDelta` of a number, whichever it is. `Books` counts, per channel, the
buffers in every place, with the timestamps of a channel different everywhere, and
the composites out against the buffers in them.

* `CompositesInSync` (`[]InSync`; the code compares whole ms, so in us two frames of a
  composite may be almost a ms more than twice syncDelta apart), `TypeCorrect`,
  `BuffersConserved`.
* `CompositesSuffice`: if `Comps >= 2 * B`, `[]CompositeAvailable`; the code has 8
  composites (`SYNC_LINK_MAX_FRAMES_PER_OUT_QUE`) and 4 buffers
  (`SYSTEM_LINK_FRAMES_PER_CH`).
* `StampsWithin`: if `MaxTime < Word` (71 minutes, for a `UInt32` of us),
  `[]StampWithin`: the average is a number of ms between those of two frames, each
  less than a ms before its frame (`MsIs`). `sync_stamp` is the counterexample
  without the hypothesis.
* `MatchesKept`: if `Ms(MaxTime) + SyncDelta <= Word - 2` (49 days, for a `UInt32` of ms),
  `MatchKept`. Both rest on lemmas about the average: with all channels active it is
  a fold over the heads, pinned as in `Mbx_proofs`, and lies between two of them.
* `LoopShortens`: under the hypothesis of `MatchesKept`, the safety half of
  `ProcessReturns`. With all channels active there is an average to compare with and
  a round that composes nothing drops a frame (`RoundDrops`: an average below all heads or
  above all of them would turn the loop for ever; without `AllActive` TLC finds one);
  and a round that changes the local queues leaves fewer frames in them
  (`RoundShortens`), as nothing fills them during the loop.

**Only model-checked.** Of the properties of the passing runs, those that say that
something happens: `CallReturns`, `CommandReturns`, `Served`, `BufferReturned`,
`DataProcessed`, `FrameReturned`, `ProcessReturns`, `StaleReturned`. They need fairness and
`ENABLED`, which this version of the prover does not reason about. For five of them the
safety half is proved, that what is waited for has somebody to do it (`DataComing`,
`LoopShortens`, `FramesAwaited`, both `BuffersAwaited`); what stays with TLC is that he
gets to. No `RECURSIVE` operator is used.

## 7. Not modelled

* Null, null source, AVB and algorithm links: planned, below.
* Creation, deletion and exit of tasks and mailboxes; deletion of the MsgQ task;
  commands the A15 routes through IPU1 under Linux.
* Start-up, registration of links, statistics, profiling, cache maintenance:
  sequential, or without effect on the protocols modelled.
* Capture, display, scaler and codec links: their queues belong to drivers the
  repository does not contain.
* The Linux port: the same protocols in a second copy of the code.

`components` in PROJECT.json lists every part with its reason, `hazards` what in
this code is hard to test and which property is about it.

## 8. Plan

1. `Mbx`: creation, deletion and exit of tasks, the race of an exit with the flush.
2. `AlgorithmLink`: the skeleton that hosts plug-ins, with its control and its data
   commands.
3. `MsgQ`: the message routed through IPU1 and the deletion of the task.
4. Theorems: an abstract specification of the sync link (composites are matched or
   returned) and of the mailbox as a remote call, as `Rpc` is for `MsgQ`.
