# Trusted Firmware-M: specifications, model checking and proofs

Trusted Firmware-M (TF-M) is the secure side of an Armv8-M / multi-core
microcontroller: a Secure Partition Manager (SPM) that schedules isolated secure
partitions and carries PSA messages between them and the non-secure side, and the
partitions that implement the PSA Root of Trust services (storage, crypto,
attestation, firmware update, platform). This directory holds TLA+ models of the
parts of TF-M whose correctness depends on interleaving, ordering and power
failure, the TLC configurations that check them, and TLAPS proofs of their main
safety properties.

## 1. Inventory

| Component | Source | State | Operations | Hard part |
|---|---|---|---|---|
| SPM, IPC backend | `secure_fw/spm/core` (`backend_ipc.c`, `spm_ipc.c`, `psa_*_api.c`, `mailbox_agent_api.c`, `thread.c`, `interrupt.c`) | connections, `p_reqs`/`p_replied` lists, asserted/waiting signals, current thread, PendSV | `psa_connect/call/close`, `psa_wait/get/reply/notify/clear`, IRQ API, scheduler | signals raised by handlers and interrupts while threads block; replies multiplexed with signals; connection reuse |
| Connection pool | `tfm_pools.c`, `lists.h`, `spm_connection_pool.c` | linked free list, magic numbers | alloc, free, validity check | frees made outside the scheduler lock |
| SPM, SFN backend | `backend_sfn.c` | call stack of partitions | direct calls | none beyond sequential calls |
| I/O vectors | `psa_read_write_skip_api.c`, `psa_mmiovec_api.c` | read/write positions, mapping status of a message | read, skip, write, map, unmap | status bits over a call's life |
| Mailbox | `secure_fw/partitions/ns_agent_mailbox`, `interface/src/multi_core` | slot states in shared memory, pending/replied masks | NS call, notify, ISR, dispatch, reply | two cores, shared masks, critical sections |
| Internal Trusted Storage (ITS) | `secure_fw/partitions/internal_trusted_storage` | two metadata blocks, data blocks, scratch blocks, RAM copy of the header | set, get, get_info, remove, boot-time recovery | power failure between any two flash operations |
| Protected Storage (PS) | `secure_fw/partitions/protected_storage` | two object tables, object files, three NV counters | set, get, remove, boot-time recovery | roll-back protection and power failure |
| Firmware update (FWU) | `secure_fw/partitions/firmware_update`, `bl2/ext/mcuboot` | state of each component | start, write, finish, install, reject, accept, clean | long legal call sequences, reboot |
| NV counters, OTP | `platform/ext/common/template` | counters in flash, backup copy | read, increment, lock | torn writes |
| Boot loaders | `bl1`, `bl2` | images, counters, measurements | verify, decrypt, roll-back check | order of checks |
| Crypto | `secure_fw/partitions/crypto`, `interface/src/tfm_crypto_api.c` | table of operation contexts, handles in clients' objects | setup, update, finish, abort, clone of hash, MAC, cipher, AEAD and key derivation | contexts shared by all clients, error paths |
| Attestation, platform, NS client extension, isolation, arch ports | `secure_fw/partitions/*`, `secure_fw/spm/core/arch` | little of their own | token building, HAL calls, register programming | none for a state machine |

How they interact: every service request is a PSA message carried by the SPM;
the non-secure side reaches the SPM through TrustZone veneers or through the
mailbox, whose agent is itself a partition; PS stores its files through ITS and
encrypts through Crypto; Crypto stores keys in ITS; FWU drives the boot loader's
flash areas and reads NV counters.

What makes each part correct: in the SPM every message reaches its service once
and every reply its client, no connection leaks, no thread sleeps on a signal it
has; in the pool a chunk has one user; in ITS and PS a restart finds every object
as a completed request left it, whatever moment power failed; in the mailbox no
slot is lost or answered twice; in FWU no sequence of calls and reboots installs or
destroys the image a revert needs; NV counters never go back; in Crypto no request
reaches the context of another client and no error path keeps a context.

## 2. Modules

| Module | What it is | Extends / instantiates |
|---|---|---|
| `SpmIpc` | the SPM with its IPC backend | community `Functions` |
| `RotConnection` | what the SPM promises the two ends of a connection | |
| `SpmIpcRefinement` | refinement mapping `SpmIpc` -> `RotConnection` | `SpmIpc`, INSTANCE `RotConnection` |
| `SpmIpcLive` | serving loops, fairness, progress | `SpmIpc` |
| `MCSpmIpc` | the instances TLC checks | `SpmIpcRefinement`, `SpmIpcLive` |
| `ConnPool` | the free list of the connection pool, link by link | |
| `Mailbox`, `MCMailbox` | both cores of the mailbox, with the agent and its use of the SPM | |
| `NsMailboxThread` | the variant of the non-secure side with a mailbox thread | |
| `FileStore` | what the ITS file system promises | |
| `ItsFlashFs`, `MCItsFs` | the ITS file system down to single flash operations | INSTANCE `FileStore` |
| `ObjectStore` | what Protected Storage promises | |
| `PsObjectTable`, `MCPs` | Protected Storage down to single calls to ITS and to counters | INSTANCE `ObjectStore` |
| `FwuStates` | component states of the PSA firmware update interface | |
| `FwuService`, `MCFwu` | the firmware update service on the MCUboot shim | INSTANCE `FwuStates` |
| `NvStore` | what users of NV counters rely on | |
| `NvCountersFlash`, `MCNvCounters` | NV counters in two flash areas, access by access | INSTANCE `NvStore` |
| `CryptoOperations`, `MCCrypto` | contexts of multipart crypto operations | |
| `SpmIpcProofs`, `MailboxProofs`, `NsMailboxThreadProofs`, `ItsFlashFsProofs`, `PsObjectTableProofs`, `FwuServiceProofs`, `NvCountersFlashProofs`, `CryptoOperationsProofs` | TLAPS proofs | the module of that name (`SpmIpcProofs`: `SpmIpcRefinement` and `ConnPool`), `TLAPS` |

### SpmIpc

State: `pool`, `conn` are `connection_pool` and the `connection_t` in each chunk
(status, client, service, message type, replied value); `reqs`, `replied`,
`asserted`, `waiting` are a partition's `p_reqs`, `p_replied`, `signals_asserted`
and `signals_waiting`; `cur` is `CURRENT_THREAD`, `pendsv` the pending PendSV,
`enabled` the interrupt controller. `served`, `collecting` and `held` say which
messages and handles the callers have in their hands: what a partition may do
next depends on them.

Actions: one per PSA API handler. A handler runs with the scheduler locked
(`backend_abi_entering_spm` .. `backend_abi_leaving_spm`) and is one action;
interrupts and PendSV (`Schedule`: `ipc_schedule` with `query_state` and
`thrd_next`) come between any two. `tfm_rpc_client_call_reply` is the exception:
it runs in the mailbox agent's thread, unlocked, and is two actions.
`NeedSchedule` is the return value `STATUS_NEED_SCHEDULE`, which decides whether
PendSV is pended when a handler leaves.

Partition code is unconstrained: whenever a partition runs, it may call any PSA
API on handles, messages and signals it legitimately has. Calls the SPM answers
with a panic or a programmer error have no action.

`RotConnection` has the steps open, use, accept, reply and finish, and no scheduler,
signals or pool: the messages of a service are accepted first come, first served, each
is answered once by the service it is for and collected by the client that sent it.

### ConnPool

`tfm_pool_alloc` and `tfm_pool_free` with the `UNI_LIST` macros on `NumChunks` chunks
(numbered from 1; 0 is the head in the pool's instance); the free of the
agent's thread is split into its stores, between which other partitions allocate and
free. `moved` is a history variable: it becomes TRUE when the agent stores its node as
the head of the list and the head is not the one it read.

### ItsFlashFs

State: `flash` has for every block the header (swap count, scratch data block),
the block and file metadata and the data cells; `active`, `count`, `sdb` are the
RAM copy (`active_metablock`, `active_swap_count`, `scratch_dblock`). A request is
turned into the sequence of flash operations of its block update (`plan`), which
are executed one by one: `WriteStep`, `ScratchStep` (the exchange of
`scratch_dblock` in RAM), `CommitStep` (header and `its_mblock_swap_metablocks`),
`EraseStep`, `FailStep`. A plan may be computed in advance because all a block
update reads is in the active blocks, which it does not write before its commit.
`PowerFailure` may come at any point and loses the RAM; `FlashFailure` makes an
operation of a request fail, after it has written some of its cells or erased its block,
or before (`Partly`). `Nor` selects drivers that refuse to program flash
that is not erased (emulated flash, mps2 flash drivers). Without it a write
replaces what the cells hold, which is what `its_flash_ram.c` and the block buffer of
`its_flash_nand.c:143` (it copies the data into the block that it later erases and writes
as a whole) do.

`FileStore` has files, a call and a result: each write of a set is atomic, a
request that succeeds is done in full, one that fails has done nothing, a power
failure changes no file. The mapping reads the files the way a restart would:
the active metadata block is chosen by `ActiveMetaBlock`, files marked for
deletion are ignored.

Abstractions: a byte is a cell, all metadata takes `MetaSize` cells, all cells
written by one set have one value; a file id is a model value; `MaxRequest`
bounds what clients ask for; the swap count has modulus `SwapMod` (4 or 5) instead
of 256, so that it rolls over after a few updates. The layout is created at
start-up when no metadata block is valid (`ITS_CREATE_FLASH_LAYOUT`).

### Mailbox and NsMailboxThread

Non-secure side: `task` is what each task does in `tfm_ns_mailbox_client_call`,
`empty`, `owner`, `woken` are `empty_slots` and `slots_ns[]`, `flag` the event of
`tfm_ns_mailbox_os_wait_reply`. Shared memory: `msg`, `reply`, `pend`, `replied`.
Secure side: `spe` is `spe_mailbox_queue`, `agent` the loop of
`ns_agent_mailbox_entry` with the local variables of `tfm_mailbox_handle_msg`
(snapshot, slots left, slots to reply), `conn` the connections of the SPM with
`client_data`, `answers` the agent's `p_replied`. Accesses to the shared status are
critical sections of both cores and are single steps; filling a slot, marking it,
waiting, the two interrupts, each dispatch of a message, the end of the batch and
each answer interleave freely. The SPM is external to these modules except for what
the agent sees of it: a call that is refused or answered at once, or a connection
that a service answers later. A task that waits may also be woken by something else
(`OtherEvent`), finds no reply and waits again. `stray` is a history variable: it becomes
TRUE when a `psa_close` is dispatched from another slot than the one its connection
remembers in `client_data`.

`NsMailboxThread` has the message queue, the thread (receive, look for a slot, set
`is_full`, wait, clear `is_full`, claim, fill) and the interrupt that frees slots;
the secure core answers pending slots in any order.

### PsObjectTable

State: `obj` are the object files and `tab` the two table files in ITS, `nvc` the
three counters, `table`, `swap`, `active` the context in RAM. `call` is the request
with `g_obj_tbl_info` and the backup entry of `ps_object_table_set_obj_tbl_info`.
Every call to ITS and every increment of a counter is an action that succeeds or,
within `Faults` and `MaxErrors`, fails, the read of an object before it is replaced or
removed included (`ReadOutcome`); `TearFile` leaves a file half written when
power fails next. What `ps_req_mngr_read_asset_data` takes from the client
(`ps_object_system.c:445`) cannot fail: `psa_read` of as many bytes as the message has
returns that many. `crashes` counts the power failures during saves since a save was
completed, and the history variable `twice` says that with rollback protection there
were two. A table holds the value of counter 1 that its authentication
covers, a file and an entry the tag of one encryption. `ObjectStore` has objects, a
request and a result: a set or remove happens at once or not at all.

### FwuService

State: `state`, `inUse` are `fwu_ctx[]`, `fap` the open areas of `mcuboot_ctx[]`;
`primary`, `copied`, `second` are what the flash holds: the running image with its
`image_ok` flag, whether it was swapped in (`copy_done`), the secondary slot with its
image, the set of the blocks that are written and the boot magic. The first block has
the header and the last one the TLVs, without which an image is not taken
(`Readable`). Blocks are written at any offset that the range check of `flash_area_write`
admits. The devices are provisioned with confirmed or with unconfirmed images
(`MCUBOOT_CONFIRM_IMAGE`). An access that fails may have had its effect or part of it: an
erase leaves any of the blocks, a mark of one component may be written.
Requests that write the flash once per component (install, accept, reject) are a
`job` of several steps, with the undo loop of a failed installation. `Reboot` is
MCUboot's swap or revert, taken from how the shim uses it. `FwuStates` is the state
diagram of the PSA interface with reboots.

### NvCountersFlash

State: `area` is the area in use and its backup (mark, items, update count) and `todo`
the erases, writes and copies that are left of `init_otp_nv_counters_flash` or of a
write. Power fails between any two accesses; an access may fail, and the operation
returns at once. The history variable `resumed` says that a counter was set after a
failed access without a reset in between, as Protected Storage does
(`ps_object_table.c:327`). `NvStore`: a counter is set in one step and never decreases.

### CryptoOperations

State: `operations` is the table of `crypto_alloc.c`, `handle` the handle in each
operation object of the clients, `caller` the id of the client being served. What the
library keeps in a context is the set of objects whose requests it worked on there.
Every kind of request may fail, and what is released then is as in its module:
`crypto_cipher.c` releases the context of a failed update through a local handle, the
others keep it. `Careless` clients write anything over their handles.

## 3. Runs

| Run | Instance | Properties | Distinct states |
|---|---|---|---|
| `spm_ipc` | a client partition, a partition with a connection-based and a stateless service and an interrupt with a first-level handler, the agent with its interrupt and an NS client, doorbells of any partition, polls; 2 connections; one doorbell or both interrupts at a time | `TypeOK`, `ServiceSignalMatchesQueue`, `ReplySignalMatchesList`, `OnePlace`, `NoLeak`, `SyncCallBlocks`, `HandlesUsable`, `HighestPriorityRuns`, `ImplementsRotConnection` | 531 305 |
| `spm_live` | no interrupts; the service calls a service of a third partition of lower priority; 3 connections, fairness | `RequestsAnswered` | 111 918 |
| `conn_pool` | 4 chunks, the agent preempted anywhere in its frees | `FreeListExact` | 114 587 |
| `its_fs` | 4 blocks of 3 cells, 2 files, 2 values, chunks of 1 cell, count modulo 5, erase value "all ones" | `SpaceAccounted`, `ScratchIsNotLive`, `ImplementsFileStore` | 327 803 |
| `its_fs_flash_error` | 2 blocks of 4 cells, 3 file ids for 2 + 1 entries, one flash operation failing after any part of its effect, programming of non-erased flash refused, count modulo 4, erase value 0 | `OneEntryPerFile`, `OtherFilesIntact` | 693 531 |
| `ps` | 3 objects for room for 2, write-once and not, power failures anywhere, two of them in saves in a row, 2 failing calls | `TableIsWhole`, `ReplacementHasRoom`, `OneEntryPerObject`, `OldTableStaysRejected`, `ImplementsStore` | 4 097 941 |
| `mailbox` | 2 tasks, 2 slots, 2 connections; one task makes stateless calls and calls that are never answered, the other one connects, calls and closes; fairness | `ReplyIsOwn`, `EmptySlotIsUnused`, `NoRequestLost`, `ConnectionsAccounted`, `EveryCallReturns` | 1 084 718 |
| `mailbox_thread` | 3 tasks, 2 slots; fairness | `RequestInOnePlace`, `SlotsAccounted`, `PlacedCallReturns` | 271 627 |
| `mailbox_thread_full` | 2 tasks, 1 slot; fairness | violates `EveryCallReturns` (finding 1) | |
| `fwu` | 3 components that need each other in a cycle (the first needs the others, the last needs the first), 3 blocks at any offset, confirmed or unconfirmed factory images, 2 reboots, 2 failing accesses | `TypeOK`, `RevertImageIntact`, `CleanPossible`, `DependenciesStaged`, `InstallExcluded`, `ImplementsStates` | 4 639 609 |
| `nv_counters` | 3 counters in 2 sectors, values to 3, update count to 4, 3 power failures, 2 failing accesses, counters set after a failure or not | `AreasAgree`, `ImplementsStore` | 1 269 776 |
| `crypto` | a client with two hash operations and a cipher operation, a careless client with a hash operation and a key derivation; 3 contexts | `ContextsAccounted`, `ContextOfItsOwner`, `OthersUntouched` | 130 925 |

Bounds. Two connections let one call be in flight while the next finds the last chunk
and a third finds the pool empty; nested calls need one connection per level. In ITS
two files per block are what compaction needs (one to delete, one to move), three
entries leave the spare one, and a modulus of four or five is the smallest in which two
consecutive counts, the count before and the count after the roll-over differ; the
number of power failures is not bounded. In PS one more object than there is room for
fills the table while a replacement still needs its spare entry, and two failing calls
let the undoing of a failure fail too. `MaxNvc` ends the requests after four saves,
enough for an old table to meet each counter. Power may fail any number of times outside
of saves. One value is enough: a set that replaces
an object can be told from the set before it by its write-once flag. In the mailbox two tasks and two slots
let a batch hold two requests while one of its slots is reused for the next. Three
tasks and two slots make the thread wait for a slot. In FWU three components let an
installation fail with components before and after the failing one; three blocks are
a header, the TLVs and a block that may be missing between them; of two reboots the
first can swap an image in and the second one revert it. In the NV counters
the update count wraps within the runs.

Conditions. `TableIsWhole`, `ImplementsStore` (PS), `InstallExcluded`,
`ImplementsStates` (FWU) and `OneEntryPerFile` (ITS) are stated for executions in which no call to the
flash, to ITS or to a counter has failed; section 5 says what failures do. So is the
second part of `DependenciesStaged` (what a staged component needs is staged or running): a
`tfm_fwu_reject` that fails half-way (`tfm_fwu_req_mngr.c:365`) leaves components
STAGED while images they need are FAILED already. `OtherFilesIntact` is stated
through failing operations for layouts of two blocks, and without them for layouts
with data blocks of their own, where it and `ScratchIsNotLive` do not survive a failure
(finding 4). Four faults of the code are in the runs, and
the properties that they break hold up to the step in which the fault happens, which a
history variable marks: `moved` (`FreeListExact`, finding 2), `twice` (`ImplementsStore` of PS,
finding 5), `stray` (the properties of `Mailbox`, finding 8), `resumed` (`AreasAgree` and
`ImplementsStore` of the NV counters, finding 12). `EveryCallReturns` leaves out the calls
that are never answered (`NeverAnswered`, finding 9), but not what they do to the other
calls. The properties of the SPM, `OldTableStaysRejected`, `ReplacementHasRoom`,
`OneEntryPerObject`, `RevertImageIntact`, `CleanPossible` and those of `NsMailboxThread`
hold without a condition.

Deadlock is not checked in the SPM runs, because partitions may all wait for signals
nobody sends, nor where a bound or a full store is a legitimate end (ITS, FWU, NV
counters, and the mailbox thread, whose tasks may stop calling), nor in `mailbox`, where
tasks wait for ever for calls that are never answered, nor in `conn_pool`, where the
assertions of the pool stop the system once its list is corrupted. `mailbox` does not
go on after a stray answer (`NotStray`), where all its properties hold by their
condition; `spm_ipc` has one doorbell or both interrupts pending at a time (`FewEvents`).

Symmetry: connections are interchangeable in `spm_ipc` (no action compares them), file
ids and values in ITS, objects and values in PS; the runs with liveness use none.

Fairness. `SpmIpcLive`: weak fairness of `Schedule`, because a pending PendSV is
taken as soon as no handler runs, and of `LoopStep(p)`, because the processor
executes the code of the current thread. `LoopStep` is enabled only while `p`
runs, so nothing is assumed of the scheduler's choices. Services serve (they wait
only when they owe no reply), clients may stop. `RequestsAnswered` assumes that
new requests eventually stop: with fixed priorities a busy client of high priority
may starve a service of low priority, which the code does not prevent. `Mailbox` and
`NsMailboxThread`: weak fairness of each task once it has begun a call (the operating
system schedules ready tasks), of the interrupts (taken when pending), of the agent
and the thread (their loops), and of the answers of services and of the secure core.
No fairness is assumed of new calls.

Every property has a mutant in `PROJECT.json`: a change of one modelled
definition as a plausible bug would make it, under which TLC finds the property
violated.

## 4. Proofs

### SPM

`SpmIpcProofs` proves, for any finite set of partitions and any sets of services,
interrupts, clients and connections that satisfy `PartitionAssumption` and
`ServiceAssumption`, every invariant of the `spm_ipc` run and its refinement:
`TypeCorrect`, `ConnectionInOnePlace`, `ReplySignalSound`, `ReplyNeverASignal`,
`ServiceSignalSound`, `NoConnectionLeaks`, `SyncCallsBlock`, `HandlesAreUsable`,
`RunsHighestPriority`, `RotConnectionImplemented`. They follow from `[]FullInv`:

    IndInv  == Types /\ Allocated /\ OnePlace /\ ReplySignalMatchesList
               /\ NotIdle /\ OneCall /\ RunningAwake
    FullInv == IndInv /\ Lifecycle /\ ServiceSignalMatchesQueue
               /\ BlockedHasRequest /\ HighestPriorityRuns

`OnePlace` is not inductive alone. A client's next call takes a connection whose
status is IDLE and links it to a list, so one has to know that no connection on a
list is IDLE (`NotIdle`). For partitions that call synchronously the status is
reset when the reply is made, before the client has taken it; there the client
cannot call because it is blocked (`OneCall`: it waits for `ASYNC_MSG_REPLY` and
has no second request in flight), which needs that the running thread is not
waiting (`RunningAwake`). The scheduler takes a synchronous reply by setting
`p_replied` to NULL, which loses nothing just because there is one reply
(`OneCall`), and which keeps the signal and the list together
(`ReplySignalMatchesList`). `Types` is `TypeOK` without its last part, that a chunk is
free exactly if it holds no connection; `Allocated` gives that part and ties an
allocated chunk to a connection of its client. `Lifecycle` says what the status of a connection tells about where it is
(queued, served, answered, idle in a client's hands) and that a handle a client holds is
its own; no connection leaks because every allocated one is in one of these places.
`BlockedHasRequest` is the converse of `OneCall`: who waits for a reply alone has a
request in flight. The proof has one lemma per action or family of actions;
`AppendList`, `RemoveList` and `TailList` say what the list macros do to the set of
nodes and to their uniqueness.

The refinement is shown step by step: each action is a step of `RotConnection` or a
stutter. The order of the messages of a service is the set of messages ahead of each
(`MessagesAhead`); appending to `p_reqs` puts the new message behind all others of its
service, and taking the first one of a service leaves the sets of the rest without it.

`PoolIsExact` is about `ConnPool`: for any number of chunks the free list holds exactly
the chunks nobody uses, each once (`FreeListExact`, which speaks of paths of links). The
invariant `PoolInv` says that some sequence without repetitions enumerates the free list
link by link and has the unused chunks as its elements; the chunk the agent is freeing
counts as in use until the store to the head of the list. Others allocate and free
between the stores of the agent; the invariant ends with `moved` (finding 2).

### Mailbox

`MailboxProofs` proves the four invariants of the `mailbox` run for any tasks, slots and
connections (`RepliesAreOwn`, `EmptySlotsAreUnused`, `RequestsAreNotLost`,
`ConnectionsAreAccounted`) from

    IndInv == TypeOK /\ TaskOwnsSlot /\ SlotHasTask /\ InOneHand /\ Batch /\ OwnResult
              /\ Remembers /\ AnswersDistinct /\ HoldsOwn /\ ReturnsOwn /\ IdleIsHeld

A task in a call and the owner of its slot name each other; a slot in use is in exactly
one hand while its task waits (`InOneHand`: not seen by the secure core yet, in its
queue, replied, or taken over by the reply interrupt), and whoever has it has the request
of that slot's task; `Batch`, `Remembers` and `AnswersDistinct` carry this through the
agent's local variables and the `client_data` of connections. The invariant holds for all
calls, `psa_close` and those that are never answered included, until `stray` (finding 8):
`MailboxInv == ~stray => IndInv`.

`NsMailboxThreadProofs` proves `SlotsAreAccounted` and `RequestsInOnePlace` for any
tasks and slots, from `TypeOK /\ ThreadHolds /\ SlotsHaveOwners /\ SlotsAccounted /\
QueuedOnce /\ OnePlaceEach`: what the thread holds between taking a request from the
queue and filling a slot is neither queued nor in a slot.

### Internal Trusted Storage

`ItsFlashFsProofs` proves, for every layout that `ConfigAssumption` allows (two blocks,
or four and more), every number of files, sizes, chunk size, counter modulus of at least
four, and both erase values:

- `LatestIsLast`: of two consecutive headers `its_mblock_latest_meta_block` takes the
  later one, also across the roll-over of the count;
- `EntriesUnique`: `Spec /\ [][NotRefused]_vars => []OneEntryPerFile`;
- `ScratchFree`: `Spec /\ [][NotRefused]_vars => [](errors = 0 => ScratchIsNotLive)`;
- `SpaceIsAccounted`: `Spec /\ [][NotRefused]_vars => [](errors = 0 => SpaceAccounted)`;
- `FileStoreImplemented`:
  `Spec /\ [][NotRefused]_vars /\ [](errors = 0) => ImplementsFileStore`, where power may
  fail before any flash operation;
- `OthersIntact`: under the same conditions `OtherFilesIntact`, for every layout;
- `PowerFailSafe`, which puts them together: when `Nor = FALSE` and `MaxErrors = 0`,
  `Spec => ImplementsFileStore /\ OtherFilesIntact`.

The first of them rest on `MetadataCommitted`: while no flash operation failed,
`Types /\ Valid /\ Phases` holds. `Valid`: a metadata block with a valid header holds
metadata a restart can rely on (the physical blocks are shared out and none is the
scratch block; a file has one entry and at most one more that is marked for deletion;
without a marked entry there is a free one; `LayoutOK`: the extents of the files of a
block are disjoint and fill it up to its free space). `Phases` describes the plan. Before its
commit (`Updating`) it is a sequence of operations that leave some metadata N, G in the
scratch metadata block, the commit, and erases that include the old metadata block; N
and G are what `Valid` asks for before anything is written, and the scratch block has no
valid header until the commit. After it (`Erasing`) only erases of blocks that are not
live are left. `Failing` is a refused replacement, which has written its mark
already, `Wiping` the creation of the layout. Power may fail at any point of a plan
because `Valid` holds at each, which no statement about the state between
requests would give. `SpaceAccounted` follows from `LayoutOK`: it says that every cell
before the free space lies in one extent. What a set of several chunks relies on,
that its file has room for all of it (`RoomKept`), is carried through the block updates
of the other chunks as a part of `Phases`.

The refinement needs a second layer, `Layer`, that follows the contents of the files
(`FilesCommitted`: while no flash operation failed, `Fine /\ Layer` holds). `NewFiles`,
`NewBlocks` and `NewData` are the metadata and the data as the operations of the plan
will leave them, and `NewFile(f)` is what a restart would then find of `f`. The layer
says of the plan (`PlanOK`) that it writes data only to blocks that are not live, that
two data writes to one block agree, and that it erases no block that is live after the
commit; of the headers (`HeadersOK`) that a restart would take the metadata block in
use; and of the call (`CallOK`) that a plan with a commit leaves every file as it is but
the one of the request, which becomes one chunk longer or is gone (`Wanted`), and that a
plan without one has done so (`Reached`). The steps before the commit change nothing
a restart finds, the commit makes `NewFile(f)` what it finds, and the erases change
nothing again: this is the step of `FileStore`. The lemmas below it
(`DeleteOutcome`, `WriteOutcome`) say what `its_flash_fs_delete_idx` and
`its_flash_fs_file_write` leave of each file. For a removal this is the compaction:
the files behind the removed one move down, and by `LayoutOK` each file that stays is
where its cells have been moved to (`MovedContents`).

`NotRefused` says that no flash operation is refused because the cells are not erased.
With drivers that do not check (`Nor = FALSE`) nothing is (lemma `NothingRefused`). With those that do, a refused
replacement leaves a dirty scratch block, the next write is refused and its plan
abandoned (finding 3), which the phases do not describe; for this case the run
`its_fs_flash_error` checks `OneEntryPerFile`. `errors = 0` cannot be dropped from
`ScratchFree` nor from `OthersIntact`: with data blocks of their own, a failing flash
operation can cost another file (finding 4).
`ConfigAssumption` also says that the model values `None`, `Erased` and `Free` are not
numbers, headers or file entries, and `NoneAssumption` that `None` is no request and no
file contents, and `Erased` no value a client writes.

### Protected Storage

`PsObjectTableProofs` proves, for any numbers of objects, failing calls and power
failures, `CountersOrdered` (counter 1 is never behind counter 2, nor counter 2 behind
counter 3) and from it `OldTablesStayRejected`: `Spec => OldTableStaysRejected`. The
order is what makes it true: counter 3 authenticates a table only while it equals
counter 2, and on the way from one aligned value to the next the two differ or are the
newer value. It also proves `ObjectsHaveOneEntry`, `ReplacementsHaveRoom` and
`TablesAreWhole`, from

    IndInv == TypeOK /\ CallOK /\ TablesOK /\ CreateOK /\ UndoOK
              /\ (errors = 0 => WholeOK)

`TablesOK`: the table in RAM and every table a restart may load name each object once and
keep an entry free for a replacement. `CallOK`, `CreateOK` and `UndoOK` say at each point
of a request which entries of the table are the old and the new one of its object and
that the backup entry can be put back; `WholeOK` that while no call failed each entry of
the table has the file it was made for.

`StoreImplemented` is the refinement: `Spec => ImplementsStore`, for any number of
objects, values, requests and saves, with rollback protection and without (the table is
then chosen by the swap count, for any modulus above three, through its roll-over).
A request takes effect in the write of the new table (`WriteTable`), or not at all; the
objects of the store are those of the table that a restart would choose. The invariant is

    StoreInv == IndInv /\ CountersInOrder /\ CrashesOK
                /\ (errors = 0 /\ ~twice => StoreOK)
    StoreOK  == VersionsOK /\ CreatingOK /\ ChoiceOK /\ LatestOK /\ AlignedOK
                /\ PreparedOK /\ SavingOK /\ SavedOK

`VersionsOK`, `LatestOK` and `AlignedOK` relate the versions of the two table files to the
counters (or the swap counts to each other) at each point of a save, so that the table in
use is the one a restart chooses (`ForceIsChosen`): the old one until the new one is
written, the new one from then on, also while counters 2 and 3 lag behind.
`SavingOK` says that the table about to be written differs from the one in force by the
request alone, `SavedOK` that the files still to be removed are in no table.
There is no hypothesis on power failures. The statement ends, with rollback protection, at
the second save in a row that a power failure interrupts (`twice`, finding 5); `CrashesOK`
relates `twice` to the number of interrupted saves.

`PsAssumption` says that the swap count has more than three values (it has 256) and of
the model values `None` and `Torn` that they are not numbers, files, entries or requests.

### Firmware update

`FwuServiceProofs` proves every property of the `fwu` run, for any components,
dependencies, failing accesses and reboots: `TypeCorrect`, `TrialsCanBeReverted`,
`FailedCanBeCleaned`, `DependenciesAreStaged`, `InstallIsExcluded` and the refinement
`StatesImplemented`. The invariant is

    IInv    == TypeOK /\ SlotsIntact /\ SlotsInUseAreFree /\ JobIsFresh
    FullInv == IInv /\ AcceptsTrials /\ MagicIsAsked /\ RejectsStaged /\ InstallsNeeded
               /\ StagedNeeded /\ UndoAfterFailure /\ InstallExcluded

`RevertImageIntact` alone is not inductive: a write or an erase looks at the state in
RAM, so one needs that a component that is in use for a new image is not on trial
(`SlotsInUseAreFree`; an unconfirmed factory image, which has no predecessor, has no
slot in use either), and an installation in progress writes the magic of components
it checked earlier, so its list has to consist of such components still (`JobIsFresh`).
The other parts say what a request of several steps works on: an accept on components
on trial, a reject on staged ones, an installation on a set that is closed under the
dependencies, the undo loop only after a failure; a boot magic is in a slot only because
an installation put it there (`MagicIsAsked`).

### NV counters

`NvCountersFlashProofs` proves `AreasDoAgree` and the refinement `StoreImplemented` for
any counters, sectors and numbers of power failures and failed accesses, from
`TypeOK /\ Current /\ Agree /\ (todo # << >> => Progress)`. `Current`: a backup
that does not count as stale equals the area in use. `Progress` says for each
point of restoring, backing up, creating and writing which sectors of which area have
the new contents and which the old ones. The abstract value of a counter is read from
the area that the next boot would use, so that it changes in the one access that makes
an area valid. Accesses may fail at any point; the invariant, `NvInv`, ends when a counter is
set between a failure and the next reset (`resumed`, finding 12).

### Crypto

`CryptoOperationsProofs` proves the properties of the `crypto` run for any number
of contexts, clients and objects (`ContextsKeepTheirOwner`, `ClientsAreIsolated`,
`NoContextLost`), type correctness and that a free context is clear
(`FreeContextsAreClear`). The invariant is
`TypeOK /\ AllSound` (a context is free and clear, or its contents belong to its client
and kind); `Effect(o)` states once what any request of an object may do to the table,
and isolation and `ContextsAccounted` follow from it. `ContextsAccounted` speaks of
regular operations: those of clients that leave their handles alone, cipher operations
excepted (finding 13).

### Only model-checked

Liveness under fairness (`RequestsAnswered`, `EveryCallReturns`, `PlacedCallReturns`) is
outside of what the prover handles. What ITS does after a flash operation failed or was
refused is checked by `its_fs_flash_error` only (`OtherFilesIntact` there goes through
both). That drivers that check refuse nothing but what follows a refused replacement
is not proved: it would need which cells of the scratch blocks are erased when.

## 5. Findings

Finding 1 is a run of its own. The others were met with the same modules under the
change given; to see one, change the configuration or the property as said.

1. `tfm_ns_mailbox_thread.c:80` (run `mailbox_thread_full`): `acquire_empty_slot` reads
   the empty slots, finds none and only then sets `is_full`. A reply interrupt in between
   frees a slot and does not wake the thread; if no other reply is outstanding, the thread
   sleeps with an empty slot and a queued request.
2. `ns_agent_mailbox_rpc.c:142` (`MCConnPool.cfg`, `FreeListExact` without
   its condition `~moved`): the mailbox agent frees connections outside of the scheduler
   lock, while `spm_ipc.c:252` argues that the pool needs no protection because there is
   only one instance that allocates. If a partition of higher priority than the agent has
   an interrupt, it can run in the middle of the free, allocate the head of the list, and
   the agent then stores back a list that contains the allocated chunk.
3. `its_flash_fs.c:295` and `:306` (`MCItsFsErrors.cfg` with `MaxErrors = 0`
   and `mode = "idle" => flash[scratch] = ErasedBlock(scratch)`): a refused replacement (larger than the maximum, or no room) has
   already programmed the deletion mark of the old file into the scratch metadata block.
   `its_flash_fs_mblock.h:421` assumes erased destinations. With drivers that check, every
   later set and remove fails until a restart erases the scratch blocks. No file is lost.
4. `its_flash_fs.c:348` (`MCItsFs.cfg` with `MaxErrors = 1`, `OtherFilesIntact`
   without its condition): when the
   write of the block metadata fails, `scratch_dblock` in RAM stays exchanged, unlike in
   `its_flash_fs_dblock.c:101`, which exchanges it back. The next update commits a header
   that names the live data block as scratch and the block is erased. Only layouts with
   dedicated data blocks are affected.
5. `ps_object_table.c:586` (`MCPs.cfg`, `ImplementsStore` without `~twice'`):
   power fails after the new table is written and before counters 2 and 3 are aligned.
   The restart accepts it by counter 1, removes the old table and does not align the
   counters. The next save increments counter 1 and power fails again before its table is
   written: the only table left matches neither counter 1 nor counter 3, and `tfm_ps_init`
   wipes the store or fails.
6. `ps_object_system.c:464` (`MCPs.cfg` with `MaxErrors = 1`, `Faults = {"set"}` and
   the property `[][call.op = "set" /\ call.old # None
   /\ call.err # "ok" => Objects'[call.uid] = Objects[call.uid]]_vars`): when the new object
   cannot be stored, the file id in `g_obj_tbl_info` is restored but not the tag, which
   the encryption has replaced. The old file is entered with the new tag and no longer
   authenticates.
7. `ps_object_system.c:485` (`MCPs.cfg` with the property `[][\A u \in Uids : Visible(u) # None
   /\ Visible(u).once => Visible(u)' = Visible(u)]_vars`): a set of a write-once
   object is refused but saves the table again; when that save fails, the entry that was
   just restored is deleted (old and new index are the same) and the file is removed.
8. `mailbox_agent_api.c:94` (`MCMailbox.cfg` without `NotStray`, `ReplyIsOwn`
   without `~stray`): `tfm_spm_agent_psa_close`
   does not set `client_data`, so that its answer goes to the slot of the last call on the
   connection, which may be another task's by now.
9. `psa_connection_api.c:109` (`MCMailbox.cfg`, `EveryCallReturns` without its condition on
   the call): a close of the null handle returns success without a message; the mailbox takes that for "the
   reply comes later", and the task waits for ever. So does a task whose call is of a type that
   `tfm_mailbox_dispatch` does not know.
10. `tfm_fwu_req_mngr.c:206` (`InstallExcluded` without its condition): an accept that
    fails leaves the component in use and in TRIAL; an installation looks at components in
    use for STAGED and REJECTED only.
11. `tfm_mcuboot_fwu.c:425` (seen in traces of the `fwu` run with failing accesses):
    `fwu_bootloader_mark_image_accepted`, when it fails at one component, erases `image_ok`
    of that component's area for each component before it; those stay confirmed, although
    the service keeps them in TRIAL.
12. `flash_otp_nv_counters_backend.c:419` (`MCNvCounters.cfg`,
    `ImplementsStore` without `~resumed'`): when the backup of a write failed,
    the next write, without a reset in between, rebuilds the sector from the old backup
    and a counter goes back.
13. `crypto_cipher.c:287` (two cipher operations of one client, and `Regular` without its
    exception for cipher operations in `ContextsAccounted`): a cipher update that fails releases the context but not the
    client's handle; the abort that must follow ends another cipher operation of the
    client that got the context meanwhile.

## 6. Not modelled

- PSA parameter checks, memory checks and panics of the SPM (they end the call or
  the system without a change of the modelled state), hybrid-platform scheduling,
  isolation boundaries, the handle encoding, I/O vectors (state of one message, used by
  one thread), the SFN backend (services are functions on the client's stack, there are
  no queues, signals or waits), the NS client extension (one caller at a time).
- ITS: encryption, the header upgrade from the previous file system version, the
  loss of the NAND block buffer before its flush, flash errors during start-up, torn
  header writes (a header counts as written with its last byte, the swap count), and what
  a NOR driver that does not check leaves in cells that it programs twice.
- PS: the limit of key usage, storage without encryption, the transition from an older
  format. The selection of the table by swap count (`Rollback = FALSE`) is in the model
  and in `StoreImplemented`, but in no run.
- Mailbox: the copies of I/O vectors, the validation of the queue's address, the remote
  calls of hybrid platforms, and what follows an answer in a wrong slot (finding 8).
- FWU: digests, manifests and the data of queries, and image data that a client writes at
  an offset inside the trailer of the slot (the magic and the flags lie in the slot).
- NV counters: other OTP elements, items that lie in two sectors, provisioning.
- Crypto: single-part functions and key management, which hand over to Mbed TLS (not in
  the repository).
- Boot loaders (sequential code around MCUboot, which is not in the repository),
  attestation and platform service (formatting and HAL calls), the GPT library, and the
  platform ports. Nearly all of the repository's lines are device headers and vendor
  drivers of the ports; what is modelled is the core in `secure_fw`, `interface` and
  `platform/ext/common`.

## 7. Plan

1. Proofs: ITS after a failed or refused flash operation (the phases of an abandoned
   plan), and which blocks are erased when, for drivers that check.
2. The mailbox composed with `RotConnection` in place of its own connections.
3. The I/O vectors of a message, the SFN backend as a stack, the conversion of handles.
