# NANOX-OS: TLA+ models and proofs

Models of the parts of NANOX-OS whose correctness depends on the order of
events: crashes between device writes, tasks and CPUs interleaving on shared
state, packets that are lost or late, calls that fail half-way. Every definition
follows the source; `PROJECT.json` maps each one to its lines.

## The system

From the bottom up: the kernel gives tasks memory, handles, messages and
devices; the program `bin/core` runs on it, takes requests from a host over a
serial line, keeps its records in an object store on a block device, and asks a
model provider over its own TCP, TLS and HTTP. `crates/` holds Rust parts for
several CPUs.

| Part | Source | Hard behaviour | Module |
|---|---|---|---|
| Object store | `lib/store.c` | power loss, failed writes and flushes, damage, full store | `Store`, `DurableStore`, `StorePromise` |
| Block device | `kernel/dev/blk.c`, `virtio_blk.c`, `virtio.c` | cached writes lost, torn, reordered; a device that fails or stops | `BlockDev`, `Disk` |
| Tasks, IPC, memory objects | `kernel/task.c`, `syscall.c`, `obj/`, `m3test.c` | lost wake-ups, death while blocked, leaks, starvation | `Kernel` |
| Handle tables | `kernel/obj/handle.c` | reuse of a slot, generation wrap, rights | `Handles` |
| Pages and address spaces | `kernel/mm` | allocation failing half-way, sharing of the kernel's half | `Memory` |
| Event log | `kernel/obj/event.c`, readers in `user/core/core.c` | a ring that overruns its readers | `Events` |
| Executor and agent loop | `user/core/core.c`, `engine.c`, `persist.c`, `agent.c` | repeated requests, unknown outcomes, restarts | `Executor` |
| TCP | `lib/net/tcp.c` | loss, duplication, reordering, zero window, wrap | `Tcp` |
| ARP, DNS, ping | `lib/net/net.c`, `user/core/m5net.c` | late and doubled replies, deadlines | `Resolver` |
| TLS 1.3 client | `lib/tls/tls13.c` | key updates, split and joined messages, early ends | `Tls` |
| Certificate paths | `lib/tls/x509.c` | a greedy search | `Chain` |
| HTTP, events, messages | `lib/http/http.c`, `messages.c` | a stream cut at any place | `Http` |
| Provider client | `user/core/provider.c`, `m5tls.c` | kept-alive connection, late answers, retries | `Provider` |
| Network card | `kernel/dev/virtio_net.c`, `virtio.c` | rings shared with the device, index wrap | `NetDev` |
| Random numbers | `lib/crypto/drbg.c`, `m5net.c`, `virtio_net.c` | poor or missing entropy, reseeding | `Rng` |
| Ticket lock | `crates/hw-smp/src/lock.rs` | wrap-around, handlers, FIFO | `TicketLock` |
| TLB shootdown | `crates/hw-smp/src/shootdown.rs` | timeouts, late acknowledgements, hot-plug | `Shootdown` |

Each module has the state of its component as variables named after the source's
structures, and one action per call, handler or loop turn that another actor
can come between. Functions that call one another inside such a step are
operators with the source's names.

How the modules fit: `Store` runs on `BlockDev` and implements `DurableStore`;
`Disk` is the kernel's device and takes only steps `BlockDev` allows
(`Implements`); `Executor` uses the store as `DurableStore` promises it.
`Kernel` counts pages and holds handles by index; `Memory` and `Handles` look
inside the two. `Provider` sees an HTTP answer as its first bytes, pings, and its rest;
`Http` reads one byte for byte, `Tls` carries the bytes, `Tcp` and `NetDev` carry
those. The interfaces between the network's layers are argued, not composed.

## Modules

**BlockDev.** `vol[b]` is what a read of block `b` returns; `media[b]` is the
set of contents the block may turn out to have if the power fails now. A write
adds its content and `Torn` to `media`; a flush reduces it to `vol`. A write that
fails may have done any part of itself.

**Store** extends it with `struct store`. `st_put` writes at once, so it is one
action per call; `st_format` and `st_commit` are split at every device call
(`CommitRoot`, `CommitBarrier`, `CommitSuper`, `CommitFlush`). A checksum verifies
iff the bytes are the ones it was computed from. `saved` and `doubt` are history:
the last root reported saved, and the roots whose superblock was written since.
The commit log of labels is left out. A failed read shows up as a block that
does not verify (`Reads`), for one block of one mount or recompute.

**DurableStore** is what a caller may rely on: commits are atomic, a saved one
survives power loss, one in doubt happened or did not. `StorePromise` has the
mapping. One thing in it is not obvious: a commit in doubt that a mount did not
find can still be found after a later power loss, until the next commit is saved.
Its superblock may sit in the other slot over an extent that did not reach the
disk; `st_mount` rejects it, and a later transaction may put the same payload in
the same block and so complete it (`Rejected`, `Reboot`). It is newer than what
is mounted, but the caller was told that its outcome is unknown.

**Disk.** One request page, ring indices modulo `Wrap`, a device that works in
its own time, the bounded cache of the crash-test layer with eviction, and crash
points with each way of losing blocks.

**Kernel.** One CPU; kernel code is not preempted, so a system call, or a kernel
thread between two points where it blocks, is a step. User programs do any
sequence of the calls their program allows. The controller (`nx_core_session`)
waits for Core and cleans up; the reaper and idle are tasks like others. Rights
that only gate data, and the data, are left out.

**Memory.** Four levels of tables as three (the two middle ones are alike).
Operations: boot hand-over of memory, task creation and end, memory objects,
mappings, device pages, each with the pool running dry at any allocation.
`mabs` is history: what was mapped and not unmapped.

**Handles**, **Events.** As the source; generations and the ring are small, so
wrap and overrun happen. How many events an answer has room for depends on the
request's id and is a choice (`Rooms`); an answer that is too long fails after the
cursor has moved (`over`).

**Executor.** An action of the engine runs from commit to commit, kernel call
to kernel call, wait to wait, because only there a power loss, an error or another
task can make a difference. The store fails, or ends a commit with an unknown
outcome and remounts to any state that may be on the medium. Answers are their
state; ids are sequences. The id of an agent's action is the request's, cut to make
room for a number (`run_tools`), so two requests may give their actions the same
ids (`Cut`).

**Tcp.** Both ends run the code; a byte is its number in its stream. Timers fire
when nothing is under way, and too early as one of the faults. **Tls.** A secret
is the transcript it comes from; a record names the key and number it was sealed
with. The server is an environment: it packs and splits messages in every
legal way, and in other scenarios gets one thing wrong. **Chain.** One turn of the
search per step, over all pools of an instance, against a reference definition
of a valid path. **Http.** Tokens for bytes; the reference reads the stream whole.
**Provider.** The server answers in order, late, never, without end, or ends the
connection.
**Resolver.** One operation at a time; replies come late, twice, out of order or
not at all. **NetDev.** Driver and device interleave on the rings. **Rng.** The
generator's state is the history of its seeds and outputs.

**TicketLock** has one action per atomic access, for two contexts per CPU: a
task and a handler that may interrupt it anywhere. `TryWindow` is an assumption,
not something the code enforces: fewer than `Wrap` (2^32) tickets are taken between
the load and the compare-exchange of one `try_lock`. **Shootdown** has one action
per atomic access of the main context of each CPU and of two service contexts.
Assumptions: memory is sequentially consistent; start and length of a range are
one word; an IPI to a CPU that is off line stays latched; all CPUs are targets.

A definition marked BROKEN is a plausible wrong version of the one after it. No
specification uses it; it shows that a property would notice.

## Runs

| Run | Checks | Result |
|---|---|---|
| `store_crash` | types, `CheckClean`, `Recoverable`, refinement of `DurableStore` | holds |
| `store_faults` | `AlwaysMountable`, refinement, `RetainedStable` with failing writes and flushes and two power losses | holds |
| `store_rot` | `CurrentIntact`, `RetainedStable`, `FreshGeneration` with a damaged block | holds |
| `store_unknown` | `RetainedReadable` with a failing flush | **violated** |
| `store_readerr` | `RetainedReadable` with a failing read | **violated** |
| `lock` | `MutualExclusion`, `ContextsSound`, `Fifo`, `EveryTicketServed` | holds |
| `shootdown_hotplug` | `FrameReuseSafe`, `SlotSound` | holds |
| `shootdown_live` | `HolderCompletes` | holds |
| `kernel` | `TasksSound`, `ResourcesExact`, `MemoryExact`, `HandlesSound`, `Lifecycle`, `TasksProceed` | holds |
| `executor` | `EngineSound`, `AtMostOnce`, `RecordsDurable`, `ActsAsNamed`, `RequestsAnswered`, `EventsExact`, `DiskSound`, `Implements` | holds |
| `executor_unknown` | `BothOrNeither` | **violated** |
| `network` | `TcpExact`, `TlsSound`, `ChainRight`, `HttpRight`, `ProviderSound`, `ResolverSound`, `CardExact`, `RandomSound`, `CallsEnd` | holds |

`kernel`, `executor` and `network` each check several modules: a behaviour picks
one of them in its initial state (`which`) and only that one moves, so the run
is as good as one run per module. Their properties are conjunctions of the
modules' own, under the names in the MC modules; the modules say what each
conjunct means.

Three disagreements between code and documentation:

* `store_unknown`. The flush after the superblock write fails; `st_commit`
  returns `ST_E_UNKNOWN`; the remount reads the new superblock from the device
  cache and frees what only older generations held; the next `st_put` overwrites
  it; the power fails before any flush. The durable generation mounts, and one
  it retains is gone. `docs/m4-store.md:238` and I1 in `lib/store.c` say a block
  is reused only after the commit that released it is durable. The current
  generation is never harmed (`CurrentIntact`, `ImplementsPromise`).
* `store_readerr`. A read error of a retained root in `recompute_used` leaves
  its extents unmarked ("conservative even if damaged" covers only the root's
  block), and they are reused although the generation is retained.
* `executor_unknown`. A commit with an unknown outcome leaves the engine's record
  with `persist = 0`, so later commits leave it out of `core/tasks`. If the remount
  found the new generation, the next commit saves the change without its record,
  against `user/core/persist.c:12` and `docs/m4-store.md:261`; a repetition of
  the request after a restart executes it again. `AtMostOnce` and `RecordsDurable`
  hold for every request that was not answered `OUTCOME_UNKNOWN`.

Observations without a run of their own:

* I6 (`docs/m4-store.md:186`, `lib/store.c:19`: the generation in the other slot
  is retained by the current one) is true on a device that does not fail
  (`Recoverable`, proved). After a failed superblock write and a power loss the
  other slot may hold the rejected superblock of a commit in doubt. Nothing
  saved is lost by that: `AlwaysMountable` and `ImplementsPromise` hold (proved).
* A device that completes a request after `POLL_LIMIT` writes into pages the next
  request uses, and its completion is taken for the next one's
  (`virtio_blk.c:86`). `Disk` has such a device (`late`); `DiskSound` fails with it.
* A failed eviction drops the oldest cached block (`blk.c:94`): `DiskSound` fails
  with a small cache and one device error. The cache is part of the crash tests.
* `op_poll` stores the new cursor (`core.c:773`) before the answer is written. If
  the answer is longer than `ENG_RESULT_MAX`, the request fails with
  `RESPONSE_TOO_LARGE` and `effects=unknown`, and the next poll begins after the
  events it would have told: they are lost without being counted in `lost=`, while
  `docs/ARCHITECTURE.md:112` says losses are registered. `EventsExact` therefore
  accounts for them apart (`over`); without that term it fails.
* `exchange` limits the time between two reads, not the whole: `docs/m5-net.md:221`
  says so. A server that sends pings for ever keeps `agent.ask` from returning.
  `CallsEnd` has this as its one exception (`EndlessAnswer`); without it TLC finds
  the endless answer.
* `udp_recv` returns the length of a datagram, and `net_dns_a` takes 0 for a
  time-out (`net.c:579`): an empty datagram from anyone ends the try at once. The
  deadline and the number of tries still hold.
* `exchange` returns `NXE_OK` with nothing assembled for a 2xx status other than
  200 (`provider.c:253`); `AnswerWhole` is stated for 200.
* `tcp.c:6` says out-of-order segments are dropped; `ooo_store` keeps some.
* If the task records cannot be read at start, the engine begins empty and the
  next commit replaces them (`persist.c:320`); `AtMostOnce` and `SavedStays`
  exempt the requests concerned.
* `FrameReuseSafe` still holds when `service` does not detect a torn read: a
  request is overwritten only after its initiator has dropped the slot.

### Bounds

* Store: 10 blocks, objects of up to two blocks, one object and one pin name,
  `Retain` 3 (one above the minimum that pruning keeps), four or five roots, one
  fault, one power loss; `store_faults` has objects of two blocks only, `Retain` 2,
  four roots, one fault and two power losses. Enough to fill the store, to prune,
  to drop a pinned generation from the history, to free and reuse its blocks. A
  transaction has one operation; several of them, and more of everything else,
  are left to the proofs.
* Lock: two CPUs, three ticket values, handlers and `try_lock` on one CPU.
  Shootdown: two CPUs, one page, two generations, one CPU going off line. In
  both runs an initiator has the IPI masked, so that it services others only
  from its own spin loop; an IPI nested in a service call occurs in a CPU that
  goes off line. Initiators that can be interrupted anywhere are left to the
  proofs, which hold for both.
* Kernel: three user slots, four ids (so one slot is used again), one endpoint
  with a queue of one, one memory object, seven pages for tasks of two, one wait
  of the clean-up (100 in the source) before it gives up; three
  programs: IPC and killing, sharing memory, spawning. Memory: a map with room for
  one task and a half, two once boot memory is reclaimed; seven operations. Handles:
  two tables of two slots, two generations, five calls.
* Executor: two engine slots (records are evicted), two boots, one commit in
  doubt, one known task, three rounds of the agent with one tool call each, two
  agent requests whose actions have the same ids; every operation occurs in some
  workload. Events: a ring of three, five events, answers with room for one or two. Disk:
  three blocks, two values, three calls, indices modulo 4.
* Tcp: up to four bytes one way or two each way, windows of two to four,
  segments of one and two, sequence numbers modulo 16 that wrap, one or two faults, three retries. Tls: 22 servers,
  one time-out, one write. Chain: up to two intermediates with every flaw, one
  list of three. Http: about 90 answers in all framings, pieces of 1, 2, 3 and 7
  tokens. Provider: two asks, a probe, two attempts. Resolver: two operations, one
  fault, nine ticks. NetDev: two buffers, five frames in, two out, indices modulo
  4. Rng: seeds of five bits, four calls.

Deadlock is not checked where a bound, or a caller that does not call, ends a
behaviour; the liveness properties say that nobody is stuck.

### Fairness and environment

Weak fairness of what the processor runs: kernel code and due ticks (`Kernel`),
the executor's next step while a request is open (`Executor`), each call's polling
loop (`Tcp`, `Tls`, `Provider`, `Resolver`, `Rng`). The link delivers or loses what
is on it, and a scenario has fewer faults than retries (`Tcp`). The TLS server
goes on; the provider, name servers and peers of a ping need not, and that the
provider does not go on for ever is part of `CallsEnd`, not an assumption. `TicketLock`:
strong fairness of each context, since handlers do not arrive so often that what
they interrupt never moves. `Shootdown`: weak fairness of each CPU's due steps and
of taking an unmasked IPI; `HolderCompletes` is checked with timeouts off, the
harder case. User programs need not do anything.

Of the environment: a disk, card or entropy device answers within the driver's
limit or never again; a TLS server does not let a handshake message span a change
of keys; cryptography is ideal.

## Proofs

Every theorem is about the module that TLC runs, for all values of the constants
under the assumptions named here. The bounds on faults, calls and generations
are constants as well, so "any number" below means any bound. Each theorem
`Spec => []P` rests on an inductive invariant; the ones that are not `P` itself
are explained.

**Store** (`StoreProofs`, `StoreDurability`, `StoreSanity`), from
`NBlocksAssumption` (more than two blocks) and `StoreAssumption` (types, finite
sets of names, `Retain` at least 2):

| Theorem | Property | Faults |
|---|---|---|
| `TypeCorrect` | `TypeOK` | any |
| `CurrentStaysIntact` | `CurrentIntact` | any |
| `GenerationsAreFresh` | `FreshGeneration` | all but failing reads |
| `RetainedStaysReadable` | `RetainedStable` | all but failing reads |
| `SavedStoreMounts` | `AlwaysMountable` | failing writes and flushes |
| `StoreKeepsItsPromise` | `ImplementsPromise` | failing writes and flushes |
| `CheckFindsNothing` | `CheckClean` | none |
| `StoreIsRecoverable` | `Recoverable` | none |

Power may be lost at any step in all of them. The restrictions are necessary: a
failed read hides a superblock from `st_mount` and retained extents from
`recompute_used` (`store_readerr`); a damaged medium can lose what was saved; a
failed flush can cost a retained generation (`store_unknown`).

* `CurrentIntact` does not say that its blocks are marked used, so an allocation
  might return one, nor that what a commit makes current is in place. `Intact`
  adds this. Every write goes to a free block or to a slot (`AllocFree`), hence
  touches none of them; a commit recomputes `used` to cover the new root
  whatever its reads return (`RecomputeUsedCovers`).
* `SlotInv` ties the slots to the mounted root: the current slot names it, no
  slot has a generation above `maxGen`, a commit's history begins with the root
  it is built on. Freshness follows from it.
* `Covered` says that the blocks of every retained generation that loads are in
  use, so that no later write touches them. `RetainedStable` follows from it.
* `DurInv` is what makes the store mountable and the refinement true. Its core is
  `Durability`: either the store is `Fresh` from `st_format`, or it is `Anchored`.
  An anchor is a slot whose superblock is on the medium for certain, names a
  root whose blocks are on the medium for certain and in use, is at least as
  new as what was saved, and such that the other slot can only hold something
  older or a commit in doubt built directly on it. After any power loss
  `st_mount` thus finds the anchor or its successor in doubt (`AnchorPick`,
  `RecoveredKnown`). `CommitBarrier` is needed to keep the anchor, the final
  flush to move it.
* `SaneInv` says that every root `st_commit` builds passes `root_sane`: numbers of
  objects, oids and versions, order of the history, extents that do not
  overlap. `StoreSanity` proves it; cardinalities come from the library.
* `RetInv` adds, for a device without faults, that the mounted generation and all
  it retains are clean and `used` is exactly their extents, and that whatever
  the medium turns out to hold is a good disk (`GoodDisk`).

**Disk** (`DiskInvariant`, `DiskProofs`): `DiskIsSound` (`DiskSound`) and
`DiskIsABlockDevice` (`Implements`), from `DiskConstants`: positive sizes, at
least two values of a ring index, no answer after a time-out, and no full cache
on a device that can fail; the last two are the observations above, where the
properties fail. The invariant follows a request around the ring (`Asked`,
`Ring`, `Got`, `Done`): what is waited for, what the device has of it, and what an
answer says about the disk; `FlushInv`, `AckInv`, `WriteInv` and `CrashInv` say how
far a loop over the cache has come. With `StoreKeepsItsPromise` this joins the
layers: the store keeps its promise on `BlockDev`, and the kernel's device, up to
a crash point, is a `BlockDev`.

**Handles** (`HandlesProofs`): `HandlesAreSound` (`HandlesSound`), from
`HandleConstants` (fewer than 256 slots, since `encode` packs the slot into a
byte). `Aged` is the strengthening: the generation of a slot tells how often it
was freed since a value was handed out, up to `GenMax`.

**Shootdown** (`ShootdownProofs`): `FramesAreSafe` (`FrameReuseSafe`) and `SlotIsSound`
(`SlotSound`), from `ShootdownAssumption` (finitely many CPUs), with or without
timeouts and masked IPIs. Between the flush of a CPU and the token of its
initiator lie a service call, an acknowledgement and a wait; `AckInv`, `WaitInv`
and `TokenInv` say at each of them which CPUs can no longer reach a retired
frame, and `GenInv` and `ReqInv` that an acknowledgement of the generation under
way is for the request under way. Neither the sequence counter nor the
comparison of CPUs in `release` is needed.

**TicketLock** (`TicketLockProofs`): `Exclusion`, `ContextsAreSound` and
`GrantsAreFifo`, from `LockAssumption` (more ticket values than CPUs) and
`TryWindow`. `QueueInv` says that the contexts with a ticket form a queue with
consecutive tickets from `serving` on; `LagInv` that what a `try_lock` has loaded is
exactly as old as the number of tickets taken since.

Where a proof needs a least element (the first free slot, the newest write in
the cache) it uses the well-foundedness of the naturals.

Only model-checked: all liveness properties, which are outside what the proof
system supports; `Kernel`, `Memory`, `Events`, `Executor` and the network. `Http`
defines recursive operators, which keeps it out of the proof system.

## Not modelled

* Cryptographic primitives, checksums, JSON, DER and the request language:
  functions of bytes without state between calls. The models take what they
  compute as given (a signature verifies or not, a field has a value).
* Boot: UEFI loader, checks of the boot information, ELF plans, the initramfs,
  PCI, ACPI and device set-up: straight-line code that runs once. Only the
  hand-over of memory is in `Memory`.
* Frame formats and checksums of IP, UDP and ICMP; round-trip estimates of TCP.
* The Rust crates other than the lock and shootdown (`net-tcp`, `net-stack`,
  `hw-iommu`, AP startup): the C system that runs does not use them. The IOMMU's
  invalidation queue and AP startup would be next.
* The provider's configuration and credentials, the request's JSON, telemetry.
* Self-tests and host tools.

Next to prove: exact references in `Kernel` (`RefsExact`), in-order delivery of
`Tcp`, and at-most-once execution in `Executor`.
