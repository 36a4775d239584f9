# A TLA+ model of the RK322x NAND port

The repository brings the vendor NAND of an RK322x TV box up under a mainline
kernel. Its core is a block driver written around Rockchip's closed flash
translation layer: a single-threaded, non-reentrant blob that several kernel
contexts call. Beside it are a read-only translation layer that is to replace
the blob, the tool that recovers the map from the raw flash, and a port of
netpoll and netconsole. This directory models them, checks the models with TLC
and proves their main invariants with TLAPS.

## The system and its parts

| part | source | here |
|---|---|---|
| block driver: requests, GC thread, provision thread, load/unload, power management | `rknand-port/rk_nand_blk.c` | `RknandBlk` |
| contract of the block layer with a driver | (external: blk-mq) | `BlkMqQueue` |
| controller glue: misc devices, driver registration, callbacks | `rknand-port/rk_nand_base.c` | `RknandBlk` |
| controller glue: flash-ready wait and interrupt | `rknand-port/rk_nand_base.c` | `NandcReady` |
| FTL blob | `rknand-port/*.S` | external: its visible effects only |
| kernel shims | `rknand-port/rknand_shims.c` | not modelled: stateless |
| read-only FTL: binding, map expansion, sector reader | `ftl/rk-ftl.c` | `RkFtl` |
| what the read-only FTL promises its readers | (abstract) | `ReadOnlyDisk` |
| OOB decoding and version order; the L2P scan | `ftl/rk-ftl.h`, `ftl/rk-ftl.c`, `tools/l2p-scan.py` | `L2pScan` |
| netpoll port: log packets sent from any context | `netcon-port/netpoll.c` | `Netpoll` |
| what netpoll promises its caller | (abstract) | `MessageChannel` |
| netconsole port: the list of log targets, their life and locking | `netcon-port/netconsole.c` | `Netconsole` |
| a target's parameters and the packets of a message | `netcon-port/netconsole.c`, `netcon-port/netpoll.c` | `NetconsoleTarget` |
| boot image tools, diagnostics, `l2p-extract.py` | `tools/*.py` | not modelled: sequential file output |
| build, deployment, overlays, patches, U-Boot, WiFi | `env/`, `scripts/`, ... | not modelled: recipes and data |

(Paths in the table are below `src/drivers/nand-rk322x/` or `src/`.)

How they interact. `insmod` registers the platform driver, initialises the blob
and starts a *provision thread*, which formats a blank chip without holding any
lock, adds the disk, then brings up `/proc/rknand`, the two misc devices and the
*GC thread*. From then on the blob is entered by block requests
(`rk_nand_queue_rq`, on any CPU), by ioctls of the misc devices, by the GC thread
and by the suspend, resume, shutdown and exit paths. One mutex
(`rknand_device_lock`) is meant to serialise them. Some calls do without it: the
format, `rk_ftl_de_init` at shutdown and at rmmod, and the reader of `/proc/rknand`.
Inside the blob a program or
an erase waits for the flash through `wait_for_nand_flash_ready`, woken by
`rk_nandc_interrupt`.

The other way to the data is without the blob. `l2p-scan.py` reads the
out-of-band words of every page and rebuilds the map in user space. `rk-ftl.c`
is a translation layer above the mainline NAND driver that shows the logical
sectors as a read-only disk; it reads the vendor's two-level map.

Apart from the NAND, `netcon-port/` builds the kernel's netpoll and netconsole
into one module, `rk_netcon`; the configuration in `env/config/` leaves
`CONFIG_NETCONSOLE` unset. Console messages walk the list of targets in any
context; each target owns a netpoll on a net device; configfs files, device
events and unload change the targets meanwhile. The configfs part of
`netconsole.c` is compiled only with `CONFIG_NETCONSOLE_DYNAMIC`; the model has it.

## Modules

### `RknandBlk` — the driver

One program counter per context, one action per stretch of code between two
points where another context can interfere: a lock operation, a shared flag, a
blob call.

| variable | code |
|---|---|
| `mutex`, `qlock` | `g_rk_nand_ops_mutex`, `nand_ops->queue_lock` (their holder) |
| `rqList`, `rq`, `cur` | `nand_ops->rq_list`, the life of each request, the local `req` of `rk_nand_blktrans_work` |
| `gcDo`, `reqEmpty` | `rk_ftl_gc_do`, `req_empty_times` |
| `quit`, `threadExit`, `gcStarted`, `initialised` | `nand_ops->quit`, `nand_ops->thread_exit`, `rknand_gc_started`, `rk_nand_dev_initialised` |
| `capacity`, `attempt`, `slot` | whether `rk_ftl_get_capacity()` is not 0; the retry loop; the vendor slots read |
| `up`, `text` | what is registered with the kernel; whether the module is still mapped |
| `dirty` | the blob's write cache holds pages that are not yet programmed |
| `sub`, `user`, `prov`, `gc`, `pm`, `off`, `mod` | where each context is |

Actions are grouped by context: `Mod*` (load and unload), `Prov*` (provision
thread), `Gc*` (GC thread), `Sub*` (a task in `rk_nand_queue_rq`), `User*`
(ioctls), `Pm*` (suspend, resume), `Off*` (shutdown). `Inside(c)` says that
context `c` is in a blob call.

Abstractions: sector data, sizes and the split of a request into segments are left
out, because no property depends on them: a request is served by one blob call that
succeeds or fails. What `rk_ftl_init` allocates is one resource; whether
`rk_ftl_de_init` frees it is not to be seen outside the blob. The blob may change the
capacity whenever the provision thread calls it, and a write may or may not leave
pages in its cache. `req_empty_times` is counted to 7, after which nothing depends on
its value. User tasks are frozen around a suspend, as the kernel does; the driver's
own threads are not freezable and keep running. `BlobSerial` is about the contexts of
normal operation: requests, ioctls, the provision and the GC thread. The two calls of
`rk_ftl_de_init` take no mutex (`rk_nand_blk.c:962`, `:999`) and may meet a request or
an ioctl: only the GC thread is kept away, and only at shutdown
(`JoinedBeforeDeInit`). The reader of `/proc/rknand` takes no lock either; it is not
modelled.

`Failures` is the set of registrations and allocations that may fail, `Events`
the administrative events that may happen. Both are parameters so that a run can
concentrate on one question; the proofs hold for every value.

### `BlkMqQueue` — what the driver promises

The set of requests that hold a tag. A request is issued while a tag is free, and
ended once; with fairness every issued request is ended. `RknandBlk` implements
it under `outstanding <- Tagged`.

### `NandcReady` — the flash-ready wait

A thread inside the blob starts an operation, resets the completion flag, arms
the interrupt, checks whether the flash is ready already, and otherwise sleeps.
The handler's reading of the status, its disabling of the interrupt, its setting
of the flag and its wake-up are four steps, because the handler runs on another
CPU and the flash-ready check lets the thread continue, and start the next
operation, while a handler of the previous one is half-way. Suspend switches the
waits to polling (`sched`) before it takes the mutex, resume switches back after
it has released it. The blob's part was read from `rk_zftl_arm32.S` and is
external. `BlobSerial` of `RknandBlk` is the reason one thread is enough here.
`entries` is the only auxiliary variable: interrupts taken since the last arming.

### `Netpoll` — sending and the deferred queue

State: `dev->npinfo` (`npinfo`), for each `netpoll_info` its reference count and
stage of life, its `txq`, whether `tx_work` is pending and where `queue_process`
is (`work`, with the message in its `hand`); the one sender (`send`; netconsole
sends under `target_list_lock`); the skb pool; the device's transmit queue
(`stopped`) and interface (`running`). Messages are numbers, and `sent` and
`dropped` record their fate. `__netpoll_send_skb` is split where another CPU can
come between: reading `npinfo`, looking at `txq`, each try, queueing, scheduling.
The RCU callback takes four steps, after a grace period: a sender that has read
the pointer has returned. What a worker does with a freed `netpoll_info` is
undefined; the model stops it there.

### `MessageChannel` — what netpoll promises

Messages are accepted one by one, and each is sent once or dropped once, never both
and never taken back. Neither an order nor a delay is promised: a message that
finds `txq` empty goes out at once, past one in the hand of the worker (the run
`order`). `Netpoll`
implements it under `accepted <- Msg`; `sent` and `dropped` are its own.

### `Netconsole` — targets

State: the target list (`list`), for each target `enabled`, `extended`, the device name,
whether `np.dev` is set, the device references held and the `config_item`
references; one program counter each for `enabled_store`
(`dynamic_netconsole_mutex`), `rmdir`, the event handler (`rtnl`) and the writer
(`target_list_lock`); the device; how far the module is loaded. netpoll appears by
its effect on a target (`Link`, `Unlink`). Released locks are where actions end:
`netpoll_setup` gives up `rtnl` to wait for a carrier, `enabled` is set after it,
the event handler gives up the list lock to clean up. The handler's walk is modelled
step by step: `evLeft` are the targets it has still to look at; it takes the lock
(`EventLock`), passes by a target that is not on the device (`EventPass`), or pins one
that is and drops the lock (`EventFind`), cleans it up, takes the lock again and
restarts from the head (`EventClean`), and returns when nothing is left (`EventEnd`).
`stale` are the targets whose `np->dev` a failed `__netpoll_setup` has left set, which
`Netpoll` leaves out.

### `NetconsoleTarget` — parameters and packets of one target

State: the flags `enabled`, `extended`, `release`; `np.ipv6` and the two
addresses, each as the family of its first 32 bits and of the rest, because
`netpoll_setup` tests only the first 32 bits for "not set"; the ports and the
hardware address as one parameter; the addresses the device has; the message
being sent, how far, and its packets. Every store of configfs is an action with
the guard and the partial writes of the code: an IPv6 address followed by other
text is written and then refused. `AllocParamTarget` is the option string. A
message is a length and the place of its `;`. `WriteFrag`, `SendExtWhole` and
`SendExtFrag` are the loops of `write_msg` and `send_ext_msg_udp`, with the
lengths `scnprintf` gives. `slips` is history: how configfs has mixed the
families. Locking and life are those of `Netconsole`, so a store is one step here.

### `RkFtl` — the read-only translation layer

State: where `rk_ftl_add_mtd` or `rk_ftl_remove_dev` is (`add`), what is
allocated, `region_to_ppa`, the loop counter `region`, `l2p`, the page buffer and
`page_buf_lpn`, `mbd.lock`, and where each reader is. The bind takes one step per
allocation and per region; each allocation, each page read and the registration
may fail. A page's contents are named by its number. A failed read leaves the
buffer as it was or overwritten. The core of the kernel that calls the layer is
external: it holds the lock around `rk_ftl_readsect`, and
`del_mtd_blktrans_dev` returns when no request is being served.
`rk_ftl_map_recovery` sets every region to `INVALID` and has a TODO where it is
to walk the map blocks; `RegionTables` is the set of tables it may leave, the one
of today's code among them. `holes` (regions whose map page could not be read)
and `torn` (a failed read has overwritten the cached page) are history.

### `ReadOnlyDisk` — what the translation layer promises

The contents are settled before the disk opens and stay what they are until it is
gone; a read is answered once, with its sector or an error; the disk goes only when
nobody is reading. One weakness of the code is part of the promise: after a failed
read, and until the page buffer has been refilled, an answer may be any sector
(`spoiled`). `RkFtl` implements it: the disk is open while `add` is `live`, its
contents are what the map pages say (`Sector`), a reader inside `rk_ftl_readsect` has
asked, and `spoiled` is `torn`.

### `L2pScan` — the newest copy of a page

State: the flash, the loop counter, the map. A page has an age, the number of the
write that made it, which only the model knows; its version is the age on the
wrapping counter, its words are rotated as the controller driver shows them, and
the scan sees only those (`ReadOob`, `VerNewer`). Which word holds the magic is taken
from the two programs that decode it, `rk-ftl.h:64` and `l2p-scan.py:41`: step 0, shown
as word 7. `docs/rknand-re/phase-a-plane-interleave.md:70` says of the board's flash
that word 7 is a footer common to data and system pages and that the magic is in
sys-word 2. If so, the scan takes system pages for data pages, which the model does not
show: its pages with another magic are skipped. `Seek` is the offset in 32 bits.
`NewestPerLpn` compares the map with the ages.

`MCRknandBlk` gives TLC the model values and the symmetry of submitters and
users; `MCRkFtl`, `MCL2pScan` and `MCNetconsoleTarget` give it a flash, the
contents of a flash and the messages. `*_proofs` hold the theorems.

## Runs

All are complete explorations of the instance.

| run | instance | shows |
|---|---|---|
| `driver` | 2 submitters, 1 user, every event and every failure | requests, ioctls, provision and GC thread enter the blob one at a time; suspend is quiet; no request is stranded or served twice; an idle disk allows GC; shutdown joins the GC thread, waits only for a thread that will answer, and de-initialises after it has left; a failed load is unwound but for what `rk_ftl_init` holds |
| `live` | 2 submitters, shutdown, a GC thread that may not start, fair | the driver implements `BlkMqQueue`, liveness included; provisioning ends, shutdown returns, the write-back window works |
| `ready` | one thread, the handler, suspend, fair | no lost wake-up, no interrupt storm, every operation ends |
| `netpoll` | 2 netpolls, 2 `netpoll_info`s, 2 messages, interface up and down, fair | netpoll implements `MessageChannel`; no message is lost, doubled, or both sent and freed; the worker sends no message past an older one; a queued message has its work, and is sent or freed in the end; a sender's `netpoll_info` is not freed under it |
| `netconsole` | 1 parameter target, 1 configfs target, 2 names, fair | device references balance whoever cleans up; no freed target is used; names follow renames; a target being sent to is left alone; the walk of an event, restarted after every cleanup, ends and leaves no target on the device |
| `ftl` | 2 readers, 4 pages in 2 blocks, 2 regions of 3 and 1 pages, 4 region tables, fair | the layer implements `ReadOnlyDisk`: settled contents, every read answered once with its sector or an error; the map is whole when the disk appears and nothing is stored beyond it; the cache is what it says; nothing is used after it is freed or kept after an unbind; an unbind ends |
| `target` | the code's lengths, 14 messages around them, every store, fair | addresses of one family; the release only on extended messages; packets tile the text and fit; no message is given up, each ends |

Five runs check what a comment or a document says, and fail:

| run | what is said | what the code does |
|---|---|---|
| `format` | nothing that can re-enter the blob exists during the format (`rk_nand_blk.c:81`) | suspend enters it: the format does not hold the mutex |
| `rmmod` | the module is never freed under a running thread (`rk_nand_blk.c:867`) | `rknand_dev_exit` clears the flag that `nand_blk_unregister` tests first, so nothing is joined |
| `writeback` | the cache is written back after 100 ms of idling (`rk_nand_blk.c:399`) | a request that the GC thread does not sample does not restart its counter; its pages stay in the cache |
| `scan` | every page's OOB is scanned and the newest version per LPN kept (`l2p-scan.py:4`) | `req.start` has 32 bits: above 4 GiB the first half is read again, under the page numbers of the second |
| `order` | "don't get messages out of order" (`netpoll.c:344`) | a message that `queue_process` has dequeued is not on `txq`: the next one finds `txq` empty and is sent first |

An audit of the board's flash in `docs/rknand-re/phase-a-plane-interleave.md` finds
every logical page twice, exactly half the device apart and with identical words,
which is what `scan` would make of an 8 GiB device. The document explains it by
the layout of the planes and says of one page that the copy in the upper half is
the real one; the model does not decide between the two.

More things the models reach are named as exceptions in the properties they
limit:

* a shutdown between `kthread_run` and the assignment of `rknand_gc_started`
  does not join the running GC thread (`ShutdownJoinsGc`);
* a `queue_process` that runs when its `netpoll_info` is freed is not waited for
  (`QueuedIsSettled`);
* an unregister between `netpoll_setup` and `nt->enabled = enabled` leaves a
  target enabled without a device, and the next message faults (`EventEnds`);
* a `__netpoll_setup` that finds no memory leaves `np->dev` set, and the next
  event puts a reference the target does not hold (`RefPerTarget`);
* a page read that fails overwrites the page buffer while `page_buf_lpn` still
  names the page before, whose next read takes the fast path (`CacheHonest`,
  `DiskImplemented`);
* an IPv6 address stored beside an IPv4 one, be it one an earlier setup filled in,
  or refused after it was written, gives an enabled target two families
  (`OneFamily`);
* a message that with the release is exactly `MAX_PRINT_CHUNK` long ends in a NUL
  in place of its last byte (`MessageWhole`).

### Bounds

* Two submitters: the request list is drained by whoever holds the queue lock, so
  every interference is between a context that serves and one that appends. One
  tag is what the driver configures (`queue_depth = 1`); the proofs are for any
  number.
* One user: users interfere only through the mutex, like submitters.
* `MaxAttempts` is 1 or 2 (10 in the code): the loop's body does not depend on
  the number, and its last iteration is reached.
* Two messages: an overtaking, a duplicate or a stranded message needs two; `order`
  has one netpoll and one `netpoll_info`, so that only one `txq` is at stake. Two
  `netpoll_info`s: a retired one beside its successor. `Tries` 2 (80 with the
  configured `HZ` of 250) and `PoolSize` 1 (32): the loop is left after its first
  and its last try, and the pool is met empty and full.
* Two targets: the event handler's walk restarts and meets another; one from each
  origin. One store and one `rmdir` at a time, as the code's mutexes have it.
* Two readers: one that fills the buffer between another's lookup and its copy.
  Regions of three pages and a capacity of four: the last region is partial. The
  map pages have a hole, a PPA with the SLC flag and one outside the device.
* `target` has the code's own lengths (1000 bytes a packet, 1502 an skb of the pool,
  and the 454 bytes of headroom and tailroom that leave no byte over) and messages one
  byte below, at and above what fits; a release of 8 bytes.
* `scan`: four pages of which offsets reach two, as the 8 GiB device has twice
  what 32 bits reach; versions on a counter of 8 that wraps among them.
* The proofs remove these bounds for the safety properties.

### Fairness

A runnable thread runs, a blob call returns, an asserted interrupt is taken, a
timeout expires. Lock acquisition is strongly fair: kernel spinlocks queue their
waiters and a mutex is handed over to a starved waiter. A task of `RknandBlk` has one
action at each of its program points and is interrupted only at a lock, so strong
fairness of the task as a whole says just that. A network device
restarts a stopped queue and takes a message it is offered over and over. A
callback that has begun runs to its end: a bind, an unbind, the sending of a
message; a reader gets `mbd.lock`, a mutex.
Nothing else is assumed of the environment: no request, ioctl, suspend, resume,
shutdown, rmmod, message, store, bind or device event has to happen.
`live` and `writeback` do not check for deadlock: a driver
whose chip has no capacity, or whose threads did not start, idles for good. Nor
does `netconsole`: a writer that faults keeps the list lock; nor `scan`, which ends.

## Proofs

`RknandBlk_proofs` proves, for all sets of submitters and users, all queue
depths, retry bounds, events and failures:

* `TypeCorrect`, `Inductive` — the types and the invariant `IInv`;
* `BlobIsSerial`, `SuspendIsQuiet` — isolation of the blob;
* `NoneStranded`, `ServedOnce`, `QueueIsSafe` — requests, and the safety part of
  the refinement of `BlkMqQueue`;
* `JoinCompletes`, `JoinPrecedesDeInit`, `QuitStays` — shutdown;
* `IdleIsAllowed` — the GC flag.

`RknandBlk_life_proofs` extends it with the module's life:

* `FailedLoadsAreUnwound` — from `LoadInv`, what is registered at each point of the
  load; what `rk_ftl_init` holds is excepted, since `rknand_dev_init` returns without
  `rk_ftl_de_init` when `nand_blk_register` fails;
* `ShutdownsJoinGc` — from `GcKnown`: until a shutdown, a GC thread that exists is
  marked as started or about to be marked;
* `TextOutlivesWithoutRmmod`, `FormatIsAloneWithoutPm` — what the runs `rmmod` and
  `format` refute holds where `Events` has no unload, and neither suspend nor
  unload: these events are what it takes. `EventInv` ties the points of the unload and
  of the suspend to their events;
* `ProvisionIsBounded` — the safety half of `ProvisionEnds`: `StepsLeft`, a natural
  number that starts at `MaxAttempts + 20`, falls with every step of the provision
  thread, and no other context raises it.

Assumptions: contexts are distinct (`ContextsDiffer`), the bounds are natural
numbers (`BoundsAreNat`), events and failures are known ones
(`EnvironmentKnown`).

The argument. None of the safety properties is inductive alone. `BlobSerial`
needs two reasons at once: contexts that take the mutex are separated by it
(`MutexInv`: a context at a program point behind the lock is its holder), and the
provision thread, which formats without it, is separated by time
(`ProvisionFirst`: until it adds the disk, no request, no ioctl and no GC thread
exists). The request properties rest on `QueueInv`: the list is emptied before
the queue lock is first dropped, so it holds at most one request, that of the
lock's holder, and every context ends up serving its own. Shutdown rests on
`GcInv`, the life of the GC thread as the flags tell it. `IInv` is their
conjunction. The step lemmas (`MutexStep`, `ProvisionStep`, `PmStep`, `GcStep`,
`QueueStep`) take the conjuncts one at a time, over the actions grouped by
context.

`NandcReady_proofs` proves the types (`ReadyInvariant`), `WaitIsWoken` and
`NoStorm` from `ReadyInv`: from the arming on, the flag is set, or the interrupt
is armed, or a handler is about to set the flag. It is inductive because the
handler disables the interrupt before it sets the flag, and the blob resets the
flag before it arms.

`Netpoll_proofs` proves, for any finite set of netpolls and any number of
`netpoll_info`s and messages, the types, `SendersInfoIsAlive`, `QueuesHaveWork`,
`WorkersKeepOrder`, `MessagesAreOnce` and `ChannelIsImplemented`. Its `IInv` adds to
them that no more netpolls share a `netpoll_info` than are set up (`RefInv`, needed to
bound the count from above), what the sender knows at each of its points, that an
unused `netpoll_info` has an empty queue, and `OrderInv`: the queue is in order behind
the message in the worker's hand, and the sender's message is newer than both. Order
alone is not inductive: a requeue in front and an append at the end need the bounds on
either side. Assumptions: the netpolls are a finite set, the bounds natural numbers.

A second invariant, on top of `IInv`, follows the messages (`PlacesInvariant`).
`PlaceInv`: an accepted message is with the sender, waits with one `netpoll_info`,
or is settled, and a settled one is nowhere else. `RoomInv`: in a queue in order, the
message at position `k` is at least the `k`-th. Every step is one of a few
things done to the places (`PlaceStep`): a message is accepted, is queued, is
delivered, or some are dropped. Those are also the steps of `MessageChannel`, so
`PlaceStep` serves the invariant and the refinement. What a queue's append, tail and
put-back do to its set of messages is shown position by position
(`MessagesOfAppend`, `MessagesOfTail`, `MessagesOfPutBack`), without induction.
`DirectSendOvertakesOne` bounds what `order` finds: from the empty `txq` the sender has
seen on, its `netpoll_info` has one waiting message at most (`TryInv`), so a direct send
overtakes no second one.

`Netconsole_proofs` proves, for any sets of targets and names, the types,
`TargetsHoldOneRef`, `FreedTargetsAreUnused`, `SendsAreUndisturbed`,
`NamesFollowDevice` and `EventsClearTargets`. Four contexts may clean up one target,
and each has looked at it before it acts. The invariant says what each may count on
meanwhile: where the targets of a store, an `rmdir` and an event are (`PlaceInv`);
that configfs and the event handler hold one `config_item` reference each
(`CountInv`); that a target with a device reference is enabled or in the hands of
`enabled_store` (`HeldInv`), so an `rmdir` that finds it disabled has nothing to put;
that a dropped target has left the device (`DropInv`); and that a message goes to an
enabled target (`WriterInv`). `WalkInv` is what `EventsClearTargets` needs besides: a
listed target the walk has passed is off the device, and stays off, because a setup
needs the rtnl and the list does not change under the list lock. `EventsProgress` is
the safety half of `EventEnds`: while an event is handled no target comes onto the
device, because every setup needs the rtnl, and each cleanup takes off one that was on
it, so the walk restarts at most once for each target.

`NetconsoleTarget_proofs` proves, for every message, packet size, release and build
option, the types, `FamiliesAgree`, `ReleaseIsExtended`, `TextIsTiled`, `PacketsFit`,
`MessagesAreWhole` and `ParamsAreFrozen`. `ParamInv` extends the agreement of families
to disabled targets, where the stores happen. `MessageInv` adds that a message that
fits goes in one packet. `PacketsAreFew` is the safety half of `MessageEnds`: every
packet carries text, so a message ends within as many packets as it has bytes, and one
that is not extended takes as few as can be. Assumptions: printk's header, the release
and the longest fragment header leave room for text (`RoomForText`); for `PacketsFit`,
that the device's headroom leaves room in an skb of the pool (`DeviceFits`), which the
code does not check.

`RkFtl_proofs` proves, for every geometry, set of readers and contents of the map, the
types, `MapIsComplete`, `CacheIsHonest`, `MemoryIsOwned`, `SectorsAreMapped` (a sector
returned without an error is the one the map names) and the refinement,
`DiskIsImplemented`. `BindInv` says what is allocated at each point of the bind,
`MapInv` that the regions below the loop counter are expanded and the others empty,
`ReaderInv` that a reader behind the lookup holds the lock and, at the copy, finds its
page in the buffer. The arithmetic is in lemmas (`RegionOf`, `ExpandedIs`): a logical
page is in one region, at the place its remainder says. The refinement goes action by
action (`DiskStep`): the bind is invisible until `AddDisk`, which opens the disk;
nothing a reader does changes the contents (`SectorKept`); the steps inside
`rk_ftl_readsect` are none of the disk's or refresh it, and its last one is an answer
(`CacheHonest` and `ReaderInv` say which) or a failure.

`L2pScan_proofs` proves `ScanFindsNewest`: what the `scan` run refutes for a
device that is too large holds for every device of which a 32-bit offset reaches
every page, every content and every width of the version, if the ages of any two
pages differ by less than half the range less one. The lemma behind it is that
the wrapping comparison, on a counter that skips one value, orders versions as
their ages. The assumptions are named in the theorem, because the run is about a
device that breaks one of them.

`TypeOK` is a theorem of every component with proofs but `L2pScan`. One run checks it
as well, where it holds a bound of the code: the capacity retry in `driver`.
`QuitIsFinal` and `ParamsFrozen`, which follow from the guards of the code step by
step, are proved only; so are `SectorIsMapped`, which `DiskImplemented` contains, the
bound on the overtaking, and the safety halves `ProvisionAdvances`, `EventProgresses`
and `PacketsFew`, whose runs check the liveness itself.

Only model-checked: every liveness property (`ProvisionEnds`, `ShutdownReturns`,
`WindowWritesBack`, `OperationEnds`, `QueuedIsSettled`, `EventEnds`, `UnbindEnds`,
`MessageEnds`) and the liveness part of `QueueImplemented`: fairness and ENABLED are
beyond the prover. Of three of them the decreasing measure is proved, as said above.
Every safety property of a passing run is a theorem.

The proof modules begin with wide time limits (`USE SMTT(30), ZenonT(60)`), and a leaf
that only Zenon finds says so: what is proved does not depend on a fast machine.

## Not modelled, and why

* The inside of the blob: 125,000 lines of compiler output. Its calls are
  external, modelled by what the driver observes.
* `nand_dev_transfer`'s sector arithmetic and the segments of
  `do_blktrans_all_request`: a request is served as a whole. What part of a failed
  request has reached the blob is not told apart.
* The text of `/proc/rknand` and of the `show` functions: no state outlives the
  call.
* `rknand_probe`, clock and write-protect setup: straight-line, before anything
  else can run.
* The transfer-complete wait: no linked blob calls it. A second controller: the
  board has none.
* The bytes of the packet headers that `netpoll_send_udp` builds: data without
  control; their lengths are in `PacketFits`.
* In `rk-ftl.c`, the walks over system and map blocks and the overlay of open
  superblocks: they are not written yet. The kernel's translation core is not in
  the repository; whether it still holds the device structure that
  `rk_ftl_remove_dev` frees cannot be read here.
* `l2p-extract.py` and the map file: a copy in the order of the map.
* Boot image tools, diagnostics, recipes, device trees and patches: batch output,
  hand-driven tools and data.

## Left to do

* Request transfer in segments (`do_blktrans_all_request`) as a component of its
  own.
* The map recovery of `rk-ftl.c`, in place of `RegionTables`, when it is written.
