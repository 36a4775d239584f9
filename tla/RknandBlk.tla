----------------------------- MODULE RknandBlk -----------------------------
(***************************************************************************)
(* The block driver drivers/nand-rk322x/rknand-port: the contexts that     *)
(* call into the closed FTL blob and what keeps them apart.                *)
(*                                                                         *)
(*   sub[s]   a context inside rk_nand_queue_rq (blk-mq, may sleep)        *)
(*   user[u]  a process inside an ioctl of a storage misc device           *)
(*   prov     rknand_provision_thread                                      *)
(*   gc       nand_gc_thread                                               *)
(*   pm       the suspend / resume callbacks                               *)
(*   off      the shutdown callback                                        *)
(*   mod      insmod and rmmod                                             *)
(*                                                                         *)
(* A program counter at a label named in Inside stands for a blob call in  *)
(* progress: the action that leaves the label is the call's return.        *)
(* Left out: sleep lengths, statistics, logging and the data of requests.  *)
(***************************************************************************)
EXTENDS Naturals, Sequences, FiniteSets

CONSTANTS
    Submitters,   \* contexts blk-mq may call rk_nand_queue_rq from
    Users,        \* processes that use the storage misc devices
    NoRq,         \* the NULL request
    Free,         \* no holder of a lock
    QueueDepth,   \* tag_set->queue_depth
    MaxAttempts,  \* bound of the capacity retry loop (10 in the code)
    Events,       \* what the administrator does: suspend, shutdown, rmmod
    Failures      \* what the kernel or the blob may refuse

Threads == {"prov", "gc", "pm", "off", "mod"}
Ctx == Submitters \cup Users \cup Threads

ASSUME ContextsDiffer ==
    /\ Submitters \cap Users = {}
    /\ (Submitters \cup Users) \cap Threads = {}
    /\ NoRq \notin Submitters
    /\ Free \notin Ctx

ASSUME BoundsAreNat == QueueDepth \in Nat \ {0} /\ MaxAttempts \in Nat

ASSUME EnvironmentKnown ==
    /\ Events \subseteq {"suspend", "shutdown", "rmmod"}
    /\ Failures \subseteq {"driver", "ftl_init", "blkdev", "buffer", "tagset",
                           "provision", "disk", "procfs", "sys", "vendor", "gc"}

VARIABLES
    sub, user, prov, gc, pm, off, mod,   \* program counters
    mutex,        \* holder of g_rk_nand_ops_mutex
    qlock,        \* holder of nand_ops->queue_lock
    rqList,       \* nand_ops->rq_list
    rq,           \* state of the request each submitter was given
    cur,          \* the local req of rk_nand_blktrans_work
    gcDo,         \* rk_ftl_gc_do
    reqEmpty,     \* req_empty_times of the GC thread
    quit,         \* nand_ops->quit
    threadExit,   \* nand_ops->thread_exit is complete
    gcStarted,    \* rknand_gc_started
    initialised,  \* rk_nand_dev_initialised
    capacity,     \* rk_ftl_get_capacity() # 0
    attempt,      \* attempt of the capacity retry loop
    slot,         \* vendor slots read by rk_ftl_vendor_storage_init
    up,           \* what the module has registered with the kernel
    text,         \* the module text is mapped
    dirty         \* the blob's write cache holds pages not yet programmed

queueVars == <<qlock, rqList, rq, cur>>
gcVars    == <<gc, reqEmpty, threadExit>>
provVars  == <<prov, capacity, attempt, slot>>
flagVars  == <<quit, gcStarted, initialised>>
vars == <<sub, user, pm, off, mod, mutex, gcDo, up, text, dirty,
          queueVars, gcVars, provVars, flagVars>>

SubPc  == {"idle", "q_lock", "append", "next", "d_lock", "ftl", "end",
           "q_relock", "wake"}
UserPc == {"idle", "flush_lock", "flush", "vendor_lock", "vendor"}
ProvPc == {"none", "start", "reinit", "loadbbt", "makebbt", "lowfmt", "retry",
           "gate", "adddev", "procfs", "sys", "vnd_lock", "vnd", "vnd_reg",
           "gc_init", "spawn", "mark", "idle"}
GcPc   == {"none", "init", "top", "check", "try", "collect", "count",
           "wb_lock", "wb", "sleep", "exiting", "exited"}
PmPc   == {"run", "lock", "suspend", "asleep", "resume"}
OffPc  == {"idle", "join", "deinit", "done"}
ModPc  == {"insmod", "ftl_init", "blkdev", "buffer", "tagset", "spawn", "mark",
           "unwind", "loaded", "exit_try", "exit_wb", "unreg", "deinit",
           "misc", "drv", "gone"}
Resources == {"platdrv", "ftl", "irq", "blkdev", "buffer", "tagset", "disk", "procfs",
              "sys", "vendor"}

(***************************************************************************)
(* Requests that hold a tag: from dispatch to __blk_mq_end_request.        *)
(***************************************************************************)
Tagged == {s \in Submitters : rq[s] # "none"}

Formatting == prov \in {"reinit", "loadbbt", "makebbt", "lowfmt"}

\* The context is inside a call of the FTL blob that reaches the flash.
Inside(c) ==
    \/ c \in Submitters /\ sub[c] = "ftl"
    \/ c \in Users /\ user[c] \in {"flush", "vendor"}
    \/ c = "prov" /\ (Formatting \/ prov = "vnd")
    \/ c = "gc" /\ gc \in {"collect", "wb"}
    \/ c = "pm" /\ pm \in {"suspend", "resume"}
    \/ c = "off" /\ off = "deinit"
    \/ c = "mod" /\ mod \in {"ftl_init", "exit_wb", "deinit"}

\* User tasks are frozen before the suspend callback runs and thawed after
\* the resume callback; kernel threads of this driver are not freezable.
UserTasksRun == pm = "run"

Init ==
    /\ sub = [s \in Submitters |-> "idle"]
    /\ user = [u \in Users |-> "idle"]
    /\ prov = "none" /\ gc = "none" /\ pm = "run" /\ off = "idle"
    /\ mod = "insmod"
    /\ mutex = Free /\ qlock = Free
    /\ rqList = <<>>
    /\ rq = [s \in Submitters |-> "none"]
    /\ cur = [s \in Submitters |-> NoRq]
    /\ gcDo = FALSE /\ reqEmpty = 0
    /\ quit = FALSE /\ threadExit = FALSE /\ gcStarted = FALSE
    /\ initialised = FALSE
    /\ capacity \in BOOLEAN    \* a formatted or a blank chip
    /\ attempt = 1 /\ slot = 0
    /\ up = {} /\ text = TRUE
    /\ dirty = FALSE
-----------------------------------------------------------------------------
(***************************************************************************)
(* insmod: rknand_driver_init, rknand_dev_init, nand_blk_register.         *)
(***************************************************************************)
ModUnchanged == UNCHANGED <<sub, user, pm, off, mutex, gcDo, dirty,
                            queueVars, gcVars>>

\* platform_driver_register; the probe binds nandc0 or it does not.
ModDriverRegister ==
    /\ mod = "insmod"
    /\ \/ /\ up' = up \cup {"platdrv"}
          /\ mod' = "ftl_init" \/ ("driver" \in Failures /\ mod' = "unwind")
          /\ UNCHANGED text
       \/ "driver" \in Failures /\ up' = up /\ mod' = "gone" /\ text' = FALSE
    /\ ModUnchanged /\ UNCHANGED <<provVars, flagVars>>

\* rk_ftl_init: it allocates its tables ("ftl") and registers the interrupt handler
\* (rk_nandc_irq_init); it may fail before, between or after.
ModFtlInit ==
    /\ mod = "ftl_init"
    /\ \/ up' = up \cup {"ftl", "irq"} /\ mod' = "blkdev"
       \/ /\ "ftl_init" \in Failures
          /\ \E got \in SUBSET {"ftl", "irq"} : up' = up \cup got
          /\ mod' = "unwind"
    /\ ModUnchanged /\ UNCHANGED <<provVars, flagVars, text>>

\* register_blkdev; quit is reset before it.
ModRegisterBlkdev ==
    /\ mod = "blkdev"
    /\ quit' = FALSE
    /\ \/ up' = up \cup {"blkdev"} /\ mod' = "buffer"
       \/ "blkdev" \in Failures /\ up' = up /\ mod' = "unwind"
    /\ ModUnchanged
    /\ UNCHANGED <<provVars, gcStarted, initialised, text>>

\* kmalloc of mtd_read_temp_buffer; a failure takes label mtd_buffer_error.
ModAllocBuffer ==
    /\ mod = "buffer"
    /\ \/ up' = up \cup {"buffer"} /\ mod' = "tagset"
       \/ "buffer" \in Failures /\ up' = up \ {"blkdev"} /\ mod' = "unwind"
    /\ ModUnchanged /\ UNCHANGED <<provVars, flagVars, text>>

\* Mutant: a failure returns without taking the labels.
ModAllocTagSetReturns ==
    /\ mod = "tagset"
    /\ \/ up' = up \cup {"tagset"} /\ mod' = "spawn"
       \/ "tagset" \in Failures /\ up' = up /\ mod' = "unwind"
    /\ ModUnchanged /\ UNCHANGED <<provVars, flagVars, text>>

\* The tag set; failures take labels tag_set_error and rq_init_error.
ModAllocTagSet ==
    /\ mod = "tagset"
    /\ \/ up' = up \cup {"tagset"} /\ mod' = "spawn"
       \/ /\ "tagset" \in Failures
          /\ up' = up \ {"buffer", "blkdev"} /\ mod' = "unwind"
    /\ ModUnchanged /\ UNCHANGED <<provVars, flagVars, text>>

\* Mutant: the misc devices are registered before the provision thread runs.
ModSpawnProvisionEarlyMisc ==
    /\ mod = "spawn"
    /\ mod' = "mark"
    /\ prov' = "start" \/ ("provision" \in Failures /\ prov' = "none")
    /\ up' = up \cup {"sys", "vendor"}
    /\ ModUnchanged
    /\ UNCHANGED <<capacity, attempt, slot, flagVars, text>>

\* kthread_run of the provision thread; its failure is not fatal.
ModSpawnProvision ==
    /\ mod = "spawn"
    /\ mod' = "mark"
    /\ prov' = "start" \/ ("provision" \in Failures /\ prov' = "none")
    /\ ModUnchanged
    /\ UNCHANGED <<capacity, attempt, slot, flagVars, up, text>>

ModInitialised ==
    /\ mod = "mark"
    /\ mod' = "loaded"
    /\ initialised' = TRUE
    /\ ModUnchanged /\ UNCHANGED <<provVars, quit, gcStarted, up, text>>

\* The failure path of rknand_driver_init: the load fails and the text goes.
ModUnwind ==
    /\ mod = "unwind"
    /\ mod' = "gone"
    /\ up' = up \ {"sys", "vendor", "platdrv"}
    /\ text' = FALSE
    /\ ModUnchanged /\ UNCHANGED <<provVars, flagVars>>

(***************************************************************************)
(* rmmod: rknand_driver_exit and rknand_dev_exit.  The block device must   *)
(* be closed; the misc devices have no owner, so their ioctls may run.     *)
(***************************************************************************)
ModExit ==
    /\ "rmmod" \in Events
    /\ mod = "loaded" /\ UserTasksRun
    /\ \A s \in Submitters : sub[s] = "idle"
    /\ mod' = "exit_try"
    /\ initialised' = FALSE
    /\ ModUnchanged /\ UNCHANGED <<provVars, quit, gcStarted, up, text>>

ModTrylock ==
    /\ mod = "exit_try"
    /\ \/ mutex = Free /\ mutex' = "mod" /\ mod' = "exit_wb"
       \/ mutex # Free /\ mod' = "unreg" /\ UNCHANGED mutex
    /\ UNCHANGED <<sub, user, pm, off, gcDo, up, text, dirty,
                   queueVars, gcVars, provVars, flagVars>>

ModWriteBack ==
    /\ mod = "exit_wb"
    /\ mod' = "unreg"
    /\ dirty' = FALSE
    /\ mutex' = Free
    /\ UNCHANGED <<sub, user, pm, off, gcDo, up, text,
                   queueVars, gcVars, provVars, flagVars>>

\* nand_blk_unregister.  rknand_dev_exit, its only caller, has cleared
\* rk_nand_dev_initialised, so the function returns at its first test and the
\* teardown after it never runs.
ModUnregister ==
    /\ mod = "unreg"
    /\ ~initialised
    /\ mod' = "deinit"
    /\ ModUnchanged /\ UNCHANGED <<provVars, flagVars, up, text>>

\* rk_ftl_de_init flushes the write cache; what it frees is the blob's own affair.
ModDeInit ==
    /\ mod = "deinit"
    /\ mod' = "misc"
    /\ dirty' = FALSE
    /\ UNCHANGED <<sub, user, pm, off, mutex, gcDo, up, text,
                   queueVars, gcVars, provVars, flagVars>>

ModMiscDeinit ==
    /\ mod = "misc"
    /\ mod' = "drv"
    /\ up' = up \ {"sys", "vendor"}
    /\ ModUnchanged /\ UNCHANGED <<provVars, flagVars, text>>

\* platform_driver_unregister; the module is then freed.
ModDriverUnregister ==
    /\ mod = "drv"
    /\ mod' = "gone"
    /\ up' = up \ {"platdrv"}
    /\ text' = FALSE
    /\ ModUnchanged /\ UNCHANGED <<provVars, flagVars>>

Mod ==
    \/ ModDriverRegister \/ ModFtlInit \/ ModRegisterBlkdev \/ ModAllocBuffer
    \/ ModAllocTagSet \/ ModSpawnProvision \/ ModInitialised \/ ModUnwind
    \/ ModExit \/ ModTrylock \/ ModWriteBack \/ ModUnregister \/ ModDeInit
    \/ ModMiscDeinit \/ ModDriverUnregister
-----------------------------------------------------------------------------
(***************************************************************************)
(* rknand_provision_thread.  kthread_should_stop() is FALSE throughout:    *)
(* the only kthread_stop is in the teardown that never runs.               *)
(***************************************************************************)
ProvUnchanged == UNCHANGED <<sub, user, pm, off, mod, gcDo, text, dirty,
                             queueVars, reqEmpty, threadExit, initialised>>

\* Where the thread goes with the capacity it has just read.
AfterCapacity(blank) == IF capacity' THEN "gate" ELSE blank

ProvStart ==
    /\ prov = "start"
    /\ UNCHANGED capacity
    /\ prov' = AfterCapacity("reinit")
    /\ ProvUnchanged
    /\ UNCHANGED <<mutex, attempt, slot, gc, quit, gcStarted, up>>

\* FtlReInitForSDUpdata returns.
ProvReInit ==
    /\ prov = "reinit"
    /\ capacity' \in BOOLEAN
    /\ prov' = AfterCapacity("loadbbt")
    /\ ProvUnchanged
    /\ UNCHANGED <<mutex, attempt, slot, gc, quit, gcStarted, up>>

\* FlashLoadFactorBbt returns; the table is made when it cannot be loaded.
ProvLoadBbt ==
    /\ prov = "loadbbt"
    /\ prov' \in {"lowfmt", "makebbt"}
    /\ ProvUnchanged
    /\ UNCHANGED <<mutex, capacity, attempt, slot, gc, quit, gcStarted, up>>

ProvMakeBbt ==
    /\ prov = "makebbt"
    /\ prov' = "lowfmt"
    /\ ProvUnchanged
    /\ UNCHANGED <<mutex, capacity, attempt, slot, gc, quit, gcStarted, up>>

\* FtlLowFormat returns.
ProvLowFormat ==
    /\ prov = "lowfmt"
    /\ capacity' \in BOOLEAN
    /\ prov' = AfterCapacity("retry")
    /\ ProvUnchanged
    /\ UNCHANGED <<mutex, attempt, slot, gc, quit, gcStarted, up>>

\* Mutant: one round too many.
ProvRetryOnceMore ==
    /\ prov = "retry"
    /\ \/ /\ attempt <= MaxAttempts + 1
          /\ capacity' \in BOOLEAN
          /\ prov' = AfterCapacity("retry")
          /\ attempt' = IF capacity' THEN 1 ELSE attempt + 1
       \/ /\ attempt > MaxAttempts + 1
          /\ prov' = "gate" /\ attempt' = 1
          /\ UNCHANGED capacity
    /\ ProvUnchanged
    /\ UNCHANGED <<mutex, slot, gc, quit, gcStarted, up>>

\* Mutant: the round counter wraps at its bound.
ProvRetryWraps ==
    /\ prov = "retry"
    /\ capacity' \in BOOLEAN
    /\ prov' = AfterCapacity("retry")
    /\ attempt' = IF capacity' THEN 1 ELSE (attempt % MaxAttempts) + 1
    /\ ProvUnchanged
    /\ UNCHANGED <<mutex, slot, gc, quit, gcStarted, up>>

\* One round of the bounded retry, or its end: "in case capacity settles
\* slightly later".  The counter is a local: it is dead once the loop is left.
ProvRetry ==
    /\ prov = "retry"
    /\ \/ /\ attempt <= MaxAttempts
          /\ capacity' \in BOOLEAN
          /\ prov' = AfterCapacity("retry")
          /\ attempt' = IF capacity' THEN 1 ELSE attempt + 1
       \/ /\ attempt > MaxAttempts
          /\ prov' = "gate" /\ attempt' = 1
          /\ UNCHANGED capacity
    /\ ProvUnchanged
    /\ UNCHANGED <<mutex, slot, gc, quit, gcStarted, up>>

\* No capacity: no disk, no GC, no procfs.
ProvGate ==
    /\ prov = "gate"
    /\ prov' = IF capacity THEN "adddev" ELSE "idle"
    /\ ProvUnchanged
    /\ UNCHANGED <<mutex, capacity, attempt, slot, gc, quit, gcStarted, up>>

\* nand_add_dev: the disk is live when device_add_disk returns, and the
\* partition scan inside it already submits requests.
ProvAddDev ==
    /\ prov = "adddev"
    /\ \/ up' = up \cup {"disk"} /\ prov' = "procfs"
       \/ "disk" \in Failures /\ up' = up /\ prov' = "idle"
    /\ ProvUnchanged
    /\ UNCHANGED <<mutex, capacity, attempt, slot, gc, quit, gcStarted>>

ProvProcfs ==
    /\ prov = "procfs"
    /\ prov' = "sys"
    /\ up' = up \cup {"procfs"} \/ ("procfs" \in Failures /\ up' = up)
    /\ ProvUnchanged
    /\ UNCHANGED <<mutex, capacity, attempt, slot, gc, quit, gcStarted>>

\* rk_ftl_storage_sys_init registers rknand_sys_storage; then the vendor
\* storage buffer is allocated.
ProvStorageSys ==
    /\ prov = "sys"
    /\ up' = up \cup {"sys"} \/ ("sys" \in Failures /\ up' = up)
    /\ prov' = "vnd_lock" \/ ("vendor" \in Failures /\ prov' = "gc_init")
    /\ ProvUnchanged
    /\ UNCHANGED <<mutex, capacity, attempt, slot, gc, quit, gcStarted>>

\* rk_ftl_vendor_storage_init reads two slots and then the newer one again;
\* FlashBootVendorRead takes the device mutex around each read.
ProvVendorLock ==
    /\ prov = "vnd_lock"
    /\ mutex = Free
    /\ mutex' = "prov"
    /\ prov' = "vnd"
    /\ ProvUnchanged
    /\ UNCHANGED <<capacity, attempt, slot, gc, quit, gcStarted, up>>

VendorReads == 3

\* A read returns: it failed (no vendor storage), or it was the last one, or
\* the next slot follows; both slots may be empty and then nothing is re-read.
ProvVendorRead ==
    /\ prov = "vnd"
    /\ mutex' = Free
    /\ \/ "vendor" \in Failures /\ prov' = "gc_init" /\ slot' = 0
       \/ slot + 1 < VendorReads /\ prov' = "vnd_lock" /\ slot' = slot + 1
       \/ slot + 2 >= VendorReads /\ prov' = "vnd_reg" /\ slot' = 0
    /\ ProvUnchanged
    /\ UNCHANGED <<capacity, attempt, gc, quit, gcStarted, up>>

\* rknand_vendor_storage_init.
ProvVendorRegister ==
    /\ prov = "vnd_reg"
    /\ prov' = "gc_init"
    /\ up' = up \cup {"vendor"} \/ ("vendor" \in Failures /\ up' = up)
    /\ ProvUnchanged
    /\ UNCHANGED <<mutex, capacity, attempt, slot, gc, quit, gcStarted>>

\* Mutant: the thread is marked as started before it exists.
ProvGcInitMarks ==
    /\ prov = "gc_init"
    /\ prov' = "spawn"
    /\ quit' = FALSE /\ gcStarted' = TRUE
    /\ ProvUnchanged
    /\ UNCHANGED <<mutex, capacity, attempt, slot, gc, up>>

ProvGcInit ==
    /\ prov = "gc_init"
    /\ prov' = "spawn"
    /\ quit' = FALSE
    /\ ProvUnchanged
    /\ UNCHANGED <<mutex, capacity, attempt, slot, gc, gcStarted, up>>

\* kthread_run of the GC thread, which runs from here on if it succeeds.
ProvSpawnGc ==
    /\ prov = "spawn"
    /\ \/ gc' = "init" /\ prov' = "mark"
       \/ "gc" \in Failures /\ gc' = gc /\ prov' = "idle"
    /\ ProvUnchanged
    /\ UNCHANGED <<mutex, capacity, attempt, slot, quit, gcStarted, up>>

\* Mutant: the flag is not set.
ProvMarkGcForgets ==
    /\ prov = "mark"
    /\ prov' = "idle"
    /\ ProvUnchanged
    /\ UNCHANGED <<mutex, capacity, attempt, slot, gc, quit, gcStarted, up>>

\* rknand_gc_started = 1; the thread then idles.
ProvMarkGc ==
    /\ prov = "mark"
    /\ prov' = "idle"
    /\ gcStarted' = TRUE
    /\ ProvUnchanged
    /\ UNCHANGED <<mutex, capacity, attempt, slot, gc, quit, up>>

Prov ==
    \/ ProvStart \/ ProvReInit \/ ProvLoadBbt \/ ProvMakeBbt \/ ProvLowFormat
    \/ ProvRetry \/ ProvGate \/ ProvAddDev \/ ProvProcfs \/ ProvStorageSys
    \/ ProvVendorLock \/ ProvVendorRead \/ ProvVendorRegister \/ ProvGcInit
    \/ ProvSpawnGc \/ ProvMarkGc
-----------------------------------------------------------------------------
(***************************************************************************)
(* nand_gc_thread.                                                         *)
(***************************************************************************)
GcUnchanged == UNCHANGED <<sub, user, pm, off, mod, up, text, queueVars,
                           provVars, flagVars>>

GcInit ==
    /\ gc = "init"
    /\ gc' = "top"
    /\ gcDo' = TRUE
    /\ GcUnchanged /\ UNCHANGED <<mutex, dirty, reqEmpty, threadExit>>

\* while (!quit)
GcTop ==
    /\ gc = "top"
    /\ gc' = IF quit THEN "exiting" ELSE "check"
    /\ GcUnchanged /\ UNCHANGED <<mutex, gcDo, dirty, reqEmpty, threadExit>>

\* if (rk_ftl_gc_do)
GcCheck ==
    /\ gc = "check"
    /\ IF gcDo THEN gc' = "try" /\ UNCHANGED reqEmpty
               ELSE gc' = "sleep" /\ reqEmpty' = 0
    /\ GcUnchanged /\ UNCHANGED <<mutex, gcDo, dirty, threadExit>>

GcTrylock ==
    /\ gc = "try"
    /\ \/ mutex = Free /\ mutex' = "gc" /\ gc' = "collect"
       \/ mutex # Free /\ gc' = "count" /\ UNCHANGED mutex
    /\ GcUnchanged /\ UNCHANGED <<gcDo, dirty, reqEmpty, threadExit>>

\* rk_ftl_garbage_collect returns; it writes the cache back only when it has
\* reclaimed a block.
GcCollect ==
    /\ gc = "collect"
    /\ gc' = "count"
    /\ dirty' \in {dirty, FALSE}
    /\ mutex' = Free
    /\ GcUnchanged /\ UNCHANGED <<gcDo, reqEmpty, threadExit>>

\* req_empty_times only matters up to the end of the write-back window, so the
\* model's counter stays there.
WriteBackFirst == 5
WriteBackEnd == 7

\* Mutant: the counter starts again just before the window.
GcCountWraps ==
    /\ gc = "count"
    /\ reqEmpty' = (reqEmpty + 1) % WriteBackFirst
    /\ gc' = IF reqEmpty' \in WriteBackFirst..(WriteBackEnd - 1)
             THEN "wb_lock" ELSE "sleep"
    /\ GcUnchanged /\ UNCHANGED <<mutex, gcDo, dirty, threadExit>>

GcCount ==
    /\ gc = "count"
    /\ reqEmpty' = IF reqEmpty < WriteBackEnd THEN reqEmpty + 1 ELSE reqEmpty
    /\ gc' = IF reqEmpty' \in WriteBackFirst..(WriteBackEnd - 1)
             THEN "wb_lock" ELSE "sleep"
    /\ GcUnchanged /\ UNCHANGED <<mutex, gcDo, dirty, threadExit>>

GcWriteBackLock ==
    /\ gc = "wb_lock"
    /\ mutex = Free
    /\ mutex' = "gc"
    /\ gc' = "wb"
    /\ GcUnchanged /\ UNCHANGED <<gcDo, dirty, reqEmpty, threadExit>>

GcWriteBack ==
    /\ gc = "wb"
    /\ gc' = "sleep"
    /\ dirty' = FALSE
    /\ mutex' = Free
    /\ GcUnchanged /\ UNCHANGED <<gcDo, reqEmpty, threadExit>>

\* wait_event_timeout(thread_wq, quit, ...) ends: the time is up, or quit.  The
\* wake-up of rk_nand_queue_rq does not end it, its condition is quit alone.
GcSleep ==
    /\ gc = "sleep"
    /\ gc' = "top"
    /\ GcUnchanged /\ UNCHANGED <<mutex, gcDo, dirty, reqEmpty, threadExit>>

\* Mutant: the thread returns without completing thread_exit.
GcExitSilent ==
    /\ gc = "exiting"
    /\ gc' = "exited"
    /\ GcUnchanged /\ UNCHANGED <<mutex, gcDo, dirty, reqEmpty, threadExit>>

GcExit ==
    /\ gc = "exiting"
    /\ gc' = "exited"
    /\ threadExit' = TRUE
    /\ GcUnchanged /\ UNCHANGED <<mutex, gcDo, dirty, reqEmpty>>

Gc ==
    \/ GcInit \/ GcTop \/ GcCheck \/ GcTrylock \/ GcCollect \/ GcCount
    \/ GcWriteBackLock \/ GcWriteBack \/ GcSleep \/ GcExit
-----------------------------------------------------------------------------
(***************************************************************************)
(* rk_nand_queue_rq and rk_nand_blktrans_work.                             *)
(***************************************************************************)
SubUnchanged == UNCHANGED <<user, pm, off, mod, up, text, gcVars, provVars,
                            flagVars>>

\* blk-mq has a tag for the request and calls rk_nand_queue_rq.  A disk of a
\* module on its way out cannot be opened.
SubQueueRq(s) ==
    /\ sub[s] = "idle"
    /\ "disk" \in up /\ mod \in {"mark", "loaded"}
    /\ Cardinality(Tagged) < QueueDepth
    /\ rq' = [rq EXCEPT ![s] = "issued"]
    /\ gcDo' = FALSE
    /\ sub' = [sub EXCEPT ![s] = "q_lock"]
    /\ SubUnchanged /\ UNCHANGED <<mutex, dirty, qlock, rqList, cur>>

SubLock(s) ==
    /\ sub[s] \in {"q_lock", "q_relock"}
    /\ qlock = Free
    /\ qlock' = s
    /\ sub' = [sub EXCEPT ![s] = IF sub[s] = "q_lock" THEN "append" ELSE "next"]
    /\ SubUnchanged /\ UNCHANGED <<mutex, gcDo, dirty, rqList, rq, cur>>

\* Mutant: queue_lock is dropped between list_add_tail and the work loop.
SubAppendUnlocks(s) ==
    /\ sub[s] = "append"
    /\ rqList' = Append(rqList, s)
    /\ rq' = [rq EXCEPT ![s] = "queued"]
    /\ qlock' = Free
    /\ sub' = [sub EXCEPT ![s] = "q_relock"]
    /\ SubUnchanged /\ UNCHANGED <<mutex, gcDo, dirty, cur>>

\* list_add_tail
SubAppend(s) ==
    /\ sub[s] = "append"
    /\ rqList' = Append(rqList, s)
    /\ rq' = [rq EXCEPT ![s] = "queued"]
    /\ sub' = [sub EXCEPT ![s] = "next"]
    /\ SubUnchanged /\ UNCHANGED <<mutex, gcDo, dirty, qlock, cur>>

\* rk_nand_next_request finds a request; the spinlock is dropped to serve it.
SubTake(s) ==
    /\ sub[s] = "next"
    /\ rqList # <<>>
    /\ cur' = [cur EXCEPT ![s] = Head(rqList)]
    /\ rqList' = Tail(rqList)
    /\ rq' = [rq EXCEPT ![Head(rqList)] = "started"]
    /\ qlock' = Free
    /\ sub' = [sub EXCEPT ![s] = "d_lock"]
    /\ SubUnchanged /\ UNCHANGED <<mutex, gcDo, dirty>>

\* The list is empty: the work loop ends and the spinlock is released.
SubDrained(s) ==
    /\ sub[s] = "next"
    /\ rqList = <<>>
    /\ qlock' = Free
    /\ sub' = [sub EXCEPT ![s] = "wake"]
    /\ SubUnchanged /\ UNCHANGED <<mutex, gcDo, dirty, rqList, rq, cur>>

SubDeviceLock(s) ==
    /\ sub[s] = "d_lock"
    /\ mutex = Free
    /\ mutex' = s
    /\ sub' = [sub EXCEPT ![s] = "ftl"]
    /\ SubUnchanged /\ UNCHANGED <<gcDo, dirty, queueVars>>

\* do_blktrans_all_request returns.  A write stays in the blob's cache; a read
\* or a discard may write the cache back; a request out of range or refused by
\* the access flags reaches nothing.
SubTransfer(s) ==
    /\ sub[s] = "ftl"
    /\ dirty' \in BOOLEAN
    /\ mutex' = Free
    /\ sub' = [sub EXCEPT ![s] = "end"]
    /\ SubUnchanged /\ UNCHANGED <<gcDo, queueVars>>

\* Mutant: the local req still names the request after it was ended.
SubEndRequestKeepsReq(s) ==
    /\ sub[s] = "end"
    /\ rq' = [rq EXCEPT ![cur[s]] = "none"]
    /\ sub' = [sub EXCEPT ![s] = "q_relock"]
    /\ SubUnchanged /\ UNCHANGED <<mutex, gcDo, dirty, qlock, rqList, cur>>

\* Mutant: a failed request is not ended.
SubEndRequestOnSuccess(s) ==
    /\ sub[s] = "end"
    /\ rq' \in {rq, [rq EXCEPT ![cur[s]] = "none"]}
    /\ cur' = [cur EXCEPT ![s] = NoRq]
    /\ sub' = [sub EXCEPT ![s] = "q_relock"]
    /\ SubUnchanged /\ UNCHANGED <<mutex, gcDo, dirty, qlock, rqList>>

\* blk_update_request and __blk_mq_end_request: the tag is free again while
\* this context is still in its work loop.
SubEndRequest(s) ==
    /\ sub[s] = "end"
    /\ rq' = [rq EXCEPT ![cur[s]] = "none"]
    /\ cur' = [cur EXCEPT ![s] = NoRq]
    /\ sub' = [sub EXCEPT ![s] = "q_relock"]
    /\ SubUnchanged /\ UNCHANGED <<mutex, gcDo, dirty, qlock, rqList>>

\* Mutant: the wake-up, flag included, is skipped while GC is collecting.
SubWakeGcUnlessBusy(s) ==
    /\ sub[s] = "wake"
    /\ gcDo' = IF mutex = "gc" THEN gcDo ELSE TRUE
    /\ sub' = [sub EXCEPT ![s] = "idle"]
    /\ SubUnchanged /\ UNCHANGED <<mutex, dirty, queueVars>>

\* rk_ftl_gc_do = 1, wake_up and return.
SubWakeGc(s) ==
    /\ sub[s] = "wake"
    /\ gcDo' = TRUE
    /\ sub' = [sub EXCEPT ![s] = "idle"]
    /\ SubUnchanged /\ UNCHANGED <<mutex, dirty, queueVars>>

\* The steps of a call in progress; a new request is the caller's choice.
SubWork(s) ==
    \/ SubLock(s) \/ SubAppend(s) \/ SubTake(s) \/ SubDrained(s)
    \/ SubDeviceLock(s) \/ SubTransfer(s) \/ SubEndRequest(s) \/ SubWakeGc(s)
-----------------------------------------------------------------------------
(***************************************************************************)
(* The ioctls of the misc devices.                                         *)
(***************************************************************************)
UserUnchanged == UNCHANGED <<sub, pm, off, mod, gcDo, up, text, queueVars,
                             gcVars, provVars, flagVars>>

\* rknand_dev_flush through rknand_sys_storage; it returns at once before the
\* driver is initialised.
UserFlush(u) ==
    /\ user[u] = "idle" /\ UserTasksRun
    /\ "sys" \in up /\ initialised
    /\ user' = [user EXCEPT ![u] = "flush_lock"]
    /\ UserUnchanged /\ UNCHANGED <<mutex, dirty>>

\* rk_ftl_vendor_storage_ioctl; FlashBootVendorWrite takes the device mutex.
UserVendor(u) ==
    /\ user[u] = "idle" /\ UserTasksRun
    /\ "vendor" \in up
    /\ user' = [user EXCEPT ![u] = "vendor_lock"]
    /\ UserUnchanged /\ UNCHANGED <<mutex, dirty>>

UserLock(u) ==
    /\ user[u] \in {"flush_lock", "vendor_lock"}
    /\ mutex = Free
    /\ mutex' = u
    /\ user' = [user EXCEPT ![u] = IF user[u] = "flush_lock" THEN "flush"
                                                            ELSE "vendor"]
    /\ UserUnchanged /\ UNCHANGED dirty

\* The blob call returns and the mutex is released.
UserReturn(u) ==
    /\ user[u] \in {"flush", "vendor"}
    /\ dirty' = IF user[u] = "flush" THEN FALSE ELSE dirty
    /\ mutex' = Free
    /\ user' = [user EXCEPT ![u] = "idle"]
    /\ UserUnchanged

UserWork(u) == UserLock(u) \/ UserReturn(u)
-----------------------------------------------------------------------------
(***************************************************************************)
(* The power-management and shutdown callbacks of the platform driver.     *)
(***************************************************************************)
PmUnchanged == UNCHANGED <<sub, user, off, mod, gcDo, up, text, dirty,
                           queueVars, gcVars, provVars, flagVars>>

\* rknand_pm_suspend, entered once every user task is frozen.
PmSuspend ==
    /\ "suspend" \in Events
    /\ pm = "run"
    /\ mod = "loaded" /\ initialised /\ off = "idle"
    /\ \A u \in Users : user[u] = "idle"
    /\ pm' = "lock"
    /\ PmUnchanged /\ UNCHANGED mutex

PmDeviceLock ==
    /\ pm = "lock"
    /\ mutex = Free
    /\ mutex' = "pm"
    /\ pm' = "suspend"
    /\ PmUnchanged

\* Mutant: the mutex is released when rk_nand_suspend returns.
PmAsleepUnlocks ==
    /\ pm = "suspend"
    /\ pm' = "asleep"
    /\ mutex' = Free
    /\ PmUnchanged

\* rk_nand_suspend returns; the mutex stays held while the system sleeps.
PmAsleep ==
    /\ pm = "suspend"
    /\ pm' = "asleep"
    /\ PmUnchanged /\ UNCHANGED mutex

\* rknand_pm_resume calls rk_nand_resume.
PmResume ==
    /\ pm = "asleep"
    /\ pm' = "resume"
    /\ PmUnchanged /\ UNCHANGED mutex

PmDeviceUnlock ==
    /\ pm = "resume"
    /\ mutex' = Free
    /\ pm' = "run"
    /\ PmUnchanged

Pm == PmDeviceLock \/ PmAsleep \/ PmResume \/ PmDeviceUnlock

OffUnchanged == UNCHANGED <<sub, user, pm, mod, mutex, gcDo, up, text, gc,
                            reqEmpty, queueVars, provVars, initialised>>

\* rknand_shutdown, once: rknand_dev_shutdown asks a started GC thread to quit
\* or does nothing.
OffStart ==
    /\ "shutdown" \in Events
    /\ off = "idle" /\ UserTasksRun
    /\ "platdrv" \in up
    /\ IF initialised /\ gcStarted /\ ~quit
       THEN quit' = TRUE /\ off' = "join"
       ELSE UNCHANGED quit /\ off' = "done"
    /\ OffUnchanged /\ UNCHANGED <<dirty, threadExit, gcStarted>>

\* Mutant: shutdown does not wait for the thread.
OffJoinAtOnce ==
    /\ off = "join"
    /\ threadExit' = FALSE
    /\ gcStarted' = FALSE
    /\ off' = "deinit"
    /\ OffUnchanged /\ UNCHANGED <<dirty, quit>>

\* wait_for_completion(thread_exit)
OffJoin ==
    /\ off = "join"
    /\ threadExit
    /\ threadExit' = FALSE
    /\ gcStarted' = FALSE
    /\ off' = "deinit"
    /\ OffUnchanged /\ UNCHANGED <<dirty, quit>>

OffDeInit ==
    /\ off = "deinit"
    /\ off' = "done"
    /\ dirty' = FALSE
    /\ OffUnchanged /\ UNCHANGED <<threadExit, quit, gcStarted>>

OffWork == OffJoin \/ OffDeInit
-----------------------------------------------------------------------------
\* Without its text the driver takes no step.
Unloaded == ~text /\ UNCHANGED vars

Next ==
    \/ /\ text
       /\ \/ Mod \/ Prov \/ Gc
          \/ \E s \in Submitters : SubQueueRq(s) \/ SubWork(s)
          \/ \E u \in Users : UserFlush(u) \/ UserVendor(u) \/ UserWork(u)
          \/ PmSuspend \/ Pm \/ OffStart \/ OffWork
    \/ Unloaded

Spec == Init /\ [][Next]_vars

(***************************************************************************)
(* Fairness.  Threads that can run do run; a mutex or a spinlock that is   *)
(* released again and again is granted to every waiter (the kernel's mutex *)
(* hands over to a starved waiter, its spinlocks queue); a blob call       *)
(* returns.  Nothing forces a new request, an ioctl, a suspend, a resume,  *)
(* a shutdown or an rmmod.                                                 *)
(***************************************************************************)
Fairness ==
    /\ SF_vars(text /\ Prov) /\ SF_vars(text /\ Gc) /\ WF_vars(text /\ OffWork)
    /\ \A s \in Submitters : SF_vars(text /\ SubWork(s))
    /\ \A u \in Users : SF_vars(text /\ UserWork(u))

FairSpec == Spec /\ Fairness
-----------------------------------------------------------------------------
PcOK ==
    /\ sub \in [Submitters -> SubPc] /\ user \in [Users -> UserPc]
    /\ prov \in ProvPc /\ gc \in GcPc /\ pm \in PmPc /\ off \in OffPc
    /\ mod \in ModPc

LocksOK ==
    /\ mutex \in Ctx \cup {Free} /\ qlock \in Submitters \cup {Free}
    /\ rqList \in Seq(Submitters)
    /\ rq \in [Submitters -> {"none", "issued", "queued", "started"}]
    /\ cur \in [Submitters -> Submitters \cup {NoRq}]

CountsOK ==
    /\ reqEmpty \in 0..WriteBackEnd
    /\ attempt \in 1..(MaxAttempts + 1) /\ slot \in 0..(VendorReads - 1)
    /\ up \subseteq Resources

FlagsOK ==
    /\ gcDo \in BOOLEAN /\ quit \in BOOLEAN /\ threadExit \in BOOLEAN
    /\ gcStarted \in BOOLEAN /\ initialised \in BOOLEAN
    /\ capacity \in BOOLEAN /\ text \in BOOLEAN /\ dirty \in BOOLEAN

\* Types, and the ranges of the counters: the retry of rknand_provision_thread
\* stops at its bound.
TypeOK == PcOK /\ LocksOK /\ CountsOK /\ FlagsOK
-----------------------------------------------------------------------------
(***************************************************************************)
(* Safety.                                                                 *)
(***************************************************************************)
Runtime == Submitters \cup Users \cup {"prov", "gc"}

\* The FTL blob is not reentrant.  Of the contexts that use it while the driver
\* runs - requests, ioctls, the provision thread and the GC thread - at most one
\* is inside it: the device mutex separates those that take it, and the
\* provision thread, which formats without the mutex, starts the others only
\* when the format is over.
BlobSerial == \A c, d \in Runtime : Inside(c) /\ Inside(d) => c = d

\* From rk_nand_suspend to rk_nand_resume nobody else is inside the blob, unless
\* the blank-chip format was in progress: rknand_dev_suspend keeps the device
\* mutex until rknand_dev_resume.
AsleepQuiet ==
    pm \in {"suspend", "asleep", "resume"} /\ ~Formatting =>
        \A c \in Ctx \ {"pm"} : ~Inside(c)

\* A request on rq_list is about to be taken by the context that holds
\* queue_lock: none stays behind when the last context leaves its work loop.
NoStrandedRequest ==
    rqList # <<>> => \E s \in Submitters : qlock = s /\ sub[s] = "next"

\* A request is on rq_list, or is served by one context, or is ended: never two
\* of these, although queue_lock is dropped around every request served.
RequestServedOnce ==
    \A r \in Submitters :
        LET places   == {i \in DOMAIN rqList : rqList[i] = r}
            servers  == {s \in Submitters : cur[s] = r}
        IN  /\ rq[r] \in {"none", "issued"} => places = {} /\ servers = {}
            /\ rq[r] = "queued" => Cardinality(places) = 1 /\ servers = {}
            /\ rq[r] = "started" => places = {} /\ Cardinality(servers) = 1

\* rk_ftl_gc_do is a plain flag that every rk_nand_queue_rq clears and sets
\* again.  However the calls overlap, with none in progress it allows garbage
\* collection.
IdleAllowsGc ==
    (\A s \in Submitters : sub[s] = "idle") /\ gc \notin {"none", "init"} => gcDo

\* rknand_dev_shutdown waits only for a thread that will complete thread_exit:
\* the GC thread exists, it has been told to quit and it has not been joined.
JoinWillComplete ==
    off = "join" => quit /\ (threadExit \/ gc \notin {"none", "exited"})

\* rk_ftl_de_init of the shutdown path runs after the GC thread has left.
JoinedBeforeDeInit == off = "deinit" => gc = "exited"

\* Once a running GC thread has been told to quit, nothing takes it back: the
\* provision thread clears quit before that thread exists.
QuitIsFinal == [][quit /\ gc # "none" => quit']_vars

\* A shutdown that finds a GC thread joins it, except in one window: the provision
\* thread has started the thread and not yet set rknand_gc_started, the flag the
\* shutdown reads (rknand_dev_shutdown; a driver that is being unloaded aside).
ShutdownJoinsGc ==
    [][off = "idle" /\ off' # "idle" /\ gc # "none" /\ initialised
         => off' = "join" \/ prov = "mark"]_vars

\* A load that fails, at whichever step, takes back every registration and
\* allocation made before it, but for those of rk_ftl_init: nothing frees the
\* interrupt, and rknand_dev_init returns without rk_ftl_de_init when
\* nand_blk_register fails (nand_blk_register, rknand_dev_init, rknand_driver_init).
FailedLoadUnwound ==
    [][mod = "unwind" /\ mod' = "gone" => up' \subseteq {"ftl", "irq"}]_vars
-----------------------------------------------------------------------------
(***************************************************************************)
(* The inductive invariant the proofs rest on: what each context knows of  *)
(* the others at each of its program points.                               *)
(***************************************************************************)
HoldsMutex(c) ==
    \/ c \in Submitters /\ sub[c] = "ftl"
    \/ c \in Users /\ user[c] \in {"flush", "vendor"}
    \/ c = "prov" /\ prov = "vnd"
    \/ c = "gc" /\ gc \in {"collect", "wb"}
    \/ c = "pm" /\ pm \in {"suspend", "asleep", "resume"}
    \/ c = "mod" /\ mod = "exit_wb"

MutexInv == \A c \in Ctx : HoldsMutex(c) => mutex = c

Loading == {"insmod", "ftl_init", "blkdev", "buffer", "tagset", "spawn", "unwind"}
BeforeDisk == {"none", "start", "reinit", "loadbbt", "makebbt", "lowfmt", "retry",
               "gate", "adddev"}

\* Until the disk is added nobody but the provision thread can use the blob.
ProvisionFirst ==
    /\ mod \in Loading => prov = "none"
    /\ prov \in BeforeDisk =>
         /\ up \cap {"disk", "sys", "vendor"} = {}
         /\ gc = "none"
         /\ \A s \in Submitters : sub[s] = "idle"
         /\ \A u \in Users : user[u] = "idle"

\* While the system is suspended the module is loaded and not shutting down.
PmInv == pm # "run" => mod = "loaded" /\ off = "idle"

\* The state of a request follows its submitter: every context serves its own,
\* for the list is emptied before queue_lock is first dropped.
RequestInv(s) ==
    /\ qlock = s <=> sub[s] \in {"append", "next"}
    /\ rq[s] = "issued" <=> sub[s] \in {"q_lock", "append"}
    /\ rq[s] = "queued" <=> rqList = <<s>>
    /\ rqList = <<s>> => sub[s] = "next"
    /\ rq[s] = "started" <=> sub[s] \in {"d_lock", "ftl", "end"}
    /\ cur[s] = IF rq[s] = "started" THEN s ELSE NoRq

QueueInv ==
    /\ rqList = <<>> \/ \E s \in Submitters : rqList = <<s>>
    /\ \A s \in Submitters : RequestInv(s)

\* The GC thread's life and what the others know of it.
GcInv ==
    /\ prov \notin {"mark", "idle"} => gc = "none"
    /\ prov = "mark" => gc # "none"
    /\ gcStarted => prov = "idle" /\ gc # "none"
    /\ quit => prov = "idle" /\ off # "idle"
    /\ gc \in {"exiting", "exited"} => quit
    /\ threadExit => gc = "exited"
    /\ gc = "exited" => threadExit \/ off \in {"deinit", "done"}
    /\ off = "join" => quit /\ gc # "none"
    /\ off = "deinit" => gc = "exited"

\* What the program points of the contexts say of each other, at every step.
IInv ==
    MutexInv /\ ProvisionFirst /\ PmInv /\ QueueInv /\ GcInv
-----------------------------------------------------------------------------
(***************************************************************************)
(* Liveness, and the promise to the block layer.                           *)
(***************************************************************************)
Queue == INSTANCE BlkMqQueue WITH outstanding <- Tagged

\* Every request blk-mq hands to rk_nand_queue_rq is ended once and eventually.
QueueImplemented == Queue!Spec

\* The provision thread ends its work whatever the blob answers: the capacity
\* retry is bounded.
ProvisionEnds == prov = "start" ~> (prov = "idle" \/ ~text)

\* A shutdown that waits for the GC thread returns.
ShutdownReturns == off = "join" ~> (off = "done" \/ ~text)

Quiet == \A s \in Submitters : sub[s] = "idle"

\* While the GC thread has not yet passed its write-back window, cached writes
\* of an idle disk are written back (or new requests arrive, or the thread is
\* told to quit).
WindowWritesBack ==
    (dirty /\ Quiet /\ gcStarted /\ reqEmpty < WriteBackFirst)
        ~> (~dirty \/ ~Quiet \/ quit \/ ~text)
-----------------------------------------------------------------------------
(***************************************************************************)
(* What comments and documents say and the code does not do.               *)
(***************************************************************************)

\* rk_nand_blk.c:81 "Anything that can re-enter the (single-threaded,
\* non-reentrant) FTL blob must NOT exist while the blank-device format runs".
FormatNotReentered == Formatting => \A c \in Ctx \ {"prov"} : ~Inside(c)

\* rk_nand_blk.c:867 "we never free the module out from under a running thread".
TextOutlivesThreads == ~text => prov = "none" /\ gc \in {"none", "exited"}

\* rk_nand_blk.c:399 "cache write back after 100ms": cached writes of a disk that
\* stays idle are written back by the GC thread.
IdleWriteBack ==
    (dirty /\ Quiet /\ gcStarted) ~> (~dirty \/ ~Quiet \/ quit \/ ~text)

=============================================================================
