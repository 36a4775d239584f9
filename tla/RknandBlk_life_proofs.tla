------------------------ MODULE RknandBlk_life_proofs -----------------------
(***************************************************************************)
(* The life of the module, for any number of contexts and any failures:    *)
(* what a failed load leaves behind, which GC thread a shutdown finds, and *)
(* which events break what two comments of rk_nand_blk.c say.              *)
(***************************************************************************)
EXTENDS RknandBlk_proofs

\* Wide time limits: what is proved should not depend on the speed of the machine.
USE SMTT(30), ZenonT(60)

(***************************************************************************)
(* The load.                                                               *)
(***************************************************************************)

\* What rknand_driver_init and nand_blk_register have registered at each point; no
\* other context registers anything before the load is over.
LoadInv ==
    /\ mod = "insmod" => up = {}
    /\ mod = "ftl_init" => up \subseteq {"platdrv"}
    /\ mod \in {"blkdev", "unwind"} => up \subseteq {"platdrv", "ftl", "irq"}
    /\ mod = "buffer" => up \subseteq {"platdrv", "ftl", "irq", "blkdev"}
    /\ mod = "tagset" => up \subseteq {"platdrv", "ftl", "irq", "blkdev", "buffer"}

LEMMA LoadStep == ProvisionFirst /\ LoadInv /\ [Next]_vars => LoadInv'
<1> SUFFICES ASSUME ProvisionFirst, LoadInv, [Next]_vars PROVE LoadInv'
  OBVIOUS
<1> USE DEF LoadInv
<1>1. CASE UNCHANGED <<mod, up>>
  BY <1>1
<1>2. CASE Mod
  <2>1. CASE ModDriverRegister
    BY <2>1 DEF ModDriverRegister
  <2>2. CASE ModFtlInit
    BY <2>2 DEF ModFtlInit
  <2>3. CASE ModRegisterBlkdev
    BY <2>3 DEF ModRegisterBlkdev
  <2>4. CASE ModAllocBuffer
    BY <2>4 DEF ModAllocBuffer
  <2>5. CASE ModAllocTagSet
    BY <2>5 DEF ModAllocTagSet
  <2>6. CASE ModSpawnProvision \/ ModInitialised \/ ModUnwind \/ ModExit
    BY <2>6 DEF ModSpawnProvision, ModInitialised, ModUnwind, ModExit
  <2>7. CASE \/ ModTrylock \/ ModWriteBack \/ ModUnregister \/ ModDeInit
             \/ ModMiscDeinit \/ ModDriverUnregister
    BY <2>7 DEF ModTrylock, ModWriteBack, ModUnregister, ModDeInit,
       ModMiscDeinit, ModDriverUnregister
  <2> QED  BY <1>2, <2>1, <2>2, <2>3, <2>4, <2>5, <2>6, <2>7 DEF Mod
<1>3. CASE Prov
  <2>1. prov # "none" /\ mod' = mod
    BY <1>3, Frames, ZenonT(60) DEF ProvUnchanged, Prov, ProvStart, ProvReInit, ProvLoadBbt,
       ProvMakeBbt, ProvLowFormat, ProvRetry, ProvGate, ProvAddDev, ProvProcfs,
       ProvStorageSys, ProvVendorLock, ProvVendorRead, ProvVendorRegister,
       ProvGcInit, ProvSpawnGc, ProvMarkGc
  <2>2. mod \notin Loading
    BY <2>1 DEF ProvisionFirst
  <2> QED  BY <2>1, <2>2 DEF Loading
<1>4. CASE Gc
  BY <1>1, <1>4, Frames DEF GcUnchanged
<1>5. ASSUME NEW s \in Submitters, SubQueueRq(s) \/ SubWork(s) PROVE LoadInv'
  BY <1>1, <1>5, Frames DEF SubUnchanged
<1>6. ASSUME NEW u \in Users, UserFlush(u) \/ UserVendor(u) \/ UserWork(u) PROVE LoadInv'
  BY <1>1, <1>6, Frames DEF UserUnchanged
<1>7. CASE PmSuspend \/ Pm
  BY <1>1, <1>7, Frames DEF PmUnchanged
<1>8. CASE OffStart \/ OffWork
  BY <1>1, <1>8, Frames DEF OffUnchanged
<1>9. CASE UNCHANGED vars
  BY <1>1, <1>9 DEF vars
<1> HIDE DEF LoadInv
<1> QED
  BY <1>2, <1>3, <1>4, <1>5, <1>6, <1>7, <1>8, <1>9 DEF Next, Unloaded

\* Whatever fails in rknand_driver_init, rk_ftl_init or nand_blk_register, the load
\* takes back all it has registered but what rk_ftl_init holds: its tables and the
\* controller interrupt.
THEOREM FailedLoadsAreUnwound == Spec => FailedLoadUnwound
<1>1. Init => LoadInv
  BY DEF Init, LoadInv
<1>2. IInv /\ LoadInv /\ [Next]_vars => LoadInv'
  BY LoadStep DEF IInv
<1>3. LoadInv /\ [Next]_vars
        => (mod = "unwind" /\ mod' = "gone" => up' \subseteq {"ftl", "irq"})
  <2> SUFFICES ASSUME LoadInv, [Next]_vars, mod = "unwind", mod' = "gone"
               PROVE  up' \subseteq {"ftl", "irq"}
    OBVIOUS
  <2>1. Mod
    BY Frames DEF Next, Unloaded, vars, ProvUnchanged, GcUnchanged, SubUnchanged,
       UserUnchanged, PmUnchanged, OffUnchanged
  <2>2. ModUnwind
    BY <2>1 DEF Mod, ModDriverRegister, ModFtlInit, ModRegisterBlkdev, ModAllocBuffer,
       ModAllocTagSet, ModSpawnProvision, ModInitialised, ModExit, ModTrylock,
       ModWriteBack, ModUnregister, ModDeInit, ModMiscDeinit, ModDriverUnregister
  <2> QED  BY <2>2 DEF ModUnwind, LoadInv
<1> QED
  BY <1>1, <1>2, <1>3, Inductive, PTL DEF Spec, FailedLoadUnwound
-----------------------------------------------------------------------------
(***************************************************************************)
(* The shutdown.                                                           *)
(***************************************************************************)

\* Until the shutdown, a GC thread that exists is marked as started, or the provision
\* thread is about to mark it.
GcKnown == off = "idle" /\ gc # "none" => gcStarted \/ prov = "mark"

LEMMA GcKnownStep == ProvisionFirst /\ GcInv /\ GcKnown /\ [Next]_vars => GcKnown'
<1> SUFFICES ASSUME ProvisionFirst, GcInv, GcKnown, [Next]_vars PROVE GcKnown'
  OBVIOUS
<1> USE DEF GcKnown
<1>1. CASE UNCHANGED <<off, gc, gcStarted, prov>>
  BY <1>1
<1>2. CASE Mod
  <2>1. UNCHANGED <<off, gc>>
    BY <1>2, Frames DEF ModFrame, gcVars
  <2>2. CASE UNCHANGED <<provVars, gcStarted>>
    BY <1>1, <2>1, <2>2 DEF provVars
  <2>3. CASE ModSpawnProvision
    <3>1. gc = "none"
      BY <2>3 DEF ModSpawnProvision, ProvisionFirst, Loading, BeforeDisk
    <3> QED  BY <2>1, <3>1
  <2>4. Mod => ModSpawnProvision \/ UNCHANGED <<provVars, gcStarted>>
    BY DEF Mod, ModDriverRegister, ModFtlInit, ModRegisterBlkdev, ModAllocBuffer,
       ModAllocTagSet, ModInitialised, ModUnwind, ModExit, ModTrylock,
       ModWriteBack, ModUnregister, ModDeInit, ModMiscDeinit, ModDriverUnregister,
       flagVars
  <2> QED  BY <1>2, <2>2, <2>3, <2>4
<1>3. CASE Prov
  <2>1. UNCHANGED off
    BY <1>3, Frames DEF ProvUnchanged
  <2>2. CASE ProvSpawnGc
    BY <2>1, <2>2 DEF ProvSpawnGc, GcInv
  <2>3. CASE ProvMarkGc
    BY <2>1, <2>3 DEF ProvMarkGc
  <2>4. Prov => ProvSpawnGc \/ ProvMarkGc \/ (prov \notin {"mark", "idle"} /\ UNCHANGED gc)
    BY DEF Prov, ProvStart, ProvReInit, ProvLoadBbt, ProvMakeBbt, ProvLowFormat,
       ProvRetry, ProvGate, ProvAddDev, ProvProcfs, ProvStorageSys, ProvVendorLock,
       ProvVendorRead, ProvVendorRegister, ProvGcInit
  <2>5. CASE prov \notin {"mark", "idle"} /\ UNCHANGED gc
    BY <2>5 DEF GcInv
  <2> QED  BY <1>3, <2>2, <2>3, <2>4, <2>5
<1>4. CASE Gc
  <2>1. gc # "none" /\ UNCHANGED <<off, gcStarted, prov>>
    BY <1>4, Frames, ZenonT(60) DEF GcUnchanged, flagVars, provVars, Gc, GcInit, GcTop, GcCheck,
       GcTrylock, GcCollect, GcCount, GcWriteBackLock, GcWriteBack, GcSleep, GcExit
  <2> QED  BY <2>1
<1>5. ASSUME NEW s \in Submitters, SubQueueRq(s) \/ SubWork(s) PROVE GcKnown'
  BY <1>1, <1>5, Frames DEF SubUnchanged, gcVars, provVars, flagVars
<1>6. ASSUME NEW u \in Users, UserFlush(u) \/ UserVendor(u) \/ UserWork(u) PROVE GcKnown'
  BY <1>1, <1>6, Frames DEF UserUnchanged, gcVars, provVars, flagVars
<1>7. CASE PmSuspend \/ Pm
  BY <1>1, <1>7, Frames DEF PmUnchanged, gcVars, provVars, flagVars
<1>8. CASE OffStart \/ OffWork
  <2>1. off' # "idle"
    BY <1>8 DEF OffStart, OffWork, OffJoin, OffDeInit
  <2> QED  BY <2>1
<1>9. CASE UNCHANGED vars
  BY <1>1, <1>9 DEF vars, gcVars, provVars, flagVars
<1> HIDE DEF GcKnown
<1> QED
  BY <1>2, <1>3, <1>4, <1>5, <1>6, <1>7, <1>8, <1>9 DEF Next, Unloaded

\* rknand_dev_shutdown joins the GC thread it finds, but for the one that the
\* provision thread has started and not yet marked.
THEOREM ShutdownsJoinGc == Spec => ShutdownJoinsGc
<1>1. Init => GcKnown
  BY DEF Init, GcKnown
<1>2. IInv /\ GcKnown /\ [Next]_vars => GcKnown'
  BY GcKnownStep DEF IInv
<1>3. IInv /\ GcKnown /\ [Next]_vars =>
        (off = "idle" /\ off' # "idle" /\ gc # "none" /\ initialised
           => off' = "join" \/ prov = "mark")
  <2> SUFFICES ASSUME IInv, GcKnown, [Next]_vars, off = "idle", off' # "idle",
                      gc # "none", initialised, prov # "mark"
               PROVE  off' = "join"
    OBVIOUS
  <2>1. gcStarted /\ ~quit
    BY DEF GcKnown, IInv, GcInv
  <2>2. OffStart
    BY Frames, ZenonT(60)
       DEF Next, Unloaded, vars, ModFrame, ProvUnchanged, GcUnchanged, SubUnchanged,
       UserUnchanged, PmUnchanged, OffWork, OffJoin, OffDeInit
  <2> QED  BY <2>1, <2>2 DEF OffStart
<1> QED
  BY <1>1, <1>2, <1>3, Inductive, PTL DEF Spec, ShutdownJoinsGc
-----------------------------------------------------------------------------
(***************************************************************************)
(* Which events break the comments.                                        *)
(***************************************************************************)

\* The unload and the suspend are the administrator's; without an unload the text is
\* freed only by a load that fails, and then no thread was started.
EventInv ==
    /\ mod \in {"exit_try", "exit_wb", "unreg", "deinit", "misc", "drv"} => "rmmod" \in Events
    /\ ~text => mod = "gone"
    /\ mod = "gone" => "rmmod" \in Events \/ (prov = "none" /\ gc = "none")
    /\ pm # "run" => "suspend" \in Events

LEMMA EventStep ==
    TypeOK /\ IInv /\ EventInv /\ [Next]_vars => EventInv'
<1> SUFFICES ASSUME TypeOK, IInv, EventInv, [Next]_vars PROVE EventInv'
  OBVIOUS
<1> USE DEF EventInv
<1>1. CASE UNCHANGED <<mod, text, prov, gc, pm>>
  BY <1>1
<1>2. CASE Mod
  <2>1. UNCHANGED <<gc, pm>>
    BY <1>2, Frames DEF ModFrame, gcVars
  <2>2. mod \in Loading => prov = "none" /\ gc = "none"
    BY DEF IInv, ProvisionFirst, BeforeDisk
  <2>3. CASE ModDriverRegister \/ ModFtlInit \/ ModRegisterBlkdev
    BY <2>1, <2>2, <2>3 DEF ModDriverRegister, ModFtlInit, ModRegisterBlkdev, Loading, provVars
  <2>4. CASE ModAllocBuffer \/ ModAllocTagSet \/ ModSpawnProvision
    BY <2>1, <2>4 DEF ModAllocBuffer, ModAllocTagSet, ModSpawnProvision
  <2>5. CASE ModInitialised \/ ModUnwind
    BY <2>1, <2>2, <2>5 DEF ModInitialised, ModUnwind, Loading, provVars
  <2>6. CASE ModExit \/ ModTrylock \/ ModWriteBack
    BY <2>1, <2>6 DEF ModExit, ModTrylock, ModWriteBack
  <2>7. CASE ModUnregister \/ ModDeInit \/ ModMiscDeinit \/ ModDriverUnregister
    BY <2>1, <2>7 DEF ModUnregister, ModDeInit, ModMiscDeinit, ModDriverUnregister
  <2> QED  BY <1>2, <2>3, <2>4, <2>5, <2>6, <2>7 DEF Mod
<1>3. CASE Prov
  <2>1. UNCHANGED <<mod, text, pm>> /\ prov # "none"
    BY <1>3, Frames, ZenonT(60) DEF ProvUnchanged, Prov, ProvStart, ProvReInit, ProvLoadBbt,
       ProvMakeBbt, ProvLowFormat, ProvRetry, ProvGate, ProvAddDev, ProvProcfs,
       ProvStorageSys, ProvVendorLock, ProvVendorRead, ProvVendorRegister,
       ProvGcInit, ProvSpawnGc, ProvMarkGc
  <2> QED  BY <2>1
<1>4. CASE Gc
  <2>1. UNCHANGED <<mod, text, pm>> /\ gc # "none"
    BY <1>4, Frames, ZenonT(60) DEF GcUnchanged, Gc, GcInit, GcTop, GcCheck, GcTrylock,
       GcCollect, GcCount, GcWriteBackLock, GcWriteBack, GcSleep, GcExit
  <2> QED  BY <2>1
<1>5. ASSUME NEW s \in Submitters, SubQueueRq(s) \/ SubWork(s) PROVE EventInv'
  BY <1>1, <1>5, Frames DEF SubUnchanged, gcVars, provVars
<1>6. ASSUME NEW u \in Users, UserFlush(u) \/ UserVendor(u) \/ UserWork(u) PROVE EventInv'
  BY <1>1, <1>6, Frames DEF UserUnchanged, gcVars, provVars
<1>7. CASE PmSuspend \/ Pm
  <2>1. UNCHANGED <<mod, text, prov, gc>>
    BY <1>7, Frames DEF PmUnchanged, gcVars, provVars
  <2>2. pm' # "run" => "suspend" \in Events
    BY <1>7 DEF PmSuspend, Pm, PmDeviceLock, PmAsleep, PmResume, PmDeviceUnlock
  <2> QED  BY <2>1, <2>2
<1>8. CASE OffStart \/ OffWork
  BY <1>1, <1>8, Frames DEF OffUnchanged, provVars
<1>9. CASE UNCHANGED vars
  BY <1>1, <1>9 DEF vars, gcVars, provVars
<1> HIDE DEF EventInv
<1> QED
  BY <1>2, <1>3, <1>4, <1>5, <1>6, <1>7, <1>8, <1>9 DEF Next, Unloaded

LEMMA EventInvariant == Spec => []EventInv
<1>1. Init => EventInv
  BY DEF Init, EventInv
<1> QED  BY <1>1, EventStep, Inductive, PTL DEF Spec

\* "we never free the module out from under a running thread" is true of a module
\* that is not unloaded: a failed load frees the text before there is a thread.
THEOREM TextOutlivesWithoutRmmod ==
    ASSUME "rmmod" \notin Events PROVE Spec => []TextOutlivesThreads
<1>1. EventInv => TextOutlivesThreads
  BY DEF EventInv, TextOutlivesThreads
<1> QED  BY <1>1, EventInvariant, PTL

\* The blank-device format is not re-entered by requests, ioctls, the GC thread or a
\* shutdown: only a suspend or an unload gets into the blob beside it.
THEOREM FormatIsAloneWithoutPm ==
    ASSUME Events \cap {"suspend", "rmmod"} = {} PROVE Spec => []FormatNotReentered
<1>1. IInv /\ EventInv => FormatNotReentered
  <2> SUFFICES ASSUME IInv, EventInv, Formatting, NEW c \in Ctx \ {"prov"}, Inside(c)
               PROVE  FALSE
    BY DEF FormatNotReentered
  <2>1. /\ prov \in BeforeDisk /\ prov # "none" /\ gc = "none" /\ mod \notin Loading
        /\ \A s \in Submitters : sub[s] = "idle"
        /\ \A u \in Users : user[u] = "idle"
    BY DEF IInv, ProvisionFirst, Formatting, BeforeDisk
  <2>2. off # "deinit" /\ pm = "run" /\ mod \notin {"ftl_init", "exit_wb", "deinit"}
    BY <2>1 DEF IInv, GcInv, EventInv, Loading
  <2> QED  BY <2>1, <2>2, ContextsDiffer DEF Inside, Ctx, Threads
<1> QED  BY <1>1, Inductive, EventInvariant, PTL
-----------------------------------------------------------------------------
(***************************************************************************)
(* The provision thread comes nearer to its end with every step.           *)
(***************************************************************************)

\* A bound on the steps the thread has left: the format stages, the rounds of the
\* capacity retry, and two steps for each read of the vendor storage.
StepsLeft ==
    LET format == 15 + MaxAttempts IN
    CASE prov = "start" -> format + 5
      [] prov = "reinit" -> format + 4
      [] prov = "loadbbt" -> format + 3
      [] prov = "makebbt" -> format + 2
      [] prov = "lowfmt" -> format + 1
      [] prov = "retry" -> format + 1 - attempt
      [] prov = "gate" -> 14
      [] prov = "adddev" -> 13
      [] prov = "procfs" -> 12
      [] prov = "sys" -> 11
      [] prov = "vnd_lock" -> 10 - 2 * slot
      [] prov = "vnd" -> 9 - 2 * slot
      [] prov = "vnd_reg" -> 4
      [] prov = "gc_init" -> 3
      [] prov = "spawn" -> 2
      [] prov = "mark" -> 1
      [] OTHER -> 0

\* Once it runs, the provision thread has fewer steps left after each of its own, and the
\* steps of the others take nothing back: neither the capacity retry nor the reads of the
\* vendor storage can go round for ever, whatever the blob answers
\* (rknand_provision_thread).
ProvisionAdvances ==
    [][prov # "none" => IF Prov THEN StepsLeft' \in Nat /\ StepsLeft' < StepsLeft
                                ELSE StepsLeft' = StepsLeft]_vars

\* Every step of the thread brings it nearer to its end.
LEMMA ProvStep ==
    ASSUME TypeOK, Prov PROVE StepsLeft' \in Nat /\ StepsLeft' < StepsLeft
<1>1. /\ MaxAttempts \in Nat /\ attempt \in 1..(MaxAttempts + 1) /\ slot \in 0..2
  BY BoundsAreNat DEF TypeOK, CountsOK, VendorReads
<1>2. CASE ProvStart \/ ProvReInit
  BY <1>1, <1>2 DEF ProvStart, ProvReInit, AfterCapacity, StepsLeft
<1>3. CASE ProvLoadBbt \/ ProvMakeBbt
  BY <1>1, <1>3 DEF ProvLoadBbt, ProvMakeBbt, StepsLeft
<1>4. CASE ProvLowFormat
  BY <1>1, <1>4 DEF ProvLowFormat, AfterCapacity, StepsLeft
<1>5. CASE ProvRetry
  <2>1. StepsLeft = 16 + MaxAttempts - attempt
    BY <1>1, <1>5 DEF ProvRetry, StepsLeft
  <2>2. CASE prov' = "gate"
    <3>1. StepsLeft' = 14
      BY <2>2 DEF StepsLeft
    <3> QED  BY <1>1, <2>1, <3>1
  <2>3. CASE prov' = "retry" /\ attempt' = attempt + 1 /\ attempt <= MaxAttempts
    <3>1. StepsLeft' = 16 + MaxAttempts - (attempt + 1)
      BY <1>1, <2>3 DEF StepsLeft
    <3> QED  BY <1>1, <2>1, <2>3, <3>1
  <2> QED  BY <1>5, <2>2, <2>3 DEF ProvRetry, AfterCapacity
<1>6. CASE ProvGate \/ ProvAddDev \/ ProvProcfs
  BY <1>6 DEF ProvGate, ProvAddDev, ProvProcfs, StepsLeft
<1>7. CASE ProvStorageSys
  <2>1. StepsLeft = 11 /\ slot' = slot /\ prov' \in {"vnd_lock", "gc_init"}
    BY <1>7 DEF ProvStorageSys, StepsLeft
  <2>2. prov' = "vnd_lock" => StepsLeft' = 10 - 2 * slot
    BY <2>1 DEF StepsLeft
  <2>3. prov' = "gc_init" => StepsLeft' = 3
    BY DEF StepsLeft
  <2> QED  BY <1>1, <2>1, <2>2, <2>3
<1>8. CASE ProvVendorLock
  BY <1>1, <1>8 DEF ProvVendorLock, StepsLeft
<1>9. CASE ProvVendorRead
  <2>1. StepsLeft = 9 - 2 * slot
    BY <1>9 DEF ProvVendorRead, StepsLeft
  <2>2. CASE prov' = "vnd_lock" /\ slot' = slot + 1 /\ slot + 1 < 3
    <3>1. StepsLeft' = 10 - 2 * (slot + 1)
      BY <2>2 DEF StepsLeft
    <3> QED  BY <1>1, <2>1, <2>2, <3>1
  <2>3. CASE prov' \in {"gc_init", "vnd_reg"}
    <3>1. StepsLeft' \in {3, 4}
      BY <2>3 DEF StepsLeft
    <3> QED  BY <1>1, <2>1, <3>1
  <2> QED  BY <1>9, <2>2, <2>3 DEF ProvVendorRead, VendorReads
<1>10. CASE ProvVendorRegister \/ ProvGcInit
  BY <1>10 DEF ProvVendorRegister, ProvGcInit, StepsLeft
<1>11. CASE ProvSpawnGc \/ ProvMarkGc
  BY <1>11 DEF ProvSpawnGc, ProvMarkGc, StepsLeft
<1> QED
  BY <1>2, <1>3, <1>4, <1>5, <1>6, <1>7, <1>8, <1>9, <1>10, <1>11 DEF Prov

\* The provision thread takes at most MaxAttempts + 20 steps (rknand_provision_thread);
\* that it goes on taking them is fairness, and stays with ProvisionEnds.
THEOREM ProvisionIsBounded == Spec => ProvisionAdvances
<1>1. ASSUME TypeOK, IInv, [Next]_vars, prov # "none", ~Prov PROVE StepsLeft' = StepsLeft
  <2>1. mod # "spawn"
    BY <1>1 DEF IInv, ProvisionFirst, Loading
  <2>2. UNCHANGED <<prov, attempt, slot>>
    <3>1. CASE Mod
      BY <2>1, <3>1 DEF Mod, ModDriverRegister, ModFtlInit, ModRegisterBlkdev, ModAllocBuffer,
         ModAllocTagSet, ModSpawnProvision, ModInitialised, ModUnwind, ModExit, ModTrylock,
         ModWriteBack, ModUnregister, ModDeInit, ModMiscDeinit, ModDriverUnregister, provVars
    <3>2. CASE ~Mod
      BY <1>1, <3>2, Frames, ZenonT(60) DEF Next, Unloaded, vars, provVars, GcUnchanged,
         SubUnchanged, UserUnchanged, PmUnchanged, OffUnchanged
    <3> QED  BY <3>1, <3>2
  <2> QED  BY <2>2 DEF StepsLeft
<1>2. TypeOK /\ IInv /\ [Next]_vars =>
        [prov # "none" => IF Prov THEN StepsLeft' \in Nat /\ StepsLeft' < StepsLeft
                                  ELSE StepsLeft' = StepsLeft]_vars
  BY <1>1, ProvStep
<1> QED  BY <1>2, TypeCorrect, Inductive, PTL DEF Spec, ProvisionAdvances
=============================================================================
