-------------------------- MODULE RknandBlk_proofs --------------------------
(***************************************************************************)
(* Proofs about RknandBlk for any number of submitters and users, any      *)
(* queue depth and any bound of the retry loop.                            *)
(*                                                                         *)
(* A step lemma has one step per context, in the order of Next, and below  *)
(* it one per action wherever the context can disturb the invariant.       *)
(***************************************************************************)
EXTENDS RknandBlk, TLAPS, FiniteSetTheorems

\* Wide time limits: what is proved should not depend on the speed of the machine.
USE SMTT(30), ZenonT(60)

ModFrame == UNCHANGED <<sub, user, pm, off, gcDo, queueVars, gcVars>>

\* What no step of a context changes.
LEMMA Frames ==
    /\ Mod => ModFrame
    /\ Prov => ProvUnchanged
    /\ Gc => GcUnchanged
    /\ \A s \in Submitters : SubQueueRq(s) \/ SubWork(s) => SubUnchanged
    /\ \A u \in Users : UserFlush(u) \/ UserVendor(u) \/ UserWork(u) => UserUnchanged
    /\ PmSuspend \/ Pm => PmUnchanged
    /\ OffStart \/ OffWork => OffUnchanged
<1>1. Mod => ModFrame
  BY DEF Mod, ModDriverRegister, ModFtlInit, ModRegisterBlkdev, ModAllocBuffer,
     ModAllocTagSet, ModSpawnProvision, ModInitialised, ModUnwind, ModExit,
     ModTrylock, ModWriteBack, ModUnregister, ModDeInit, ModMiscDeinit,
     ModDriverUnregister, ModUnchanged, ModFrame
<1>2. Prov => ProvUnchanged
  BY DEF Prov, ProvStart, ProvReInit, ProvLoadBbt, ProvMakeBbt, ProvLowFormat,
     ProvRetry, ProvGate, ProvAddDev, ProvProcfs, ProvStorageSys,
     ProvVendorLock, ProvVendorRead, ProvVendorRegister, ProvGcInit,
     ProvSpawnGc, ProvMarkGc
<1>3. Gc => GcUnchanged
  BY ZenonT(60) DEF Gc, GcInit, GcTop, GcCheck, GcTrylock, GcCollect, GcCount,
     GcWriteBackLock, GcWriteBack, GcSleep, GcExit
<1>4. ASSUME NEW s \in Submitters, SubQueueRq(s) \/ SubWork(s) PROVE SubUnchanged
  BY <1>4 DEF SubQueueRq, SubWork, SubLock, SubAppend, SubTake, SubDrained,
     SubDeviceLock, SubTransfer, SubEndRequest, SubWakeGc
<1>5. ASSUME NEW u \in Users, UserFlush(u) \/ UserVendor(u) \/ UserWork(u)
      PROVE  UserUnchanged
  BY <1>5, ZenonT(60) DEF UserFlush, UserVendor, UserWork, UserLock, UserReturn
<1>6. PmSuspend \/ Pm => PmUnchanged
  BY DEF PmSuspend, Pm, PmDeviceLock, PmAsleep, PmResume, PmDeviceUnlock
<1>7. OffStart \/ OffWork => OffUnchanged
  BY DEF OffStart, OffWork, OffJoin, OffDeInit
<1>8. QED
  BY <1>1, <1>2, <1>3, <1>4, <1>5, <1>6, <1>7
-----------------------------------------------------------------------------
(***************************************************************************)
(* Types.                                                                  *)
(***************************************************************************)

\* The program counters stay on their labels.
LEMMA PcStep == PcOK /\ [Next]_vars => PcOK'
<1> SUFFICES ASSUME PcOK, [Next]_vars PROVE PcOK'
  OBVIOUS
<1> USE DEF PcOK, SubPc, UserPc, ProvPc, GcPc, PmPc, OffPc, ModPc, queueVars,
        gcVars, provVars, flagVars
<1>1. CASE Mod
  <2>1. CASE ModDriverRegister
    BY <2>1 DEF ModDriverRegister, ModUnchanged
  <2>2. CASE ModFtlInit
    BY <2>2 DEF ModFtlInit, ModUnchanged
  <2>3. CASE ModRegisterBlkdev
    BY <2>3 DEF ModRegisterBlkdev, ModUnchanged
  <2>4. CASE ModAllocBuffer
    BY <2>4 DEF ModAllocBuffer, ModUnchanged
  <2>5. CASE ModAllocTagSet
    BY <2>5 DEF ModAllocTagSet, ModUnchanged
  <2>6. CASE ModSpawnProvision
    BY <2>6 DEF ModSpawnProvision, ModUnchanged
  <2>7. CASE ModInitialised
    BY <2>7 DEF ModInitialised, ModUnchanged
  <2>8. CASE ModUnwind
    BY <2>8 DEF ModUnwind, ModUnchanged
  <2>9. CASE ModExit
    BY <2>9 DEF ModExit, ModUnchanged
  <2>10. CASE ModTrylock
    BY <2>10 DEF ModTrylock
  <2>11. CASE ModWriteBack
    BY <2>11 DEF ModWriteBack
  <2>12. CASE ModUnregister
    BY <2>12 DEF ModUnregister, ModUnchanged
  <2>13. CASE ModDeInit
    BY <2>13 DEF ModDeInit
  <2>14. CASE ModMiscDeinit
    BY <2>14 DEF ModMiscDeinit, ModUnchanged
  <2>15. CASE ModDriverUnregister
    BY <2>15 DEF ModDriverUnregister, ModUnchanged
  <2>16. QED
    BY <1>1, <2>1, <2>2, <2>3, <2>4, <2>5, <2>6, <2>7, <2>8, <2>9, <2>10, <2>11,
       <2>12, <2>13, <2>14, <2>15 DEF Mod
<1>2. CASE Prov
  <2>1. CASE ProvStart
    BY <2>1 DEF ProvStart, ProvUnchanged, AfterCapacity
  <2>2. CASE ProvReInit
    BY <2>2 DEF ProvReInit, ProvUnchanged, AfterCapacity
  <2>3. CASE ProvLoadBbt
    BY <2>3 DEF ProvLoadBbt, ProvUnchanged
  <2>4. CASE ProvMakeBbt
    BY <2>4 DEF ProvMakeBbt, ProvUnchanged
  <2>5. CASE ProvLowFormat
    BY <2>5 DEF ProvLowFormat, ProvUnchanged, AfterCapacity
  <2>6. CASE ProvRetry
    BY <2>6 DEF ProvRetry, ProvUnchanged, AfterCapacity
  <2>7. CASE ProvGate
    BY <2>7 DEF ProvGate, ProvUnchanged
  <2>8. CASE ProvAddDev
    BY <2>8 DEF ProvAddDev, ProvUnchanged
  <2>9. CASE ProvProcfs
    BY <2>9 DEF ProvProcfs, ProvUnchanged
  <2>10. CASE ProvStorageSys
    BY <2>10 DEF ProvStorageSys, ProvUnchanged
  <2>11. CASE ProvVendorLock
    BY <2>11 DEF ProvVendorLock, ProvUnchanged
  <2>12. CASE ProvVendorRead
    BY <2>12 DEF ProvVendorRead, ProvUnchanged
  <2>13. CASE ProvVendorRegister
    BY <2>13 DEF ProvVendorRegister, ProvUnchanged
  <2>14. CASE ProvGcInit
    BY <2>14 DEF ProvGcInit, ProvUnchanged
  <2>15. CASE ProvSpawnGc
    BY <2>15 DEF ProvSpawnGc, ProvUnchanged
  <2>16. CASE ProvMarkGc
    BY <2>16 DEF ProvMarkGc, ProvUnchanged
  <2>17. QED
    BY <1>2, <2>1, <2>2, <2>3, <2>4, <2>5, <2>6, <2>7, <2>8, <2>9, <2>10,
       <2>11, <2>12, <2>13, <2>14, <2>15, <2>16 DEF Prov
<1>3. CASE Gc
  <2>1. CASE GcInit
    BY <2>1 DEF GcInit, GcUnchanged
  <2>2. CASE GcTop
    BY <2>2 DEF GcTop, GcUnchanged
  <2>3. CASE GcCheck
    BY <2>3 DEF GcCheck, GcUnchanged
  <2>4. CASE GcTrylock
    BY <2>4 DEF GcTrylock, GcUnchanged
  <2>5. CASE GcCollect
    BY <2>5 DEF GcCollect, GcUnchanged
  <2>6. CASE GcCount
    BY <2>6 DEF GcCount, GcUnchanged
  <2>7. CASE GcWriteBackLock
    BY <2>7 DEF GcWriteBackLock, GcUnchanged
  <2>8. CASE GcWriteBack
    BY <2>8 DEF GcWriteBack, GcUnchanged
  <2>9. CASE GcSleep
    BY <2>9 DEF GcSleep, GcUnchanged
  <2>10. CASE GcExit
    BY <2>10 DEF GcExit, GcUnchanged
  <2>11. QED
    BY <1>3, <2>1, <2>2, <2>3, <2>4, <2>5, <2>6, <2>7, <2>8, <2>9, <2>10 DEF Gc
<1>4. ASSUME NEW s \in Submitters, SubQueueRq(s) \/ SubWork(s) PROVE PcOK'
  <2>1. CASE SubQueueRq(s)
    BY <2>1 DEF SubQueueRq, SubUnchanged
  <2>2. CASE SubLock(s)
    BY <2>2 DEF SubLock, SubUnchanged
  <2>3. CASE SubAppend(s)
    BY <2>3 DEF SubAppend, SubUnchanged
  <2>4. CASE SubTake(s)
    BY <2>4 DEF SubTake, SubUnchanged
  <2>5. CASE SubDrained(s)
    BY <2>5 DEF SubDrained, SubUnchanged
  <2>6. CASE SubDeviceLock(s)
    BY <2>6 DEF SubDeviceLock, SubUnchanged
  <2>7. CASE SubTransfer(s)
    BY <2>7 DEF SubTransfer, SubUnchanged
  <2>8. CASE SubEndRequest(s)
    BY <2>8 DEF SubEndRequest, SubUnchanged
  <2>9. CASE SubWakeGc(s)
    BY <2>9 DEF SubWakeGc, SubUnchanged
  <2>10. QED
    BY <1>4, <2>1, <2>2, <2>3, <2>4, <2>5, <2>6, <2>7, <2>8, <2>9 DEF SubWork
<1>5. ASSUME NEW u \in Users, UserFlush(u) \/ UserVendor(u) \/ UserWork(u)
      PROVE  PcOK'
  <2>1. CASE UserFlush(u)
    BY <2>1 DEF UserFlush, UserUnchanged
  <2>2. CASE UserVendor(u)
    BY <2>2 DEF UserVendor, UserUnchanged
  <2>3. CASE UserLock(u)
    BY <2>3 DEF UserLock, UserUnchanged
  <2>4. CASE UserReturn(u)
    BY <2>4 DEF UserReturn, UserUnchanged
  <2>5. QED
    BY <1>5, <2>1, <2>2, <2>3, <2>4 DEF UserWork
<1>6. CASE PmSuspend \/ Pm
  <2>1. CASE PmSuspend
    BY <2>1 DEF PmSuspend, PmUnchanged
  <2>2. CASE PmDeviceLock
    BY <2>2 DEF PmDeviceLock, PmUnchanged
  <2>3. CASE PmAsleep
    BY <2>3 DEF PmAsleep, PmUnchanged
  <2>4. CASE PmResume
    BY <2>4 DEF PmResume, PmUnchanged
  <2>5. CASE PmDeviceUnlock
    BY <2>5 DEF PmDeviceUnlock, PmUnchanged
  <2>6. QED
    BY <1>6, <2>1, <2>2, <2>3, <2>4, <2>5 DEF Pm
<1>7. CASE OffStart \/ OffWork
  <2>1. CASE OffStart
    BY <2>1 DEF OffStart, OffUnchanged
  <2>2. CASE OffJoin
    BY <2>2 DEF OffJoin, OffUnchanged
  <2>3. CASE OffDeInit
    BY <2>3 DEF OffDeInit, OffUnchanged
  <2>4. QED
    BY <1>7, <2>1, <2>2, <2>3 DEF OffWork
<1>8. CASE UNCHANGED vars
  BY <1>8 DEF vars
<1> HIDE DEF PcOK
<1>9. QED
  BY <1>1, <1>2, <1>3, <1>4, <1>5, <1>6, <1>7, <1>8 DEF Next, Unloaded

\* The locks have a holder or none and rq_list holds requests.
LEMMA LocksStep == PcOK /\ LocksOK /\ [Next]_vars => LocksOK'
<1> SUFFICES ASSUME PcOK, LocksOK, [Next]_vars PROVE LocksOK'
  OBVIOUS
<1> USE DEF LocksOK, Ctx, Threads, queueVars, gcVars, provVars, flagVars
<1>1. CASE Mod
  BY <1>1, ZenonT(60) DEF Mod, ModDriverRegister, ModFtlInit, ModRegisterBlkdev,
     ModAllocBuffer, ModAllocTagSet, ModSpawnProvision, ModInitialised,
     ModUnwind, ModExit, ModTrylock, ModWriteBack, ModUnregister, ModDeInit,
     ModMiscDeinit, ModDriverUnregister, ModUnchanged
<1>2. CASE Prov
  BY <1>2, ZenonT(60) DEF Prov, ProvStart, ProvReInit, ProvLoadBbt, ProvMakeBbt,
     ProvLowFormat, ProvRetry, ProvGate, ProvAddDev, ProvProcfs,
     ProvStorageSys, ProvVendorLock, ProvVendorRead, ProvVendorRegister,
     ProvGcInit, ProvSpawnGc, ProvMarkGc, AfterCapacity, ProvUnchanged
<1>3. CASE Gc
  BY <1>3, ZenonT(60) DEF Gc, GcInit, GcTop, GcCheck, GcTrylock, GcCollect, GcCount,
     GcWriteBackLock, GcWriteBack, GcSleep, GcExit, GcUnchanged
<1>4. ASSUME NEW s \in Submitters, SubQueueRq(s) \/ SubWork(s) PROVE LocksOK'
  <2>1. CASE SubQueueRq(s)
    BY <2>1 DEF SubQueueRq, SubUnchanged
  <2>2. CASE SubLock(s)
    BY <2>2 DEF SubLock, SubUnchanged
  <2>3. CASE SubAppend(s)
    BY <2>3 DEF SubAppend, SubUnchanged
  <2>4. CASE SubTake(s)
    BY <2>4 DEF SubTake, SubUnchanged
  <2>5. CASE SubDrained(s)
    BY <2>5 DEF SubDrained, SubUnchanged
  <2>6. CASE SubDeviceLock(s)
    BY <2>6 DEF SubDeviceLock, SubUnchanged
  <2>7. CASE SubTransfer(s)
    BY <2>7 DEF SubTransfer, SubUnchanged
  <2>8. CASE SubEndRequest(s)
    BY <2>8, ZenonT(60) DEF SubEndRequest, SubUnchanged
  <2>9. CASE SubWakeGc(s)
    BY <2>9 DEF SubWakeGc, SubUnchanged
  <2>10. QED
    BY <1>4, <2>1, <2>2, <2>3, <2>4, <2>5, <2>6, <2>7, <2>8, <2>9 DEF SubWork
<1>5. ASSUME NEW u \in Users, UserFlush(u) \/ UserVendor(u) \/ UserWork(u)
      PROVE  LocksOK'
  BY <1>5, ZenonT(60) DEF UserFlush, UserVendor, UserWork, UserLock, UserReturn,
     UserUnchanged
<1>6. CASE PmSuspend \/ Pm
  BY <1>6 DEF PmSuspend, Pm, PmDeviceLock, PmAsleep, PmResume, PmDeviceUnlock,
     PmUnchanged
<1>7. CASE OffStart \/ OffWork
  <2>1. OffUnchanged
    BY <1>7, Frames
  <2>2. QED
    BY <2>1 DEF OffUnchanged
<1>8. CASE UNCHANGED vars
  BY <1>8 DEF vars
<1> HIDE DEF PcOK, LocksOK
<1>9. QED
  BY <1>1, <1>2, <1>3, <1>4, <1>5, <1>6, <1>7, <1>8 DEF Next, Unloaded

\* The counters of the retry loop, of the vendor slots and of the idle rounds
\* stay in range.
LEMMA CountsStep == CountsOK /\ [Next]_vars => CountsOK'
<1> SUFFICES ASSUME CountsOK, [Next]_vars PROVE CountsOK'
  OBVIOUS
<1> USE BoundsAreNat DEF CountsOK, Resources, VendorReads, WriteBackFirst,
        WriteBackEnd, queueVars, gcVars, provVars, flagVars
<1>1. CASE Mod
  <2>1. CASE ModDriverRegister
    BY <2>1, ZenonT(60) DEF ModDriverRegister, ModUnchanged
  <2>2. CASE ModFtlInit
    BY <2>2, ZenonT(60) DEF ModFtlInit, ModUnchanged
  <2>3. CASE ModRegisterBlkdev
    BY <2>3, ZenonT(60) DEF ModRegisterBlkdev, ModUnchanged
  <2>4. CASE ModAllocBuffer
    BY <2>4, ZenonT(60) DEF ModAllocBuffer, ModUnchanged
  <2>5. CASE ModAllocTagSet
    BY <2>5, ZenonT(60) DEF ModAllocTagSet, ModUnchanged
  <2>6. CASE ModSpawnProvision
    BY <2>6 DEF ModSpawnProvision, ModUnchanged
  <2>7. CASE ModInitialised
    BY <2>7 DEF ModInitialised, ModUnchanged
  <2>8. CASE ModUnwind
    BY <2>8 DEF ModUnwind, ModUnchanged
  <2>9. CASE ModExit
    BY <2>9 DEF ModExit, ModUnchanged
  <2>10. CASE ModTrylock
    BY <2>10 DEF ModTrylock
  <2>11. CASE ModWriteBack
    BY <2>11 DEF ModWriteBack
  <2>12. CASE ModUnregister
    BY <2>12 DEF ModUnregister, ModUnchanged
  <2>13. CASE ModDeInit
    BY <2>13 DEF ModDeInit
  <2>14. CASE ModMiscDeinit
    BY <2>14 DEF ModMiscDeinit, ModUnchanged
  <2>15. CASE ModDriverUnregister
    BY <2>15 DEF ModDriverUnregister, ModUnchanged
  <2>16. QED
    BY <1>1, <2>1, <2>2, <2>3, <2>4, <2>5, <2>6, <2>7, <2>8, <2>9, <2>10,
       <2>11, <2>12, <2>13, <2>14, <2>15 DEF Mod
<1>2. CASE Prov
  <2>1. CASE ProvStart
    BY <2>1 DEF ProvStart, ProvUnchanged, AfterCapacity
  <2>2. CASE ProvReInit
    BY <2>2 DEF ProvReInit, ProvUnchanged, AfterCapacity
  <2>3. CASE ProvLoadBbt
    BY <2>3 DEF ProvLoadBbt, ProvUnchanged
  <2>4. CASE ProvMakeBbt
    BY <2>4 DEF ProvMakeBbt, ProvUnchanged
  <2>5. CASE ProvLowFormat
    BY <2>5 DEF ProvLowFormat, ProvUnchanged, AfterCapacity
  <2>6. CASE ProvRetry
    BY <2>6 DEF ProvRetry, ProvUnchanged, AfterCapacity
  <2>7. CASE ProvGate
    BY <2>7 DEF ProvGate, ProvUnchanged
  <2>8. CASE ProvAddDev
    BY <2>8, ZenonT(60) DEF ProvAddDev, ProvUnchanged
  <2>9. CASE ProvProcfs
    BY <2>9, ZenonT(60) DEF ProvProcfs, ProvUnchanged
  <2>10. CASE ProvStorageSys
    BY <2>10, ZenonT(60) DEF ProvStorageSys, ProvUnchanged
  <2>11. CASE ProvVendorLock
    BY <2>11 DEF ProvVendorLock, ProvUnchanged
  <2>12. CASE ProvVendorRead
    BY <2>12 DEF ProvVendorRead, ProvUnchanged
  <2>13. CASE ProvVendorRegister
    BY <2>13, ZenonT(60) DEF ProvVendorRegister, ProvUnchanged
  <2>14. CASE ProvGcInit
    BY <2>14 DEF ProvGcInit, ProvUnchanged
  <2>15. CASE ProvSpawnGc
    BY <2>15 DEF ProvSpawnGc, ProvUnchanged
  <2>16. CASE ProvMarkGc
    BY <2>16 DEF ProvMarkGc, ProvUnchanged
  <2>17. QED
    BY <1>2, <2>1, <2>2, <2>3, <2>4, <2>5, <2>6, <2>7, <2>8, <2>9, <2>10,
       <2>11, <2>12, <2>13, <2>14, <2>15, <2>16 DEF Prov
<1>3. CASE Gc
  <2>1. CASE GcInit
    BY <2>1 DEF GcInit, GcUnchanged
  <2>2. CASE GcTop
    BY <2>2 DEF GcTop, GcUnchanged
  <2>3. CASE GcCheck
    BY <2>3 DEF GcCheck, GcUnchanged
  <2>4. CASE GcTrylock
    BY <2>4 DEF GcTrylock, GcUnchanged
  <2>5. CASE GcCollect
    BY <2>5 DEF GcCollect, GcUnchanged
  <2>6. CASE GcCount
    BY <2>6 DEF GcCount, GcUnchanged
  <2>7. CASE GcWriteBackLock
    BY <2>7 DEF GcWriteBackLock, GcUnchanged
  <2>8. CASE GcWriteBack
    BY <2>8 DEF GcWriteBack, GcUnchanged
  <2>9. CASE GcSleep
    BY <2>9 DEF GcSleep, GcUnchanged
  <2>10. CASE GcExit
    BY <2>10 DEF GcExit, GcUnchanged
  <2>11. QED
    BY <1>3, <2>1, <2>2, <2>3, <2>4, <2>5, <2>6, <2>7, <2>8, <2>9, <2>10 DEF Gc
<1>4. ASSUME NEW s \in Submitters, SubQueueRq(s) \/ SubWork(s) PROVE CountsOK'
  <2>1. SubUnchanged
    BY <1>4, Frames
  <2>2. QED
    BY <2>1 DEF SubUnchanged
<1>5. ASSUME NEW u \in Users, UserFlush(u) \/ UserVendor(u) \/ UserWork(u)
      PROVE  CountsOK'
  <2>1. UserUnchanged
    BY <1>5, Frames
  <2>2. QED
    BY <2>1 DEF UserUnchanged
<1>6. CASE PmSuspend \/ Pm
  <2>1. PmUnchanged
    BY <1>6, Frames
  <2>2. QED
    BY <2>1 DEF PmUnchanged
<1>7. CASE OffStart \/ OffWork
  <2>1. OffUnchanged
    BY <1>7, Frames
  <2>2. QED
    BY <2>1 DEF OffUnchanged
<1>8. CASE UNCHANGED vars
  BY <1>8 DEF vars
<1> HIDE DEF CountsOK
<1>9. QED
  BY <1>1, <1>2, <1>3, <1>4, <1>5, <1>6, <1>7, <1>8 DEF Next, Unloaded

\* The flags are Boolean.
LEMMA FlagsStep == FlagsOK /\ [Next]_vars => FlagsOK'
<1> SUFFICES ASSUME FlagsOK, [Next]_vars PROVE FlagsOK'
  OBVIOUS
<1> USE DEF FlagsOK, queueVars, gcVars, provVars, flagVars
<1>1. CASE Mod
  <2>1. CASE ModDriverRegister
    BY <2>1, ZenonT(60) DEF ModDriverRegister, ModUnchanged
  <2>2. CASE ModFtlInit
    BY <2>2 DEF ModFtlInit, ModUnchanged
  <2>3. CASE ModRegisterBlkdev
    BY <2>3, ZenonT(60) DEF ModRegisterBlkdev, ModUnchanged
  <2>4. CASE ModAllocBuffer
    BY <2>4 DEF ModAllocBuffer, ModUnchanged
  <2>5. CASE ModAllocTagSet
    BY <2>5 DEF ModAllocTagSet, ModUnchanged
  <2>6. CASE ModSpawnProvision
    BY <2>6 DEF ModSpawnProvision, ModUnchanged
  <2>7. CASE ModInitialised
    BY <2>7 DEF ModInitialised, ModUnchanged
  <2>8. CASE ModUnwind
    BY <2>8, ZenonT(60) DEF ModUnwind, ModUnchanged
  <2>9. CASE ModExit
    BY <2>9, ZenonT(60) DEF ModExit, ModUnchanged
  <2>10. CASE ModTrylock
    BY <2>10 DEF ModTrylock
  <2>11. CASE ModWriteBack
    BY <2>11, ZenonT(60) DEF ModWriteBack
  <2>12. CASE ModUnregister
    BY <2>12 DEF ModUnregister, ModUnchanged
  <2>13. CASE ModDeInit
    BY <2>13, ZenonT(60) DEF ModDeInit
  <2>14. CASE ModMiscDeinit
    BY <2>14 DEF ModMiscDeinit, ModUnchanged
  <2>15. CASE ModDriverUnregister
    BY <2>15, ZenonT(60) DEF ModDriverUnregister, ModUnchanged
  <2>16. QED
    BY <1>1, <2>1, <2>2, <2>3, <2>4, <2>5, <2>6, <2>7, <2>8, <2>9, <2>10,
       <2>11, <2>12, <2>13, <2>14, <2>15 DEF Mod
<1>2. CASE Prov
  <2>1. CASE ProvStart
    BY <2>1 DEF ProvStart, ProvUnchanged, AfterCapacity
  <2>2. CASE ProvReInit
    BY <2>2 DEF ProvReInit, ProvUnchanged, AfterCapacity
  <2>3. CASE ProvLoadBbt
    BY <2>3 DEF ProvLoadBbt, ProvUnchanged
  <2>4. CASE ProvMakeBbt
    BY <2>4 DEF ProvMakeBbt, ProvUnchanged
  <2>5. CASE ProvLowFormat
    BY <2>5 DEF ProvLowFormat, ProvUnchanged, AfterCapacity
  <2>6. CASE ProvRetry
    BY <2>6 DEF ProvRetry, ProvUnchanged, AfterCapacity
  <2>7. CASE ProvGate
    BY <2>7 DEF ProvGate, ProvUnchanged
  <2>8. CASE ProvAddDev
    BY <2>8 DEF ProvAddDev, ProvUnchanged
  <2>9. CASE ProvProcfs
    BY <2>9 DEF ProvProcfs, ProvUnchanged
  <2>10. CASE ProvStorageSys
    BY <2>10 DEF ProvStorageSys, ProvUnchanged
  <2>11. CASE ProvVendorLock
    BY <2>11 DEF ProvVendorLock, ProvUnchanged
  <2>12. CASE ProvVendorRead
    BY <2>12 DEF ProvVendorRead, ProvUnchanged
  <2>13. CASE ProvVendorRegister
    BY <2>13 DEF ProvVendorRegister, ProvUnchanged
  <2>14. CASE ProvGcInit
    BY <2>14, ZenonT(60) DEF ProvGcInit, ProvUnchanged
  <2>15. CASE ProvSpawnGc
    BY <2>15 DEF ProvSpawnGc, ProvUnchanged
  <2>16. CASE ProvMarkGc
    BY <2>16 DEF ProvMarkGc, ProvUnchanged
  <2>17. QED
    BY <1>2, <2>1, <2>2, <2>3, <2>4, <2>5, <2>6, <2>7, <2>8, <2>9, <2>10,
       <2>11, <2>12, <2>13, <2>14, <2>15, <2>16 DEF Prov
<1>3. CASE Gc
  <2>1. CASE GcInit
    BY <2>1 DEF GcInit, GcUnchanged
  <2>2. CASE GcTop
    BY <2>2 DEF GcTop, GcUnchanged
  <2>3. CASE GcCheck
    BY <2>3 DEF GcCheck, GcUnchanged
  <2>4. CASE GcTrylock
    BY <2>4 DEF GcTrylock, GcUnchanged
  <2>5. CASE GcCollect
    BY <2>5, ZenonT(60) DEF GcCollect, GcUnchanged
  <2>6. CASE GcCount
    BY <2>6 DEF GcCount, GcUnchanged
  <2>7. CASE GcWriteBackLock
    BY <2>7 DEF GcWriteBackLock, GcUnchanged
  <2>8. CASE GcWriteBack
    BY <2>8, ZenonT(60) DEF GcWriteBack, GcUnchanged
  <2>9. CASE GcSleep
    BY <2>9 DEF GcSleep, GcUnchanged
  <2>10. CASE GcExit
    BY <2>10 DEF GcExit, GcUnchanged
  <2>11. QED
    BY <1>3, <2>1, <2>2, <2>3, <2>4, <2>5, <2>6, <2>7, <2>8, <2>9, <2>10 DEF Gc
<1>4. ASSUME NEW s \in Submitters, SubQueueRq(s) \/ SubWork(s) PROVE FlagsOK'
  <2>1. CASE SubQueueRq(s)
    BY <2>1, ZenonT(60) DEF SubQueueRq, SubUnchanged
  <2>2. CASE SubLock(s)
    BY <2>2 DEF SubLock, SubUnchanged
  <2>3. CASE SubAppend(s)
    BY <2>3 DEF SubAppend, SubUnchanged
  <2>4. CASE SubTake(s)
    BY <2>4 DEF SubTake, SubUnchanged
  <2>5. CASE SubDrained(s)
    BY <2>5 DEF SubDrained, SubUnchanged
  <2>6. CASE SubDeviceLock(s)
    BY <2>6 DEF SubDeviceLock, SubUnchanged
  <2>7. CASE SubTransfer(s)
    BY <2>7 DEF SubTransfer, SubUnchanged
  <2>8. CASE SubEndRequest(s)
    BY <2>8 DEF SubEndRequest, SubUnchanged
  <2>9. CASE SubWakeGc(s)
    BY <2>9 DEF SubWakeGc, SubUnchanged
  <2>10. QED
    BY <1>4, <2>1, <2>2, <2>3, <2>4, <2>5, <2>6, <2>7, <2>8, <2>9 DEF SubWork
<1>5. ASSUME NEW u \in Users, UserFlush(u) \/ UserVendor(u) \/ UserWork(u)
      PROVE  FlagsOK'
  <2>1. CASE UserFlush(u)
    BY <2>1 DEF UserFlush, UserUnchanged
  <2>2. CASE UserVendor(u)
    BY <2>2 DEF UserVendor, UserUnchanged
  <2>3. CASE UserLock(u)
    BY <2>3 DEF UserLock, UserUnchanged
  <2>4. CASE UserReturn(u)
    BY <2>4, ZenonT(60) DEF UserReturn, UserUnchanged
  <2>5. QED
    BY <1>5, <2>1, <2>2, <2>3, <2>4 DEF UserWork
<1>6. CASE PmSuspend \/ Pm
  <2>1. PmUnchanged
    BY <1>6, Frames
  <2>2. QED
    BY <2>1 DEF PmUnchanged
<1>7. CASE OffStart \/ OffWork
  <2>1. CASE OffStart
    BY <2>1, ZenonT(60) DEF OffStart, OffUnchanged
  <2>2. CASE OffJoin
    BY <2>2, ZenonT(60) DEF OffJoin, OffUnchanged
  <2>3. CASE OffDeInit
    BY <2>3, ZenonT(60) DEF OffDeInit, OffUnchanged
  <2>4. QED
    BY <1>7, <2>1, <2>2, <2>3 DEF OffWork
<1>8. CASE UNCHANGED vars
  BY <1>8 DEF vars
<1> HIDE DEF FlagsOK
<1>9. QED
  BY <1>1, <1>2, <1>3, <1>4, <1>5, <1>6, <1>7, <1>8 DEF Next, Unloaded

LEMMA TypeInit == Init => TypeOK
<1> SUFFICES ASSUME Init PROVE TypeOK
  OBVIOUS
<1>1. PcOK
  BY DEF Init, PcOK, SubPc, UserPc, ProvPc, GcPc, PmPc, OffPc, ModPc
<1>2. LocksOK
  BY DEF Init, LocksOK
<1>3. CountsOK
  BY BoundsAreNat DEF Init, CountsOK, WriteBackEnd, VendorReads
<1>4. FlagsOK
  BY ZenonT(60) DEF Init, FlagsOK
<1>5. QED
  BY <1>1, <1>2, <1>3, <1>4 DEF TypeOK

LEMMA TypeStep == TypeOK /\ [Next]_vars => TypeOK'
  BY PcStep, LocksStep, CountsStep, FlagsStep DEF TypeOK

\* Every variable keeps its type: in particular the capacity retry of
\* rknand_provision_thread stops at its bound and req_empty_times stays within
\* the range the model gives it.
THEOREM TypeCorrect == Spec => []TypeOK
  BY TypeInit, TypeStep, PTL DEF Spec
-----------------------------------------------------------------------------
(***************************************************************************)
(* The inductive invariant, part by part.                                  *)
(***************************************************************************)

\* Whoever is between rknand_device_lock and rknand_device_unlock holds the
\* mutex: it is taken only when free and released only by its holder.
LEMMA MutexStep == PcOK /\ MutexInv /\ [Next]_vars => MutexInv'
<1> SUFFICES ASSUME PcOK, MutexInv, [Next]_vars PROVE MutexInv'
  OBVIOUS
<1> USE ContextsDiffer DEF PcOK, MutexInv, HoldsMutex, Ctx, Threads, queueVars,
        gcVars, provVars, flagVars
<1>1. CASE Mod
  <2>1. CASE ModDriverRegister
    BY <2>1 DEF ModDriverRegister, ModUnchanged
  <2>2. CASE ModFtlInit
    BY <2>2 DEF ModFtlInit, ModUnchanged
  <2>3. CASE ModRegisterBlkdev
    BY <2>3 DEF ModRegisterBlkdev, ModUnchanged
  <2>4. CASE ModAllocBuffer
    BY <2>4 DEF ModAllocBuffer, ModUnchanged
  <2>5. CASE ModAllocTagSet
    BY <2>5 DEF ModAllocTagSet, ModUnchanged
  <2>6. CASE ModSpawnProvision
    BY <2>6 DEF ModSpawnProvision, ModUnchanged
  <2>7. CASE ModInitialised
    BY <2>7 DEF ModInitialised, ModUnchanged
  <2>8. CASE ModUnwind
    BY <2>8 DEF ModUnwind, ModUnchanged
  <2>9. CASE ModExit
    BY <2>9 DEF ModExit, ModUnchanged
  <2>10. CASE ModTrylock
    BY <2>10 DEF ModTrylock
  <2>11. CASE ModWriteBack
    BY <2>11 DEF ModWriteBack
  <2>12. CASE ModUnregister
    BY <2>12 DEF ModUnregister, ModUnchanged
  <2>13. CASE ModDeInit
    BY <2>13 DEF ModDeInit
  <2>14. CASE ModMiscDeinit
    BY <2>14 DEF ModMiscDeinit, ModUnchanged
  <2>15. CASE ModDriverUnregister
    BY <2>15 DEF ModDriverUnregister, ModUnchanged
  <2>16. QED
    BY <1>1, <2>1, <2>2, <2>3, <2>4, <2>5, <2>6, <2>7, <2>8, <2>9, <2>10,
       <2>11, <2>12, <2>13, <2>14, <2>15, ZenonT(60) DEF Mod
<1>2. CASE Prov
  <2>1. CASE ProvStart
    BY <2>1 DEF ProvStart, ProvUnchanged, AfterCapacity
  <2>2. CASE ProvReInit
    BY <2>2 DEF ProvReInit, ProvUnchanged, AfterCapacity
  <2>3. CASE ProvLoadBbt
    BY <2>3 DEF ProvLoadBbt, ProvUnchanged
  <2>4. CASE ProvMakeBbt
    BY <2>4 DEF ProvMakeBbt, ProvUnchanged
  <2>5. CASE ProvLowFormat
    BY <2>5 DEF ProvLowFormat, ProvUnchanged, AfterCapacity
  <2>6. CASE ProvRetry
    BY <2>6 DEF ProvRetry, ProvUnchanged, AfterCapacity
  <2>7. CASE ProvGate
    BY <2>7 DEF ProvGate, ProvUnchanged
  <2>8. CASE ProvAddDev
    BY <2>8 DEF ProvAddDev, ProvUnchanged
  <2>9. CASE ProvProcfs
    BY <2>9 DEF ProvProcfs, ProvUnchanged
  <2>10. CASE ProvStorageSys
    BY <2>10 DEF ProvStorageSys, ProvUnchanged
  <2>11. CASE ProvVendorLock
    BY <2>11 DEF ProvVendorLock, ProvUnchanged
  <2>12. CASE ProvVendorRead
    BY <2>12 DEF ProvVendorRead, ProvUnchanged
  <2>13. CASE ProvVendorRegister
    BY <2>13 DEF ProvVendorRegister, ProvUnchanged
  <2>14. CASE ProvGcInit
    BY <2>14 DEF ProvGcInit, ProvUnchanged
  <2>15. CASE ProvSpawnGc
    BY <2>15 DEF ProvSpawnGc, ProvUnchanged
  <2>16. CASE ProvMarkGc
    BY <2>16 DEF ProvMarkGc, ProvUnchanged
  <2>17. QED
    BY <1>2, <2>1, <2>2, <2>3, <2>4, <2>5, <2>6, <2>7, <2>8, <2>9, <2>10,
       <2>11, <2>12, <2>13, <2>14, <2>15, <2>16, ZenonT(60) DEF Prov
<1>3. CASE Gc
  <2>1. CASE GcInit
    BY <2>1 DEF GcInit, GcUnchanged
  <2>2. CASE GcTop
    BY <2>2 DEF GcTop, GcUnchanged
  <2>3. CASE GcCheck
    BY <2>3 DEF GcCheck, GcUnchanged
  <2>4. CASE GcTrylock
    BY <2>4 DEF GcTrylock, GcUnchanged
  <2>5. CASE GcCollect
    BY <2>5 DEF GcCollect, GcUnchanged
  <2>6. CASE GcCount
    BY <2>6 DEF GcCount, GcUnchanged
  <2>7. CASE GcWriteBackLock
    BY <2>7 DEF GcWriteBackLock, GcUnchanged
  <2>8. CASE GcWriteBack
    BY <2>8 DEF GcWriteBack, GcUnchanged
  <2>9. CASE GcSleep
    BY <2>9 DEF GcSleep, GcUnchanged
  <2>10. CASE GcExit
    BY <2>10 DEF GcExit, GcUnchanged
  <2>11. QED
    BY <1>3, <2>1, <2>2, <2>3, <2>4, <2>5, <2>6, <2>7, <2>8, <2>9, <2>10 DEF Gc
<1>4. ASSUME NEW s \in Submitters, SubQueueRq(s) \/ SubWork(s) PROVE MutexInv'
  <2>1. CASE SubQueueRq(s)
    BY <2>1 DEF SubQueueRq, SubUnchanged
  <2>2. CASE SubLock(s)
    BY <2>2 DEF SubLock, SubUnchanged
  <2>3. CASE SubAppend(s)
    BY <2>3 DEF SubAppend, SubUnchanged
  <2>4. CASE SubTake(s)
    BY <2>4 DEF SubTake, SubUnchanged
  <2>5. CASE SubDrained(s)
    BY <2>5 DEF SubDrained, SubUnchanged
  <2>6. CASE SubDeviceLock(s)
    BY <2>6 DEF SubDeviceLock, SubUnchanged
  <2>7. CASE SubTransfer(s)
    BY <2>7 DEF SubTransfer, SubUnchanged
  <2>8. CASE SubEndRequest(s)
    BY <2>8 DEF SubEndRequest, SubUnchanged
  <2>9. CASE SubWakeGc(s)
    BY <2>9 DEF SubWakeGc, SubUnchanged
  <2>10. QED
    BY <1>4, <2>1, <2>2, <2>3, <2>4, <2>5, <2>6, <2>7, <2>8, <2>9 DEF SubWork
<1>5. ASSUME NEW u \in Users, UserFlush(u) \/ UserVendor(u) \/ UserWork(u)
      PROVE  MutexInv'
  <2>1. CASE UserFlush(u)
    BY <2>1 DEF UserFlush, UserUnchanged
  <2>2. CASE UserVendor(u)
    BY <2>2 DEF UserVendor, UserUnchanged
  <2>3. CASE UserLock(u)
    BY <2>3 DEF UserLock, UserUnchanged
  <2>4. CASE UserReturn(u)
    BY <2>4 DEF UserReturn, UserUnchanged
  <2>5. QED
    BY <1>5, <2>1, <2>2, <2>3, <2>4 DEF UserWork
<1>6. CASE PmSuspend \/ Pm
  <2>1. CASE PmSuspend
    BY <2>1 DEF PmSuspend, PmUnchanged
  <2>2. CASE PmDeviceLock
    BY <2>2 DEF PmDeviceLock, PmUnchanged
  <2>3. CASE PmAsleep
    BY <2>3 DEF PmAsleep, PmUnchanged
  <2>4. CASE PmResume
    BY <2>4 DEF PmResume, PmUnchanged
  <2>5. CASE PmDeviceUnlock
    BY <2>5 DEF PmDeviceUnlock, PmUnchanged
  <2>6. QED
    BY <1>6, <2>1, <2>2, <2>3, <2>4, <2>5 DEF Pm
<1>7. CASE OffStart \/ OffWork
  <2>1. OffUnchanged
    BY <1>7, Frames
  <2>2. QED
    BY <2>1 DEF OffUnchanged
<1>8. CASE UNCHANGED vars
  BY <1>8 DEF vars
<1> HIDE DEF PcOK, MutexInv
<1>9. QED
  BY <1>1, <1>2, <1>3, <1>4, <1>5, <1>6, <1>7, <1>8 DEF Next, Unloaded

\* The disk, the misc devices and the GC thread appear only once
\* rknand_provision_thread has formatted and added the disk.
LEMMA ProvisionStep ==
    PcOK /\ CountsOK /\ ProvisionFirst /\ [Next]_vars => ProvisionFirst'
<1> SUFFICES ASSUME PcOK, CountsOK, ProvisionFirst, [Next]_vars PROVE ProvisionFirst'
  OBVIOUS
<1> USE DEF PcOK, CountsOK, ProvisionFirst, Loading, BeforeDisk, queueVars, gcVars,
        provVars, flagVars
<1>1. CASE Mod
  <2>1. CASE ModDriverRegister
    BY <2>1 DEF ModDriverRegister, ModUnchanged
  <2>2. CASE ModFtlInit
    BY <2>2 DEF ModFtlInit, ModUnchanged
  <2>3. CASE ModRegisterBlkdev
    BY <2>3 DEF ModRegisterBlkdev, ModUnchanged
  <2>4. CASE ModAllocBuffer
    BY <2>4 DEF ModAllocBuffer, ModUnchanged
  <2>5. CASE ModAllocTagSet
    BY <2>5 DEF ModAllocTagSet, ModUnchanged
  <2>6. CASE ModSpawnProvision
    BY <2>6 DEF ModSpawnProvision, ModUnchanged
  <2>7. CASE ModInitialised
    BY <2>7 DEF ModInitialised, ModUnchanged
  <2>8. CASE ModUnwind
    BY <2>8 DEF ModUnwind, ModUnchanged
  <2>9. CASE ModExit
    BY <2>9 DEF ModExit, ModUnchanged
  <2>10. CASE ModTrylock
    BY <2>10 DEF ModTrylock
  <2>11. CASE ModWriteBack
    BY <2>11 DEF ModWriteBack
  <2>12. CASE ModUnregister
    BY <2>12 DEF ModUnregister, ModUnchanged
  <2>13. CASE ModDeInit
    BY <2>13 DEF ModDeInit
  <2>14. CASE ModMiscDeinit
    BY <2>14 DEF ModMiscDeinit, ModUnchanged
  <2>15. CASE ModDriverUnregister
    BY <2>15 DEF ModDriverUnregister, ModUnchanged
  <2>16. QED
    BY <1>1, <2>1, <2>2, <2>3, <2>4, <2>5, <2>6, <2>7, <2>8, <2>9, <2>10,
       <2>11, <2>12, <2>13, <2>14, <2>15, ZenonT(60) DEF Mod
<1>2. CASE Prov
  <2>1. CASE ProvStart
    BY <2>1 DEF ProvStart, ProvUnchanged, AfterCapacity
  <2>2. CASE ProvReInit
    BY <2>2 DEF ProvReInit, ProvUnchanged, AfterCapacity
  <2>3. CASE ProvLoadBbt
    BY <2>3 DEF ProvLoadBbt, ProvUnchanged
  <2>4. CASE ProvMakeBbt
    BY <2>4 DEF ProvMakeBbt, ProvUnchanged
  <2>5. CASE ProvLowFormat
    BY <2>5 DEF ProvLowFormat, ProvUnchanged, AfterCapacity
  <2>6. CASE ProvRetry
    BY <2>6 DEF ProvRetry, ProvUnchanged, AfterCapacity
  <2>7. CASE ProvGate
    BY <2>7 DEF ProvGate, ProvUnchanged
  <2>8. CASE ProvAddDev
    BY <2>8 DEF ProvAddDev, ProvUnchanged
  <2>9. CASE ProvProcfs
    BY <2>9 DEF ProvProcfs, ProvUnchanged
  <2>10. CASE ProvStorageSys
    BY <2>10 DEF ProvStorageSys, ProvUnchanged
  <2>11. CASE ProvVendorLock
    BY <2>11 DEF ProvVendorLock, ProvUnchanged
  <2>12. CASE ProvVendorRead
    BY <2>12 DEF ProvVendorRead, ProvUnchanged
  <2>13. CASE ProvVendorRegister
    BY <2>13 DEF ProvVendorRegister, ProvUnchanged
  <2>14. CASE ProvGcInit
    BY <2>14 DEF ProvGcInit, ProvUnchanged
  <2>15. CASE ProvSpawnGc
    BY <2>15 DEF ProvSpawnGc, ProvUnchanged
  <2>16. CASE ProvMarkGc
    BY <2>16 DEF ProvMarkGc, ProvUnchanged
  <2>17. QED
    BY <1>2, <2>1, <2>2, <2>3, <2>4, <2>5, <2>6, <2>7, <2>8, <2>9, <2>10,
       <2>11, <2>12, <2>13, <2>14, <2>15, <2>16, ZenonT(60) DEF Prov
<1>3. CASE Gc
  <2>1. CASE GcInit
    BY <2>1 DEF GcInit, GcUnchanged
  <2>2. CASE GcTop
    BY <2>2 DEF GcTop, GcUnchanged
  <2>3. CASE GcCheck
    BY <2>3 DEF GcCheck, GcUnchanged
  <2>4. CASE GcTrylock
    BY <2>4 DEF GcTrylock, GcUnchanged
  <2>5. CASE GcCollect
    BY <2>5 DEF GcCollect, GcUnchanged
  <2>6. CASE GcCount
    BY <2>6 DEF GcCount, GcUnchanged
  <2>7. CASE GcWriteBackLock
    BY <2>7 DEF GcWriteBackLock, GcUnchanged
  <2>8. CASE GcWriteBack
    BY <2>8 DEF GcWriteBack, GcUnchanged
  <2>9. CASE GcSleep
    BY <2>9 DEF GcSleep, GcUnchanged
  <2>10. CASE GcExit
    BY <2>10 DEF GcExit, GcUnchanged
  <2>11. QED
    BY <1>3, <2>1, <2>2, <2>3, <2>4, <2>5, <2>6, <2>7, <2>8, <2>9, <2>10 DEF Gc
<1>4. ASSUME NEW s \in Submitters, SubQueueRq(s) \/ SubWork(s) PROVE ProvisionFirst'
  <2>1. CASE SubQueueRq(s)
    BY <2>1 DEF SubQueueRq, SubUnchanged
  <2>2. CASE SubLock(s)
    BY <2>2 DEF SubLock, SubUnchanged
  <2>3. CASE SubAppend(s)
    BY <2>3 DEF SubAppend, SubUnchanged
  <2>4. CASE SubTake(s)
    BY <2>4 DEF SubTake, SubUnchanged
  <2>5. CASE SubDrained(s)
    BY <2>5 DEF SubDrained, SubUnchanged
  <2>6. CASE SubDeviceLock(s)
    BY <2>6 DEF SubDeviceLock, SubUnchanged
  <2>7. CASE SubTransfer(s)
    BY <2>7 DEF SubTransfer, SubUnchanged
  <2>8. CASE SubEndRequest(s)
    BY <2>8 DEF SubEndRequest, SubUnchanged
  <2>9. CASE SubWakeGc(s)
    BY <2>9 DEF SubWakeGc, SubUnchanged
  <2>10. QED
    BY <1>4, <2>1, <2>2, <2>3, <2>4, <2>5, <2>6, <2>7, <2>8, <2>9, ZenonT(60) DEF SubWork
<1>5. ASSUME NEW u \in Users, UserFlush(u) \/ UserVendor(u) \/ UserWork(u)
      PROVE  ProvisionFirst'
  <2>1. CASE UserFlush(u)
    BY <2>1 DEF UserFlush, UserUnchanged
  <2>2. CASE UserVendor(u)
    BY <2>2 DEF UserVendor, UserUnchanged
  <2>3. CASE UserLock(u)
    BY <2>3 DEF UserLock, UserUnchanged
  <2>4. CASE UserReturn(u)
    BY <2>4 DEF UserReturn, UserUnchanged
  <2>5. QED
    BY <1>5, <2>1, <2>2, <2>3, <2>4 DEF UserWork
<1>6. CASE PmSuspend \/ Pm
  <2>1. PmUnchanged
    BY <1>6, Frames
  <2>2. QED
    BY <2>1 DEF PmUnchanged
<1>7. CASE OffStart \/ OffWork
  <2>1. OffUnchanged
    BY <1>7, Frames
  <2>2. QED
    BY <2>1 DEF OffUnchanged
<1>8. CASE UNCHANGED vars
  BY <1>8 DEF vars
<1> HIDE DEF PcOK, CountsOK, ProvisionFirst
<1>9. QED
  BY <1>1, <1>2, <1>3, <1>4, <1>5, <1>6, <1>7, <1>8 DEF Next, Unloaded

\* Neither rmmod nor a shutdown starts while the system is suspended.
LEMMA PmStep == PcOK /\ PmInv /\ [Next]_vars => PmInv'
<1> SUFFICES ASSUME PcOK, PmInv, [Next]_vars PROVE PmInv'
  OBVIOUS
<1> USE DEF PcOK, PmInv, UserTasksRun, queueVars, gcVars, provVars, flagVars
<1>1. CASE Mod
  BY <1>1, ZenonT(60) DEF Mod, ModDriverRegister, ModFtlInit, ModRegisterBlkdev,
     ModAllocBuffer, ModAllocTagSet, ModSpawnProvision, ModInitialised,
     ModUnwind, ModExit, ModTrylock, ModWriteBack, ModUnregister, ModDeInit,
     ModMiscDeinit, ModDriverUnregister, ModUnchanged
<1>2. CASE Prov
  <2>1. ProvUnchanged
    BY <1>2, Frames
  <2>2. QED
    BY <2>1 DEF ProvUnchanged
<1>3. CASE Gc
  <2>1. GcUnchanged
    BY <1>3, Frames
  <2>2. QED
    BY <2>1 DEF GcUnchanged
<1>4. ASSUME NEW s \in Submitters, SubQueueRq(s) \/ SubWork(s) PROVE PmInv'
  <2>1. SubUnchanged
    BY <1>4, Frames
  <2>2. QED
    BY <2>1 DEF SubUnchanged
<1>5. ASSUME NEW u \in Users, UserFlush(u) \/ UserVendor(u) \/ UserWork(u)
      PROVE  PmInv'
  <2>1. UserUnchanged
    BY <1>5, Frames
  <2>2. QED
    BY <2>1 DEF UserUnchanged
<1>6. CASE PmSuspend \/ Pm
  BY <1>6 DEF PmSuspend, Pm, PmDeviceLock, PmAsleep, PmResume, PmDeviceUnlock,
     PmUnchanged
<1>7. CASE OffStart \/ OffWork
  BY <1>7 DEF OffStart, OffWork, OffJoin, OffDeInit, OffUnchanged
<1>8. CASE UNCHANGED vars
  BY <1>8 DEF vars
<1> HIDE DEF PcOK, PmInv
<1>9. QED
  BY <1>1, <1>2, <1>3, <1>4, <1>5, <1>6, <1>7, <1>8 DEF Next, Unloaded

\* The GC thread is spawned once, is asked to quit once, and completes
\* thread_exit once.
LEMMA GcStep ==
    PcOK /\ FlagsOK /\ ProvisionFirst /\ GcInv /\ [Next]_vars => GcInv'
<1> SUFFICES ASSUME PcOK, FlagsOK, ProvisionFirst, GcInv, [Next]_vars PROVE GcInv'
  OBVIOUS
<1> USE DEF PcOK, FlagsOK, ProvisionFirst, Loading, BeforeDisk, GcInv, queueVars,
        gcVars, provVars, flagVars
<1>1. CASE Mod
  <2>1. CASE ModDriverRegister
    BY <2>1 DEF ModDriverRegister, ModUnchanged
  <2>2. CASE ModFtlInit
    BY <2>2 DEF ModFtlInit, ModUnchanged
  <2>3. CASE ModRegisterBlkdev
    BY <2>3 DEF ModRegisterBlkdev, ModUnchanged
  <2>4. CASE ModAllocBuffer
    BY <2>4 DEF ModAllocBuffer, ModUnchanged
  <2>5. CASE ModAllocTagSet
    BY <2>5 DEF ModAllocTagSet, ModUnchanged
  <2>6. CASE ModSpawnProvision
    BY <2>6 DEF ModSpawnProvision, ModUnchanged
  <2>7. CASE ModInitialised
    BY <2>7 DEF ModInitialised, ModUnchanged
  <2>8. CASE ModUnwind
    BY <2>8 DEF ModUnwind, ModUnchanged
  <2>9. CASE ModExit
    BY <2>9 DEF ModExit, ModUnchanged
  <2>10. CASE ModTrylock
    BY <2>10 DEF ModTrylock
  <2>11. CASE ModWriteBack
    BY <2>11 DEF ModWriteBack
  <2>12. CASE ModUnregister
    BY <2>12 DEF ModUnregister, ModUnchanged
  <2>13. CASE ModDeInit
    BY <2>13 DEF ModDeInit
  <2>14. CASE ModMiscDeinit
    BY <2>14 DEF ModMiscDeinit, ModUnchanged
  <2>15. CASE ModDriverUnregister
    BY <2>15 DEF ModDriverUnregister, ModUnchanged
  <2>16. QED
    BY <1>1, <2>1, <2>2, <2>3, <2>4, <2>5, <2>6, <2>7, <2>8, <2>9, <2>10,
       <2>11, <2>12, <2>13, <2>14, <2>15, ZenonT(60) DEF Mod
<1>2. CASE Prov
  <2>1. CASE ProvStart
    BY <2>1 DEF ProvStart, ProvUnchanged, AfterCapacity
  <2>2. CASE ProvReInit
    BY <2>2 DEF ProvReInit, ProvUnchanged, AfterCapacity
  <2>3. CASE ProvLoadBbt
    BY <2>3 DEF ProvLoadBbt, ProvUnchanged
  <2>4. CASE ProvMakeBbt
    BY <2>4 DEF ProvMakeBbt, ProvUnchanged
  <2>5. CASE ProvLowFormat
    BY <2>5 DEF ProvLowFormat, ProvUnchanged, AfterCapacity
  <2>6. CASE ProvRetry
    BY <2>6 DEF ProvRetry, ProvUnchanged, AfterCapacity
  <2>7. CASE ProvGate
    BY <2>7 DEF ProvGate, ProvUnchanged
  <2>8. CASE ProvAddDev
    BY <2>8 DEF ProvAddDev, ProvUnchanged
  <2>9. CASE ProvProcfs
    BY <2>9 DEF ProvProcfs, ProvUnchanged
  <2>10. CASE ProvStorageSys
    BY <2>10 DEF ProvStorageSys, ProvUnchanged
  <2>11. CASE ProvVendorLock
    BY <2>11 DEF ProvVendorLock, ProvUnchanged
  <2>12. CASE ProvVendorRead
    BY <2>12 DEF ProvVendorRead, ProvUnchanged
  <2>13. CASE ProvVendorRegister
    BY <2>13 DEF ProvVendorRegister, ProvUnchanged
  <2>14. CASE ProvGcInit
    BY <2>14 DEF ProvGcInit, ProvUnchanged
  <2>15. CASE ProvSpawnGc
    BY <2>15 DEF ProvSpawnGc, ProvUnchanged
  <2>16. CASE ProvMarkGc
    BY <2>16 DEF ProvMarkGc, ProvUnchanged
  <2>17. QED
    BY <1>2, <2>1, <2>2, <2>3, <2>4, <2>5, <2>6, <2>7, <2>8, <2>9, <2>10,
       <2>11, <2>12, <2>13, <2>14, <2>15, <2>16, ZenonT(60) DEF Prov
<1>3. CASE Gc
  <2>1. CASE GcInit
    BY <2>1 DEF GcInit, GcUnchanged
  <2>2. CASE GcTop
    BY <2>2 DEF GcTop, GcUnchanged
  <2>3. CASE GcCheck
    BY <2>3 DEF GcCheck, GcUnchanged
  <2>4. CASE GcTrylock
    BY <2>4 DEF GcTrylock, GcUnchanged
  <2>5. CASE GcCollect
    BY <2>5 DEF GcCollect, GcUnchanged
  <2>6. CASE GcCount
    BY <2>6 DEF GcCount, GcUnchanged
  <2>7. CASE GcWriteBackLock
    BY <2>7 DEF GcWriteBackLock, GcUnchanged
  <2>8. CASE GcWriteBack
    BY <2>8 DEF GcWriteBack, GcUnchanged
  <2>9. CASE GcSleep
    BY <2>9 DEF GcSleep, GcUnchanged
  <2>10. CASE GcExit
    BY <2>10 DEF GcExit, GcUnchanged
  <2>11. QED
    BY <1>3, <2>1, <2>2, <2>3, <2>4, <2>5, <2>6, <2>7, <2>8, <2>9, <2>10, ZenonT(60) DEF Gc
<1>4. ASSUME NEW s \in Submitters, SubQueueRq(s) \/ SubWork(s) PROVE GcInv'
  <2>1. SubUnchanged
    BY <1>4, Frames
  <2>2. QED
    BY <2>1 DEF SubUnchanged
<1>5. ASSUME NEW u \in Users, UserFlush(u) \/ UserVendor(u) \/ UserWork(u)
      PROVE  GcInv'
  <2>1. UserUnchanged
    BY <1>5, Frames
  <2>2. QED
    BY <2>1 DEF UserUnchanged
<1>6. CASE PmSuspend \/ Pm
  <2>1. PmUnchanged
    BY <1>6, Frames
  <2>2. QED
    BY <2>1 DEF PmUnchanged
<1>7. CASE OffStart \/ OffWork
  <2>1. CASE OffStart
    BY <2>1 DEF OffStart, OffUnchanged
  <2>2. CASE OffJoin
    BY <2>2 DEF OffJoin, OffUnchanged
  <2>3. CASE OffDeInit
    BY <2>3 DEF OffDeInit, OffUnchanged
  <2>4. QED
    BY <1>7, <2>1, <2>2, <2>3 DEF OffWork
<1>8. CASE UNCHANGED vars
  BY <1>8 DEF vars
<1> HIDE DEF PcOK, FlagsOK, ProvisionFirst, GcInv
<1>9. QED
  BY <1>1, <1>2, <1>3, <1>4, <1>5, <1>6, <1>7, <1>8 DEF Next, Unloaded

\* Facts on sequences of at most one element.
LEMMA Singletons ==
    ASSUME NEW S, NEW a \in S, NEW b \in S
    PROVE  /\ <<a>> # <<>>
           /\ <<a>> = <<b>> => a = b
           /\ Append(<<>>, a) = <<a>>
           /\ Head(<<a>>) = a /\ Tail(<<a>>) = <<>>
  OBVIOUS

\* A step of rk_nand_queue_rq keeps rq_list, the requests and the local req of
\* every context in line with the program counters.
LEMMA QueueSubStep ==
    ASSUME PcOK, LocksOK, QueueInv, NEW s \in Submitters,
           SubQueueRq(s) \/ SubWork(s)
    PROVE  QueueInv'
<1>1. /\ sub \in [Submitters -> SubPc] /\ cur \in [Submitters -> Submitters \cup {NoRq}]
      /\ rq \in [Submitters -> {"none", "issued", "queued", "started"}]
  BY DEF PcOK, LocksOK
<1>2. \A t \in Submitters : RequestInv(t)
  BY DEF QueueInv
<1>3. rqList = <<>> \/ \E t \in Submitters : rqList = <<t>>
  BY DEF QueueInv
<1>4. Free \notin Submitters /\ NoRq \notin Submitters
  BY ContextsDiffer DEF Ctx
<1>5. \A t, u \in Submitters : <<t>> # <<>> /\ (<<t>> = <<u>> => t = u)
  BY Singletons
<1>6. CASE SubQueueRq(s)
  <2>1. sub[s] = "idle"
    BY <1>6, <1>2 DEF SubQueueRq, RequestInv
  <2>2. rqList' = rqList /\ qlock' = qlock
    BY <1>6, <2>1 DEF SubQueueRq, queueVars
  <2>3. sub'[s] = "q_lock" /\ rq'[s] = "issued" /\ cur'[s] = cur[s]
    BY <1>6, <1>1, <2>1 DEF SubQueueRq, queueVars
  <2>4. \A t \in Submitters : t # s =>
            sub'[t] = sub[t] /\ rq'[t] = rq[t] /\ cur'[t] = cur[t]
    BY <1>6, <1>1, <2>1 DEF SubQueueRq, queueVars
  <2>5. RequestInv(s)'
    <3>1. RequestInv(s) /\ s # Free /\ <<s>> # <<>>
      BY <1>2, <1>4, <1>5
    <3>2. QED
      BY <2>1, <2>2, <2>3, <3>1, ZenonT(60) DEF RequestInv
  <2>6. ASSUME NEW t \in Submitters, t # s PROVE RequestInv(t)'
    <3>1. RequestInv(t)
      BY <1>2
    <3>2. sub'[t] = sub[t] /\ rq'[t] = rq[t] /\ cur'[t] = cur[t]
      BY <2>4, <2>6
    <3>3. t # Free /\ t # s /\ <<t>> # <<>> /\ <<s>> # <<>> /\ <<t>> # <<s>>
      BY <1>4, <1>5, <2>6
    <3>4. QED
      BY <2>1, <2>2, <3>1, <3>2, <3>3, ZenonT(60) DEF RequestInv
  <2>7. QED
    BY <1>3, <2>2, <2>5, <2>6 DEF QueueInv
<1>7. CASE SubLock(s)
  <2>1. sub[s] \in {"q_lock", "q_relock"} /\ qlock = Free /\ rqList = <<>>
    BY <1>7, <1>2, <1>3, <1>4, ZenonT(60) DEF SubLock, RequestInv
  <2>2. rqList' = rqList /\ qlock' = s
    BY <1>7, <2>1 DEF SubLock, queueVars
  <2>3. /\ sub'[s] = IF sub[s] = "q_lock" THEN "append" ELSE "next"
        /\ rq'[s] = rq[s] /\ cur'[s] = cur[s]
    BY <1>7, <1>1, <2>1 DEF SubLock, queueVars
  <2>4. \A t \in Submitters : t # s =>
            sub'[t] = sub[t] /\ rq'[t] = rq[t] /\ cur'[t] = cur[t]
    BY <1>7, <1>1, <2>1 DEF SubLock, queueVars
  <2>5. RequestInv(s)'
    <3>1. RequestInv(s) /\ s # Free /\ <<s>> # <<>>
      BY <1>2, <1>4, <1>5
    <3>2. QED
      BY <2>1, <2>2, <2>3, <3>1, ZenonT(60) DEF RequestInv
  <2>6. ASSUME NEW t \in Submitters, t # s PROVE RequestInv(t)'
    <3>1. RequestInv(t)
      BY <1>2
    <3>2. sub'[t] = sub[t] /\ rq'[t] = rq[t] /\ cur'[t] = cur[t]
      BY <2>4, <2>6
    <3>3. t # Free /\ t # s /\ <<t>> # <<>> /\ <<s>> # <<>> /\ <<t>> # <<s>>
      BY <1>4, <1>5, <2>6
    <3>4. QED
      BY <2>1, <2>2, <3>1, <3>2, <3>3, ZenonT(60) DEF RequestInv
  <2>7. QED
    BY <1>3, <2>2, <2>5, <2>6 DEF QueueInv
<1>8. CASE SubAppend(s)
  <2>1. sub[s] = "append" /\ qlock = s /\ rqList = <<>>
    BY <1>8, <1>2, <1>3, ZenonT(60) DEF SubAppend, RequestInv
  <2>2. rqList' = <<s>> /\ qlock' = qlock
    BY <1>8, <2>1, Singletons DEF SubAppend, queueVars
  <2>3. sub'[s] = "next" /\ rq'[s] = "queued" /\ cur'[s] = cur[s]
    BY <1>8, <1>1, <2>1, Singletons DEF SubAppend, queueVars
  <2>4. \A t \in Submitters : t # s =>
            sub'[t] = sub[t] /\ rq'[t] = rq[t] /\ cur'[t] = cur[t]
    BY <1>8, <1>1, <2>1, Singletons DEF SubAppend, queueVars
  <2>5. RequestInv(s)'
    <3>1. RequestInv(s) /\ s # Free /\ <<s>> # <<>>
      BY <1>2, <1>4, <1>5
    <3>2. QED
      BY <2>1, <2>2, <2>3, <3>1, ZenonT(60) DEF RequestInv
  <2>6. ASSUME NEW t \in Submitters, t # s PROVE RequestInv(t)'
    <3>1. RequestInv(t)
      BY <1>2
    <3>2. sub'[t] = sub[t] /\ rq'[t] = rq[t] /\ cur'[t] = cur[t]
      BY <2>4, <2>6
    <3>3. t # Free /\ t # s /\ <<t>> # <<>> /\ <<s>> # <<>> /\ <<t>> # <<s>>
      BY <1>4, <1>5, <2>6
    <3>4. QED
      BY <2>1, <2>2, <3>1, <3>2, <3>3 DEF RequestInv
  <2>7. QED
    BY <1>3, <2>2, <2>5, <2>6 DEF QueueInv
<1>9. CASE SubTake(s)
  <2>1. sub[s] = "next" /\ qlock = s /\ rqList = <<s>>
    BY <1>9, <1>2, <1>3, <1>5 DEF SubTake, RequestInv
  <2>2. rqList' = <<>> /\ qlock' = Free
    BY <1>9, <2>1, Singletons DEF SubTake, queueVars
  <2>3. sub'[s] = "d_lock" /\ rq'[s] = "started" /\ cur'[s] = s
    BY <1>9, <1>1, <2>1, Singletons DEF SubTake, queueVars
  <2>4. \A t \in Submitters : t # s =>
            sub'[t] = sub[t] /\ rq'[t] = rq[t] /\ cur'[t] = cur[t]
    BY <1>9, <1>1, <2>1, Singletons DEF SubTake, queueVars
  <2>5. RequestInv(s)'
    <3>1. RequestInv(s) /\ s # Free /\ <<s>> # <<>>
      BY <1>2, <1>4, <1>5
    <3>2. QED
      BY <2>1, <2>2, <2>3, <3>1 DEF RequestInv
  <2>6. ASSUME NEW t \in Submitters, t # s PROVE RequestInv(t)'
    <3>1. RequestInv(t)
      BY <1>2
    <3>2. sub'[t] = sub[t] /\ rq'[t] = rq[t] /\ cur'[t] = cur[t]
      BY <2>4, <2>6
    <3>3. t # Free /\ t # s /\ <<t>> # <<>> /\ <<s>> # <<>> /\ <<t>> # <<s>>
      BY <1>4, <1>5, <2>6
    <3>4. QED
      BY <2>1, <2>2, <3>1, <3>2, <3>3 DEF RequestInv
  <2>7. QED
    BY <1>3, <2>2, <2>5, <2>6 DEF QueueInv
<1>10. CASE SubDrained(s)
  <2>1. sub[s] = "next" /\ qlock = s /\ rqList = <<>>
    BY <1>10, <1>2 DEF SubDrained, RequestInv
  <2>2. rqList' = rqList /\ qlock' = Free
    BY <1>10, <2>1 DEF SubDrained, queueVars
  <2>3. sub'[s] = "wake" /\ rq'[s] = rq[s] /\ cur'[s] = cur[s]
    BY <1>10, <1>1, <2>1 DEF SubDrained, queueVars
  <2>4. \A t \in Submitters : t # s =>
            sub'[t] = sub[t] /\ rq'[t] = rq[t] /\ cur'[t] = cur[t]
    BY <1>10, <1>1, <2>1 DEF SubDrained, queueVars
  <2>5. RequestInv(s)'
    <3>1. RequestInv(s) /\ s # Free /\ <<s>> # <<>>
      BY <1>2, <1>4, <1>5
    <3>2. QED
      BY <2>1, <2>2, <2>3, <3>1 DEF RequestInv
  <2>6. ASSUME NEW t \in Submitters, t # s PROVE RequestInv(t)'
    <3>1. RequestInv(t)
      BY <1>2
    <3>2. sub'[t] = sub[t] /\ rq'[t] = rq[t] /\ cur'[t] = cur[t]
      BY <2>4, <2>6
    <3>3. t # Free /\ t # s /\ <<t>> # <<>> /\ <<s>> # <<>> /\ <<t>> # <<s>>
      BY <1>4, <1>5, <2>6
    <3>4. QED
      BY <2>1, <2>2, <3>1, <3>2, <3>3 DEF RequestInv
  <2>7. QED
    BY <1>3, <2>2, <2>5, <2>6 DEF QueueInv
<1>11. CASE SubDeviceLock(s)
  <2>1. sub[s] = "d_lock"
    BY <1>11, <1>2 DEF SubDeviceLock, RequestInv
  <2>2. rqList' = rqList /\ qlock' = qlock
    BY <1>11, <2>1 DEF SubDeviceLock, queueVars
  <2>3. sub'[s] = "ftl" /\ rq'[s] = rq[s] /\ cur'[s] = cur[s]
    BY <1>11, <1>1, <2>1 DEF SubDeviceLock, queueVars
  <2>4. \A t \in Submitters : t # s =>
            sub'[t] = sub[t] /\ rq'[t] = rq[t] /\ cur'[t] = cur[t]
    BY <1>11, <1>1, <2>1 DEF SubDeviceLock, queueVars
  <2>5. RequestInv(s)'
    <3>1. RequestInv(s) /\ s # Free /\ <<s>> # <<>>
      BY <1>2, <1>4, <1>5
    <3>2. QED
      BY <2>1, <2>2, <2>3, <3>1, ZenonT(60) DEF RequestInv
  <2>6. ASSUME NEW t \in Submitters, t # s PROVE RequestInv(t)'
    <3>1. RequestInv(t)
      BY <1>2
    <3>2. sub'[t] = sub[t] /\ rq'[t] = rq[t] /\ cur'[t] = cur[t]
      BY <2>4, <2>6
    <3>3. t # Free /\ t # s /\ <<t>> # <<>> /\ <<s>> # <<>> /\ <<t>> # <<s>>
      BY <1>4, <1>5, <2>6
    <3>4. QED
      BY <2>1, <2>2, <3>1, <3>2, <3>3 DEF RequestInv
  <2>7. QED
    BY <1>3, <2>2, <2>5, <2>6 DEF QueueInv
<1>12. CASE SubTransfer(s)
  <2>1. sub[s] = "ftl"
    BY <1>12, <1>2 DEF SubTransfer, RequestInv
  <2>2. rqList' = rqList /\ qlock' = qlock
    BY <1>12, <2>1 DEF SubTransfer, queueVars
  <2>3. sub'[s] = "end" /\ rq'[s] = rq[s] /\ cur'[s] = cur[s]
    BY <1>12, <1>1, <2>1 DEF SubTransfer, queueVars
  <2>4. \A t \in Submitters : t # s =>
            sub'[t] = sub[t] /\ rq'[t] = rq[t] /\ cur'[t] = cur[t]
    BY <1>12, <1>1, <2>1 DEF SubTransfer, queueVars
  <2>5. RequestInv(s)'
    <3>1. RequestInv(s) /\ s # Free /\ <<s>> # <<>>
      BY <1>2, <1>4, <1>5
    <3>2. QED
      BY <2>1, <2>2, <2>3, <3>1 DEF RequestInv
  <2>6. ASSUME NEW t \in Submitters, t # s PROVE RequestInv(t)'
    <3>1. RequestInv(t)
      BY <1>2
    <3>2. sub'[t] = sub[t] /\ rq'[t] = rq[t] /\ cur'[t] = cur[t]
      BY <2>4, <2>6
    <3>3. t # Free /\ t # s /\ <<t>> # <<>> /\ <<s>> # <<>> /\ <<t>> # <<s>>
      BY <1>4, <1>5, <2>6
    <3>4. QED
      BY <2>1, <2>2, <3>1, <3>2, <3>3 DEF RequestInv
  <2>7. QED
    BY <1>3, <2>2, <2>5, <2>6 DEF QueueInv
<1>13. CASE SubEndRequest(s)
  <2>1. sub[s] = "end" /\ cur[s] = s
    BY <1>13, <1>2 DEF SubEndRequest, RequestInv
  <2>2. rqList' = rqList /\ qlock' = qlock
    BY <1>13, <2>1 DEF SubEndRequest, queueVars
  <2>3. sub'[s] = "q_relock" /\ rq'[s] = "none" /\ cur'[s] = NoRq
    BY <1>13, <1>1, <2>1 DEF SubEndRequest, queueVars
  <2>4. \A t \in Submitters : t # s =>
            sub'[t] = sub[t] /\ rq'[t] = rq[t] /\ cur'[t] = cur[t]
    BY <1>13, <1>1, <2>1 DEF SubEndRequest, queueVars
  <2>5. RequestInv(s)'
    <3>1. RequestInv(s) /\ s # Free /\ <<s>> # <<>>
      BY <1>2, <1>4, <1>5
    <3>2. QED
      BY <2>1, <2>2, <2>3, <3>1, ZenonT(60) DEF RequestInv
  <2>6. ASSUME NEW t \in Submitters, t # s PROVE RequestInv(t)'
    <3>1. RequestInv(t)
      BY <1>2
    <3>2. sub'[t] = sub[t] /\ rq'[t] = rq[t] /\ cur'[t] = cur[t]
      BY <2>4, <2>6
    <3>3. t # Free /\ t # s /\ <<t>> # <<>> /\ <<s>> # <<>> /\ <<t>> # <<s>>
      BY <1>4, <1>5, <2>6
    <3>4. QED
      BY <2>1, <2>2, <3>1, <3>2, <3>3 DEF RequestInv
  <2>7. QED
    BY <1>3, <2>2, <2>5, <2>6 DEF QueueInv
<1>14. CASE SubWakeGc(s)
  <2>1. sub[s] = "wake"
    BY <1>14, <1>2, ZenonT(60) DEF SubWakeGc, RequestInv
  <2>2. rqList' = rqList /\ qlock' = qlock
    BY <1>14, <2>1 DEF SubWakeGc, queueVars
  <2>3. sub'[s] = "idle" /\ rq'[s] = rq[s] /\ cur'[s] = cur[s]
    BY <1>14, <1>1, <2>1 DEF SubWakeGc, queueVars
  <2>4. \A t \in Submitters : t # s =>
            sub'[t] = sub[t] /\ rq'[t] = rq[t] /\ cur'[t] = cur[t]
    BY <1>14, <1>1, <2>1 DEF SubWakeGc, queueVars
  <2>5. RequestInv(s)'
    <3>1. RequestInv(s) /\ s # Free /\ <<s>> # <<>>
      BY <1>2, <1>4, <1>5
    <3>2. QED
      BY <2>1, <2>2, <2>3, <3>1, ZenonT(60) DEF RequestInv
  <2>6. ASSUME NEW t \in Submitters, t # s PROVE RequestInv(t)'
    <3>1. RequestInv(t)
      BY <1>2
    <3>2. sub'[t] = sub[t] /\ rq'[t] = rq[t] /\ cur'[t] = cur[t]
      BY <2>4, <2>6
    <3>3. t # Free /\ t # s /\ <<t>> # <<>> /\ <<s>> # <<>> /\ <<t>> # <<s>>
      BY <1>4, <1>5, <2>6
    <3>4. QED
      BY <2>1, <2>2, <3>1, <3>2, <3>3, ZenonT(60) DEF RequestInv
  <2>7. QED
    BY <1>3, <2>2, <2>5, <2>6 DEF QueueInv
<1>15. QED
  BY <1>6, <1>7, <1>8, <1>9, <1>10, <1>11, <1>12, <1>13, <1>14 DEF SubWork

\* Only rk_nand_queue_rq touches the queue.
LEMMA QueueStep == PcOK /\ LocksOK /\ QueueInv /\ [Next]_vars => QueueInv'
<1> SUFFICES ASSUME PcOK, LocksOK, QueueInv, [Next]_vars PROVE QueueInv'
  OBVIOUS
<1>1. ASSUME NEW s \in Submitters, SubQueueRq(s) \/ SubWork(s) PROVE QueueInv'
  BY <1>1, QueueSubStep
<1>2. CASE UNCHANGED <<sub, queueVars>>
  BY <1>2 DEF QueueInv, RequestInv, queueVars
<1>3. CASE \E u \in Users : UserFlush(u) \/ UserVendor(u) \/ UserWork(u)
  BY <1>2, <1>3, Frames DEF UserUnchanged
<1>4. CASE Mod \/ Prov \/ Gc \/ PmSuspend \/ Pm \/ OffStart \/ OffWork
  BY <1>2, <1>4, Frames DEF ModFrame, ProvUnchanged, GcUnchanged, PmUnchanged,
     OffUnchanged
<1>5. CASE UNCHANGED vars
  BY <1>2, <1>5 DEF vars
<1>6. QED
  BY <1>1, <1>3, <1>4, <1>5 DEF Next, Unloaded

LEMMA InvInit == Init => IInv
<1> SUFFICES ASSUME Init PROVE IInv
  OBVIOUS
<1>1. MutexInv
  BY DEF Init, MutexInv, HoldsMutex, Ctx
<1>2. ProvisionFirst
  BY DEF Init, ProvisionFirst
<1>3. PmInv
  BY DEF Init, PmInv
<1>4. QueueInv
  BY ContextsDiffer, Singletons DEF Init, QueueInv, RequestInv, Ctx
<1>5. GcInv
  BY DEF Init, GcInv
<1>6. QED
  BY <1>1, <1>2, <1>3, <1>4, <1>5 DEF IInv

LEMMA InvStep == TypeOK /\ IInv /\ [Next]_vars => IInv'
  BY MutexStep, ProvisionStep, PmStep, QueueStep, GcStep DEF TypeOK, IInv

\* At every step of every context the program points of the contexts agree with
\* the locks, the list and the flags: the facts the results below rest on.
THEOREM Inductive == Spec => [](TypeOK /\ IInv)
<1>1. Init => TypeOK /\ IInv
  BY TypeInit, InvInit
<1>2. (TypeOK /\ IInv) /\ [Next]_vars => (TypeOK /\ IInv)'
  BY TypeStep, InvStep
<1>3. QED
  BY <1>1, <1>2, PTL DEF Spec
-----------------------------------------------------------------------------
(***************************************************************************)
(* What follows from it.                                                   *)
(***************************************************************************)

\* Of the requests, the ioctls, rknand_provision_thread and nand_gc_thread at
\* most one is inside the non-reentrant FTL blob, however many submitters and
\* users there are.
THEOREM BlobIsSerial == Spec => []BlobSerial
<1>1. TypeOK /\ IInv => BlobSerial
  <2> SUFFICES ASSUME TypeOK, IInv, NEW c \in Runtime, NEW d \in Runtime,
                      Inside(c), Inside(d)
               PROVE  c = d
    BY DEF BlobSerial
  <2>1. CASE Formatting
    <3>1. gc = "none" /\ \A s \in Submitters : sub[s] = "idle"
      BY <2>1 DEF IInv, ProvisionFirst, BeforeDisk, Formatting
    <3>2. \A u \in Users : user[u] = "idle"
      BY <2>1 DEF IInv, ProvisionFirst, BeforeDisk, Formatting
    <3>3. \A e \in Runtime : Inside(e) => e = "prov"
      BY <3>1, <3>2, ContextsDiffer DEF Inside, Runtime, Threads
    <3>4. QED
      BY <3>3
  <2>2. CASE ~Formatting
    <3>1. \A e \in Runtime : Inside(e) => HoldsMutex(e)
      BY <2>2, ContextsDiffer DEF Inside, HoldsMutex, Runtime, Threads
    <3>2. \A e \in Runtime : HoldsMutex(e) => mutex = e
      BY DEF IInv, MutexInv, Runtime, Ctx, Threads
    <3>3. QED
      BY <3>1, <3>2
  <2>3. QED
    BY <2>1, <2>2
<1>2. QED
  BY <1>1, Inductive, PTL

\* From rk_nand_suspend to rk_nand_resume no other context is inside the blob,
\* unless the blank-chip format was running when the system was suspended.
THEOREM SuspendIsQuiet == Spec => []AsleepQuiet
<1>1. TypeOK /\ IInv => AsleepQuiet
  <2> SUFFICES ASSUME TypeOK, IInv, pm \in {"suspend", "asleep", "resume"},
                      ~Formatting, NEW c \in Ctx \ {"pm"}, Inside(c)
               PROVE  FALSE
    BY DEF AsleepQuiet
  <2>1. mod = "loaded" /\ off = "idle"
    BY DEF IInv, PmInv
  <2>2. mutex = "pm"
    BY DEF IInv, MutexInv, HoldsMutex, Ctx, Threads
  <2>3. HoldsMutex(c)
    BY <2>1, ContextsDiffer DEF Inside, HoldsMutex, Ctx, Threads
  <2>4. QED
    BY <2>2, <2>3 DEF IInv, MutexInv
<1>2. QED
  BY <1>1, Inductive, PTL

\* rk_nand_queue_rq leaves no request behind on rq_list: while the list is not
\* empty, the holder of queue_lock is about to look at it.
THEOREM NoneStranded == Spec => []NoStrandedRequest
<1>1. TypeOK /\ IInv => NoStrandedRequest
  BY DEF NoStrandedRequest, IInv, QueueInv, RequestInv
<1>2. QED
  BY <1>1, Inductive, PTL

\* A request is on rq_list once, or served by one context, or neither: never two
\* of these, for any number of overlapping calls of rk_nand_queue_rq.
THEOREM ServedOnce == Spec => []RequestServedOnce
<1>1. TypeOK /\ IInv => RequestServedOnce
  <2> SUFFICES ASSUME TypeOK, IInv, NEW r \in Submitters
               PROVE  LET places  == {i \in DOMAIN rqList : rqList[i] = r}
                          servers == {s \in Submitters : cur[s] = r}
                      IN  /\ rq[r] \in {"none", "issued"}
                               => places = {} /\ servers = {}
                          /\ rq[r] = "queued"
                               => Cardinality(places) = 1 /\ servers = {}
                          /\ rq[r] = "started"
                               => places = {} /\ Cardinality(servers) = 1
    BY ZenonT(60) DEF RequestServedOnce
  <2> DEFINE places  == {i \in DOMAIN rqList : rqList[i] = r}
             servers == {s \in Submitters : cur[s] = r}
  <2>1. servers = IF rq[r] = "started" THEN {r} ELSE {}
    BY ContextsDiffer DEF IInv, QueueInv, RequestInv
  <2>2. places = IF rq[r] = "queued" THEN {1} ELSE {}
    BY DEF IInv, QueueInv, RequestInv
  <2>3. Cardinality({r}) = 1 /\ Cardinality({1}) = 1
    BY FS_Singleton
  <2> HIDE DEF places, servers
  <2>4. QED
    BY <2>1, <2>2, <2>3 DEF places, servers
<1>2. QED
  BY <1>1, Inductive, PTL

\* rknand_dev_shutdown never waits for a completion that cannot come.
THEOREM JoinCompletes == Spec => []JoinWillComplete
<1>1. TypeOK /\ IInv => JoinWillComplete
  BY DEF JoinWillComplete, IInv, GcInv
<1>2. QED
  BY <1>1, Inductive, PTL

\* The shutdown path calls rk_ftl_de_init only after the GC thread has left.
THEOREM JoinPrecedesDeInit == Spec => []JoinedBeforeDeInit
<1>1. TypeOK /\ IInv => JoinedBeforeDeInit
  BY DEF JoinedBeforeDeInit, IInv, GcInv
<1>2. QED
  BY <1>1, Inductive, PTL

\* IdleAllowsGc is inductive as it stands: rk_nand_queue_rq clears rk_ftl_gc_do
\* on entry, sets it on return, and nand_gc_thread sets it when it starts.
LEMMA IdleStep == PcOK /\ IdleAllowsGc /\ [Next]_vars => IdleAllowsGc'
<1> SUFFICES ASSUME PcOK, IdleAllowsGc, [Next]_vars PROVE IdleAllowsGc'
  OBVIOUS
<1> USE DEF PcOK, IdleAllowsGc
<1>1. CASE UNCHANGED <<sub, gc, gcDo>>
  BY <1>1
<1>2. CASE Prov
  BY <1>1, <1>2, ZenonT(60) DEF ProvUnchanged, Prov, ProvStart, ProvReInit, ProvLoadBbt,
     ProvMakeBbt, ProvLowFormat, ProvRetry, ProvGate, ProvAddDev, ProvProcfs,
     ProvStorageSys, ProvVendorLock, ProvVendorRead, ProvVendorRegister,
     ProvGcInit, ProvSpawnGc, ProvMarkGc, AfterCapacity
<1>3. CASE Gc
  BY <1>1, <1>3, ZenonT(60) DEF Gc, GcInit, GcTop, GcCheck, GcTrylock, GcCollect, GcCount,
     GcWriteBackLock, GcWriteBack, GcSleep, GcExit, GcUnchanged
<1>4. ASSUME NEW s \in Submitters, SubQueueRq(s) \/ SubWork(s)
      PROVE  IdleAllowsGc'
  BY <1>4, ZenonT(60) DEF gcVars, SubQueueRq, SubWork, SubLock, SubAppend, SubTake,
     SubDrained, SubDeviceLock, SubTransfer, SubEndRequest, SubWakeGc,
     SubUnchanged
<1>5. CASE \E u \in Users : UserFlush(u) \/ UserVendor(u) \/ UserWork(u)
  BY <1>1, <1>5, Frames DEF UserUnchanged, gcVars
<1>6. CASE Mod \/ PmSuspend \/ Pm \/ OffStart \/ OffWork
  BY <1>1, <1>6, Frames DEF ModFrame, PmUnchanged, OffUnchanged, gcVars
<1>7. CASE UNCHANGED vars
  BY <1>1, <1>7 DEF vars, gcVars
<1>8. QED
  BY <1>2, <1>3, <1>4, <1>5, <1>6, <1>7 DEF Next, Unloaded

\* Whatever way calls of rk_nand_queue_rq overlap, with none in progress the GC
\* thread is allowed to collect.
THEOREM IdleIsAllowed == Spec => []IdleAllowsGc
<1>1. Init => IdleAllowsGc
  BY DEF Init, IdleAllowsGc
<1>2. TypeOK /\ IdleAllowsGc /\ [Next]_vars => IdleAllowsGc'
  BY IdleStep DEF TypeOK
<1>3. QED
  BY <1>1, <1>2, TypeCorrect, PTL DEF Spec

\* Nobody takes back the request to quit once the GC thread exists: the two
\* places that clear quit run before it is spawned.
THEOREM QuitStays == Spec => QuitIsFinal
<1>1. IInv /\ [Next]_vars => (quit /\ gc # "none" => quit')
  <2> SUFFICES ASSUME IInv, [Next]_vars, quit, gc # "none" PROVE quit'
    OBVIOUS
  <2>1. CASE UNCHANGED quit
    BY <2>1
  <2>2. prov = "idle" /\ mod \notin Loading
    BY DEF IInv, GcInv, ProvisionFirst, Loading
  <2>3. CASE Mod
    BY <2>1, <2>2, <2>3, ZenonT(60) DEF flagVars, Loading, Mod, ModDriverRegister,
       ModFtlInit, ModRegisterBlkdev, ModAllocBuffer, ModAllocTagSet,
       ModSpawnProvision, ModInitialised, ModUnwind, ModExit, ModTrylock,
       ModWriteBack, ModUnregister, ModDeInit, ModMiscDeinit,
       ModDriverUnregister, ModUnchanged
  <2>4. CASE Prov
    BY <2>2, <2>4, ZenonT(60) DEF Prov, ProvStart, ProvReInit, ProvLoadBbt, ProvMakeBbt,
       ProvLowFormat, ProvRetry, ProvGate, ProvAddDev, ProvProcfs,
       ProvStorageSys, ProvVendorLock, ProvVendorRead, ProvVendorRegister,
       ProvGcInit, ProvSpawnGc, ProvMarkGc, AfterCapacity, ProvUnchanged
  <2>5. CASE \E s \in Submitters : SubQueueRq(s) \/ SubWork(s)
    BY <2>1, <2>5, Frames, ZenonT(60) DEF SubUnchanged, flagVars
  <2>6. CASE \E u \in Users : UserFlush(u) \/ UserVendor(u) \/ UserWork(u)
    BY <2>1, <2>6, Frames, ZenonT(60) DEF UserUnchanged, flagVars
  <2>7. CASE Gc \/ PmSuspend \/ Pm
    BY <2>1, <2>7, Frames, ZenonT(60) DEF GcUnchanged, PmUnchanged, flagVars
  <2>8. CASE OffStart \/ OffWork
    BY <2>8, ZenonT(60) DEF OffStart, OffWork, OffJoin, OffDeInit
  <2>9. CASE UNCHANGED vars
    BY <2>1, <2>9 DEF vars, flagVars
  <2>10. QED
    BY <2>3, <2>4, <2>5, <2>6, <2>7, <2>8, <2>9 DEF Next, Unloaded
<1>2. QED
  BY <1>1, Inductive, PTL DEF Spec, QuitIsFinal
-----------------------------------------------------------------------------
(***************************************************************************)
(* The driver implements the safety part of BlkMqQueue.                    *)
(***************************************************************************)

\* Only the dispatch of a request and __blk_mq_end_request change which tags are
\* in use, and they change one tag.
LEMMA QueueRefines ==
    TypeOK /\ IInv /\ [Next]_vars => [Queue!Next]_Tagged
<1> SUFFICES ASSUME TypeOK, IInv, [Next]_vars PROVE [Queue!Next]_Tagged
  OBVIOUS
<1>1. CASE UNCHANGED rq
  BY <1>1 DEF Tagged
<1>2. ASSUME NEW s \in Submitters, SubQueueRq(s) PROVE Queue!Issue(s)
  <2>1. rq[s] = "none"
    BY <1>2 DEF SubQueueRq, TypeOK, LocksOK, IInv, QueueInv, RequestInv
  <2>2. Tagged' = Tagged \cup {s}
    BY <1>2, <2>1 DEF SubQueueRq, TypeOK, LocksOK, Tagged
  <2>3. Queue!Cardinality(Tagged) = Cardinality(Tagged)
    BY DEF Cardinality, Queue!Cardinality
  <2>4. s \notin Tagged /\ Cardinality(Tagged) < QueueDepth
    BY <1>2, <2>1 DEF SubQueueRq, Tagged
  <2>5. QED
    BY <2>2, <2>3, <2>4 DEF Queue!Issue
<1>3. ASSUME NEW s \in Submitters, SubEndRequest(s) PROVE Queue!End(s)
  <2>1. cur[s] = s /\ rq[s] = "started"
    BY <1>3 DEF SubEndRequest, IInv, QueueInv, RequestInv
  <2>2. Tagged' = Tagged \ {s}
    BY <1>3, <2>1 DEF SubEndRequest, TypeOK, LocksOK, Tagged
  <2>3. QED
    BY <2>1, <2>2 DEF Queue!End, Tagged
<1>4. ASSUME NEW s \in Submitters, SubAppend(s) PROVE UNCHANGED Tagged
  <2>1. rq[s] # "none"
    BY <1>4 DEF SubAppend, IInv, QueueInv, RequestInv
  <2>2. QED
    BY <1>4, <2>1 DEF SubAppend, TypeOK, LocksOK, Tagged
<1>5. ASSUME NEW s \in Submitters, SubTake(s) PROVE UNCHANGED Tagged
  <2>1. PICK t \in Submitters : rqList = <<t>>
    BY <1>5 DEF SubTake, IInv, QueueInv
  <2>2. Head(rqList) = t /\ rq[t] = "queued"
    BY <2>1, Singletons DEF IInv, QueueInv, RequestInv
  <2>3. QED
    BY <1>5, <2>2 DEF SubTake, TypeOK, LocksOK, Tagged
<1>6. ASSUME NEW s \in Submitters,
             \/ SubLock(s) \/ SubDrained(s) \/ SubDeviceLock(s)
             \/ SubTransfer(s) \/ SubWakeGc(s)
      PROVE  UNCHANGED rq
  BY <1>6 DEF SubLock, SubDrained, SubDeviceLock, SubTransfer, SubWakeGc, queueVars
<1>7. ASSUME NEW s \in Submitters, SubQueueRq(s) \/ SubWork(s)
      PROVE  [Queue!Next]_Tagged
  BY <1>1, <1>2, <1>3, <1>4, <1>5, <1>6, <1>7 DEF SubWork, Queue!Next
<1>8. CASE \E u \in Users : UserFlush(u) \/ UserVendor(u) \/ UserWork(u)
  BY <1>1, <1>8, Frames DEF UserUnchanged, queueVars
<1>9. CASE Mod \/ Prov \/ Gc \/ PmSuspend \/ Pm \/ OffStart \/ OffWork
  BY <1>1, <1>9, Frames DEF ModFrame, ProvUnchanged, GcUnchanged, PmUnchanged,
     OffUnchanged, queueVars
<1>10. CASE UNCHANGED vars
  BY <1>1, <1>10 DEF vars, queueVars
<1>11. QED
  BY <1>7, <1>8, <1>9, <1>10 DEF Next, Unloaded

\* The requests the driver holds behave as the block layer is promised: at most
\* QueueDepth at a time, and only a request that is outstanding is ended.
THEOREM QueueIsSafe == Spec => Queue!Safety
<1>1. Init => Queue!Init
  BY DEF Init, Queue!Init, Tagged
<1>2. QED
  BY <1>1, QueueRefines, Inductive, PTL DEF Spec, Queue!Safety
=============================================================================
