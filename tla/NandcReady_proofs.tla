-------------------------- MODULE NandcReady_proofs --------------------------
(***************************************************************************)
(* The flash-ready wait cannot lose its wake-up, and the ready interrupt   *)
(* cannot storm.                                                           *)
(***************************************************************************)
EXTENDS NandcReady, TLAPS

\* Wide time limits: what is proved should not depend on the speed of the machine.
USE SMTT(30), ZenonT(60)

\* Every step leads to a place, a flag and a count of their types.
LEMMA StepsStep ==
    ASSUME StepsOK, [Next]_vars
    PROVE  StepsOK'
<1>1. CASE DeviceLock
  BY <1>1 DEF StepsOK, DeviceLock
<1>2. CASE DeviceUnlock
  BY <1>2 DEF StepsOK, DeviceUnlock
<1>3. CASE StartOp
  BY <1>3 DEF StepsOK, StartOp
<1>4. CASE FlagInit
  BY <1>4 DEF StepsOK, FlagInit
<1>5. CASE Arm
  BY <1>5 DEF StepsOK, Arm
<1>6. CASE Check
  BY <1>6 DEF StepsOK, Check
<1>7. CASE Disarm
  BY <1>7 DEF StepsOK, Disarm
<1>8. CASE WaitEnter
  BY <1>8 DEF StepsOK, WaitEnter
<1>9. CASE WaitTest
  BY <1>9 DEF StepsOK, WaitTest
<1>10. CASE WaitTimeout
  BY <1>10 DEF StepsOK, WaitTimeout
<1>11. CASE WaitClear
  BY <1>11 DEF StepsOK, WaitClear
<1>12. CASE Poll
  BY <1>12 DEF StepsOK, Poll
<1>13. CASE ReadStatus
  BY <1>13 DEF StepsOK, ReadStatus
<1>14. CASE FlashReady
  BY <1>14 DEF StepsOK, FlashReady
<1>15. CASE IrqEnter
  BY <1>15 DEF StepsOK, IrqEnter
<1>16. CASE IrqFlashReady
  BY <1>16 DEF StepsOK, IrqFlashReady
<1>17. CASE IrqSetFlag
  BY <1>17 DEF StepsOK, IrqSetFlag
<1>18. CASE IrqWake
  BY <1>18 DEF StepsOK, IrqWake
<1>19. CASE PmScheduleOff
  BY <1>19 DEF StepsOK, PmScheduleOff
<1>20. CASE PmLock
  BY <1>20 DEF StepsOK, PmLock
<1>21. CASE PmSleep
  BY <1>21 DEF StepsOK, PmSleep
<1>22. CASE PmWake
  BY <1>22 DEF StepsOK, PmWake
<1>23. CASE PmUnlock
  BY <1>23 DEF StepsOK, PmUnlock
<1>24. CASE PmScheduleOn
  BY <1>24 DEF StepsOK, PmScheduleOn
<1>25. CASE UNCHANGED vars
  BY <1>25 DEF StepsOK, vars
<1>26. QED
  BY <1>1, <1>2, <1>3, <1>4, <1>5, <1>6, <1>7, <1>8, <1>9, <1>10, <1>11, <1>12,
     <1>13, <1>14, <1>15, <1>16, <1>17, <1>18, <1>19, <1>20, <1>21, <1>22, <1>23,
     <1>24, <1>25
     DEF Next, Thread, Irq, Pm

\* Every step keeps the switches Boolean.
LEMMA SwitchesStep == SwitchesOK /\ [Next]_vars => SwitchesOK'
  BY ZenonT(60) DEF SwitchesOK, Next, vars, Thread, Irq, Pm, DeviceLock, DeviceUnlock,
    StartOp, FlagInit, Arm, Check, Disarm, WaitEnter, WaitTest, WaitTimeout,
    WaitClear, Poll, ReadStatus, FlashReady, IrqEnter, IrqFlashReady, IrqSetFlag,
    IrqWake, PmScheduleOff, PmLock, PmSleep, PmWake, PmUnlock, PmScheduleOn

\* Every step of the thread, the flash, the handler and power management preserves
\* the invariant of the wait.
LEMMA ReadyStep ==
    ASSUME StepsOK, ReadyInv, [Next]_vars
    PROVE  ReadyInv'
<1>1. CASE DeviceLock
  BY <1>1 DEF StepsOK, ReadyInv, DeviceLock
<1>2. CASE DeviceUnlock
  BY <1>2 DEF StepsOK, ReadyInv, DeviceUnlock
<1>3. CASE StartOp
  BY <1>3 DEF StepsOK, ReadyInv, StartOp
<1>4. CASE FlagInit
  BY <1>4 DEF StepsOK, ReadyInv, FlagInit
<1>5. CASE Arm
  BY <1>5 DEF StepsOK, ReadyInv, Arm
<1>6. CASE Check
  BY <1>6 DEF StepsOK, ReadyInv, Check
<1>7. CASE Disarm
  BY <1>7 DEF StepsOK, ReadyInv, Disarm
<1>8. CASE WaitEnter
  BY <1>8 DEF StepsOK, ReadyInv, WaitEnter
<1>9. CASE WaitTest
  BY <1>9 DEF StepsOK, ReadyInv, WaitTest
<1>10. CASE WaitTimeout
  BY <1>10 DEF StepsOK, ReadyInv, WaitTimeout
<1>11. CASE WaitClear
  BY <1>11 DEF StepsOK, ReadyInv, WaitClear
<1>12. CASE Poll
  BY <1>12 DEF StepsOK, ReadyInv, Poll
<1>13. CASE ReadStatus
  BY <1>13 DEF StepsOK, ReadyInv, ReadStatus
<1>14. CASE FlashReady
  BY <1>14 DEF StepsOK, ReadyInv, FlashReady
<1>15. CASE IrqEnter
  BY <1>15 DEF StepsOK, ReadyInv, IrqEnter
<1>16. CASE IrqFlashReady
  BY <1>16 DEF StepsOK, ReadyInv, IrqFlashReady
<1>17. CASE IrqSetFlag
  BY <1>17 DEF StepsOK, ReadyInv, IrqSetFlag
<1>18. CASE IrqWake
  BY <1>18 DEF StepsOK, ReadyInv, IrqWake
<1>19. CASE PmScheduleOff
  BY <1>19 DEF StepsOK, ReadyInv, PmScheduleOff
<1>20. CASE PmLock
  BY <1>20 DEF StepsOK, ReadyInv, PmLock
<1>21. CASE PmSleep
  BY <1>21 DEF StepsOK, ReadyInv, PmSleep
<1>22. CASE PmWake
  BY <1>22 DEF StepsOK, ReadyInv, PmWake
<1>23. CASE PmUnlock
  BY <1>23 DEF StepsOK, ReadyInv, PmUnlock
<1>24. CASE PmScheduleOn
  BY <1>24 DEF StepsOK, ReadyInv, PmScheduleOn
<1>25. CASE UNCHANGED vars
  BY <1>25 DEF StepsOK, ReadyInv, vars
<1>26. QED
  BY <1>1, <1>2, <1>3, <1>4, <1>5, <1>6, <1>7, <1>8, <1>9, <1>10, <1>11, <1>12,
     <1>13, <1>14, <1>15, <1>16, <1>17, <1>18, <1>19, <1>20, <1>21, <1>22, <1>23,
     <1>24, <1>25
     DEF Next, Thread, Irq, Pm

\* The invariant of the wait holds in every state: the order of the arming, the
\* ready check, the handler's disable and its flag makes it inductive.
THEOREM ReadyInvariant == Spec => [](TypeOK /\ ReadyInv)
<1>1. Init => StepsOK /\ ReadyInv
  BY DEF Init, StepsOK, ReadyInv
<1>2. Init => SwitchesOK
  BY ZenonT(60) DEF Init, SwitchesOK
<1>3. StepsOK /\ SwitchesOK /\ ReadyInv /\ [Next]_vars
        => StepsOK' /\ SwitchesOK' /\ ReadyInv'
  BY StepsStep, SwitchesStep, ReadyStep
<1>4. QED
  BY <1>1, <1>2, <1>3, PTL DEF Spec, TypeOK

\* A thread in wait_for_nand_flash_ready always has its wake-up coming.
THEOREM WaitIsWoken == Spec => []WakeUpComing
<1>1. ReadyInv => WakeUpComing
  BY DEF ReadyInv, WakeUpComing
<1>2. QED
  BY <1>1, ReadyInvariant, PTL

\* The ready interrupt is taken at most once for each time the blob arms it.
THEOREM NoStorm == Spec => []OneInterruptPerArming
<1>1. ReadyInv => OneInterruptPerArming
  BY DEF ReadyInv, OneInterruptPerArming
<1>2. QED
  BY <1>1, ReadyInvariant, PTL
=============================================================================
