----------------------------- MODULE NandcReady -----------------------------
(***************************************************************************)
(* The flash-ready wait of rk_nand_base.c: a thread inside the FTL blob    *)
(* starts a program or an erase, arms the ready interrupt and sleeps; the  *)
(* interrupt handler runs on another CPU, step by step, and may be late;   *)
(* suspend switches the waits to polling while one is in progress.         *)
(*                                                                         *)
(* The blob's own part (nandc_iqr_wait_flash_ready, nandc_wait_flash_ready *)
(* and rk_nandc_flash_ready of rk_zftl_arm32.S) is external.  One          *)
(* controller, nandc0: the board has no second one.  The transfer          *)
(* interrupt is left out: the linked blobs never wait for it.              *)
(***************************************************************************)
EXTENDS Naturals

VARIABLES
    owner,    \* who holds the device mutex
    pc,       \* where the thread inside the blob is
    irq,      \* where rk_nandc_interrupt is
    pm,       \* where the suspend / resume callbacks are
    busy,     \* the flash is programming or erasing
    armed,    \* the ready interrupt is enabled (int_en bit 1)
    flag,     \* nandc0_ready_completed_flag
    sched,    \* rk_nand_wait_busy_schedule
    entries   \* interrupts taken since the last arming (counted to 2)

vars == <<owner, pc, irq, pm, busy, armed, flag, sched, entries>>

Init ==
    /\ owner = "none" /\ pc = "idle" /\ irq = "idle" /\ pm = "run"
    /\ busy = FALSE /\ armed = FALSE /\ flag = 0
    /\ sched = TRUE /\ entries = 0
-----------------------------------------------------------------------------
(***************************************************************************)
(* The thread inside the blob.                                             *)
(***************************************************************************)

\* rknand_device_lock and rknand_device_unlock of a request, an ioctl or GC.
DeviceLock ==
    /\ owner = "none" /\ owner' = "thread"
    /\ UNCHANGED <<pc, irq, pm, busy, armed, flag, sched, entries>>

DeviceUnlock ==
    /\ owner = "thread" /\ pc = "idle" /\ owner' = "none"
    /\ UNCHANGED <<pc, irq, pm, busy, armed, flag, sched, entries>>

\* The command byte of a program or an erase is written.
StartOp ==
    /\ pc = "idle" /\ (owner = "thread" \/ pm \in {"suspend", "resume"})
    /\ pc' = "init" /\ busy' = TRUE
    /\ UNCHANGED <<owner, irq, pm, armed, flag, sched, entries>>

\* rk_nandc_rb_irq_flag_init
FlagInit ==
    /\ pc = "init" /\ pc' = "arm"
    /\ flag' = 0
    /\ UNCHANGED <<owner, irq, pm, busy, armed, sched, entries>>

Arm ==
    /\ pc = "arm" /\ pc' = "check"
    /\ armed' = TRUE /\ entries' = 0
    /\ UNCHANGED <<owner, irq, pm, busy, flag, sched>>

\* FMCTL says whether the flash is ready already; if so the interrupt is
\* disabled again, otherwise the thread waits.
Check ==
    /\ pc = "check"
    /\ pc' = IF busy THEN "wait" ELSE "disarm"
    /\ UNCHANGED <<owner, irq, pm, busy, armed, flag, sched, entries>>

Disarm ==
    /\ pc = "disarm" /\ pc' = "poll"
    /\ armed' = FALSE
    /\ UNCHANGED <<owner, irq, pm, busy, flag, sched, entries>>

\* wait_for_nand_flash_ready: it sleeps only in schedule mode.
WaitEnter ==
    /\ pc = "wait"
    /\ pc' = IF sched THEN "test" ELSE "clear"
    /\ UNCHANGED <<owner, irq, pm, busy, armed, flag, sched, entries>>

\* The condition of wait_event_timeout.
WaitTest ==
    /\ pc = "test"
    /\ pc' = IF flag = 1 THEN "clear" ELSE "asleep"
    /\ UNCHANGED <<owner, irq, pm, busy, armed, flag, sched, entries>>

\* Mutant: wait_event, without a timeout.
WaitTimeoutNone ==
    /\ pc = "asleep" /\ UNCHANGED vars

\* RK_NAND_WAIT_FALLBACK_JIFFIES pass and the loop waits again.
WaitTimeout ==
    /\ pc = "asleep" /\ pc' = "test"
    /\ UNCHANGED <<owner, irq, pm, busy, armed, flag, sched, entries>>

WaitClear ==
    /\ pc = "clear" /\ pc' = "poll"
    /\ flag' = 0
    /\ UNCHANGED <<owner, irq, pm, busy, armed, sched, entries>>

\* nandc_wait_flash_ready polls FMCTL whatever the wait did.
Poll ==
    /\ pc = "poll" /\ ~busy /\ pc' = "status"
    /\ UNCHANGED <<owner, irq, pm, busy, armed, flag, sched, entries>>

\* flash_read_status: the operation is over.
ReadStatus ==
    /\ pc = "status" /\ pc' = "idle"
    /\ UNCHANGED <<owner, irq, pm, busy, armed, flag, sched, entries>>

Thread ==
    \/ FlagInit \/ Arm \/ Check \/ Disarm \/ WaitEnter \/ WaitTest
    \/ WaitTimeout \/ WaitClear \/ Poll \/ ReadStatus
-----------------------------------------------------------------------------
(***************************************************************************)
(* The flash and rk_nandc_interrupt.                                       *)
(***************************************************************************)
FlashReady ==
    /\ busy /\ busy' = FALSE
    /\ UNCHANGED <<owner, pc, irq, pm, armed, flag, sched, entries>>

\* The interrupt is level-triggered: it is taken while it is armed and the
\* flash is ready.  The handler reads the status first.
IrqEnter ==
    /\ irq = "idle" /\ armed /\ ~busy
    /\ irq' = "disable"
    /\ entries' = IF entries < 2 THEN entries + 1 ELSE entries
    /\ UNCHANGED <<owner, pc, pm, busy, armed, flag, sched>>

\* Mutant: the handler leaves the interrupt enabled.
IrqFlashReadyStaysArmed ==
    /\ irq = "disable" /\ irq' = "set"
    /\ UNCHANGED <<owner, pc, pm, busy, armed, flag, sched, entries>>

\* rk_nandc_flash_ready disables the interrupt.
IrqFlashReady ==
    /\ irq = "disable" /\ irq' = "set"
    /\ armed' = FALSE
    /\ UNCHANGED <<owner, pc, pm, busy, flag, sched, entries>>

IrqSetFlag ==
    /\ irq = "set" /\ irq' = "wake"
    /\ flag' = 1
    /\ UNCHANGED <<owner, pc, pm, busy, armed, sched, entries>>

\* wake_up(&rk29_nandc_wait).  The sleeper may miss it: that is what the timeout of
\* the wait is there for.
IrqWake ==
    /\ irq = "wake" /\ irq' = "idle"
    /\ pc' \in IF pc = "asleep" THEN {"test", "asleep"} ELSE {pc}
    /\ UNCHANGED <<owner, pm, busy, armed, flag, sched, entries>>

\* Mutant: the flag is set before the interrupt is disabled.
IrqFlagFirst ==
    \/ IrqEnter \/ IrqWake
    \/ /\ irq = "disable" /\ irq' = "set"
       /\ flag' = 1
       /\ UNCHANGED <<owner, pc, pm, busy, armed, sched, entries>>
    \/ /\ irq = "set" /\ irq' = "wake"
       /\ armed' = FALSE
       /\ UNCHANGED <<owner, pc, pm, busy, flag, sched, entries>>

Irq == IrqEnter \/ IrqFlashReady \/ IrqSetFlag \/ IrqWake
-----------------------------------------------------------------------------
(***************************************************************************)
(* rknand_dev_suspend and rknand_dev_resume.                               *)
(***************************************************************************)

\* rk_nand_schedule_enable_config(0), before the mutex is taken.
PmScheduleOff ==
    /\ pm = "run" /\ pm' = "lock"
    /\ sched' = FALSE
    /\ UNCHANGED <<owner, pc, irq, busy, armed, flag, entries>>

PmLock ==
    /\ pm = "lock" /\ owner = "none"
    /\ pm' = "suspend" /\ owner' = "pm"
    /\ UNCHANGED <<pc, irq, busy, armed, flag, sched, entries>>

\* rk_nand_suspend has returned; later rk_nand_resume is called.
PmSleep ==
    /\ pm = "suspend" /\ pc = "idle" /\ pm' = "asleep"
    /\ UNCHANGED <<owner, pc, irq, busy, armed, flag, sched, entries>>

PmWake ==
    /\ pm = "asleep" /\ pm' = "resume"
    /\ UNCHANGED <<owner, pc, irq, busy, armed, flag, sched, entries>>

PmUnlock ==
    /\ pm = "resume" /\ pc = "idle"
    /\ pm' = "unlocked" /\ owner' = "none"
    /\ UNCHANGED <<pc, irq, busy, armed, flag, sched, entries>>

\* rk_nand_schedule_enable_config(1), after the mutex is released.
PmScheduleOn ==
    /\ pm = "unlocked" /\ pm' = "run"
    /\ sched' = TRUE
    /\ UNCHANGED <<owner, pc, irq, busy, armed, flag, entries>>

Pm == PmScheduleOff \/ PmLock \/ PmSleep \/ PmWake \/ PmUnlock \/ PmScheduleOn
-----------------------------------------------------------------------------
Next ==
    \/ DeviceLock \/ DeviceUnlock \/ StartOp \/ Thread
    \/ FlashReady \/ Irq \/ Pm

Spec == Init /\ [][Next]_vars

(***************************************************************************)
(* A thread that can run runs, a timeout expires, a program or an erase    *)
(* ends, an asserted interrupt is taken and its handler runs to its end.   *)
(***************************************************************************)
Fairness == WF_vars(Thread) /\ WF_vars(FlashReady) /\ WF_vars(Irq)

FairSpec == Spec /\ Fairness
-----------------------------------------------------------------------------
StepsOK ==
    /\ owner \in {"none", "thread", "pm"}
    /\ pc \in {"idle", "init", "arm", "check", "disarm", "wait", "test", "asleep",
               "clear", "poll", "status"}
    /\ irq \in {"idle", "disable", "set", "wake"}
    /\ pm \in {"run", "lock", "suspend", "asleep", "resume", "unlocked"}
    /\ flag \in {0, 1} /\ entries \in 0..2

SwitchesOK == busy \in BOOLEAN /\ armed \in BOOLEAN /\ sched \in BOOLEAN

\* The flags of the driver and of the controller, and the places the thread, the
\* handler and the power management callbacks can be in.
TypeOK == StepsOK /\ SwitchesOK

\* A thread that waits for nandc0_ready_completed_flag has its wake-up coming:
\* the flag is set, or the interrupt is armed, or a handler, perhaps a late one of
\* the previous operation, is about to set the flag.
WakeUpComing ==
    pc \in {"wait", "test", "asleep"} => flag = 1 \/ armed \/ irq = "set"

\* No storm: the level-triggered interrupt is taken at most once for each time it
\* is armed.
OneInterruptPerArming == entries <= 1

\* The inductive form of the two: the wake-up is on its way from the moment the
\* interrupt is armed, and once the interrupt has been taken it is disabled again or
\* the handler is about to disable it.
ReadyInv ==
    /\ pc \in {"check", "wait", "test", "asleep"} => flag = 1 \/ armed \/ irq = "set"
    /\ entries <= 1
    /\ entries = 1 => ~armed \/ irq = "disable"

\* Every program and erase ends, in schedule mode and across a suspend, even if every
\* wake_up of the handler is missed (the timeout of wait_for_nand_flash_ready).
OperationEnds == pc = "init" ~> pc = "idle"
=============================================================================
