-------------------------- MODULE Netconsole_proofs -------------------------
(***************************************************************************)
(* netconsole for any number of targets and names: each target on the      *)
(* device holds one reference, nothing uses a target that is freed, a      *)
(* message is sent to a target that stays as it is, and an event leaves no *)
(* target on the device.                                                   *)
(***************************************************************************)
EXTENDS Netconsole, TLAPS

\* Wide time limits: what is proved should not depend on the speed of the machine.
USE SMTT(30), ZenonT(60)

\* The types of TypeOK, by what a step changes together.
DeviceTypes ==
    /\ mod \in {"init", "notified", "live", "exit", "last event", "freeing", "gone"}
    /\ extCon \in BOOLEAN /\ registered \in BOOLEAN /\ running \in BOOLEAN /\ devName \in Names
TargetTypes ==
    /\ name \in [Targets -> Names] /\ list \subseteq Targets
    /\ enabled \in [Targets -> BOOLEAN] /\ extended \in [Targets -> BOOLEAN]
    /\ devSet \in [Targets -> BOOLEAN] /\ npinfo \in BOOLEAN
    /\ held \in [Targets -> -1..1] /\ stale \subseteq Configs /\ refs \in [Targets -> 0..2]
TaskTypes ==
    /\ st \in {"idle", "setup", "carrier", "enable", "cleanup"}
    /\ dr \in {"idle", "check", "cleanup", "put"} /\ ev \in {"idle", "lock", "walk", "clean"}
    /\ stT \in Targets \cup {NoTarget} /\ drT \in Targets \cup {NoTarget}
    /\ evT \in Targets \cup {NoTarget}
WriterTypes ==
    /\ wrLeft \subseteq list /\ wr \in {"idle", "walk", "send", "fault"}
    /\ wrExt \in BOOLEAN /\ wrT \in Targets \cup {NoTarget}

\* The consoles run while the module is live; a message is sent to an enabled target.
WriterInv ==
    /\ wr = "idle" => wrLeft = {}
    /\ mod # "live" => wr = "idle" /\ list \subseteq Params
    /\ wr = "send" => wrT \in list /\ enabled[wrT] /\ devSet[wrT]

\* Where the targets of a store, an rmdir and an event are.
PlaceInv ==
    /\ st # "idle" => stT \in Configs \cap list /\ ~enabled[stT]
    /\ IF dr = "idle" THEN drT = NoTarget ELSE drT \in Configs \ list
    /\ IF ev = "clean" THEN evT \in Targets /\ devSet[evT] ELSE evT = NoTarget

\* configfs and the handler of an event hold one reference each on a target.
CountInv ==
    \A t \in Targets :
        refs[t] = IF t \in Params THEN 0
                  ELSE (IF t \in list \/ drT = t THEN 1 ELSE 0) + (IF evT = t THEN 1 ELSE 0)

\* A target whose setup is under way is not on the device, and one on the device is
\* enabled or in the hands of enabled_store.
HeldInv ==
    /\ st \in {"setup", "carrier"} /\ stT \notin stale => ~devSet[stT]
    /\ \A t \in Targets : held[t] = 1 =>
         \/ st = "carrier" /\ stT = t
         \/ devSet[t] /\ (enabled[t] \/ (st \in {"enable", "cleanup"} /\ stT = t))

\* A target that is dropped has left the device.
DropInv ==
    \A t \in Configs \ stale : t \notin list /\ (drT = t => dr = "put") => ~devSet[t]

\* What the handler of an event has passed by in its walk is not on the device.
WalkInv ==
    /\ evLeft \subseteq list
    /\ ev = "walk" => \A t \in list \ evLeft : ~devSet[t]
    /\ ev # "walk" => evLeft = {}

IInv ==
    /\ DeviceTypes /\ TargetTypes /\ TaskTypes /\ WriterTypes
    /\ WriterInv /\ PlaceInv /\ CountInv /\ RefPerTarget /\ HeldInv /\ DropInv
    /\ NameFollowsDevice

LEMMA InvInit == Init => IInv
<1> SUFFICES ASSUME Init PROVE IInv
  OBVIOUS
<1>1. DeviceTypes /\ TaskTypes /\ WriterTypes
  BY DefaultIsName, ZenonT(60) DEF Init, DeviceTypes, TaskTypes, WriterTypes
<1>4. TargetTypes
  <2>1. 0 \in -1..1 /\ 0 \in 0..2
    OBVIOUS
  <2> QED  BY <2>1, DefaultIsName, ZenonT(60) DEF Init, TargetTypes
<1>2. WriterInv /\ PlaceInv /\ CountInv
  BY TargetsDisjoint, NoTargetIsNone DEF Init, WriterInv, PlaceInv, CountInv, Targets
<1>3. RefPerTarget /\ HeldInv /\ DropInv /\ NameFollowsDevice
  BY DEF Init, RefPerTarget, HeldInv, DropInv, NameFollowsDevice, Targets
<1> QED  BY <1>1, <1>2, <1>3, <1>4 DEF IInv
-----------------------------------------------------------------------------
(***************************************************************************)
(* The references on the device.                                           *)
(***************************************************************************)
LEMMA TakeOf ==
    ASSUME NEW h \in -1..1, h <= 0 PROVE h + 1 \in -1..1 /\ (h = 0 => h + 1 = 1)
  OBVIOUS

LEMMA PutOf ==
    ASSUME TargetTypes, NEW t \in Targets, Put(t)
    PROVE  /\ held' \in [Targets -> -1..1] /\ held'[t] # 1 /\ (held[t] = 1 => held'[t] = 0)
           /\ \A u \in Targets : u # t => held'[u] = held[u]
<1>1. held \in [Targets -> -1..1] /\ held[t] \in -1..1
  BY DEF TargetTypes
<1> DEFINE h == IF held[t] > -1 THEN held[t] - 1 ELSE held[t]
<1>2. h \in -1..1 /\ h # 1 /\ (held[t] = 1 => h = 0)
  BY <1>1
<1>3. held' = [held EXCEPT ![t] = h]
  BY DEF Put
<1> HIDE DEF h
<1> QED  BY <1>1, <1>2, <1>3

LEMMA LinkOf ==
    ASSUME TargetTypes, DeviceTypes, NEW t \in Targets, Link(t)
    PROVE  /\ devSet' \in [Targets -> BOOLEAN] /\ name' \in [Targets -> Names]
           /\ npinfo' \in BOOLEAN /\ devSet'[t] /\ name'[t] = devName /\ UNCHANGED stale
           /\ \A u \in Targets : u # t => devSet'[u] = devSet[u] /\ name'[u] = name[u]
<1>1. /\ devSet' = [devSet EXCEPT ![t] = TRUE] /\ npinfo' = TRUE
      /\ name' = [name EXCEPT ![t] = devName] /\ UNCHANGED stale
  BY DEF Link
<1>2. /\ devSet' \in [Targets -> BOOLEAN] /\ devSet'[t]
      /\ \A u \in Targets : u # t => devSet'[u] = devSet[u]
  BY <1>1 DEF TargetTypes
<1>3. /\ name' \in [Targets -> Names] /\ name'[t] = devName
      /\ \A u \in Targets : u # t => name'[u] = name[u]
  BY <1>1 DEF TargetTypes, DeviceTypes
<1> QED  BY <1>1, <1>2, <1>3

LEMMA UnlinkOf ==
    ASSUME TargetTypes, NEW t \in Targets, Unlink(t)
    PROVE  /\ held' \in [Targets -> -1..1] /\ devSet' \in [Targets -> BOOLEAN]
           /\ npinfo' \in BOOLEAN /\ ~devSet'[t] /\ UNCHANGED stale
           /\ IF devSet[t] THEN held'[t] # 1 /\ (held[t] = 1 => held'[t] = 0)
                           ELSE held'[t] = held[t]
           /\ \A u \in Targets : u # t => held'[u] = held[u] /\ devSet'[u] = devSet[u]
<1>1. devSet' = [devSet EXCEPT ![t] = FALSE] /\ UNCHANGED stale
  BY DEF Unlink
<1>2. /\ devSet' \in [Targets -> BOOLEAN] /\ ~devSet'[t]
      /\ \A u \in Targets : u # t => devSet'[u] = devSet[u]
  BY <1>1 DEF TargetTypes
<1>3. CASE devSet[t]
  <2>1. Put(t) /\ npinfo' = FALSE
    BY <1>3 DEF Unlink
  <2> QED  BY <1>1, <1>2, <1>3, <2>1, PutOf, ZenonT(60)
<1>4. CASE ~devSet[t]
  <2>1. UNCHANGED <<held, npinfo>>
    BY <1>4 DEF Unlink
  <2> QED  BY <1>1, <1>2, <1>4, <2>1 DEF TargetTypes
<1> QED  BY <1>3, <1>4

\* A target that is about to be set up is not on the device.
LEMMA SetupIsFree ==
    ASSUME IInv, st = "setup"
    PROVE  /\ stT \in Configs /\ stT \in Targets /\ held[stT] <= 0
           /\ stT \notin stale => held[stT] = 0 /\ ~devSet[stT]
<1>1. stT \in Configs /\ stT \in Targets /\ ~enabled[stT]
  BY DEF IInv, PlaceInv, Targets
<1>2. held[stT] \in -1..1 /\ held[stT] # 1
  BY <1>1 DEF IInv, TargetTypes, HeldInv
<1> QED  BY <1>1, <1>2 DEF IInv, RefPerTarget, HeldInv

\* A target that is not enabled, and no store is in, is not on the device.
LEMMA IdleIsFree ==
    ASSUME IInv, NEW t \in Configs \ stale, ~enabled[t], st = "idle" \/ stT # t
    PROVE  ~devSet[t] /\ held[t] = 0
  BY DEF IInv, RefPerTarget, HeldInv, TargetTypes, Targets
-----------------------------------------------------------------------------
(***************************************************************************)
(* The steps.                                                              *)
(***************************************************************************)

\* A step that changes no target's links and no task's place.
LEMMA QuietStep ==
    ASSUME IInv, DeviceTypes', TargetTypes', WriterTypes', WriterInv',
           UNCHANGED <<devName, list, enabled, devSet, name, held, stale, refs, st, stT, dr, drT,
                       ev, evT, evLeft>>
    PROVE  IInv'
<1>1. PlaceInv' /\ CountInv' /\ RefPerTarget' /\ HeldInv'
  BY DEF IInv, PlaceInv, CountInv, RefPerTarget, HeldInv
<1>2. DropInv' /\ NameFollowsDevice'
  BY DEF IInv, DropInv, NameFollowsDevice
<1>3. TaskTypes'
  BY DEF IInv, TaskTypes
<1> QED  BY <1>1, <1>2, <1>3 DEF IInv

LEMMA WriteStep == ASSUME IInv, WriteStart \/ Write PROVE IInv'
<1> USE DEF targetVars, linkVars, modVars, devVars
<1>1. UNCHANGED <<mod, extCon, registered, running, devName, list, enabled, extended, devSet,
                  npinfo, stale, name, held, refs, st, stT, dr, drT, ev, evT, evLeft>>
  BY ZenonT(60) DEF WriteStart, Write, WriteTarget, WriteSend, WriteEnd, writeUnchanged
<1>2. /\ wr' \in {"idle", "walk", "send", "fault"} /\ wrLeft' \subseteq list
      /\ wrT' \in Targets \cup {NoTarget}
  BY ZenonT(60)
     DEF WriteStart, Write, WriteTarget, WriteSend, WriteEnd, writeUnchanged, IInv, WriterTypes,
         TargetTypes
<1>3. wrExt' \in BOOLEAN
  BY ZenonT(60)
     DEF WriteStart, Write, WriteTarget, WriteSend, WriteEnd, writeUnchanged, IInv, WriterTypes,
         TargetTypes
<1>4. DeviceTypes' /\ TargetTypes' /\ WriterTypes'
  BY <1>1, <1>2, <1>3 DEF IInv, DeviceTypes, TargetTypes, WriterTypes
<1>5. WriterInv'
  <2>1. CASE WriteTarget
    <3>1. PICK t \in wrLeft :
            IF extended[t] = wrExt /\ enabled[t] /\ (running \/ ~devSet[t])
            THEN wr' = (IF devSet[t] THEN "send" ELSE "fault") /\ wrT' = t
            ELSE UNCHANGED <<wr, wrT>>
      BY <2>1 DEF WriteTarget
    <3>2. t \in list
      BY DEF IInv, WriterTypes
    <3> QED  BY <1>1, <2>1, <3>1, <3>2 DEF WriteTarget, IInv, WriterInv
  <2>2. CASE WriteStart \/ WriteSend \/ WriteEnd
    BY <1>1, <2>2, ZenonT(60) DEF WriteStart, WriteSend, WriteEnd, IInv, WriterInv
  <2> QED  BY <2>1, <2>2 DEF Write
<1> QED  BY <1>1, <1>4, <1>5, QuietStep

\* enabled_store and the stores of the parameters.
LEMMA EnableStartStep == ASSUME IInv, NEW t \in Configs, EnableStart(t) PROVE IInv'
<1> USE DEF storeUnchanged, linkVars, wrVars
<1>1. TargetTypes' /\ WriterTypes' /\ WriterInv'
  BY DEF EnableStart, InConfigfs, IInv, TargetTypes, WriterTypes, WriterInv
<1>2. CountInv' /\ DropInv' /\ NameFollowsDevice'
  BY DEF EnableStart, InConfigfs, IInv, CountInv, DropInv, NameFollowsDevice
<1>3. DeviceTypes'
  BY DEF EnableStart, InConfigfs, IInv, DeviceTypes
<1>4. TaskTypes'
  BY DEF EnableStart, InConfigfs, IInv, TaskTypes, Targets
<1>5. PlaceInv'
  BY NoTargetIsNone DEF EnableStart, InConfigfs, IInv, TargetTypes, PlaceInv, Targets
<1>6. RefPerTarget'
  BY DEF EnableStart, InConfigfs, IInv, TargetTypes, RefPerTarget, HeldInv, PlaceInv,
     Targets
<1>7. HeldInv'
  BY DEF EnableStart, InConfigfs, IInv, TargetTypes, HeldInv, PlaceInv, RefPerTarget,
     Targets
<1> QED  BY <1>1, <1>2, <1>3, <1>4, <1>5, <1>6, <1>7 DEF IInv

LEMMA DisableStep == ASSUME IInv, NEW t \in Configs, Disable(t) PROVE IInv'
<1> USE DEF storeUnchanged, linkVars, wrVars
<1>1. DeviceTypes' /\ WriterTypes' /\ CountInv'
  BY DEF Disable, InConfigfs, ListLockFree, IInv, DeviceTypes, WriterTypes, CountInv
<1>2. DropInv' /\ NameFollowsDevice'
  BY DEF Disable, InConfigfs, ListLockFree, IInv, DropInv, NameFollowsDevice
<1>3. TargetTypes'
  BY DEF Disable, InConfigfs, ListLockFree, IInv, TargetTypes, Targets
<1>4. TaskTypes'
  BY DEF Disable, InConfigfs, ListLockFree, IInv, TaskTypes, Targets
<1>5. WriterInv'
  BY DEF Disable, InConfigfs, ListLockFree, IInv, TargetTypes, WriterInv, PlaceInv, Targets
<1>6. PlaceInv'
  BY NoTargetIsNone DEF Disable, InConfigfs, ListLockFree, IInv, TargetTypes, PlaceInv,
     Targets
<1>7. RefPerTarget'
  BY DEF Disable, InConfigfs, ListLockFree, IInv, TargetTypes, RefPerTarget, HeldInv,
     PlaceInv, Targets
<1>8. HeldInv'
  BY DEF Disable, InConfigfs, ListLockFree, IInv, TargetTypes, HeldInv, PlaceInv,
     RefPerTarget, Targets
<1> QED  BY <1>1, <1>2, <1>3, <1>4, <1>5, <1>6, <1>7, <1>8 DEF IInv

LEMMA StoreParamStep == ASSUME IInv, NEW t \in Configs, StoreParam(t) PROVE IInv'
<1> USE DEF storeUnchanged, linkVars, wrVars
<1>1. ~enabled[t] /\ st = "idle" /\ t \in Targets
  BY DEF StoreParam, Targets
<1>2. t \notin stale => ~devSet[t]
  BY <1>1, IdleIsFree
<1>3. /\ extended' \in [Targets -> BOOLEAN] /\ name' \in [Targets -> Names]
      /\ \A u \in Targets : u # t => name'[u] = name[u]
  BY <1>1 DEF StoreParam, IInv, TargetTypes
<1>4. UNCHANGED <<mod, extCon, registered, running, devName, list, enabled, devSet,
                  npinfo, held, stale, refs, st, stT, dr, drT, ev, evT, evLeft, wr, wrLeft, wrT,
                  wrExt>>
  BY DEF StoreParam, devVars, modVars, wrVars
<1>5. DeviceTypes'
  BY <1>4 DEF IInv, DeviceTypes
<1>6. TaskTypes'
  BY <1>4 DEF IInv, TaskTypes
<1>7. WriterTypes'
  BY <1>4 DEF IInv, WriterTypes
<1>8. WriterInv'
  BY <1>4 DEF IInv, WriterInv
<1>9. PlaceInv'
  BY <1>4 DEF IInv, PlaceInv
<1>10. CountInv'
  BY <1>4 DEF IInv, CountInv
<1>11. RefPerTarget'
  BY <1>4 DEF IInv, RefPerTarget
<1>12. HeldInv'
  BY <1>4 DEF IInv, HeldInv
<1>13. DropInv'
  BY <1>4 DEF IInv, DropInv
<1>14. TargetTypes'
  BY <1>1, <1>2, <1>3, <1>4 DEF IInv, TargetTypes, Targets
<1>15. NameFollowsDevice'
  BY <1>1, <1>2, <1>3, <1>4 DEF IInv, TargetTypes, NameFollowsDevice, PlaceInv, WriterInv,
     Targets
<1> QED  BY <1>5, <1>6, <1>7, <1>8, <1>9, <1>10, <1>11, <1>12, <1>13, <1>14, <1>15 DEF IInv

LEMMA EnableFailsStep == ASSUME IInv, EnableFails PROVE IInv'
<1> USE DEF storeUnchanged, linkVars, wrVars
<1>1. DeviceTypes' /\ TargetTypes' /\ WriterTypes'
  BY DEF EnableFails, IInv, DeviceTypes, TargetTypes, WriterTypes
<1>2. WriterInv' /\ CountInv' /\ DropInv'
  BY DEF EnableFails, IInv, WriterInv, CountInv, DropInv
<1>3. NameFollowsDevice'
  BY DEF EnableFails, IInv, NameFollowsDevice
<1>4. TaskTypes'
  BY DEF EnableFails, IInv, TaskTypes, Targets
<1>5. PlaceInv'
  BY NoTargetIsNone DEF EnableFails, IInv, TargetTypes, PlaceInv, Targets
<1>6. RefPerTarget'
  BY DEF EnableFails, IInv, TargetTypes, RefPerTarget, HeldInv, PlaceInv, Targets
<1>7. HeldInv'
  BY DEF EnableFails, IInv, TargetTypes, HeldInv, PlaceInv, RefPerTarget, Targets
<1> QED  BY <1>1, <1>2, <1>3, <1>4, <1>5, <1>6, <1>7 DEF IInv

LEMMA EnableSetupStep == ASSUME IInv, EnableSetup PROVE IInv'
<1> USE DEF storeUnchanged, linkVars, wrVars
<1>1. /\ stT \in Configs /\ stT \in Targets /\ held[stT] <= 0
      /\ stT \notin stale => held[stT] = 0 /\ ~devSet[stT]
  BY SetupIsFree DEF EnableSetup
<1>2. /\ held' \in [Targets -> -1..1] /\ (stT \notin stale => held'[stT] = 1)
      /\ \A t \in Targets : t # stT => held'[t] = held[t]
  BY <1>1, TakeOf DEF EnableSetup, IInv, TargetTypes
<1>3. /\ devSet' \in [Targets -> BOOLEAN] /\ name' \in [Targets -> Names] /\ npinfo' \in BOOLEAN
      /\ devSet'[stT] /\ name'[stT] = devName
      /\ \A t \in Targets : t # stT => devSet'[t] = devSet[t] /\ name'[t] = name[t]
  BY <1>1, LinkOf DEF EnableSetup, IInv
<1>4. st = "setup" /\ st' = "enable"
  BY DEF EnableSetup
<1>5. UNCHANGED <<mod, extCon, registered, running, devName, list, enabled, extended,
                  stale, refs, stT, dr, drT, ev, evT, evLeft, wr, wrLeft, wrT, wrExt>>
  BY DEF EnableSetup, Link
<1>6. DeviceTypes' /\ WriterTypes' /\ CountInv'
  BY <1>5 DEF IInv, DeviceTypes, WriterTypes, CountInv
<1>7. TargetTypes'
  BY <1>1, <1>2, <1>3, <1>4, <1>5 DEF IInv, TargetTypes, Targets
<1>8. TaskTypes'
  BY <1>1, <1>2, <1>3, <1>4, <1>5 DEF IInv, TaskTypes, Targets
<1>9. WriterInv'
  BY <1>1, <1>2, <1>3, <1>4, <1>5 DEF IInv, TargetTypes, WriterInv, PlaceInv, Targets
<1>10. PlaceInv'
  BY <1>1, <1>2, <1>3, <1>4, <1>5, NoTargetIsNone DEF IInv, TargetTypes, PlaceInv, Targets
<1>11. RefPerTarget'
  BY <1>1, <1>2, <1>3, <1>4, <1>5 DEF IInv, TargetTypes, RefPerTarget, HeldInv, PlaceInv,
     Targets
<1>12. HeldInv'
  BY <1>1, <1>2, <1>3, <1>4, <1>5 DEF IInv, TargetTypes, HeldInv, PlaceInv, RefPerTarget,
     Targets
<1>13. DropInv'
  BY <1>1, <1>2, <1>3, <1>4, <1>5 DEF IInv, TargetTypes, DropInv, PlaceInv, Targets
<1>14. NameFollowsDevice'
  BY <1>1, <1>2, <1>3, <1>4, <1>5 DEF IInv, TargetTypes, NameFollowsDevice, PlaceInv,
     WriterInv, Targets
<1> QED  BY <1>6, <1>7, <1>8, <1>9, <1>10, <1>11, <1>12, <1>13, <1>14 DEF IInv

LEMMA EnableOpenStep == ASSUME IInv, EnableOpen PROVE IInv'
<1> USE DEF storeUnchanged, linkVars, wrVars
<1>1. /\ stT \in Configs /\ stT \in Targets /\ held[stT] <= 0
      /\ stT \notin stale => held[stT] = 0 /\ ~devSet[stT]
  BY SetupIsFree DEF EnableOpen
<1>2. /\ held' \in [Targets -> -1..1] /\ (stT \notin stale => held'[stT] = 1)
      /\ \A t \in Targets : t # stT => held'[t] = held[t]
  BY <1>1, TakeOf DEF EnableOpen, IInv, TargetTypes
<1>3. st = "setup" /\ st' = "carrier" /\ running' = TRUE
  BY DEF EnableOpen
<1>4. UNCHANGED <<mod, extCon, registered, devName, list, enabled, extended, devSet,
                  npinfo, name, stale, refs, stT, dr, drT, ev, evT, evLeft, wr, wrLeft, wrT,
                  wrExt>>
  BY DEF EnableOpen
<1>5. WriterTypes' /\ WriterInv' /\ CountInv'
  BY <1>4 DEF IInv, WriterTypes, WriterInv, CountInv
<1>6. DropInv' /\ NameFollowsDevice'
  BY <1>4 DEF IInv, DropInv, NameFollowsDevice
<1>7. DeviceTypes'
  BY <1>1, <1>2, <1>3, <1>4 DEF IInv, DeviceTypes
<1>8. TargetTypes'
  BY <1>1, <1>2, <1>3, <1>4 DEF IInv, TargetTypes, Targets
<1>9. TaskTypes'
  BY <1>1, <1>2, <1>3, <1>4 DEF IInv, TaskTypes, Targets
<1>10. PlaceInv'
  BY <1>1, <1>2, <1>3, <1>4, NoTargetIsNone DEF IInv, TargetTypes, PlaceInv, Targets
<1>11. RefPerTarget'
  BY <1>1, <1>2, <1>3, <1>4 DEF IInv, TargetTypes, RefPerTarget, HeldInv, PlaceInv, Targets
<1>12. HeldInv'
  BY <1>1, <1>2, <1>3, <1>4 DEF IInv, TargetTypes, HeldInv, PlaceInv, RefPerTarget, Targets
<1> QED  BY <1>5, <1>6, <1>7, <1>8, <1>9, <1>10, <1>11, <1>12 DEF IInv

LEMMA EnableCarrierStep == ASSUME IInv, EnableCarrier PROVE IInv'
<1> USE DEF storeUnchanged, linkVars, wrVars
<1>1. stT \in Configs /\ stT \in Targets /\ st = "carrier" /\ ev = "idle" /\ ~enabled[stT]
  BY DEF EnableCarrier, RtnlFree, IInv, PlaceInv, Targets
<1>2. UNCHANGED stale
  BY DEF EnableCarrier, Link, linkVars
<1>3. \/ /\ devSet' \in [Targets -> BOOLEAN] /\ name' \in [Targets -> Names] /\ npinfo' \in BOOLEAN
         /\ devSet'[stT] /\ name'[stT] = devName
         /\ \A t \in Targets : t # stT => devSet'[t] = devSet[t] /\ name'[t] = name[t]
         /\ UNCHANGED held /\ st' = "enable"
      \/ /\ held' \in [Targets -> -1..1] /\ held'[stT] # 1 /\ (held[stT] = 1 => held'[stT] = 0)
         /\ \A t \in Targets : t # stT => held'[t] = held[t]
         /\ UNCHANGED <<devSet, name, npinfo>> /\ st' = "idle"
  BY <1>1, LinkOf, PutOf DEF EnableCarrier, linkVars, IInv
<1>4. UNCHANGED <<mod, extCon, registered, running, devName, list, enabled, extended,
                  stale, refs, stT, dr, drT, ev, evT, evLeft, wr, wrLeft, wrT, wrExt>>
  BY DEF EnableCarrier, Link
<1>5. DeviceTypes' /\ WriterTypes' /\ CountInv'
  BY <1>4 DEF IInv, DeviceTypes, WriterTypes, CountInv
<1>6. TargetTypes'
  BY <1>1, <1>2, <1>3, <1>4 DEF IInv, TargetTypes, Targets
<1>7. TaskTypes'
  BY <1>1, <1>2, <1>3, <1>4 DEF IInv, TaskTypes, Targets
<1>8. WriterInv'
  BY <1>1, <1>2, <1>3, <1>4 DEF IInv, TargetTypes, WriterInv, PlaceInv, Targets
<1>9. PlaceInv'
  BY <1>1, <1>2, <1>3, <1>4, NoTargetIsNone DEF IInv, TargetTypes, PlaceInv, Targets
<1>10. RefPerTarget'
  BY <1>1, <1>2, <1>3, <1>4 DEF IInv, TargetTypes, RefPerTarget, HeldInv, PlaceInv, Targets
<1>11. HeldInv'
  BY <1>1, <1>2, <1>3, <1>4 DEF IInv, TargetTypes, HeldInv, PlaceInv, RefPerTarget, Targets
<1>12. DropInv'
  BY <1>1, <1>2, <1>3, <1>4 DEF IInv, TargetTypes, DropInv, PlaceInv, Targets
<1>13. NameFollowsDevice'
  BY <1>1, <1>2, <1>3, <1>4 DEF IInv, TargetTypes, NameFollowsDevice, PlaceInv, WriterInv,
     Targets
<1> QED  BY <1>5, <1>6, <1>7, <1>8, <1>9, <1>10, <1>11, <1>12, <1>13 DEF IInv

LEMMA EnableNoMemoryStep == ASSUME IInv, EnableNoMemory PROVE IInv'
<1> USE DEF storeUnchanged, linkVars, wrVars
<1>1. stT \in Configs /\ stT \in Targets /\ ev = "idle" /\ ~enabled[stT]
      /\ st \in {"setup", "carrier"}
  BY DEF EnableNoMemory, RtnlFree, IInv, PlaceInv, Targets
<1>2. stale' = stale \cup {stT} /\ st' = "idle"
  BY DEF EnableNoMemory
<1>3. /\ held' \in [Targets -> -1..1] /\ held'[stT] # 1
      /\ \A t \in Targets : t # stT => held'[t] = held[t]
  BY <1>1, PutOf, SetupIsFree DEF EnableNoMemory, IInv, TargetTypes
<1>4. /\ devSet' \in [Targets -> BOOLEAN] /\ name' \in [Targets -> Names] /\ devSet'[stT]
      /\ \A t \in Targets : t # stT => devSet'[t] = devSet[t] /\ name'[t] = name[t]
  BY <1>1 DEF EnableNoMemory, IInv, TargetTypes, DeviceTypes
<1>5. UNCHANGED <<mod, extCon, registered, running, devName, list, enabled, extended,
                  npinfo, refs, stT, dr, drT, ev, evT, evLeft, wr, wrLeft, wrT, wrExt>>
  BY DEF EnableNoMemory
<1>6. DeviceTypes' /\ WriterTypes' /\ CountInv'
  BY <1>5 DEF IInv, DeviceTypes, WriterTypes, CountInv
<1>7. TargetTypes'
  BY <1>1, <1>2, <1>3, <1>4, <1>5 DEF IInv, TargetTypes, Targets
<1>8. TaskTypes'
  BY <1>1, <1>2, <1>3, <1>4, <1>5 DEF IInv, TaskTypes, Targets
<1>9. WriterInv'
  BY <1>1, <1>2, <1>3, <1>4, <1>5 DEF IInv, TargetTypes, WriterInv, PlaceInv, Targets
<1>10. PlaceInv'
  BY <1>1, <1>2, <1>3, <1>4, <1>5, NoTargetIsNone DEF IInv, TargetTypes, PlaceInv, Targets
<1>11. RefPerTarget'
  BY <1>1, <1>2, <1>3, <1>4, <1>5 DEF IInv, TargetTypes, RefPerTarget, HeldInv, PlaceInv,
     Targets
<1>12. HeldInv'
  BY <1>1, <1>2, <1>3, <1>4, <1>5 DEF IInv, TargetTypes, HeldInv, PlaceInv, RefPerTarget,
     Targets
<1>13. DropInv'
  BY <1>1, <1>2, <1>3, <1>4, <1>5 DEF IInv, TargetTypes, DropInv, PlaceInv, Targets
<1>14. NameFollowsDevice'
  BY <1>1, <1>2, <1>3, <1>4, <1>5 DEF IInv, TargetTypes, NameFollowsDevice, PlaceInv,
     WriterInv, Targets
<1> QED  BY <1>6, <1>7, <1>8, <1>9, <1>10, <1>11, <1>12, <1>13, <1>14 DEF IInv

LEMMA EnableDoneStep == ASSUME IInv, EnableDone PROVE IInv'
<1> USE DEF storeUnchanged, linkVars, wrVars
<1>1. DeviceTypes' /\ WriterTypes' /\ CountInv'
  BY DEF EnableDone, IInv, DeviceTypes, WriterTypes, CountInv
<1>2. DropInv' /\ NameFollowsDevice'
  BY DEF EnableDone, IInv, DropInv, NameFollowsDevice
<1>3. TargetTypes'
  BY ZenonT(60) DEF EnableDone, IInv, TargetTypes, Targets
<1>4. TaskTypes'
  BY DEF EnableDone, IInv, TaskTypes, Targets
<1>5. WriterInv'
  BY DEF EnableDone, IInv, TargetTypes, WriterInv, PlaceInv, Targets
<1>6. PlaceInv'
  BY NoTargetIsNone DEF EnableDone, IInv, TargetTypes, PlaceInv, Targets
<1>7. RefPerTarget'
  BY DEF EnableDone, IInv, TargetTypes, RefPerTarget, HeldInv, PlaceInv, Targets
<1>8. HeldInv'
  BY DEF EnableDone, IInv, TargetTypes, HeldInv, PlaceInv, RefPerTarget, Targets
<1> QED  BY <1>1, <1>2, <1>3, <1>4, <1>5, <1>6, <1>7, <1>8 DEF IInv

LEMMA DisableCleanupStep == ASSUME IInv, DisableCleanup PROVE IInv'
<1> USE DEF storeUnchanged, linkVars, wrVars
<1>1. stT \in Configs /\ stT \in Targets /\ ~enabled[stT]
  BY DEF DisableCleanup, IInv, PlaceInv, Targets
<1>2. /\ held' \in [Targets -> -1..1] /\ devSet' \in [Targets -> BOOLEAN] /\ npinfo' \in BOOLEAN
      /\ ~devSet'[stT]
      /\ IF devSet[stT] THEN held'[stT] # 1 /\ (held[stT] = 1 => held'[stT] = 0)
                        ELSE held'[stT] = held[stT]
      /\ \A u \in Targets : u # stT => held'[u] = held[u] /\ devSet'[u] = devSet[u]
  BY <1>1, UnlinkOf DEF DisableCleanup, IInv
<1>3. /\ st = "cleanup" /\ st' = "idle" /\ ev = "idle" /\ UNCHANGED stale
      /\ enabled' \in [Targets -> BOOLEAN] /\ \A t \in Targets : enabled'[t] = enabled[t]
  BY <1>1, ZenonT(60) DEF DisableCleanup, Unlink, RtnlFree, IInv, TargetTypes
<1>4. UNCHANGED <<mod, extCon, registered, running, devName, list, extended, name, stale,
                  refs, stT, dr, drT, ev, evT, evLeft, wr, wrLeft, wrT, wrExt>>
  BY DEF DisableCleanup, Unlink
<1>5. DeviceTypes' /\ WriterTypes' /\ CountInv'
  BY <1>4 DEF IInv, DeviceTypes, WriterTypes, CountInv
<1>6. TargetTypes'
  BY <1>1, <1>2, <1>3, <1>4 DEF IInv, TargetTypes, Targets
<1>7. TaskTypes'
  BY <1>1, <1>2, <1>3, <1>4 DEF IInv, TaskTypes, Targets
<1>8. WriterInv'
  BY <1>1, <1>2, <1>3, <1>4 DEF IInv, TargetTypes, WriterInv, PlaceInv, Targets
<1>9. PlaceInv'
  BY <1>1, <1>2, <1>3, <1>4, NoTargetIsNone DEF IInv, TargetTypes, PlaceInv, Targets
<1>10. RefPerTarget'
  BY <1>1, <1>2, <1>3, <1>4 DEF IInv, TargetTypes, RefPerTarget, HeldInv, PlaceInv, Targets
<1>11. HeldInv'
  BY <1>1, <1>2, <1>3, <1>4 DEF IInv, TargetTypes, HeldInv, PlaceInv, RefPerTarget, Targets
<1>12. DropInv'
  BY <1>1, <1>2, <1>3, <1>4 DEF IInv, TargetTypes, DropInv, PlaceInv, Targets
<1>13. NameFollowsDevice'
  BY <1>1, <1>2, <1>3, <1>4 DEF IInv, TargetTypes, NameFollowsDevice, PlaceInv, WriterInv,
     Targets
<1> QED  BY <1>5, <1>6, <1>7, <1>8, <1>9, <1>10, <1>11, <1>12, <1>13 DEF IInv

\* mkdir and rmdir in configfs.
LEMMA MakeStep == ASSUME IInv, NEW t \in Configs, Make(t) PROVE IInv'
<1> USE DEF dropUnchanged, linkVars, modVars, devVars, wrVars
<1>1. DeviceTypes' /\ TaskTypes'
  BY DEF Make, ListLockFree, IInv, DeviceTypes, TaskTypes
<1>2. TargetTypes'
  BY DefaultIsName DEF Make, ListLockFree, IInv, TargetTypes, Targets
<1>3. WriterTypes'
  BY DEF Make, ListLockFree, IInv, WriterTypes, WriterInv, Targets
<1>4. WriterInv'
  BY DEF Make, ListLockFree, IInv, TargetTypes, WriterInv, PlaceInv, Targets
<1>5. PlaceInv'
  BY TargetsDisjoint, NoTargetIsNone DEF Make, ListLockFree, IInv, TargetTypes, PlaceInv,
     CountInv, Targets
<1>6. CountInv'
  BY TargetsDisjoint, NoTargetIsNone DEF Make, ListLockFree, IInv, TargetTypes, CountInv,
     PlaceInv, Targets
<1>7. RefPerTarget'
  BY DEF Make, ListLockFree, IInv, TargetTypes, RefPerTarget, HeldInv, PlaceInv, Targets
<1>8. HeldInv'
  BY DEF Make, ListLockFree, IInv, TargetTypes, HeldInv, PlaceInv, RefPerTarget, Targets
<1>9. DropInv'
  BY DEF Make, ListLockFree, IInv, TargetTypes, DropInv, PlaceInv, Targets
<1>10. NameFollowsDevice'
  BY DEF Make, ListLockFree, IInv, TargetTypes, NameFollowsDevice, PlaceInv, WriterInv,
     Targets
<1> QED  BY <1>1, <1>2, <1>3, <1>4, <1>5, <1>6, <1>7, <1>8, <1>9, <1>10 DEF IInv

LEMMA DropStep == ASSUME IInv, NEW t \in Configs, Drop(t) PROVE IInv'
<1> USE DEF dropUnchanged, linkVars, modVars, devVars, wrVars
<1>1. DeviceTypes' /\ RefPerTarget' /\ HeldInv'
  BY DEF Drop, ListLockFree, InConfigfs, IInv, DeviceTypes, RefPerTarget, HeldInv
<1>2. TargetTypes'
  BY DEF Drop, ListLockFree, InConfigfs, IInv, TargetTypes, Targets
<1>3. TaskTypes'
  BY DEF Drop, ListLockFree, InConfigfs, IInv, TaskTypes, Targets
<1>4. WriterTypes'
  BY DEF Drop, ListLockFree, InConfigfs, IInv, WriterTypes, WriterInv, Targets
<1>5. WriterInv'
  BY DEF Drop, ListLockFree, InConfigfs, IInv, TargetTypes, WriterInv, PlaceInv, Targets
<1>6. PlaceInv'
  BY NoTargetIsNone DEF Drop, ListLockFree, InConfigfs, IInv, TargetTypes, PlaceInv, Targets
<1>7. CountInv'
  BY TargetsDisjoint, NoTargetIsNone DEF Drop, ListLockFree, InConfigfs, IInv, TargetTypes,
     CountInv, PlaceInv, Targets
<1>8. DropInv'
  BY NoTargetIsNone DEF Drop, ListLockFree, InConfigfs, IInv, TargetTypes, DropInv,
     PlaceInv, Targets
<1>9. NameFollowsDevice'
  BY DEF Drop, ListLockFree, InConfigfs, IInv, TargetTypes, NameFollowsDevice, PlaceInv,
     WriterInv, Targets
<1> QED  BY <1>1, <1>2, <1>3, <1>4, <1>5, <1>6, <1>7, <1>8, <1>9 DEF IInv

LEMMA DropCheckStep == ASSUME IInv, DropCheck PROVE IInv'
<1> USE DEF dropUnchanged, linkVars, modVars, devVars, wrVars
<1>1. drT \in Configs /\ drT \in Targets /\ drT \notin list /\ dr = "check"
      /\ (st = "idle" \/ stT # drT)
  BY DEF DropCheck, IInv, PlaceInv, Targets
<1>2. drT \notin stale /\ ~enabled[drT] => ~devSet[drT]
  BY <1>1, IdleIsFree
<1>3. dr' = IF enabled[drT] THEN "cleanup" ELSE "put"
  BY DEF DropCheck
<1>4. UNCHANGED <<mod, extCon, registered, running, devName, list, enabled, extended,
                  devSet, npinfo, name, held, stale, refs, st, stT, drT, ev, evT, evLeft, wr,
                  wrLeft, wrT, wrExt>>
  BY DEF DropCheck
<1>5. DeviceTypes' /\ TargetTypes' /\ WriterTypes'
  BY <1>4 DEF IInv, DeviceTypes, TargetTypes, WriterTypes
<1>6. WriterInv' /\ CountInv' /\ RefPerTarget'
  BY <1>4 DEF IInv, WriterInv, CountInv, RefPerTarget
<1>7. HeldInv' /\ NameFollowsDevice'
  BY <1>4 DEF IInv, HeldInv, NameFollowsDevice
<1>8. TaskTypes'
  BY <1>1, <1>2, <1>3, <1>4 DEF IInv, TaskTypes, Targets
<1>9. PlaceInv'
  BY <1>1, <1>2, <1>3, <1>4, NoTargetIsNone DEF IInv, TargetTypes, PlaceInv, Targets
<1>10. DropInv'
  BY <1>1, <1>2, <1>3, <1>4 DEF IInv, TargetTypes, DropInv, PlaceInv, Targets
<1> QED  BY <1>5, <1>6, <1>7, <1>8, <1>9, <1>10 DEF IInv

LEMMA DropCleanupStep == ASSUME IInv, DropCleanup PROVE IInv'
<1> USE DEF dropUnchanged, linkVars, modVars, devVars, wrVars
<1>1. drT \in Configs /\ drT \in Targets /\ drT \notin list /\ (st # "idle" => stT # drT)
  BY DEF DropCleanup, IInv, PlaceInv, Targets
<1>2. /\ held' \in [Targets -> -1..1] /\ devSet' \in [Targets -> BOOLEAN] /\ npinfo' \in BOOLEAN
      /\ ~devSet'[drT]
      /\ IF devSet[drT] THEN held'[drT] # 1 /\ (held[drT] = 1 => held'[drT] = 0)
                        ELSE held'[drT] = held[drT]
      /\ \A u \in Targets : u # drT => held'[u] = held[u] /\ devSet'[u] = devSet[u]
  BY <1>1, UnlinkOf DEF DropCleanup, IInv
<1>3. dr = "cleanup" /\ dr' = "put" /\ ev = "idle" /\ UNCHANGED stale
  BY DEF DropCleanup, Unlink, RtnlFree
<1>4. UNCHANGED <<mod, extCon, registered, running, devName, list, enabled, extended,
                  name, stale, refs, st, stT, drT, ev, evT, evLeft, wr, wrLeft, wrT, wrExt>>
  BY DEF DropCleanup, Unlink
<1>5. DeviceTypes' /\ WriterTypes' /\ CountInv'
  BY <1>4 DEF IInv, DeviceTypes, WriterTypes, CountInv
<1>6. TargetTypes'
  BY <1>1, <1>2, <1>3, <1>4 DEF IInv, TargetTypes, Targets
<1>7. TaskTypes'
  BY <1>1, <1>2, <1>3, <1>4 DEF IInv, TaskTypes, Targets
<1>8. WriterInv'
  BY <1>1, <1>2, <1>3, <1>4 DEF IInv, TargetTypes, WriterInv, PlaceInv, Targets
<1>9. PlaceInv'
  BY <1>1, <1>2, <1>3, <1>4, NoTargetIsNone DEF IInv, TargetTypes, PlaceInv, Targets
<1>10. RefPerTarget'
  BY <1>1, <1>2, <1>3, <1>4 DEF IInv, TargetTypes, RefPerTarget, HeldInv, PlaceInv, Targets
<1>11. HeldInv'
  BY <1>1, <1>2, <1>3, <1>4 DEF IInv, TargetTypes, HeldInv, PlaceInv, RefPerTarget, Targets
<1>12. DropInv'
  BY <1>1, <1>2, <1>3, <1>4 DEF IInv, TargetTypes, DropInv, PlaceInv, Targets
<1>13. NameFollowsDevice'
  BY <1>1, <1>2, <1>3, <1>4 DEF IInv, TargetTypes, NameFollowsDevice, PlaceInv, WriterInv,
     Targets
<1> QED  BY <1>5, <1>6, <1>7, <1>8, <1>9, <1>10, <1>11, <1>12, <1>13 DEF IInv

LEMMA DropPutStep == ASSUME IInv, DropPut PROVE IInv'
<1> USE DEF dropUnchanged, linkVars, modVars, devVars, wrVars
<1>1. drT \in Configs /\ drT \in Targets /\ drT \notin list /\ drT \notin Params /\ dr = "put"
  BY TargetsDisjoint DEF DropPut, IInv, PlaceInv, Targets
<1>2. dr' = "idle" /\ drT' = NoTarget
  BY DEF DropPut
<1>3. refs[drT] \in 1..2 /\ refs[drT] - 1 \in 0..2
  BY <1>1 DEF IInv, CountInv
<1>4. /\ refs' \in [Targets -> 0..2] /\ refs'[drT] = refs[drT] - 1
      /\ \A t \in Targets : t # drT => refs'[t] = refs[t]
  BY <1>1, <1>3 DEF DropPut, IInv, TargetTypes
<1>5. UNCHANGED <<mod, extCon, registered, running, devName, list, enabled, extended,
                  devSet, npinfo, name, held, stale, st, stT, ev, evT, evLeft, wr, wrLeft, wrT,
                  wrExt>>
  BY DEF DropPut
<1>6. DeviceTypes' /\ WriterTypes' /\ WriterInv'
  BY <1>5 DEF IInv, DeviceTypes, WriterTypes, WriterInv
<1>7. RefPerTarget' /\ HeldInv' /\ NameFollowsDevice'
  BY <1>5 DEF IInv, RefPerTarget, HeldInv, NameFollowsDevice
<1>8. TargetTypes'
  BY <1>1, <1>2, <1>3, <1>4, <1>5 DEF IInv, TargetTypes, Targets
<1>9. TaskTypes'
  BY <1>1, <1>2, <1>3, <1>4, <1>5 DEF IInv, TaskTypes, Targets
<1>10. PlaceInv'
  BY <1>1, <1>2, <1>3, <1>4, <1>5, NoTargetIsNone DEF IInv, TargetTypes, PlaceInv, Targets
<1>11. CountInv'
  BY <1>1, <1>2, <1>3, <1>4, <1>5, TargetsDisjoint, NoTargetIsNone DEF IInv, TargetTypes,
     CountInv, PlaceInv, Targets
<1>12. DropInv'
  BY <1>1, <1>2, <1>3, <1>4, <1>5 DEF IInv, TargetTypes, DropInv, PlaceInv, Targets
<1> QED  BY <1>6, <1>7, <1>8, <1>9, <1>10, <1>11, <1>12 DEF IInv

\* The net device.
LEMMA IfUpDownStep == ASSUME IInv, IfUpDown PROVE IInv'
<1> USE DEF deviceUnchanged, linkVars, modVars, wrVars
<1>1. TargetTypes' /\ TaskTypes' /\ WriterTypes'
  BY DEF IfUpDown, IInv, TargetTypes, TaskTypes, WriterTypes
<1>2. WriterInv' /\ PlaceInv' /\ CountInv'
  BY DEF IfUpDown, IInv, WriterInv, PlaceInv, CountInv
<1>3. RefPerTarget' /\ HeldInv' /\ DropInv'
  BY DEF IfUpDown, IInv, RefPerTarget, HeldInv, DropInv
<1>4. NameFollowsDevice'
  BY DEF IfUpDown, IInv, NameFollowsDevice
<1>5. DeviceTypes'
  BY DEF IfUpDown, IInv, DeviceTypes
<1> QED  BY <1>1, <1>2, <1>3, <1>4, <1>5 DEF IInv

LEMMA ChangeNameStep == ASSUME IInv, ChangeName PROVE IInv'
<1> USE DEF deviceUnchanged, linkVars, modVars, wrVars
<1>1. TaskTypes' /\ WriterTypes' /\ WriterInv'
  BY DEF ChangeName, Notified, IInv, TaskTypes, WriterTypes, WriterInv
<1>2. PlaceInv' /\ CountInv' /\ RefPerTarget'
  BY DEF ChangeName, Notified, IInv, PlaceInv, CountInv, RefPerTarget
<1>3. HeldInv' /\ DropInv'
  BY DEF ChangeName, Notified, IInv, HeldInv, DropInv
<1>4. DeviceTypes'
  BY DEF ChangeName, Notified, IInv, DeviceTypes
<1>5. TargetTypes'
  BY DEF ChangeName, Notified, IInv, TargetTypes, Targets
<1>6. NameFollowsDevice'
  BY TargetsDisjoint DEF ChangeName, Notified, IInv, TargetTypes, NameFollowsDevice,
     PlaceInv, WriterInv, Targets
<1> QED  BY <1>1, <1>2, <1>3, <1>4, <1>5, <1>6 DEF IInv

LEMMA EventStartStep == ASSUME IInv, EventStart PROVE IInv'
<1> USE DEF deviceUnchanged, linkVars, modVars, wrVars
<1>1. TargetTypes' /\ WriterTypes' /\ WriterInv'
  BY DEF EventStart, Notified, RtnlFree, IInv, TargetTypes, WriterTypes, WriterInv
<1>2. CountInv' /\ RefPerTarget' /\ HeldInv'
  BY DEF EventStart, Notified, RtnlFree, IInv, CountInv, RefPerTarget, HeldInv
<1>3. DropInv' /\ NameFollowsDevice'
  BY DEF EventStart, Notified, RtnlFree, IInv, DropInv, NameFollowsDevice
<1>4. DeviceTypes'
  BY DEF EventStart, Notified, RtnlFree, IInv, DeviceTypes
<1>5. TaskTypes'
  BY DEF EventStart, Notified, RtnlFree, IInv, TaskTypes, Targets
<1>6. PlaceInv'
  BY NoTargetIsNone DEF EventStart, Notified, RtnlFree, IInv, TargetTypes, PlaceInv, Targets
<1> QED  BY <1>1, <1>2, <1>3, <1>4, <1>5, <1>6 DEF IInv

LEMMA RegisterStep == ASSUME IInv, Register PROVE IInv'
<1> USE DEF deviceUnchanged, linkVars, modVars, wrVars
<1>1. TargetTypes' /\ TaskTypes' /\ WriterTypes'
  BY DEF Register, IInv, TargetTypes, TaskTypes, WriterTypes
<1>2. WriterInv' /\ PlaceInv' /\ CountInv'
  BY DEF Register, IInv, WriterInv, PlaceInv, CountInv
<1>3. RefPerTarget' /\ HeldInv' /\ DropInv'
  BY DEF Register, IInv, RefPerTarget, HeldInv, DropInv
<1>4. NameFollowsDevice'
  BY DEF Register, IInv, NameFollowsDevice
<1>5. DeviceTypes'
  BY DEF Register, IInv, DeviceTypes
<1> QED  BY <1>1, <1>2, <1>3, <1>4, <1>5 DEF IInv

\* The handler of an event.
LEMMA EventWalkStep == ASSUME IInv, EventLock \/ EventPass PROVE IInv'
<1> USE DEF eventUnchanged, linkVars, devVars, wrVars
<1>1. /\ UNCHANGED <<mod, extCon, registered, running, devName, list, enabled, extended,
                     devSet, npinfo, name, held, stale, refs, st, stT, dr, drT, evT, wr,
                     wrLeft, wrT, wrExt>>
      /\ ev \in {"lock", "walk"} /\ ev' = "walk"
  BY ZenonT(60) DEF EventLock, EventPass
<1>2. DeviceTypes' /\ TargetTypes' /\ WriterTypes' /\ WriterInv'
  BY <1>1 DEF IInv, DeviceTypes, TargetTypes, WriterTypes, WriterInv
<1>3. TaskTypes' /\ PlaceInv' /\ CountInv'
  BY <1>1 DEF IInv, TaskTypes, PlaceInv, CountInv
<1>4. RefPerTarget' /\ HeldInv' /\ DropInv' /\ NameFollowsDevice'
  BY <1>1 DEF IInv, RefPerTarget, HeldInv, DropInv, NameFollowsDevice
<1> QED  BY <1>2, <1>3, <1>4 DEF IInv

LEMMA EventFindStep == ASSUME IInv, WalkInv, EventFind PROVE IInv'
<1> USE DEF eventUnchanged, linkVars, devVars, wrVars
<1>1. evT' \in list /\ evT' \in Targets /\ devSet[evT'] /\ ev = "walk" /\ ev' = "clean"
      /\ evT = NoTarget
  BY DEF EventFind, IInv, TargetTypes, PlaceInv, WalkInv
<1>2. evT' \in Configs => refs[evT'] = 1 /\ refs[evT'] + 1 \in 0..2
  BY <1>1, TargetsDisjoint, NoTargetIsNone DEF IInv, CountInv, Targets
<1>3. refs' = IF evT' \in Configs THEN [refs EXCEPT ![evT'] = @ + 1] ELSE refs
  BY DEF EventFind
<1>4. /\ refs' \in [Targets -> 0..2] /\ (evT' \in Configs => refs'[evT'] = 2)
      /\ evT' \notin Configs => refs' = refs
      /\ \A t \in Targets : t # evT' => refs'[t] = refs[t]
  BY <1>1, <1>2, <1>3 DEF IInv, TargetTypes
<1>5. UNCHANGED <<mod, extCon, registered, running, devName, list, enabled, extended,
                  devSet, npinfo, name, held, stale, st, stT, dr, drT, wr, wrLeft, wrT,
                  wrExt>>
  BY DEF EventFind
<1>6. DeviceTypes' /\ WriterTypes' /\ WriterInv'
  BY <1>5 DEF IInv, DeviceTypes, WriterTypes, WriterInv
<1>7. RefPerTarget' /\ HeldInv' /\ DropInv'
  BY <1>5 DEF IInv, RefPerTarget, HeldInv, DropInv
<1>8. NameFollowsDevice'
  BY <1>5 DEF IInv, NameFollowsDevice
<1>9. TargetTypes'
  BY <1>1, <1>2, <1>3, <1>4, <1>5 DEF IInv, TargetTypes, Targets
<1>10. TaskTypes'
  BY <1>1, <1>2, <1>3, <1>4, <1>5 DEF IInv, TaskTypes, Targets
<1>11. PlaceInv'
  BY <1>1, <1>2, <1>3, <1>4, <1>5, NoTargetIsNone DEF IInv, TargetTypes, PlaceInv, Targets
<1>12. CountInv'
  BY <1>1, <1>2, <1>3, <1>4, <1>5, TargetsDisjoint, NoTargetIsNone DEF IInv, TargetTypes,
     CountInv, PlaceInv, Targets
<1> QED  BY <1>6, <1>7, <1>8, <1>9, <1>10, <1>11, <1>12 DEF IInv

LEMMA EventCleanStep == ASSUME IInv, EventClean PROVE IInv'
<1> USE DEF eventUnchanged, linkVars, devVars, wrVars
<1>1. evT \in Targets /\ ev = "clean" /\ ev' = "walk" /\ evT' = NoTarget
      /\ wr = "idle" /\ devSet[evT]
  BY DEF EventClean, ListLockFree, IInv, PlaceInv
<1>2. evT \in Configs => refs[evT] \in 1..2 /\ refs[evT] - 1 \in 0..2
  BY <1>1, TargetsDisjoint, NoTargetIsNone DEF IInv, CountInv, Targets
<1>3. refs' = IF evT \in Configs THEN [refs EXCEPT ![evT] = @ - 1] ELSE refs
  BY DEF EventClean
<1>4. /\ refs' \in [Targets -> 0..2] /\ (evT \in Configs => refs'[evT] = refs[evT] - 1)
      /\ evT \notin Configs => refs' = refs
      /\ \A t \in Targets : t # evT => refs'[t] = refs[t]
  BY <1>1, <1>2, <1>3 DEF IInv, TargetTypes
<1>5. /\ held' \in [Targets -> -1..1] /\ held'[evT] # 1 /\ (held[evT] = 1 => held'[evT] = 0)
      /\ \A t \in Targets : t # evT => held'[t] = held[t]
  BY <1>1, PutOf DEF EventClean, IInv
<1>6. /\ devSet' \in [Targets -> BOOLEAN] /\ ~devSet'[evT] /\ npinfo' \in BOOLEAN
      /\ \A t \in Targets : t # evT => devSet'[t] = devSet[t]
  BY <1>1, ZenonT(60) DEF EventClean, IInv, TargetTypes
<1>7. /\ enabled' \in [Targets -> BOOLEAN] /\ ~enabled'[evT]
      /\ \A t \in Targets : t # evT => enabled'[t] = enabled[t]
  BY <1>1 DEF EventClean, IInv, TargetTypes
<1>8. UNCHANGED <<mod, extCon, registered, running, devName, list, extended, name, stale,
                  st, stT, dr, drT, wr, wrLeft, wrT, wrExt>>
  BY DEF EventClean
<1>9. DeviceTypes' /\ WriterTypes'
  BY <1>8 DEF IInv, DeviceTypes, WriterTypes
<1>10. TargetTypes'
  BY <1>4, <1>5, <1>6, <1>7, <1>8 DEF IInv, TargetTypes
<1>11. TaskTypes'
  BY <1>1, <1>8 DEF IInv, TaskTypes
<1>12. WriterInv'
  BY <1>1, <1>8 DEF IInv, WriterInv
<1>13. PlaceInv'
  BY <1>1, <1>6, <1>7, <1>8 DEF IInv, TargetTypes, PlaceInv
<1>14. CountInv'
  BY <1>1, <1>2, <1>4, <1>8, TargetsDisjoint, NoTargetIsNone DEF IInv, CountInv, Targets
<1>15. RefPerTarget'
  <2> SUFFICES ASSUME NEW t \in Targets \ stale
               PROVE  held'[t] = IF devSet'[t] \/ (st = "carrier" /\ stT = t) THEN 1 ELSE 0
    BY <1>8 DEF RefPerTarget
  <2>1. CASE t = evT
    BY <1>1, <1>5, <1>6, <2>1 DEF IInv, RefPerTarget, HeldInv
  <2>2. CASE t # evT
    BY <1>5, <1>6, <2>2 DEF IInv, RefPerTarget
  <2> QED  BY <2>1, <2>2
<1>16. HeldInv'
  <2>1. st \in {"setup", "carrier"} /\ stT \notin stale => ~devSet'[stT]
    <3>1. st # "idle" => stT \in Targets
      BY DEF IInv, PlaceInv, Targets
    <3> QED  BY <1>6, <3>1 DEF IInv, HeldInv
  <2>2. ASSUME NEW t \in Targets, held'[t] = 1
        PROVE  \/ st = "carrier" /\ stT = t
               \/ devSet'[t] /\ (enabled'[t] \/ (st \in {"enable", "cleanup"} /\ stT = t))
    <3>1. t # evT
      BY <1>5, <2>2
    <3> QED  BY <1>5, <1>6, <1>7, <2>2, <3>1 DEF IInv, HeldInv
  <2> QED  BY <1>8, <2>1, <2>2 DEF HeldInv
<1>17. DropInv'
  <2> SUFFICES ASSUME NEW t \in Configs \ stale, t \notin list, drT = t => dr = "put"
               PROVE  ~devSet'[t]
    BY <1>8 DEF DropInv
  <2> QED  BY <1>6 DEF IInv, DropInv, Targets
<1>18. NameFollowsDevice'
  <2> SUFFICES ASSUME NEW t \in (Configs \cap list) \ stale, devSet'[t]
               PROVE  name[t] = devName
    BY <1>8 DEF NameFollowsDevice
  <2> QED  BY <1>6 DEF IInv, NameFollowsDevice, Targets
<1> QED  BY <1>9, <1>10, <1>11, <1>12, <1>13, <1>14, <1>15, <1>16, <1>17, <1>18 DEF IInv

LEMMA EventEndStep == ASSUME IInv, EventEnd PROVE IInv'
<1> USE DEF eventUnchanged, linkVars, devVars, wrVars
<1>1. TargetTypes' /\ WriterTypes' /\ CountInv'
  BY DEF EventEnd, IInv, TargetTypes, WriterTypes, CountInv
<1>2. RefPerTarget' /\ HeldInv' /\ DropInv'
  BY DEF EventEnd, IInv, RefPerTarget, HeldInv, DropInv
<1>3. NameFollowsDevice'
  BY DEF EventEnd, IInv, NameFollowsDevice
<1>4. DeviceTypes'
  BY DEF EventEnd, IInv, DeviceTypes
<1>5. TaskTypes'
  BY DEF EventEnd, IInv, TaskTypes, Targets
<1>6. WriterInv'
  BY DEF EventEnd, IInv, TargetTypes, WriterInv, PlaceInv, Targets
<1>7. PlaceInv'
  BY NoTargetIsNone DEF EventEnd, IInv, TargetTypes, PlaceInv, Targets
<1> QED  BY <1>1, <1>2, <1>3, <1>4, <1>5, <1>6, <1>7 DEF IInv

\* The module.
LEMMA InitTargetStep == ASSUME IInv, NEW t \in Params, InitTarget(t) PROVE IInv'
<1> USE DEF moduleUnchanged, linkVars, modVars, devVars, wrVars
<1>1. TaskTypes'
  BY DEF InitTarget, Link, DeviceFound, IInv, TaskTypes
<1>2. DeviceTypes'
  BY TargetsDisjoint DEF InitTarget, Link, DeviceFound, IInv, DeviceTypes
<1>3. TargetTypes'
  BY TargetsDisjoint DEF InitTarget, Link, DeviceFound, IInv, TargetTypes, Targets
<1>4. WriterTypes'
  BY TargetsDisjoint DEF InitTarget, Link, DeviceFound, IInv, WriterTypes, WriterInv,
     Targets
<1>5. WriterInv'
  BY TargetsDisjoint DEF InitTarget, Link, DeviceFound, IInv, TargetTypes, WriterInv,
     PlaceInv, Targets
<1>6. PlaceInv'
  BY TargetsDisjoint, NoTargetIsNone DEF InitTarget, Link, DeviceFound, IInv, TargetTypes,
     PlaceInv, Targets
<1>7. CountInv'
  BY TargetsDisjoint, NoTargetIsNone DEF InitTarget, Link, DeviceFound, IInv, TargetTypes,
     CountInv, PlaceInv, Targets
<1>8. RefPerTarget'
  BY TargetsDisjoint DEF InitTarget, Link, DeviceFound, IInv, TargetTypes, RefPerTarget,
     HeldInv, PlaceInv, Targets
<1>9. HeldInv'
  BY TargetsDisjoint DEF InitTarget, Link, DeviceFound, IInv, TargetTypes, HeldInv,
     PlaceInv, RefPerTarget, Targets
<1>10. DropInv'
  BY TargetsDisjoint DEF InitTarget, Link, DeviceFound, IInv, TargetTypes, DropInv,
     PlaceInv, Targets
<1>11. NameFollowsDevice'
  BY TargetsDisjoint DEF InitTarget, Link, DeviceFound, IInv, TargetTypes,
     NameFollowsDevice, PlaceInv, WriterInv, Targets
<1> QED  BY <1>1, <1>2, <1>3, <1>4, <1>5, <1>6, <1>7, <1>8, <1>9, <1>10, <1>11 DEF IInv

LEMMA ExitFreeStep == ASSUME IInv, NEW t \in Params, ExitFree(t) PROVE IInv'
<1> USE DEF moduleUnchanged, linkVars, modVars, devVars, wrVars
<1>1. /\ t \in Targets /\ t \notin Configs /\ (st # "idle" => stT # t) /\ drT # t
  BY TargetsDisjoint, NoTargetIsNone DEF IInv, PlaceInv, Targets
<1>2. /\ held' \in [Targets -> -1..1] /\ devSet' \in [Targets -> BOOLEAN] /\ npinfo' \in BOOLEAN
      /\ ~devSet'[t]
      /\ IF devSet[t] THEN held'[t] # 1 /\ (held[t] = 1 => held'[t] = 0)
                        ELSE held'[t] = held[t]
      /\ \A u \in Targets : u # t => held'[u] = held[u] /\ devSet'[u] = devSet[u]
  BY <1>1, UnlinkOf DEF ExitFree, IInv
<1>3. /\ mod = "freeing" /\ ev = "idle" /\ list' = list \ {t} /\ UNCHANGED stale
  BY DEF ExitFree, Unlink, RtnlFree
<1>4. UNCHANGED <<mod, extCon, registered, running, devName, enabled, extended, name,
                  stale, refs, st, stT, dr, drT, ev, evT, evLeft, wr, wrLeft, wrT, wrExt>>
  BY DEF ExitFree, Unlink
<1>5. DeviceTypes'
  BY <1>4 DEF IInv, DeviceTypes
<1>6. TaskTypes'
  BY <1>4 DEF IInv, TaskTypes
<1>7. TargetTypes'
  BY <1>1, <1>2, <1>3, <1>4, TargetsDisjoint DEF IInv, TargetTypes, Targets
<1>8. WriterTypes'
  BY <1>1, <1>2, <1>3, <1>4, TargetsDisjoint DEF IInv, WriterTypes, WriterInv, Targets
<1>9. WriterInv'
  BY <1>1, <1>2, <1>3, <1>4, TargetsDisjoint DEF IInv, TargetTypes, WriterInv, PlaceInv,
     Targets
<1>10. PlaceInv'
  BY <1>1, <1>2, <1>3, <1>4, TargetsDisjoint, NoTargetIsNone DEF IInv, TargetTypes,
     PlaceInv, Targets
<1>11. CountInv'
  BY <1>1, <1>2, <1>3, <1>4, TargetsDisjoint, NoTargetIsNone DEF IInv, TargetTypes,
     CountInv, PlaceInv, Targets
<1>12. RefPerTarget'
  BY <1>1, <1>2, <1>3, <1>4, TargetsDisjoint DEF IInv, TargetTypes, RefPerTarget, HeldInv,
     PlaceInv, Targets
<1>13. HeldInv'
  BY <1>1, <1>2, <1>3, <1>4, TargetsDisjoint DEF IInv, TargetTypes, HeldInv, PlaceInv,
     RefPerTarget, Targets
<1>14. DropInv'
  BY <1>1, <1>2, <1>3, <1>4, TargetsDisjoint DEF IInv, TargetTypes, DropInv, PlaceInv,
     Targets
<1>15. NameFollowsDevice'
  BY <1>1, <1>2, <1>3, <1>4, TargetsDisjoint DEF IInv, TargetTypes, NameFollowsDevice,
     PlaceInv, WriterInv, Targets
<1> QED  BY <1>5, <1>6, <1>7, <1>8, <1>9, <1>10, <1>11, <1>12, <1>13, <1>14, <1>15 DEF IInv

LEMMA InitFailsStep == ASSUME IInv, InitFails PROVE IInv'
<1> USE DEF moduleUnchanged, linkVars, modVars, devVars, wrVars
<1>1. TargetTypes' /\ TaskTypes' /\ WriterTypes'
  BY DEF InitFails, IInv, TargetTypes, TaskTypes, WriterTypes
<1>2. PlaceInv' /\ CountInv' /\ RefPerTarget'
  BY DEF InitFails, IInv, PlaceInv, CountInv, RefPerTarget
<1>3. HeldInv' /\ DropInv' /\ NameFollowsDevice'
  BY DEF InitFails, IInv, HeldInv, DropInv, NameFollowsDevice
<1>4. DeviceTypes'
  BY DEF InitFails, IInv, DeviceTypes
<1>5. WriterInv'
  BY DEF InitFails, IInv, TargetTypes, WriterInv, PlaceInv, Targets
<1> QED  BY <1>1, <1>2, <1>3, <1>4, <1>5 DEF IInv

LEMMA InitNotifierStep == ASSUME IInv, InitNotifier PROVE IInv'
<1> USE DEF moduleUnchanged, linkVars, modVars, devVars, wrVars
<1>1. TargetTypes' /\ TaskTypes' /\ WriterTypes'
  BY DEF InitNotifier, IInv, TargetTypes, TaskTypes, WriterTypes
<1>2. PlaceInv' /\ CountInv' /\ RefPerTarget'
  BY DEF InitNotifier, IInv, PlaceInv, CountInv, RefPerTarget
<1>3. HeldInv' /\ DropInv' /\ NameFollowsDevice'
  BY DEF InitNotifier, IInv, HeldInv, DropInv, NameFollowsDevice
<1>4. DeviceTypes'
  BY DEF InitNotifier, IInv, DeviceTypes
<1>5. WriterInv'
  BY DEF InitNotifier, IInv, TargetTypes, WriterInv, PlaceInv, Targets
<1> QED  BY <1>1, <1>2, <1>3, <1>4, <1>5 DEF IInv

LEMMA InitConsolesStep == ASSUME IInv, InitConsoles PROVE IInv'
<1> USE DEF moduleUnchanged, linkVars, modVars, devVars, wrVars
<1>1. TargetTypes' /\ TaskTypes' /\ WriterTypes'
  BY DEF InitConsoles, IInv, TargetTypes, TaskTypes, WriterTypes
<1>2. PlaceInv' /\ CountInv' /\ RefPerTarget'
  BY DEF InitConsoles, IInv, PlaceInv, CountInv, RefPerTarget
<1>3. HeldInv' /\ DropInv' /\ NameFollowsDevice'
  BY DEF InitConsoles, IInv, HeldInv, DropInv, NameFollowsDevice
<1>4. DeviceTypes'
  BY DEF InitConsoles, IInv, DeviceTypes
<1>5. WriterInv'
  BY DEF InitConsoles, IInv, TargetTypes, WriterInv, PlaceInv, Targets
<1> QED  BY <1>1, <1>2, <1>3, <1>4, <1>5 DEF IInv

LEMMA ExitConsolesStep == ASSUME IInv, ExitConsoles PROVE IInv'
<1> USE DEF moduleUnchanged, linkVars, modVars, devVars, wrVars
<1>1. TargetTypes' /\ TaskTypes' /\ WriterTypes'
  BY DEF ExitConsoles, IInv, TargetTypes, TaskTypes, WriterTypes
<1>2. PlaceInv' /\ CountInv' /\ RefPerTarget'
  BY DEF ExitConsoles, IInv, PlaceInv, CountInv, RefPerTarget
<1>3. HeldInv' /\ DropInv' /\ NameFollowsDevice'
  BY DEF ExitConsoles, IInv, HeldInv, DropInv, NameFollowsDevice
<1>4. DeviceTypes'
  BY ZenonT(60) DEF ExitConsoles, IInv, DeviceTypes
<1>5. WriterInv'
  BY DEF ExitConsoles, IInv, TargetTypes, WriterInv, PlaceInv, Targets
<1> QED  BY <1>1, <1>2, <1>3, <1>4, <1>5 DEF IInv

LEMMA ExitNotifierStep == ASSUME IInv, ExitNotifier PROVE IInv'
<1> USE DEF moduleUnchanged, linkVars, modVars, devVars, wrVars
<1>1. TargetTypes' /\ WriterTypes' /\ CountInv'
  BY DEF ExitNotifier, RtnlFree, IInv, TargetTypes, WriterTypes, CountInv
<1>2. RefPerTarget' /\ HeldInv' /\ DropInv'
  BY DEF ExitNotifier, RtnlFree, IInv, RefPerTarget, HeldInv, DropInv
<1>3. NameFollowsDevice'
  BY DEF ExitNotifier, RtnlFree, IInv, NameFollowsDevice
<1>4. DeviceTypes'
  BY DEF ExitNotifier, RtnlFree, IInv, DeviceTypes
<1>5. TaskTypes'
  BY DEF ExitNotifier, RtnlFree, IInv, TaskTypes, Targets
<1>6. WriterInv'
  BY DEF ExitNotifier, RtnlFree, IInv, TargetTypes, WriterInv, PlaceInv, Targets
<1>7. PlaceInv'
  BY NoTargetIsNone DEF ExitNotifier, RtnlFree, IInv, TargetTypes, PlaceInv, Targets
<1> QED  BY <1>1, <1>2, <1>3, <1>4, <1>5, <1>6, <1>7 DEF IInv

LEMMA ExitDoneStep == ASSUME IInv, ExitDone PROVE IInv'
<1> USE DEF moduleUnchanged, linkVars, modVars, devVars, wrVars
<1>1. TargetTypes' /\ TaskTypes' /\ WriterTypes'
  BY DEF ExitDone, IInv, TargetTypes, TaskTypes, WriterTypes
<1>2. PlaceInv' /\ CountInv' /\ RefPerTarget'
  BY DEF ExitDone, IInv, PlaceInv, CountInv, RefPerTarget
<1>3. HeldInv' /\ DropInv' /\ NameFollowsDevice'
  BY DEF ExitDone, IInv, HeldInv, DropInv, NameFollowsDevice
<1>4. DeviceTypes'
  BY DEF ExitDone, IInv, DeviceTypes
<1>5. WriterInv'
  BY DEF ExitDone, IInv, TargetTypes, WriterInv, PlaceInv, Targets
<1> QED  BY <1>1, <1>2, <1>3, <1>4, <1>5 DEF IInv
-----------------------------------------------------------------------------
LEMMA InvStep == IInv /\ WalkInv /\ [Next]_vars => IInv'
<1> SUFFICES ASSUME IInv, WalkInv, [Next]_vars PROVE IInv'
  OBVIOUS
<1>1. CASE Store
  BY <1>1, EnableStartStep, DisableStep, StoreParamStep, EnableFailsStep, EnableSetupStep,
     EnableOpenStep, EnableCarrierStep, EnableNoMemoryStep, EnableDoneStep, DisableCleanupStep
  DEF Store
<1>2. CASE Configfs
  BY <1>2, MakeStep, DropStep, DropCheckStep, DropCleanupStep, DropPutStep DEF Configfs
<1>3. CASE Device \/ Event
  BY <1>3, IfUpDownStep, ChangeNameStep, EventStartStep, RegisterStep, EventWalkStep,
     EventFindStep, EventCleanStep, EventEndStep DEF Device, Event
<1>4. CASE Module
  BY <1>4, InitTargetStep, ExitFreeStep, InitFailsStep, InitNotifierStep, InitConsolesStep,
     ExitConsolesStep, ExitNotifierStep, ExitDoneStep DEF Module
<1>5. CASE UNCHANGED vars
  <2>1. UNCHANGED <<mod, extCon, registered, running, devName, list, enabled, extended, devSet,
                    npinfo, stale, name, held, refs, st, stT, dr, drT, ev, evT, evLeft, wr,
                    wrLeft, wrT, wrExt>>
    BY <1>5 DEF vars, modVars, devVars, targetVars, linkVars, wrVars
  <2>2. DeviceTypes' /\ TargetTypes' /\ WriterTypes'
    BY <2>1 DEF IInv, DeviceTypes, TargetTypes, WriterTypes
  <2>3. WriterInv'
    BY <2>1 DEF IInv, WriterInv
  <2> QED  BY <2>1, <2>2, <2>3, QuietStep
<1> QED  BY <1>1, <1>2, <1>3, <1>4, <1>5, WriteStep DEF Next

\* While the handler walks nothing is listed, taken off the list or set up: that takes
\* target_list_lock or rtnl, and the handler holds both.
LEMMA WalkStep == IInv /\ WalkInv /\ [Next]_vars => WalkInv'
<1> SUFFICES ASSUME IInv, WalkInv, [Next]_vars PROVE WalkInv'
  OBVIOUS
<1> USE DEF linkVars, modVars, devVars, wrVars, targetVars
<1>1. ASSUME UNCHANGED <<ev, evLeft>>, ev # "walk" \/ UNCHANGED <<list, devSet>>
      PROVE  WalkInv'
  BY <1>1 DEF WalkInv
<1>2. CASE Store
  <2>1. UNCHANGED <<list, ev, evLeft>>
    BY <1>2, ZenonT(60)
       DEF Store, EnableStart, Disable, StoreParam, EnableFails, EnableSetup, EnableOpen,
       EnableCarrier, EnableNoMemory, EnableDone, DisableCleanup, storeUnchanged
  <2>2. ev # "walk" \/ UNCHANGED devSet
    BY <1>2, ZenonT(60)
       DEF Store, EnableStart, Disable, StoreParam, EnableFails, EnableSetup, EnableOpen,
       EnableCarrier, EnableNoMemory, EnableDone, DisableCleanup, RtnlFree
  <2> QED  BY <1>1, <2>1, <2>2
<1>3. CASE Configfs
  BY <1>1, <1>3, ZenonT(60)
     DEF Configfs, Make, Drop, DropCheck, DropCleanup, DropPut, dropUnchanged, ListLockFree,
     RtnlFree
<1>4. CASE IfUpDown \/ ChangeName \/ Register
  BY <1>1, <1>4, ZenonT(60) DEF IfUpDown, ChangeName, Register, deviceUnchanged
<1>5. CASE WriteStart \/ Write
  BY <1>1, <1>5, ZenonT(60)
     DEF WriteStart, Write, WriteTarget, WriteSend, WriteEnd, writeUnchanged
<1>6. CASE Module /\ ~ExitNotifier
  BY <1>1, <1>6, ZenonT(60)
     DEF Module, InitTarget, ExitFree, InitFails, InitNotifier, InitConsoles, ExitConsoles,
     ExitDone, moduleUnchanged, RtnlFree
<1>7. CASE EventStart \/ ExitNotifier
  <2>1. ev # "walk" /\ ev' # "walk" /\ UNCHANGED <<list, evLeft>>
    BY <1>7, ZenonT(60)
       DEF EventStart, ExitNotifier, RtnlFree, deviceUnchanged, moduleUnchanged
  <2> QED  BY <2>1 DEF WalkInv
<1>8. CASE EventLock \/ EventClean
  BY <1>8 DEF EventLock, EventClean, eventUnchanged, WalkInv
<1>9. CASE EventPass
  BY <1>9 DEF EventPass, eventUnchanged, WalkInv
<1>10. CASE EventFind \/ EventEnd
  BY <1>10 DEF EventFind, EventEnd, eventUnchanged, WalkInv
<1>11. CASE UNCHANGED vars
  BY <1>1, <1>11 DEF vars
<1> QED
  BY <1>2, <1>3, <1>4, <1>5, <1>6, <1>7, <1>8, <1>9, <1>10, <1>11 DEF Next, Device, Event

\* The inductive invariant of netconsole, for any targets and device names.
THEOREM NetconsoleInvariant == Spec => [](IInv /\ WalkInv)
<1>1. Init => WalkInv
  BY DEF Init, WalkInv
<1> QED  BY <1>1, InvInit, InvStep, WalkStep, PTL DEF Spec

\* Type correctness; in particular a config_item has at most two references.
THEOREM NetconsoleTypes == Spec => []TypeOK
<1>1. IInv /\ WalkInv => TypeOK
  BY DEF IInv, WalkInv, TypeOK, DeviceTypes, TargetTypes, TaskTypes, WriterTypes
<1> QED  BY <1>1, NetconsoleInvariant, PTL

\* A target on the device holds one reference on it, and no other target does, whichever
\* of enabled_store, rmdir, an event and cleanup_netconsole cleans up first.
THEOREM TargetsHoldOneRef == Spec => []RefPerTarget
<1>1. IInv => RefPerTarget
  BY DEF IInv
<1> QED  BY <1>1, NetconsoleInvariant, PTL

\* A target whose last reference is put is off the device, off target_list and in no
\* handler's hands (drop_netconsole_target, netconsole_target_get).
THEOREM FreedTargetsAreUnused == Spec => []FreedIsUnused
<1>1. IInv => FreedIsUnused
  <2> SUFFICES ASSUME IInv, NEW t \in Configs, refs[t] = 0
               PROVE  /\ t \notin list /\ (t \notin stale => ~devSet[t] /\ held[t] = 0)
                      /\ evT # t /\ drT # t /\ (st = "idle" \/ stT # t)
    BY DEF FreedIsUnused
  <2>1. t \in Targets /\ t \notin Params
    BY TargetsDisjoint DEF Targets
  <2>2. t \notin list /\ evT # t /\ drT # t
    BY <2>1 DEF IInv, CountInv
  <2>3. st = "idle" \/ stT # t
    BY <2>2 DEF IInv, PlaceInv
  <2>4. t \notin stale => ~devSet[t]
    BY <2>2 DEF IInv, DropInv
  <2>5. t \notin stale => held[t] = 0
    BY <2>1, <2>3, <2>4 DEF IInv, RefPerTarget
  <2> QED  BY <2>2, <2>3, <2>4, <2>5
<1> QED  BY <1>1, NetconsoleInvariant, PTL

\* While a message is sent to a target, its device, name and mode stay: what would change
\* them takes target_list_lock or finds the target enabled (write_msg, enabled_store).
THEOREM SendsAreUndisturbed == Spec => SendUndisturbed
<1> DEFINE Kept == devSet'[wrT] /\ wrT \in list' /\ name'[wrT] = name[wrT]
                   /\ extended'[wrT] = extended[wrT]
<1> USE DEF linkVars, modVars, devVars, wrVars
<1>1. ASSUME IInv, [Next]_vars, wr = "send" PROVE Kept
  <2>1. /\ wrT \in list /\ wrT \in Targets /\ enabled[wrT] /\ devSet[wrT] /\ mod = "live"
        /\ st # "idle" => stT # wrT
        /\ dr # "idle" => drT # wrT
    BY <1>1 DEF IInv, WriterInv, PlaceInv, TargetTypes
  <2>2. CASE Store
    <3>1. UNCHANGED list
      BY <2>2, ZenonT(60)
         DEF Store, EnableStart, Disable, StoreParam, EnableFails, EnableSetup, EnableOpen,
             EnableCarrier, EnableNoMemory, EnableDone, DisableCleanup, storeUnchanged
    <3>2. devSet'[wrT] /\ name'[wrT] = name[wrT] /\ extended'[wrT] = extended[wrT]
      BY <1>1, <2>1, <2>2, ZenonT(60)
      DEF Store, EnableStart, Disable, StoreParam, EnableFails, EnableSetup, EnableOpen,
          EnableCarrier, EnableNoMemory, EnableDone, DisableCleanup, storeUnchanged, Link,
          Unlink, IInv, TargetTypes
    <3> QED  BY <2>1, <3>1, <3>2
  <2>3. CASE Configfs
    BY <1>1, <2>1, <2>3, ZenonT(60)
       DEF Configfs, Make, Drop, DropCheck, DropCleanup, DropPut, dropUnchanged,
       ListLockFree, Unlink, IInv, TargetTypes
  <2>4. CASE Device \/ Event
    BY <1>1, <2>1, <2>4, ZenonT(60)
       DEF Device, IfUpDown, ChangeName, EventStart, Register, deviceUnchanged,
       Event, EventLock, EventPass, EventFind, EventClean, EventEnd, eventUnchanged,
       ListLockFree
  <2>5. CASE WriteStart \/ Write
    BY <2>1, <2>5, ZenonT(60)
       DEF WriteStart, Write, WriteTarget, WriteSend, WriteEnd, writeUnchanged,
       targetVars
  <2>6. CASE Module
    BY <1>1, <2>1, <2>6, ZenonT(60)
       DEF Module, InitTarget, ExitFree, InitFails, InitNotifier, InitConsoles,
       ExitConsoles, ExitNotifier, ExitDone, moduleUnchanged
  <2>7. CASE UNCHANGED vars
    BY <2>1, <2>7 DEF vars, targetVars
  <2> QED  BY <1>1, <2>2, <2>3, <2>4, <2>5, <2>6, <2>7 DEF Next
<1>2. IInv /\ [Next]_vars =>
        [\A t \in Targets : wr = "send" /\ wrT = t =>
           devSet'[t] /\ t \in list' /\ name'[t] = name[t] /\ extended'[t] = extended[t]]_vars
  BY <1>1
<1> QED  BY <1>2, NetconsoleInvariant, PTL DEF Spec, SendUndisturbed

\* A configfs target on the device goes by the device's name (__netpoll_setup,
\* NETDEV_CHANGENAME).
THEOREM NamesFollowDevice == Spec => []NameFollowsDevice
<1>1. IInv => NameFollowsDevice
  BY DEF IInv
<1> QED  BY <1>1, NetconsoleInvariant, PTL

\* When the handler of an event returns no listed target is on the device.  By WalkInv the
\* targets it has passed by have stayed off the device, because a setup waits for the rtnl
\* that the handler holds and mkdir for the list lock, and when it returns it has passed
\* by all of them (netconsole_netdev_event, netpoll_setup).
THEOREM EventsClearTargets == Spec => EventClearsTargets
<1> USE DEF linkVars, modVars, devVars, wrVars
<1>1. ASSUME WalkInv, [Next]_vars, ev # "idle", ev' = "idle"
      PROVE \A t \in list' : ~devSet'[t]
  <2>1. ~Store
    BY <1>1, ZenonT(60)
       DEF Store, EnableStart, Disable, StoreParam, EnableFails, EnableSetup, EnableOpen,
       EnableCarrier, EnableNoMemory, EnableDone, DisableCleanup, storeUnchanged
  <2>2. ~Configfs
    BY <1>1, ZenonT(60) DEF Configfs, Make, Drop, DropCheck, DropCleanup, DropPut, dropUnchanged
  <2>3. ~Device
    BY <1>1, ZenonT(60) DEF Device, IfUpDown, ChangeName, EventStart, Register, RtnlFree
  <2>4. ~(WriteStart \/ Write)
    BY <1>1, ZenonT(60) DEF WriteStart, Write, WriteTarget, WriteSend, WriteEnd, writeUnchanged
  <2>5. ~Module
    BY <1>1, ZenonT(60) DEF Module, InitTarget, ExitFree, InitFails, InitNotifier, InitConsoles,
       ExitConsoles, ExitNotifier, ExitDone, RtnlFree
  <2>6. EventEnd
    BY <1>1, <2>1, <2>2, <2>3, <2>4, <2>5 DEF Next, vars, Event, EventLock, EventPass,
       EventFind, EventClean
  <2> QED  BY <1>1, <2>6 DEF EventEnd, eventUnchanged, WalkInv
<1>2. WalkInv /\ [Next]_vars =>
        [ev # "idle" /\ ev' = "idle" => \A t \in list' : ~devSet'[t]]_vars
  BY <1>1
<1> QED  BY <1>2, NetconsoleInvariant, PTL DEF Spec, EventClearsTargets

\* While an event is handled no target comes onto the device, and each cleanup takes the
\* one it has found off it: the walk that restarts after every cleanup restarts at most
\* once for each target (netconsole_netdev_event).
EventProgresses ==
    [][ev # "idle" =>
          /\ \A t \in Targets : devSet'[t] => devSet[t]
          /\ ev = "clean" /\ ev' # "clean" => devSet[evT] /\ ~devSet'[evT]]_vars

\* The handler of an event always has fewer targets left to clean up, whatever the other
\* tasks do in between (netconsole_netdev_event).  That it goes on at all is fairness.
THEOREM EventsProgress == Spec => EventProgresses
<1> DEFINE Shrinks == \A t \in Targets : devSet'[t] => devSet[t]
           Cleans == ev = "clean" /\ ev' # "clean" => devSet[evT] /\ ~devSet'[evT]
<1> USE DEF linkVars, modVars, devVars, wrVars, targetVars
<1>1. ASSUME IInv, [Next]_vars, ev # "idle" PROVE Shrinks /\ Cleans
  <2>1. /\ devSet \in [Targets -> BOOLEAN] /\ ~RtnlFree
        /\ ev = "clean" => evT \in Targets /\ devSet[evT]
    BY <1>1 DEF IInv, TargetTypes, PlaceInv, RtnlFree
  <2>2. ASSUME NEW t, Unlink(t) PROVE Shrinks
    BY <2>1, <2>2 DEF Unlink
  <2>3. ASSUME UNCHANGED devSet PROVE Shrinks
    BY <2>3
  <2>4. CASE Store
    <3>1. ev' = ev
      BY <2>4, ZenonT(60) DEF Store, EnableStart, Disable, StoreParam, EnableFails, EnableSetup,
         EnableOpen, EnableCarrier, EnableNoMemory, EnableDone, DisableCleanup, storeUnchanged
    <3>2. UNCHANGED devSet \/ \E t : Unlink(t)
      BY <2>1, <2>4, ZenonT(60)
         DEF Store, EnableStart, Disable, StoreParam, EnableFails, EnableSetup,
         EnableOpen, EnableCarrier, EnableNoMemory, EnableDone, DisableCleanup
    <3> QED  BY <3>1, <3>2, <2>2, <2>3
  <2>5. CASE Configfs
    <3>1. ev' = ev
      BY <2>5, ZenonT(60) DEF Configfs, Make, Drop, DropCheck, DropCleanup, DropPut, dropUnchanged
    <3>2. Shrinks
      BY <2>1, <2>2, <2>3, <2>5 DEF Configfs, Make, Drop, DropCheck, DropCleanup, DropPut
    <3> QED  BY <3>1, <3>2
  <2>6. CASE Device
    BY <2>1, <2>3, <2>6, ZenonT(60) DEF Device, IfUpDown, ChangeName, EventStart, Register, RtnlFree
  <2>7. CASE WriteStart \/ Write
    BY <2>3, <2>7, ZenonT(60)
       DEF WriteStart, Write, WriteTarget, WriteSend, WriteEnd, writeUnchanged
  <2>8. CASE Module
    <3>1. ev' = ev \/ ev = "idle"
      BY <2>8, ZenonT(60) DEF Module, InitTarget, ExitFree, InitFails, InitNotifier, InitConsoles,
         ExitConsoles, ExitNotifier, ExitDone, RtnlFree
    <3>2. Shrinks
      BY <2>1, <2>2, <2>3, <2>8 DEF Module, InitTarget, ExitFree, InitFails, InitNotifier,
         InitConsoles, ExitConsoles, ExitNotifier, ExitDone
    <3> QED  BY <1>1, <3>1, <3>2
  <2>9. CASE EventLock \/ EventPass \/ EventFind \/ EventEnd
    BY <2>3, <2>9, ZenonT(60) DEF EventLock, EventPass, EventFind, EventEnd
  <2>10. CASE EventClean
    <3>1. devSet' = [devSet EXCEPT ![evT] = FALSE] /\ ev = "clean"
      BY <2>10 DEF EventClean
    <3> QED  BY <3>1, <2>1
  <2>11. CASE UNCHANGED vars
    BY <2>3, <2>11 DEF vars
  <2> QED
    BY <1>1, <2>4, <2>5, <2>6, <2>7, <2>8, <2>9, <2>10, <2>11 DEF Next, Event
<1>2. IInv /\ [Next]_vars =>
        [ev # "idle" =>
          /\ \A t \in Targets : devSet'[t] => devSet[t]
          /\ ev = "clean" /\ ev' # "clean" => devSet[evT] /\ ~devSet'[evT]]_vars
  BY <1>1
<1> QED  BY <1>2, NetconsoleInvariant, PTL DEF Spec, EventProgresses
=============================================================================
