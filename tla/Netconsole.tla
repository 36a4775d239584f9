----------------------------- MODULE Netconsole -----------------------------
(***************************************************************************)
(* netconsole.c: log targets and the netpoll of each, as the console, the  *)
(* configfs files, the net device's events and the module itself use them. *)
(*                                                                         *)
(* target_list_lock is held over the whole walk of a writer (wr), by an    *)
(* event handler while it walks (ev) and over single steps of the others;  *)
(* dynamic_netconsole_mutex is held while st is not idle; rtnl is held by  *)
(* an event handler, and for single steps of netpoll_setup and             *)
(* netpoll_cleanup.  There is one net device.  What is sent, and the       *)
(* addresses it is sent to, are left out; a store the code refuses changes *)
(* nothing and is no step.                                                 *)
(***************************************************************************)
EXTENDS Integers, FiniteSets

CONSTANTS
    Params,       \* targets of the module's parameter
    Configs,      \* targets made in configfs
    Names,        \* device names
    DefaultName,  \* "eth0"
    NoTarget      \* no target

ASSUME TargetsDisjoint == Params \cap Configs = {}
ASSUME DefaultIsName == DefaultName \in Names
ASSUME NoTargetIsNone == NoTarget \notin Params \cup Configs

Targets == Params \cup Configs

VARIABLES
    mod,          \* how far the module is loaded or unloaded
    extCon,       \* netconsole_ext is registered
    registered, running, devName,  \* the net device
    list,         \* target_list
    enabled, extended, devSet, name,  \* of a target; devSet: np.dev # NULL
    npinfo,       \* the device has a netpoll_info
    held,         \* references on the device taken for a target
    stale,        \* targets that have kept np.dev after a setup that failed
    refs,         \* references on a target's config_item; 0: freed
    st, stT,      \* enabled_store: where it is, and its target
    dr, drT,      \* drop_netconsole_target
    ev, evT, evLeft,  \* netconsole_netdev_event: its target, and those left in the walk
    wr, wrLeft, wrT, wrExt  \* write_msg, or write_ext_msg if wrExt

linkVars == <<devSet, npinfo, stale>>
targetVars == <<enabled, extended, linkVars, name, held>>
devVars == <<registered, running, devName>>
modVars == <<mod, extCon>>
wrVars == <<wr, wrLeft, wrT, wrExt>>
vars == <<modVars, devVars, list, targetVars, refs, st, stT, dr, drT,
          ev, evT, evLeft, wrVars>>

Init ==
    /\ mod = "init" /\ extCon = FALSE
    /\ registered = TRUE /\ running = FALSE /\ devName = DefaultName
    /\ list = {}
    /\ enabled = [t \in Targets |-> FALSE] /\ extended = [t \in Targets |-> FALSE]
    /\ devSet = [t \in Targets |-> FALSE] /\ name = [t \in Targets |-> DefaultName]
    /\ npinfo = FALSE /\ stale = {}
    /\ held = [t \in Targets |-> 0] /\ refs = [t \in Targets |-> 0]
    /\ st = "idle" /\ stT = NoTarget /\ dr = "idle" /\ drT = NoTarget
    /\ ev = "idle" /\ evT = NoTarget /\ evLeft = {}
    /\ wr = "idle" /\ wrLeft = {} /\ wrT = NoTarget /\ wrExt = FALSE

ListLockFree == wr = "idle" /\ ev # "walk"
RtnlFree == ev = "idle"
-----------------------------------------------------------------------------
(***************************************************************************)
(* netpoll_setup and netpoll_cleanup, as steps on one target.              *)
(***************************************************************************)

\* Mutant: dev_name is not copied from the device.
LinkKeepsName(t) ==
    devSet' = [devSet EXCEPT ![t] = TRUE] /\ npinfo' = TRUE /\ UNCHANGED <<name, stale>>

\* __netpoll_setup
Link(t) ==
    /\ devSet' = [devSet EXCEPT ![t] = TRUE] /\ npinfo' = TRUE
    /\ name' = [name EXCEPT ![t] = devName] /\ UNCHANGED stale

\* netdev_put; -1 stands for a reference put that was not held.
Put(t) == held' = [held EXCEPT ![t] = IF @ > -1 THEN @ - 1 ELSE @]

\* Mutant: the reference on the device is kept.
UnlinkKeepsRef(t) ==
    devSet' = [devSet EXCEPT ![t] = FALSE] /\ npinfo' = FALSE /\ UNCHANGED <<held, stale>>

\* netpoll_cleanup: nothing to do if an event has cleaned up already.
Unlink(t) ==
    /\ devSet' = [devSet EXCEPT ![t] = FALSE] /\ UNCHANGED stale
    /\ IF devSet[t] THEN Put(t) /\ npinfo' = FALSE ELSE UNCHANGED <<held, npinfo>>

DeviceFound(t) == registered /\ name[t] = devName
-----------------------------------------------------------------------------
(***************************************************************************)
(* enabled_store and the stores of the parameters.                         *)
(***************************************************************************)
InConfigfs(t) == t \in Configs \cap list /\ drT # t

storeUnchanged == UNCHANGED <<mod, registered, devName, list, extended, refs,
                              dr, drT, ev, evT, evLeft, wrVars>>

EnableStart(t) ==
    /\ mod = "live" /\ st = "idle" /\ InConfigfs(t) /\ ~enabled[t]
    /\ st' = "setup" /\ stT' = t
    /\ extCon' = (extCon \/ extended[t])
    /\ storeUnchanged /\ UNCHANGED <<running, enabled, linkVars, name, held>>

\* netpoll_setup gives up: no such device, no address, or the open fails.
EnableFails ==
    /\ st = "setup" /\ RtnlFree
    /\ st' = "idle"
    /\ storeUnchanged /\ UNCHANGED <<extCon, running, enabled, linkVars, name, held, stT>>

\* The interface is up.
EnableSetup ==
    /\ st = "setup" /\ RtnlFree /\ DeviceFound(stT) /\ running
    /\ Link(stT)
    /\ held' = [held EXCEPT ![stT] = @ + 1]
    /\ st' = "enable"
    /\ storeUnchanged /\ UNCHANGED <<extCon, running, enabled, stT>>

\* The interface is down: it is opened, and rtnl is released to wait for a carrier.
EnableOpen ==
    /\ st = "setup" /\ RtnlFree /\ DeviceFound(stT) /\ ~running
    /\ running' = TRUE
    /\ held' = [held EXCEPT ![stT] = @ + 1]
    /\ st' = "carrier"
    /\ storeUnchanged /\ UNCHANGED <<extCon, enabled, linkVars, name, stT>>

\* Mutant: rtnl is not taken back after the wait.
EnableCarrierUnlocked ==
    /\ st = "carrier"
    /\ \/ Link(stT) /\ st' = "enable" /\ UNCHANGED held
       \/ /\ st' = "idle" /\ Put(stT)
          /\ UNCHANGED <<linkVars, name>>
    /\ storeUnchanged /\ UNCHANGED <<extCon, running, enabled, stT>>

EnableCarrier ==
    /\ st = "carrier" /\ RtnlFree
    /\ \/ Link(stT) /\ st' = "enable" /\ UNCHANGED held
       \/ /\ st' = "idle" /\ Put(stT)
          /\ UNCHANGED <<linkVars, name>>
    /\ storeUnchanged /\ UNCHANGED <<extCon, running, enabled, stT>>

\* __netpoll_setup finds no memory after it has set np->dev: the reference is put
\* and np->dev stays.
EnableNoMemory ==
    /\ ~npinfo /\ RtnlFree
    /\ \/ st = "setup" /\ DeviceFound(stT) /\ running /\ UNCHANGED held
       \/ st = "carrier" /\ Put(stT)
    /\ devSet' = [devSet EXCEPT ![stT] = TRUE]
    /\ name' = [name EXCEPT ![stT] = devName] /\ stale' = stale \cup {stT}
    /\ st' = "idle"
    /\ storeUnchanged /\ UNCHANGED <<extCon, running, npinfo, enabled, stT>>

\* nt->enabled = enabled, without target_list_lock and without rtnl.
EnableDone ==
    /\ st = "enable"
    /\ enabled' = [enabled EXCEPT ![stT] = TRUE]
    /\ st' = "idle"
    /\ storeUnchanged /\ UNCHANGED <<extCon, running, linkVars, name, held, stT>>

\* Mutant: enabled is cleared without the list lock.
DisableUnlocked(t) ==
    /\ mod = "live" /\ st = "idle" /\ InConfigfs(t) /\ enabled[t]
    /\ enabled' = [enabled EXCEPT ![t] = FALSE]
    /\ st' = "cleanup" /\ stT' = t
    /\ storeUnchanged /\ UNCHANGED <<extCon, running, linkVars, name, held>>

Disable(t) ==
    /\ mod = "live" /\ st = "idle" /\ InConfigfs(t) /\ enabled[t] /\ ListLockFree
    /\ enabled' = [enabled EXCEPT ![t] = FALSE]
    /\ st' = "cleanup" /\ stT' = t
    /\ storeUnchanged /\ UNCHANGED <<extCon, running, linkVars, name, held>>

DisableCleanup ==
    /\ st = "cleanup" /\ RtnlFree
    /\ Unlink(stT)
    /\ enabled' = [enabled EXCEPT ![stT] = FALSE]
    /\ st' = "idle"
    /\ storeUnchanged /\ UNCHANGED <<extCon, running, name, stT>>

\* extended_store and dev_name_store, refused while the target is enabled; the
\* other stores are alike and write what is left out.
StoreParam(t) ==
    /\ mod = "live" /\ st = "idle" /\ InConfigfs(t) /\ ~enabled[t]
    /\ \/ \E b \in BOOLEAN : extended' = [extended EXCEPT ![t] = b] /\ UNCHANGED name
       \/ \E n \in Names : name' = [name EXCEPT ![t] = n] /\ UNCHANGED extended
    /\ UNCHANGED <<modVars, devVars, list, enabled, linkVars, held, refs, st, stT,
                   dr, drT, ev, evT, evLeft, wrVars>>

Store ==
    \/ \E t \in Configs : EnableStart(t) \/ Disable(t) \/ StoreParam(t)
    \/ EnableFails \/ EnableSetup \/ EnableOpen \/ EnableCarrier \/ EnableNoMemory
    \/ EnableDone \/ DisableCleanup
-----------------------------------------------------------------------------
(***************************************************************************)
(* mkdir and rmdir in configfs.  configfs lets no store into a target that *)
(* is being dropped, and drops none that a store is in.                    *)
(***************************************************************************)
dropUnchanged == UNCHANGED <<modVars, devVars, extended, st, stT,
                             ev, evT, evLeft, wrVars>>

Make(t) ==
    /\ mod = "live" /\ dr = "idle" /\ ListLockFree
    /\ t \notin list /\ refs[t] = 0
    /\ list' = list \cup {t}
    /\ refs' = [refs EXCEPT ![t] = 1]
    /\ enabled' = [enabled EXCEPT ![t] = FALSE]
    /\ extended' = [extended EXCEPT ![t] = FALSE]
    /\ devSet' = [devSet EXCEPT ![t] = FALSE] /\ stale' = stale \ {t}
    /\ name' = [name EXCEPT ![t] = DefaultName]
    /\ held' = [held EXCEPT ![t] = 0]
    /\ UNCHANGED <<modVars, devVars, npinfo, st, stT, dr, drT, ev, evT, evLeft, wrVars>>

Drop(t) ==
    /\ mod = "live" /\ dr = "idle" /\ InConfigfs(t) /\ ListLockFree
    /\ ~(st # "idle" /\ stT = t)
    /\ list' = list \ {t}
    /\ dr' = "check" /\ drT' = t
    /\ dropUnchanged /\ UNCHANGED <<enabled, linkVars, name, held, refs>>

DropCheck ==
    /\ dr = "check"
    /\ dr' = IF enabled[drT] THEN "cleanup" ELSE "put"
    /\ dropUnchanged /\ UNCHANGED <<list, enabled, linkVars, name, held, refs, drT>>

DropCleanup ==
    /\ dr = "cleanup" /\ RtnlFree
    /\ Unlink(drT)
    /\ dr' = "put"
    /\ dropUnchanged /\ UNCHANGED <<list, enabled, name, refs, drT>>

DropPut ==
    /\ dr = "put"
    /\ refs' = [refs EXCEPT ![drT] = @ - 1]
    /\ dr' = "idle" /\ drT' = NoTarget
    /\ dropUnchanged /\ UNCHANGED <<list, enabled, linkVars, name, held>>

Configfs == (\E t \in Configs : Make(t) \/ Drop(t)) \/ DropCheck \/ DropCleanup \/ DropPut
-----------------------------------------------------------------------------
(***************************************************************************)
(* The net device and netconsole_netdev_event, which runs under rtnl while *)
(* the notifier is registered.                                             *)
(***************************************************************************)
deviceUnchanged == UNCHANGED <<modVars, list, enabled, extended, linkVars, held, refs,
                               st, stT, dr, drT, evT, evLeft, wrVars>>

Notified == mod \in {"notified", "live", "exit"}

IfUpDown ==
    /\ RtnlFree /\ registered /\ running' = ~running
    /\ deviceUnchanged /\ UNCHANGED <<registered, devName, name, ev>>

\* NETDEV_CHANGENAME, the list lock held from end to end.
ChangeName ==
    /\ RtnlFree /\ registered /\ ListLockFree
    /\ \E n \in Names \ {devName} :
         /\ devName' = n
         /\ name' = [t \in Targets |->
                       IF Notified /\ t \in list /\ devSet[t] THEN n ELSE name[t]]
    /\ deviceUnchanged /\ UNCHANGED <<registered, running, ev>>

\* The device goes (NETDEV_UNREGISTER), or gets or leaves a master device
\* (NETDEV_JOIN, NETDEV_RELEASE).
EventStart ==
    /\ RtnlFree /\ registered
    /\ \/ registered' = FALSE /\ running' = FALSE
       \/ UNCHANGED <<registered, running>>
    /\ ev' = IF Notified THEN "lock" ELSE "idle"
    /\ deviceUnchanged /\ UNCHANGED <<devName, name>>

\* A device that is gone, with no reference left, comes back.
Register ==
    /\ RtnlFree /\ ~registered /\ \A t \in Targets : held[t] = 0
    /\ registered' = TRUE
    /\ deviceUnchanged /\ UNCHANGED <<running, devName, name, ev>>

eventUnchanged == UNCHANGED <<extCon, devVars, list, extended, name, st, stT, dr, drT,
                              wrVars>>

\* The list lock is taken and the walk begins at the head.
EventLock ==
    /\ ev = "lock" /\ ListLockFree
    /\ ev' = "walk" /\ evLeft' = list
    /\ eventUnchanged /\ UNCHANGED <<mod, enabled, linkVars, held, refs, evT>>

\* A target that is not on the device is passed by.
EventPass ==
    /\ ev = "walk"
    /\ \E t \in evLeft : ~devSet[t] /\ evLeft' = evLeft \ {t}
    /\ eventUnchanged /\ UNCHANGED <<mod, enabled, linkVars, held, refs, ev, evT>>

\* Mutant: the target is not pinned over the unlocked cleanup.
EventFindUnpinned ==
    /\ ev = "walk"
    /\ \E t \in evLeft : devSet[t] /\ evT' = t
    /\ ev' = "clean" /\ evLeft' = {}
    /\ eventUnchanged /\ UNCHANGED <<mod, enabled, linkVars, held, refs>>

\* A target of the device is found: it is pinned, and the list lock is released
\* for __netpoll_cleanup.
EventFind ==
    /\ ev = "walk"
    /\ \E t \in evLeft :
         /\ devSet[t] /\ evT' = t
         /\ refs' = IF t \in Configs THEN [refs EXCEPT ![t] = @ + 1] ELSE refs
    /\ ev' = "clean" /\ evLeft' = {}
    /\ eventUnchanged /\ UNCHANGED <<mod, enabled, linkVars, held>>

\* Mutant: the walk restarts before the target is marked.
EventCleanRestarts ==
    /\ ev = "clean" /\ ListLockFree
    /\ refs' = IF evT \in Configs THEN [refs EXCEPT ![evT] = @ - 1] ELSE refs
    /\ ev' = "walk" /\ evT' = NoTarget /\ evLeft' = list
    /\ eventUnchanged /\ UNCHANGED <<mod, enabled, linkVars, held>>

\* The list lock is back; the walk restarts.
EventClean ==
    /\ ev = "clean" /\ ListLockFree
    /\ Put(evT)
    /\ devSet' = [devSet EXCEPT ![evT] = FALSE] /\ npinfo' = FALSE
    /\ enabled' = [enabled EXCEPT ![evT] = FALSE]
    /\ refs' = IF evT \in Configs THEN [refs EXCEPT ![evT] = @ - 1] ELSE refs
    /\ ev' = "walk" /\ evT' = NoTarget /\ evLeft' = list
    /\ eventUnchanged /\ UNCHANGED <<mod, stale>>

\* The walk has come to the end of the list.
EventEnd ==
    /\ ev = "walk" /\ evLeft = {}
    /\ ev' = "idle"
    /\ mod' = IF mod = "last event" THEN "freeing" ELSE mod
    /\ eventUnchanged /\ UNCHANGED <<enabled, linkVars, held, refs, evT, evLeft>>

Event == EventLock \/ EventPass \/ EventFind \/ EventClean \/ EventEnd

Device == IfUpDown \/ ChangeName \/ EventStart \/ Register
-----------------------------------------------------------------------------
(***************************************************************************)
(* write_msg and write_ext_msg: target_list_lock is held from WriteStart   *)
(* to WriteEnd.                                                            *)
(***************************************************************************)
writeUnchanged == UNCHANGED <<modVars, devVars, list, targetVars, refs, st, stT,
                              dr, drT, ev, evT, evLeft, wrExt>>

WriteStart ==
    /\ mod = "live" /\ ListLockFree /\ list # {}
    /\ wr' = "walk" /\ wrLeft' = list
    /\ wrExt' \in IF extCon THEN BOOLEAN ELSE {FALSE}
    /\ UNCHANGED <<modVars, devVars, list, targetVars, refs, st, stT, dr, drT, ev, evT,
                   evLeft, wrT>>

\* netif_running(nt->np.dev) of a target without a device is a fault.
WriteTarget ==
    /\ wr = "walk"
    /\ \E t \in wrLeft :
         /\ wrLeft' = wrLeft \ {t}
         /\ IF extended[t] = wrExt /\ enabled[t] /\ (running \/ ~devSet[t])
            THEN wr' = (IF devSet[t] THEN "send" ELSE "fault") /\ wrT' = t
            ELSE UNCHANGED <<wr, wrT>>
    /\ writeUnchanged

\* The packets of one message have been sent to wrT.
WriteSend ==
    /\ wr = "send"
    /\ wr' = "walk" /\ wrT' = NoTarget
    /\ writeUnchanged /\ UNCHANGED wrLeft

WriteEnd ==
    /\ wr = "walk" /\ wrLeft = {}
    /\ wr' = "idle"
    /\ writeUnchanged /\ UNCHANGED <<wrLeft, wrT>>

Write == WriteTarget \/ WriteSend \/ WriteEnd
-----------------------------------------------------------------------------
(***************************************************************************)
(* init_netconsole and cleanup_netconsole.                                 *)
(***************************************************************************)
moduleUnchanged == UNCHANGED <<devVars, extended, refs, st, stT, dr, drT,
                               evT, evLeft, wrVars>>

\* alloc_param_target: set up and enabled before it is listed.
InitTarget(t) ==
    /\ mod = "init" /\ t \notin list /\ RtnlFree
    /\ DeviceFound(t)
    /\ \E b \in BOOLEAN : extended' = [extended EXCEPT ![t] = b]
    /\ Link(t) /\ held' = [held EXCEPT ![t] = 1]
    /\ enabled' = [enabled EXCEPT ![t] = TRUE]
    /\ running' = TRUE
    /\ list' = list \cup {t}
    /\ UNCHANGED <<modVars, registered, devName, refs, st, stT, dr, drT,
                   ev, evT, evLeft, wrVars>>

\* A target cannot be set up, or the notifier cannot be registered.
InitFails ==
    /\ mod = "init" /\ mod' = "freeing"
    /\ moduleUnchanged /\ UNCHANGED <<extCon, list, enabled, linkVars, name, held, ev>>

InitNotifier ==
    /\ mod = "init" /\ Params \subseteq list /\ mod' = "notified"
    /\ moduleUnchanged /\ UNCHANGED <<extCon, list, enabled, linkVars, name, held, ev>>

InitConsoles ==
    /\ mod = "notified" /\ mod' = "live"
    /\ extCon' = \E t \in Params : extended[t]
    /\ moduleUnchanged /\ UNCHANGED <<list, enabled, linkVars, name, held, ev>>

\* The consoles go first; the configfs targets hold the module until they are gone.
ExitConsoles ==
    /\ mod = "live" /\ list \subseteq Params /\ wr = "idle"
    /\ \A t \in Configs : refs[t] = 0
    /\ mod' = "exit" /\ extCon' = FALSE
    /\ moduleUnchanged /\ UNCHANGED <<list, enabled, linkVars, name, held, ev>>

\* unregister_netdevice_notifier, also where dynamic_netconsole_init has failed: the
\* handler gets a last NETDEV_UNREGISTER for a device that exists.
ExitNotifier ==
    /\ mod \in {"notified", "exit"} /\ RtnlFree
    /\ IF registered THEN mod' = "last event" /\ ev' = "lock"
                     ELSE mod' = "freeing" /\ UNCHANGED ev
    /\ moduleUnchanged /\ UNCHANGED <<extCon, list, enabled, linkVars, name, held>>

\* free_param_target
ExitFree(t) ==
    /\ mod = "freeing" /\ RtnlFree /\ t \in list
    /\ list' = list \ {t}
    /\ Unlink(t)
    /\ moduleUnchanged /\ UNCHANGED <<modVars, enabled, name, ev>>

ExitDone ==
    /\ mod = "freeing" /\ list = {} /\ mod' = "gone"
    /\ moduleUnchanged /\ UNCHANGED <<extCon, list, enabled, linkVars, name, held, ev>>

Module ==
    \/ \E t \in Params : InitTarget(t) \/ ExitFree(t)
    \/ InitFails \/ InitNotifier \/ InitConsoles \/ ExitConsoles \/ ExitNotifier
    \/ ExitDone

Next == Store \/ Configfs \/ Device \/ Event \/ WriteStart \/ Write \/ Module

Spec == Init /\ [][Next]_vars

(***************************************************************************)
(* A writer goes on, and the handler of an event gets target_list_lock, a  *)
(* fair queued spinlock, however many writers take it.                     *)
(***************************************************************************)
FairSpec == Spec /\ WF_vars(Write) /\ SF_vars(Event)
-----------------------------------------------------------------------------
TypeOK ==
    /\ mod \in {"init", "notified", "live", "exit", "last event", "freeing", "gone"}
    /\ extCon \in BOOLEAN /\ registered \in BOOLEAN /\ running \in BOOLEAN
    /\ devName \in Names /\ name \in [Targets -> Names]
    /\ list \subseteq Targets /\ wrLeft \subseteq list
    /\ enabled \in [Targets -> BOOLEAN] /\ extended \in [Targets -> BOOLEAN]
    /\ devSet \in [Targets -> BOOLEAN] /\ npinfo \in BOOLEAN
    /\ held \in [Targets -> -1..1] /\ stale \subseteq Configs /\ refs \in [Targets -> 0..2]
    /\ st \in {"idle", "setup", "carrier", "enable", "cleanup"}
    /\ dr \in {"idle", "check", "cleanup", "put"}
    /\ ev \in {"idle", "lock", "walk", "clean"} /\ evLeft \subseteq list
    /\ wr \in {"idle", "walk", "send", "fault"} /\ wrExt \in BOOLEAN
    /\ stT \in Targets \cup {NoTarget} /\ drT \in Targets \cup {NoTarget}
    /\ evT \in Targets \cup {NoTarget} /\ wrT \in Targets \cup {NoTarget}

\* A reference on the device is held for exactly the targets whose np.dev is set or
\* whose setup waits for a carrier, whichever of a store, an rmdir, an event and
\* the module's exit cleans up first, so none is put twice and none leaks
\* (netpoll_setup, netpoll_cleanup, netconsole_netdev_event).  Left out are the
\* targets whose np.dev was kept by a setup that found no memory: an event puts a
\* reference for them that they do not hold.
RefPerTarget ==
    \A t \in Targets \ stale :
        held[t] = IF devSet[t] \/ (st = "carrier" /\ stT = t) THEN 1 ELSE 0

\* A target is freed only once its netpoll is cleaned up and no handler uses it
\* (drop_netconsole_target, netconsole_target_get).
FreedIsUnused ==
    \A t \in Configs : refs[t] = 0 =>
        /\ t \notin list /\ (t \notin stale => ~devSet[t] /\ held[t] = 0)
        /\ evT # t /\ drT # t /\ (st = "idle" \/ stT # t)

\* A configfs target on a device goes by the device's name, even if the device was
\* renamed while the setup waited for a carrier (__netpoll_setup,
\* NETDEV_CHANGENAME).  A parameter's target may miss a rename that comes before
\* init_netconsole registers the notifier, and a target that kept np.dev after a
\* setup that failed may be given another name.
NameFollowsDevice ==
    \A t \in (Configs \cap list) \ stale : devSet[t] => name[t] = devName

\* While a message is sent to a target, no step takes its device away or changes
\* its parameters (write_msg under target_list_lock, enabled_store).
SendUndisturbed ==
    [][\A t \in Targets : wr = "send" /\ wrT = t =>
         devSet'[t] /\ t \in list' /\ name'[t] = name[t] /\ extended'[t] = extended[t]]_vars

\* When the handler of an event that takes the device away returns, no listed
\* target is on the device, though it has looked at them one by one, has let the
\* list lock go for every cleanup, and a store may have been in the middle of a
\* setup: none gets onto the device behind the walk (the restarts of
\* netconsole_netdev_event, the rtnl of netpoll_setup).
EventClearsTargets ==
    [][ev # "idle" /\ ev' = "idle" => \A t \in list' : ~devSet'[t]]_vars

\* The walk that restarts after every target it cleans up comes to an end, unless
\* a writer has faulted with the list lock held (netconsole_netdev_event).
EventEnds == ev # "idle" ~> (ev = "idle" \/ wr = "fault")
=============================================================================
