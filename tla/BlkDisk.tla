------------------------------ MODULE BlkDisk ------------------------------
(***************************************************************************)
(* The life of the RAM disk of src/BlockDriver/blk1.c: setting it up and   *)
(* removing it, opening and releasing it from several tasks, and the timer *)
(* that simulates a media change when the disk has been idle for a while.  *)
(*                                                                         *)
(* The block layer calls open and release of one disk one at a time        *)
(* (bd_mutex); the timer handler runs in softirq context and meets them at *)
(* dev->lock only.  What the disk holds is one value, and a write replaces *)
(* it by any other: how a request reaches the sectors is the subject of    *)
(* BlkIO, and Blk puts the two together.                                   *)
(***************************************************************************)
EXTENDS Integers, FiniteSets

CONSTANTS
    Tasks,      \* tasks that open the disk, the partition scan among them
    Values,     \* what they write
    Zero,       \* the content that memset leaves
    Fresh,      \* what vmalloc may leave in the memory it hands out
    Softirq,    \* the timer handler, as an owner of dev->lock
    Nobody      \* a lock that is free

ASSUME BlkAssumption ==
    /\ IsFiniteSet(Tasks)
    /\ Softirq \notin Tasks
    /\ Nobody \notin Tasks \cup {Softirq}
    /\ Zero \notin Values
    /\ Fresh \subseteq Values \cup {Zero}

VARIABLES
    mod,            \* where blk1_init and blk1_exit are
    queue,          \* dev->queue is set
    gd,             \* dev->gd is set and the disk is added
    mem,            \* the memory dev->data points to
    data,           \* its content
    users,
    media_change,
    timer,          \* "idle", "pending" or "running"
    lock,           \* owner of dev->lock
    bd_mutex,       \* owner of the block layer's mutex
    pc              \* per task: the place in open or release

vars == <<mod, queue, gd, mem, data, users, media_change, timer, lock,
          bd_mutex, pc>>

setup == <<mod, queue, gd, mem>>

InitPc == {"data", "queue", "disk"}
ExitPc == {"x_timer", "x_gd", "x_data"}
Pc     == {"closed", "o_timer", "o_lock", "o_check", "o_revalidate",
           "o_count", "open", "r_lock", "r_count"}

Goto(t, p) == pc' = [pc EXCEPT ![t] = p]

-----------------------------------------------------------------------------
(* blk1_init and setup_device *)

Init ==
    /\ mod = "unloaded" /\ queue = FALSE /\ gd = FALSE
    /\ mem = "null" /\ data = Zero
    /\ users = 0 /\ media_change = FALSE /\ timer = "idle"
    /\ lock = Nobody /\ bd_mutex = Nobody
    /\ pc = [t \in Tasks |-> "closed"]

(* register_blkdev, then kmalloc of Devices; a failure undoes the former.  *)
InitRegister ==
    /\ mod = "unloaded"
    /\ mod' = "data" \/ mod' = "unloaded"
    /\ UNCHANGED <<queue, gd, mem, data, users, media_change, timer, lock,
                   bd_mutex, pc>>

(* vmalloc, whose memory is not cleared; without it setup_device returns   *)
(* and blk1_init reports success all the same.                             *)
SetupData ==
    /\ mod = "data"
    /\ users' = 0 /\ media_change' = FALSE /\ timer' = "idle"
    /\ \/ mod' = "loaded" /\ mem' = "null" /\ data' = Zero
       \/ mod' = "queue" /\ mem' = "live" /\ data' \in Fresh
    /\ UNCHANGED <<queue, gd, lock, bd_mutex, pc>>

(* blk_mq_init_sq_queue.  It fails with an error pointer, which passes the *)
(* test for NULL and is followed by blk_queue_logical_block_size: insmod   *)
(* dies.  NULL, which the code expects, leads to out_vfree, which frees    *)
(* the data and keeps the pointer.                                         *)
SetupQueue ==
    /\ mod = "queue"
    /\ \/ mod' = "loaded" /\ mem' = "freed" /\ UNCHANGED queue
       \/ mod' = "oops" /\ queue' = TRUE /\ UNCHANGED mem
       \/ mod' = "disk" /\ queue' = TRUE /\ UNCHANGED mem
    /\ UNCHANGED <<gd, data, users, media_change, timer, lock, bd_mutex, pc>>

(* alloc_disk and add_disk, after which tasks can open the disk. *)
SetupDisk ==
    /\ mod = "disk"
    /\ mod' = "loaded"
    /\ \/ mem' = "freed" /\ UNCHANGED gd
       \/ gd' = TRUE /\ UNCHANGED mem
    /\ UNCHANGED <<queue, data, users, media_change, timer, lock, bd_mutex,
                   pc>>

-----------------------------------------------------------------------------
(* blk1_open, with blk1_media_changed and blk1_revalidate called by        *)
(* check_disk_change under dev->lock                                       *)

OpenCall(t) ==
    /\ pc[t] = "closed"
    /\ mod = "loaded" /\ gd
    /\ bd_mutex = Nobody
    /\ bd_mutex' = t
    /\ Goto(t, "o_timer")
    /\ UNCHANGED <<setup, data, users, media_change, timer, lock>>

(* A definition marked `Mutant' is a deliberate fault, put in the place of *)
(* the definition that follows it to see that a property can fail.         *)

(* Mutant: del_timer does not wait for a running handler. *)
OpenDelTimerAsync(t) ==
    /\ pc[t] = "o_timer"
    /\ timer' = IF timer = "pending" THEN "idle" ELSE timer
    /\ Goto(t, "o_lock")
    /\ UNCHANGED <<setup, data, users, media_change, lock, bd_mutex>>

(* Mutant: dev->lock is taken before del_timer_sync. *)
OpenDelTimerLocked(t) ==
    /\ pc[t] = "o_timer"
    /\ lock \in {Nobody, t}
    /\ IF timer # "running"
         THEN timer' = "idle" /\ lock' = Nobody /\ Goto(t, "o_lock")
         ELSE lock' = t /\ UNCHANGED <<timer, pc>>
    /\ UNCHANGED <<setup, data, users, media_change, bd_mutex>>

(* del_timer_sync: deactivate the timer and wait for a running handler. *)
OpenDelTimer(t) ==
    /\ pc[t] = "o_timer"
    /\ timer # "running"
    /\ timer' = "idle"
    /\ Goto(t, "o_lock")
    /\ UNCHANGED <<setup, data, users, media_change, lock, bd_mutex>>

OpenLock(t) ==
    /\ pc[t] = "o_lock"
    /\ lock = Nobody
    /\ lock' = t
    /\ Goto(t, "o_check")
    /\ UNCHANGED <<setup, data, users, media_change, timer, bd_mutex>>

(* Mutant: the first open does not look for a media change. *)
OpenCheckNever(t) ==
    /\ pc[t] = "o_check"
    /\ Goto(t, "o_count")
    /\ UNCHANGED <<setup, data, users, media_change, timer, lock, bd_mutex>>

(* The first user looks for a media change (blk1_media_changed). *)
OpenCheck(t) ==
    /\ pc[t] = "o_check"
    /\ Goto(t, IF users = 0 /\ media_change THEN "o_revalidate"
               ELSE "o_count")
    /\ UNCHANGED <<setup, data, users, media_change, timer, lock, bd_mutex>>

(* Mutant: blk1_revalidate erases without looking at media_change. *)
EraseAnyway == media_change' = FALSE /\ data' = Zero

(* blk1_revalidate *)
Erase ==
    IF media_change THEN media_change' = FALSE /\ data' = Zero
    ELSE UNCHANGED <<media_change, data>>

OpenRevalidate(t) ==
    /\ pc[t] = "o_revalidate"
    /\ Erase
    /\ Goto(t, "o_count")
    /\ UNCHANGED <<setup, users, timer, lock, bd_mutex>>

OpenCount(t) ==
    /\ pc[t] = "o_count"
    /\ users' = users + 1
    /\ lock' = Nobody /\ bd_mutex' = Nobody
    /\ Goto(t, "open")
    /\ UNCHANGED <<setup, data, media_change, timer>>

-----------------------------------------------------------------------------
(* Using the open disk, and blk1_release *)

Write(t) ==
    /\ pc[t] = "open"
    /\ data' \in Values
    /\ UNCHANGED <<setup, users, media_change, timer, lock, bd_mutex, pc>>

(* A request to re-read the partition table revalidates the open disk with *)
(* bd_mutex held but without dev->lock.                                    *)
Revalidate(t) ==
    /\ pc[t] = "open"
    /\ bd_mutex = Nobody
    /\ Erase
    /\ UNCHANGED <<setup, users, timer, lock, bd_mutex, pc>>

ReleaseCall(t) ==
    /\ pc[t] = "open"
    /\ bd_mutex = Nobody
    /\ bd_mutex' = t
    /\ Goto(t, "r_lock")
    /\ UNCHANGED <<setup, data, users, media_change, timer, lock>>

ReleaseLock(t) ==
    /\ pc[t] = "r_lock"
    /\ lock = Nobody
    /\ lock' = t
    /\ Goto(t, "r_count")
    /\ UNCHANGED <<setup, data, users, media_change, timer, bd_mutex>>

(* Mutant: no release arms the timer. *)
ReleaseCountNever(t) ==
    /\ pc[t] = "r_count"
    /\ users' = users - 1
    /\ lock' = Nobody /\ bd_mutex' = Nobody
    /\ Goto(t, "closed")
    /\ UNCHANGED <<setup, data, media_change, timer>>

(* The last user arms the timer.  It expires INVALIDATE_DELAY, half a      *)
(* minute, later: not before dev->lock is free again.                      *)
ReleaseCount(t) ==
    /\ pc[t] = "r_count"
    /\ users' = users - 1
    /\ timer' = IF users = 1 THEN "pending" ELSE timer
    /\ lock' = Nobody /\ bd_mutex' = Nobody
    /\ Goto(t, "closed")
    /\ UNCHANGED <<setup, data, media_change>>

-----------------------------------------------------------------------------
(* The timer and blk1_invalidate *)

TimerExpire ==
    /\ timer = "pending"
    /\ timer' = "running"
    /\ UNCHANGED <<setup, data, users, media_change, lock, bd_mutex, pc>>

InvalidateLock ==
    /\ timer = "running" /\ lock = Nobody
    /\ lock' = Softirq
    /\ UNCHANGED <<setup, data, users, media_change, timer, bd_mutex, pc>>

Invalidate ==
    /\ timer = "running" /\ lock = Softirq
    /\ media_change' = IF users # 0 \/ mem = "null" THEN media_change ELSE TRUE
    /\ timer' = "idle"
    /\ lock' = Nobody
    /\ UNCHANGED <<setup, data, users, bd_mutex, pc>>

-----------------------------------------------------------------------------
(* blk1_exit: the module is not removed while a task has the disk open, and *)
(* no task can open it any more once the removal has begun.                *)

Exit ==
    /\ mod = "loaded"
    /\ \A t \in Tasks : pc[t] = "closed"
    /\ mod' = "x_timer"
    /\ UNCHANGED <<queue, gd, mem, data, users, media_change, timer, lock,
                   bd_mutex, pc>>

ExitTimer ==
    /\ mod = "x_timer"
    /\ timer # "running"
    /\ timer' = "idle"
    /\ mod' = "x_gd"
    /\ UNCHANGED <<queue, gd, mem, data, users, media_change, lock, bd_mutex,
                   pc>>

(* del_gendisk and blk_cleanup_queue, each if there is something to undo. *)
ExitDisk ==
    /\ mod = "x_gd"
    /\ gd' = FALSE /\ queue' = FALSE
    /\ mod' = "x_data"
    /\ UNCHANGED <<mem, data, users, media_change, timer, lock, bd_mutex, pc>>

(* vfree(dev->data) if the pointer is not NULL, for the second time after  *)
(* out_vfree, then kfree(Devices).                                         *)
ExitData ==
    /\ mod = "x_data"
    /\ mem' = (IF mem = "freed" THEN "freed_twice" ELSE "null")
    /\ data' = Zero
    /\ mod' = "unloaded"
    /\ UNCHANGED <<queue, gd, users, media_change, timer, lock, bd_mutex, pc>>

(* A module whose insmod died can neither be used nor removed. *)
Stuck == mod = "oops" /\ UNCHANGED vars

-----------------------------------------------------------------------------
Load   == InitRegister \/ SetupData \/ SetupQueue \/ SetupDisk
Unload == Exit \/ ExitTimer \/ ExitDisk \/ ExitData \/ Stuck
Timer  == TimerExpire \/ InvalidateLock \/ Invalidate

OpenStep(t) ==
    \/ OpenDelTimer(t) \/ OpenLock(t) \/ OpenCheck(t) \/ OpenRevalidate(t)
    \/ OpenCount(t)
ReleaseStep(t) == ReleaseLock(t) \/ ReleaseCount(t)
UserStep(t) == OpenCall(t) \/ Write(t) \/ Revalidate(t) \/ ReleaseCall(t)

Next ==
    \/ Load \/ Unload \/ Timer
    \/ \E t \in Tasks : UserStep(t) \/ OpenStep(t) \/ ReleaseStep(t)

Spec == Init /\ [][Next]_vars

(* A task inside open or release keeps running, the timer wheel runs the   *)
(* handlers of expired timers, and a spinlock is won by a waiter in the    *)
(* end.  Nobody has to open, close or unload.                              *)
Fairness ==
    /\ WF_vars(TimerExpire) /\ SF_vars(InvalidateLock) /\ WF_vars(Invalidate)
    /\ \A t \in Tasks : SF_vars(OpenStep(t)) /\ SF_vars(ReleaseStep(t))

FairSpec == Spec /\ Fairness

-----------------------------------------------------------------------------
(* Properties *)

TypeOK ==
    /\ mod \in {"unloaded", "loaded", "oops"} \cup InitPc \cup ExitPc
    /\ queue \in BOOLEAN /\ gd \in BOOLEAN
    /\ mem \in {"null", "live", "freed", "freed_twice"}
    /\ data \in Values \cup {Zero}
    /\ users \in 0 .. Cardinality(Tasks)
    /\ media_change \in BOOLEAN
    /\ timer \in {"idle", "pending", "running"}
    /\ lock \in Tasks \cup {Softirq, Nobody}
    /\ bd_mutex \in Tasks \cup {Nobody}
    /\ pc \in [Tasks -> Pc]

Users == {t \in Tasks : pc[t] \in {"open", "r_lock", "r_count"}}

(* The handler never touches a device that is not set up, half set up or   *)
(* already given back by blk1_exit.                                        *)
TimerOnLiveDevice ==
    timer # "idle" => mem = "live" /\ mod \in {"loaded", "x_timer"}

(* "timer sanity check failed" is never printed: the timer is armed or its *)
(* handler running only while nobody uses the disk, so add_timer in        *)
(* blk1_release never meets a timer that is already pending; and only on a *)
(* live device.                                                            *)
TimerOnlyWhenIdle == (timer # "idle" => users = 0) /\ TimerOnLiveDevice

(* A media change is seen by the first open after it: a task never works   *)
(* on a disk whose removal is still flagged.                               *)
NoStaleMedia == (\E t \in Tasks : pc[t] = "open") => ~media_change

(* What is on the disk is erased only by the first open after the timer    *)
(* has flagged a media change, never under a task that has it open; the    *)
(* unlocked call of blk1_revalidate included.                              *)
EraseOnlyUnused ==
    [][(mod = "loaded" /\ data' = Zero /\ data # Zero) =>
          users = 0 /\ media_change]_vars

(* blk1_open does not wait for ever: neither for dev->lock nor, in         *)
(* del_timer_sync, for a handler that itself waits for dev->lock.          *)
OpenReturns == \A t \in Tasks : (pc[t] = "o_timer") ~> (pc[t] = "open")

(* "After this much idle time, the driver will simulate a media change":   *)
(* a disk that its last user left gets flagged unless it is opened again   *)
(* or removed.                                                             *)
IdleDiskChanges ==
    (users = 1 /\ \E t \in Tasks : pc[t] = "r_count") ~>
        \/ media_change
        \/ \E t \in Tasks : pc[t] = "o_timer"
        \/ mod = "x_timer"

-----------------------------------------------------------------------------
(* The inductive invariant behind the theorems of BlkProofs. *)

InOpen == {"o_lock", "o_check", "o_revalidate", "o_count"}

(* bd_mutex and dev->lock belong to the task whose place says so. *)
LockInv ==
    /\ \A t \in Tasks :
          /\ (bd_mutex = t) <=>
                pc[t] \in {"o_timer", "r_lock", "r_count"} \cup InOpen
          /\ (lock = t) <=>
                pc[t] \in {"o_check", "o_revalidate", "o_count", "r_count"}
    /\ lock = Softirq => timer = "running"

(* Tasks are only met by a disk that is loaded and complete. *)
LifeInv ==
    /\ (\E t \in Tasks : pc[t] # "closed") => mod = "loaded" /\ gd
    /\ gd => mem = "live" /\ mod \in {"loaded"} \cup ExitPc
    /\ mod \in {"queue", "disk"} => mem = "live"
    /\ mod \notin {"loaded", "x_timer", "x_gd"} => ~gd

(* The timer is off from del_timer_sync to the release that arms it again, *)
(* and a media change is dealt with before anybody uses the disk.          *)
IdleInv ==
    /\ users = Cardinality(Users)
    /\ \A t \in Tasks : pc[t] \in InOpen => timer = "idle"
    /\ Users # {} => timer = "idle" /\ ~media_change
    /\ \A t \in Tasks : pc[t] = "o_count" => ~media_change
    /\ \A t \in Tasks : pc[t] = "o_revalidate" => users = 0 /\ media_change
    /\ TimerOnLiveDevice

BlkInv == TypeOK /\ LockInv /\ LifeInv /\ IdleInv
=============================================================================
