--------------------------- MODULE ThreadedDriver ---------------------------
(***************************************************************************)
(* The life of the drivers that run two kernel threads over one counter:   *)
(* src/Spinlock/spin1.c, spin2.c, src/Mutex/mtx1.c, src/Semaphore/sem1.c,  *)
(* src/SeqLock/seqlock1.c and src/Atomic/atomic1.c.  Their                 *)
(* test_driver_init and test_driver_exit differ only in whether and where  *)
(* the lock is set up; each driver's module adds that step and the body of *)
(* its threads.                                                            *)
(*                                                                         *)
(* The kernel reports a failed class_create, device_create or kthread_run  *)
(* by an error pointer, and the code tests for NULL: both are outcomes     *)
(* here ("err", "null"), and "err" is taken for success.                   *)
(***************************************************************************)
EXTENDS Integers

CONSTANT Outcomes   \* how a registration or kthread_run may end

ASSUME OutcomesAssumption ==
    "ok" \in Outcomes /\ Outcomes \subseteq {"ok", "null", "err"}

VARIABLES
    mod,            \* the next step of init or exit, or how they ended
    held,           \* what the module has registered with the kernel
    task,           \* test_thread1 and test_thread2: "null", "task" or "err"
    should_stop,    \* per thread: kthread_stop was called on it
    pc              \* per thread: "none", a place in its body, "returned"

driverVars == <<mod, held, task, should_stop, pc>>

Threads   == {1, 2}
Resources == {"region", "cdev", "class", "device"}
InitPc    == {"region", "cdev", "class", "device", "early_lock", "thread1",
              "thread2", "late_lock"}
ExitPc    == {"loaded", "wait1", "stop2", "wait2", "destroy"}
EndPc     == {"failed", "oops", "gone"}

DriverInit ==
    /\ mod = "region" /\ held = {}
    /\ task = [t \in Threads |-> "null"]
    /\ should_stop = [t \in Threads |-> FALSE]
    /\ pc = [t \in Threads |-> "none"]

DriverTypeOK ==
    /\ mod \in InitPc \cup ExitPc \cup EndPc
    /\ held \in SUBSET Resources
    /\ task \in [Threads -> {"null", "task", "err"}]
    /\ should_stop \in [Threads -> BOOLEAN]

-----------------------------------------------------------------------------
(* test_driver_init *)

(* The labels r_class and r_device of the error path: the device stays.    *)
RClass ==
    /\ held' = held \ {"region", "cdev"}
    /\ mod' = "failed"

RDevice ==
    /\ held' = held \ {"class", "region", "cdev"}
    /\ mod' = "failed"

AllocRegion ==
    /\ mod = "region"
    /\ \/ held' = held \cup {"region"} /\ mod' = "cdev"
       \/ Outcomes # {"ok"} /\ held' = held /\ mod' = "failed"
    /\ UNCHANGED <<task, should_stop, pc>>

AddCdev ==
    /\ mod = "cdev"
    /\ \/ held' = held \cup {"cdev"} /\ mod' = "class"
       \/ Outcomes # {"ok"} /\ RClass
    /\ UNCHANGED <<task, should_stop, pc>>

CreateClass ==
    /\ mod = "class"
    /\ \/ held' = held \cup {"class"} /\ mod' = "device"
       \/ "null" \in Outcomes /\ RClass
       \/ "err" \in Outcomes /\ held' = held /\ mod' = "device"
    /\ UNCHANGED <<task, should_stop, pc>>

(* For a class that is an error pointer device_create returns one, too. *)
CreateDevice ==
    /\ mod = "device"
    /\ \/ "class" \in held /\ held' = held \cup {"device"}
          /\ mod' = "early_lock"
       \/ "class" \in held /\ "null" \in Outcomes /\ RDevice
       \/ "err" \in Outcomes /\ held' = held /\ mod' = "early_lock"
    /\ UNCHANGED <<task, should_stop, pc>>

(* A definition marked `Mutant' is a deliberate fault, put in the place of *)
(* the definition that follows it to see that a property can fail.         *)

(* Mutant: the result of kthread_run is not tested. *)
RunThreadUntested(t, next) ==
    /\ \E o \in Outcomes :
          /\ task' = [task EXCEPT ![t] = IF o = "ok" THEN "task" ELSE o]
          /\ pc' = [pc EXCEPT ![t] = IF o = "ok" THEN "top" ELSE "none"]
          /\ mod' = next /\ held' = held
    /\ UNCHANGED should_stop

(* kthread_run and the test of its result. *)
RunThread(t, next) ==
    /\ \E o \in Outcomes :
          /\ task' = [task EXCEPT ![t] = IF o = "ok" THEN "task" ELSE o]
          /\ pc' = [pc EXCEPT ![t] = IF o = "ok" THEN "top" ELSE "none"]
          /\ IF o = "null" THEN RDevice ELSE mod' = next /\ held' = held
    /\ UNCHANGED should_stop

RunThread1 == mod = "thread1" /\ RunThread(1, "thread2")
RunThread2 == mod = "thread2" /\ RunThread(2, "late_lock")

InitStep ==
    AllocRegion \/ AddCdev \/ CreateClass \/ CreateDevice \/ RunThread1
    \/ RunThread2

(* Where a driver has no set-up of a lock it goes on. *)
NoEarlyLock ==
    /\ mod = "early_lock" /\ mod' = "thread1"
    /\ UNCHANGED <<held, task, should_stop, pc>>

NoLateLock ==
    /\ mod = "late_lock" /\ mod' = "loaded"
    /\ UNCHANGED <<held, task, should_stop, pc>>

-----------------------------------------------------------------------------
(* test_driver_exit *)

(* kthread_stop follows the pointer, sets the flag, wakes the thread and   *)
(* waits until the thread function has returned.                           *)
KthreadStop(t, next) ==
    /\ IF task[t] = "task"
       THEN should_stop' = [should_stop EXCEPT ![t] = TRUE] /\ mod' = next
       ELSE should_stop' = should_stop /\ mod' = "oops"
    /\ UNCHANGED <<held, task, pc>>

KthreadStopped(t, next) ==
    /\ pc[t] = "returned"
    /\ mod' = next
    /\ UNCHANGED <<held, task, should_stop, pc>>

ExitStop1 == mod = "loaded" /\ KthreadStop(1, "wait1")
ExitWait1 == mod = "wait1" /\ KthreadStopped(1, "stop2")
ExitStop2 == mod = "stop2" /\ KthreadStop(2, "wait2")

(* Mutant: the exit does not wait for the second thread. *)
ExitDoNotWait2 ==
    /\ mod = "wait2"
    /\ mod' = "destroy"
    /\ UNCHANGED <<held, task, should_stop, pc>>

ExitWait2 == mod = "wait2" /\ KthreadStopped(2, "destroy")

(* device_destroy follows the class pointer, be it an error or not. *)
ExitDestroy ==
    /\ mod = "destroy"
    /\ IF "class" \in held THEN held' = {} /\ mod' = "gone"
       ELSE held' = held /\ mod' = "oops"
    /\ UNCHANGED <<task, should_stop, pc>>

ExitStep == ExitWait1 \/ ExitStop2 \/ ExitWait2 \/ ExitDestroy

-----------------------------------------------------------------------------
(* The loops of the threads *)

(* A thread can run for as long as the module's memory is there; msleep    *)
(* between two rounds is only a delay.                                     *)
Runs == mod \notin {"failed", "gone"}

(* while (!kthread_should_stop()) *)
LoopTest(t, first) ==
    /\ Runs
    /\ pc[t] = "top"
    /\ pc' = [pc EXCEPT ![t] = IF should_stop[t] THEN "returned" ELSE first]
    /\ UNCHANGED <<mod, held, task, should_stop>>

Goto(t, from, to) ==
    /\ Runs
    /\ pc[t] = from
    /\ pc' = [pc EXCEPT ![t] = to]
    /\ UNCHANGED <<mod, held, task, should_stop>>

(* Nothing is left to do. *)
DriverEnded == mod \in EndPc /\ UNCHANGED driverVars

-----------------------------------------------------------------------------
(* Properties every one of these drivers has *)

(* Once the module is gone no thread of it is left, and nothing of it is   *)
(* registered: the kthread_stop calls of test_driver_exit return only      *)
(* after the threads have, and everything init registered is given back.   *)
ExitLeavesNothing ==
    mod = "gone" =>
        held = {} /\ \A t \in Threads : pc[t] = "returned"

(* What the failures of the kernel calls lead to, and nothing else does.   *)
(* The exit crashes only over an error pointer of kthread_run or           *)
(* class_create that the test for NULL has let through.  A load that fails *)
(* gives everything back but the device, which stays only if a thread      *)
(* could not be created; and it leaves a thread running in a module that   *)
(* is being unloaded only if it was the second one that could not be.      *)
FaultsExplained ==
    /\ mod = "oops" =>
          "class" \notin held \/ \E t \in Threads : task[t] = "err"
    /\ mod = "failed" =>
          /\ held \subseteq {"device"}
          /\ \A t \in Threads : pc[t] # "none" => t = 1 /\ task[2] = "null"
=============================================================================
