------------------------------ MODULE Teardown ------------------------------
(***************************************************************************)
(* Nine small modules that leave work behind when their init returns, and  *)
(* what their exit does about it: kernel threads (Kthread/thread1.c,       *)
(* Kthread/thread2.c, Signal/signal2.c), timers (Timers/timer1.c,          *)
(* Timers/timer2.c), tasklets (Tasklet/tasklet1.c, tasklet2.c, tasklet3.c) *)
(* and a work item (WaitQueue/wait2.c).  One module is loaded at a time.   *)
(* Its jobs run concurrently with its init and exit; the memory that holds *)
(* their code is freed when the exit returns.                              *)
(***************************************************************************)
EXTENDS Integers

Killable == {"thread2", "signal2"}          \* they call allow_signal
Threaded == {"thread1"} \cup Killable
Deferred == {"timer1", "timer2", "tasklet1", "tasklet2", "tasklet3", "wait2"}

CONSTANT Drivers    \* the modules that may be loaded

ASSUME DriversAssumption == Drivers \subseteq Threaded \cup Deferred

VARIABLES
    drv,        \* the module loaded last
    mod,        \* "out", "init", "live" or "exit"
    job,        \* per job: where its thread, handler or work function is
    held,       \* per thread: worker_task (default_task) is not NULL
    stop,       \* per thread: what kthread_should_stop returns
    sig,        \* per thread: a signal is pending; wait2: for insmod
    at,         \* the place in a kernel_thread_exit: a job and a step
    wait2_condition,    \* `condition' of wait2
    fault       \* something that is no live task was used as a task

vars == <<drv, mod, job, held, stop, sig, at, wait2_condition, fault>>
flags == <<held, stop, sig, at, wait2_condition, fault>>

Jobs == {1, 2}      \* tasklet2: the timer and the tasklet

(* "ready": created, armed or queued.  A thread then goes through its loop *)
(* ("top", "sleep"), leaves it ("leave", in signal2 also "left") and is    *)
(* "done" at do_exit; a handler is "running" and "done" when it returns;   *)
(* before the work of wait2 does it "wakes" the sleeper.                   *)
Busy(j) == job[j] \notin {"none", "done"}
Quiet   == \A j \in Jobs : ~Busy(j)

All(v) == [j \in Jobs |-> v]

Init ==
    /\ mod = "out" /\ drv \in Drivers /\ fault = FALSE
    /\ job = All("none") /\ held = All(FALSE) /\ stop = All(FALSE)
    /\ sig = All(FALSE) /\ at = <<0, "out">> /\ wait2_condition = 0

Rest == UNCHANGED <<drv, mod, flags>>   \* a job moves and nothing else

Move(j, here, there) ==
    /\ job[j] = here
    /\ job' = [job EXCEPT ![j] = there]

-----------------------------------------------------------------------------
(* insmod and rmmod *)

Insmod(d) ==
    /\ mod = "out" /\ Quiet /\ ~fault
    /\ mod' = "init" /\ drv' = d
    /\ job' = All("none") /\ held' = All(FALSE) /\ stop' = All(FALSE)
    /\ sig' = All(FALSE) /\ at' = <<0, "out">> /\ wait2_condition' = 0
    /\ UNCHANGED fault

Rmmod ==
    /\ mod = "live"
    /\ mod' = "exit"
    /\ at' = <<1, IF drv \in Killable THEN "test" ELSE "stop">>
    /\ UNCHANGED <<drv, job, held, stop, sig, wait2_condition, fault>>

-----------------------------------------------------------------------------
(* The three threaded modules.  kthread_create fails with an error pointer, *)
(* never with NULL: `bad' are the threads it fails for.  The tests for NULL *)
(* let it through and the next use of the pointer is a fault.               *)

StartThreads(bad, woken) ==
    /\ mod = "init" /\ ~fault
    /\ job' = [j \in Jobs |-> IF j \in woken \ bad THEN "ready" ELSE "none"]
    /\ held' = All(TRUE)
    /\ IF bad = {} THEN mod' = "live" /\ UNCHANGED fault
                   ELSE fault' = TRUE /\ UNCHANGED mod
    /\ UNCHANGED <<drv, stop, sig, at, wait2_condition>>

(* Both are created, then woken in turn. *)
WokenInTurn(bad) == IF 1 \in bad THEN {} ELSE Jobs

thread1_init(bad) ==
    drv = "thread1" /\ StartThreads(bad, WokenInTurn(bad))

(* kthread_bind uses the pointer before any thread is woken. *)
thread2_init(bad) ==
    drv = "thread2" /\ StartThreads(bad, IF bad = {} THEN Jobs ELSE {})

signal2_init(bad) ==
    drv = "signal2" /\ StartThreads(bad, WokenInTurn(bad))

(* kthread(): a thread stopped before its first instruction never enters   *)
(* the module's function.                                                  *)
ThreadBegins(j) ==
    /\ drv \in Threaded
    /\ Move(j, "ready", IF stop[j] THEN "done" ELSE "top") /\ Rest

(* while(!kthread_should_stop()); ssleep is not interruptible, a signal is *)
(* seen after it.                                                          *)
Loop(j, killed) ==
    \/ Move(j, "top", IF stop[j] THEN "leave" ELSE "sleep")
    \/ Move(j, "sleep", IF killed THEN "leave" ELSE "top")

(* Mutant: the thread does not look whether it should stop. *)
LoopForever(j) ==
    /\ drv = "thread1"
    /\ Move(j, "top", "sleep") \/ Move(j, "sleep", "top")
    /\ Rest

thread1_function(j) ==
    drv = "thread1" /\ (Loop(j, FALSE) \/ Move(j, "leave", "done")) /\ Rest

(* Mutant: without a test of signal_pending a kill is ignored. *)
IgnoreSignal(j) ==
    drv = "thread2" /\ (Loop(j, FALSE) \/ Move(j, "leave", "done")) /\ Rest

(* do_exit comes before the pointer is cleared: it never is. *)
thread2_worker_task_handler_fn(j) ==
    drv = "thread2" /\ (Loop(j, sig[j]) \/ Move(j, "leave", "done")) /\ Rest

ClearPointer(j, here, there) ==
    /\ Move(j, here, there)
    /\ held' = [held EXCEPT ![j] = FALSE]
    /\ UNCHANGED <<drv, mod, stop, sig, at, wait2_condition, fault>>

(* Mutant: the pointer is cleared inside the loop. *)
ClearEarly(j) ==
    /\ drv = "signal2"
    /\ \/ (Loop(j, sig[j]) \/ Move(j, "leave", "done")) /\ Rest
       \/ ClearPointer(j, "sleep", "top")

(* The pointer is cleared while the thread still runs the module's code. *)
worker_task_handler_fn(j) ==
    /\ drv = "signal2"
    /\ \/ (Loop(j, sig[j]) \/ Move(j, "left", "done")) /\ Rest
       \/ ClearPointer(j, "leave", "left")

(* SIGKILL from user space, heeded after allow_signal. *)
Kill(j) ==
    /\ drv \in Killable /\ ~sig[j]
    /\ job[j] \in {"top", "sleep", "leave", "left"}
    /\ sig' = [sig EXCEPT ![j] = TRUE]
    /\ UNCHANGED <<drv, mod, job, held, stop, at, wait2_condition, fault>>

(* kthread_stop takes a reference and sets the flag, then waits for the    *)
(* thread.  A thread that has ended is no longer there to take one from;   *)
(* a pointer that was cleared after it was tested may be read as NULL.     *)
StopCall(j) ==
    /\ at = <<j, "stop">>
    /\ \/ /\ Busy(j)
          /\ stop' = [stop EXCEPT ![j] = TRUE]
          /\ at' = <<j, "wait">>
          /\ UNCHANGED fault
       \/ /\ ~Busy(j) \/ ~held[j]
          /\ fault' = TRUE
          /\ UNCHANGED <<stop, at>>
    /\ UNCHANGED mod

(* On to the next thread, or out of the exit function. *)
Onward(j, step) ==
    IF j = 1 THEN at' = <<2, step>> /\ UNCHANGED mod
             ELSE at' = <<0, "out">> /\ mod' = "out"

StopWait(j, step) ==
    /\ at = <<j, "wait">> /\ job[j] = "done"
    /\ Onward(j, step)
    /\ UNCHANGED <<stop, fault>>

TestPointer(j) ==
    /\ at = <<j, "test">>
    /\ IF held[j] THEN at' = <<j, "stop">> /\ UNCHANGED mod
                  ELSE Onward(j, "test")
    /\ UNCHANGED <<stop, fault>>

cleanup_thread(j) ==
    /\ mod = "exit" /\ drv = "thread1" /\ ~fault
    /\ StopCall(j) \/ StopWait(j, "stop")
    /\ UNCHANGED <<drv, job, held, sig, wait2_condition>>

TestAndStop(d, j) ==
    /\ mod = "exit" /\ drv = d /\ ~fault
    /\ TestPointer(j) \/ StopCall(j) \/ StopWait(j, "test")
    /\ UNCHANGED <<drv, job, held, sig, wait2_condition>>

thread2_exit(j) == TestAndStop("thread2", j)
signal2_exit(j) == TestAndStop("signal2", j)

-----------------------------------------------------------------------------
(* Timers, tasklets and the work item.  The interrupt, the softirq or the  *)
(* worker starts what is ready; the function body follows.                 *)

HandlerBegins(j) ==
    drv \in Deferred /\ Move(j, "ready", "running") /\ Rest

(* init arms the timer or schedules the tasklet and returns. *)
Arm(d) ==
    /\ mod = "init" /\ drv = d
    /\ Move(1, "none", "ready") /\ mod' = "live"
    /\ UNCHANGED <<drv, flags>>

timer1_init   == Arm("timer1")
hrt_init      == Arm("timer2")
tasklet1_init == Arm("tasklet1")
tasklet2_init == Arm("tasklet2")
tasklet3_init == Arm("tasklet3")

Returns(d, j) == drv = d /\ Move(j, "running", "done") /\ Rest

my_timer_callback   == Returns("timer1", 1)
my_hrtimer_callback == Returns("timer2", 1)
tasklet_demo_handle == Returns("tasklet2", 2)
tasklet_function    == Returns("tasklet3", 1)

(* tasklet_disable waits for the tasklet to finish, that is for itself. *)
my_tasklet_handler ==
    drv = "tasklet1" /\ Move(1, "running", "spin") /\ Rest

Spin == job[1] = "spin" /\ UNCHANGED vars

(* The timer of tasklet2 schedules the tasklet. *)
ISR_handler ==
    /\ drv = "tasklet2" /\ job[1] = "running"
    /\ job' = [job EXCEPT ![1] = "done", ![2] = "ready"]
    /\ Rest

(* del_timer takes an armed timer away and waits for nothing. *)
Disarm(j) == job' = [job EXCEPT ![j] = IF @ = "ready" THEN "done" ELSE @]

Leave(d) ==
    /\ mod = "exit" /\ drv = d
    /\ mod' = "out"
    /\ UNCHANGED <<drv, flags>>

timer1_exit == Leave("timer1") /\ Disarm(1)

(* hrtimer_cancel and del_timer_sync wait for a handler that runs. *)
hrt_cleanup == job[1] # "running" /\ Leave("timer2") /\ Disarm(1)

(* Mutant: del_timer without waiting for the handler. *)
tasklet2_exit_nosync == Leave("tasklet2") /\ Disarm(1)

tasklet2_exit == job[1] # "running" /\ Leave("tasklet2") /\ Disarm(1)

(* tasklet_kill yields until the tasklet is neither scheduled nor running. *)
TaskletKill(d) ==
    /\ mod = "exit" /\ drv = d
    /\ IF Busy(1) THEN UNCHANGED vars ELSE Leave(d) /\ UNCHANGED job

tasklet1_exit == TaskletKill("tasklet1")

tasklet3_exit == TaskletKill("tasklet3")

(* `condition' is set, then the sleeping init is woken. *)
work_handler ==
    /\ drv = "wait2"
    /\ \/ Move(1, "running", "wakes") /\ wait2_condition' = 1
       \/ Move(1, "wakes", "done") /\ UNCHANGED wait2_condition
    /\ UNCHANGED <<drv, mod, held, stop, sig, at, fault>>

wait2_schedule ==
    /\ mod = "init" /\ drv = "wait2"
    /\ Move(1, "none", "ready")
    /\ Rest

(* wait_event_interruptible: what it returns is ignored. *)
wait2_wait ==
    /\ mod = "init" /\ drv = "wait2" /\ job[1] # "none"
    /\ wait2_condition # 0 \/ sig[1]
    /\ mod' = "live"
    /\ UNCHANGED <<drv, job, flags>>

Interrupt ==
    /\ mod = "init" /\ drv = "wait2" /\ ~sig[1]
    /\ sig' = [sig EXCEPT ![1] = TRUE]
    /\ UNCHANGED <<drv, mod, job, held, stop, at, wait2_condition, fault>>

wait2_exit == Leave("wait2") /\ UNCHANGED job

-----------------------------------------------------------------------------
ThreadStep(j) ==
    \/ ThreadBegins(j) \/ thread1_function(j)
    \/ thread2_worker_task_handler_fn(j) \/ worker_task_handler_fn(j)

HandlerStep ==
    \/ \E j \in Jobs : HandlerBegins(j)
    \/ my_timer_callback \/ my_hrtimer_callback \/ my_tasklet_handler
    \/ ISR_handler \/ tasklet_demo_handle \/ tasklet_function \/ work_handler

ModuleInit ==
    \/ \E bad \in SUBSET Jobs :
          thread1_init(bad) \/ thread2_init(bad) \/ signal2_init(bad)
    \/ timer1_init \/ hrt_init \/ tasklet1_init \/ tasklet2_init
    \/ tasklet3_init \/ wait2_schedule \/ wait2_wait

ModuleExit ==
    \/ \E j \in Jobs : cleanup_thread(j) \/ thread2_exit(j) \/ signal2_exit(j)
    \/ timer1_exit \/ hrt_cleanup \/ tasklet1_exit \/ tasklet2_exit
    \/ tasklet3_exit \/ wait2_exit

Crashed == fault /\ UNCHANGED vars

Next ==
    \/ \E d \in Drivers : Insmod(d)
    \/ ModuleInit \/ Rmmod \/ ModuleExit \/ HandlerStep
    \/ \E j \in Jobs : ThreadStep(j) \/ Kill(j)
    \/ Interrupt \/ Spin \/ Crashed

Spec == Init /\ [][Next]_vars

(* Runnable threads, raised softirqs and an insmod or rmmod in progress    *)
(* keep running; nobody has to load, unload or signal anything.            *)
FairSpec ==
    /\ Spec
    /\ WF_vars(ModuleInit) /\ WF_vars(ModuleExit) /\ WF_vars(HandlerStep)
    /\ \A j \in Jobs : WF_vars(ThreadStep(j))

-----------------------------------------------------------------------------
(* Properties *)

(* kthread_stop, hrtimer_cancel and tasklet_kill are enough: once the exit *)
(* of a module that uses them on everything has returned, nothing of it    *)
(* runs or is still going to run.  What the other exits may leave behind,  *)
(* and nothing else: a killed thread of signal2 between clearing its       *)
(* pointer and do_exit; a handler of timer1 that had begun; the tasklet of *)
(* tasklet2 but never its timer; the work of wait2 past its sleep, or any  *)
(* of it if insmod was interrupted.                                        *)
LeftBehind ==
    mod = "out" => \A j \in Jobs : Busy(j) =>
        CASE drv = "signal2"  -> sig[j] /\ job[j] = "left"
          [] drv = "timer1"   -> job[j] = "running"
          [] drv = "tasklet2" -> j = 2
          [] drv = "wait2"    -> job[j] = "wakes" \/ sig[j]
          [] OTHER            -> FALSE

(* kthread_stop is called for a task that has ended only if the task was   *)
(* killed by a signal: a thread that leaves because it was told to does so *)
(* under the reference that kthread_stop holds.                            *)
DeadTaskWasKilled ==
    (fault /\ mod = "exit") =>
        \E j \in Jobs : sig[j] /\ ~stop[j] /\ job[j] \in {"left", "done"}

(* A thread that is told to stop, or is killed, ends. *)
ThreadEnds ==
    \A j \in Jobs : (drv \in Threaded /\ (stop[j] \/ sig[j])) ~>
                        (job[j] = "done")

(* Loading and unloading come to an end, except that rmmod of tasklet1     *)
(* waits for a tasklet that waits for itself.                              *)
ModuleCallsReturn ==
    /\ (mod = "init") ~> (mod = "live" \/ fault)
    /\ (mod = "exit" /\ drv # "tasklet1") ~> (mod = "out" \/ fault)

-----------------------------------------------------------------------------
(* The inductive invariant behind the theorems of WaitProofs. *)

JobTypes ==
    /\ drv \in Drivers /\ mod \in {"out", "init", "live", "exit"}
    /\ job \in [Jobs -> {"none", "ready", "top", "sleep", "leave", "left",
                         "running", "spin", "wakes", "done"}]
    /\ held \in [Jobs -> BOOLEAN] /\ stop \in [Jobs -> BOOLEAN]
    /\ sig \in [Jobs -> BOOLEAN] /\ fault \in BOOLEAN
    /\ at \in (Jobs \X {"test", "stop", "wait"}) \cup {<<0, "out">>}

(* Only a pointer to a thread faults, in its module's init or exit. *)
FaultInv == fault => drv \in Threaded /\ mod \in {"init", "exit"}

(* The exit of a threaded module has dealt with the thread. *)
Passed(j) == mod = "out" \/ (mod = "exit" /\ at[1] > j)

(* A thread leaves its loop because it is stopped or was killed; it is     *)
(* stopped under the reference of the exit that waits for it; and once the *)
(* exit is past it, it has ended or has yet to call do_exit after a kill.  *)
ThreadInv(j) ==
    /\ job[j] \notin {"running", "spin", "wakes"}
    /\ job[j] \in {"leave", "left", "done"} => stop[j] \/ sig[j]
    /\ job[j] = "left" => drv = "signal2"
    /\ stop[j] => Passed(j) \/ (mod = "exit" /\ at = <<j, "wait">>)
    /\ mod \in {"live", "exit"} =>
          /\ job[j] # "none"
          /\ held[j] \/ (drv = "signal2" /\ job[j] \in {"left", "done"})
    /\ (Passed(j) /\ Busy(j)) =>
          drv = "signal2" /\ job[j] = "left" /\ sig[j]
    /\ mod = "exit" => at[1] \in Jobs

(* Only the first job of a module is used, except for tasklet2; and the    *)
(* init of wait2 goes on when its work is past the sleep, or when it was   *)
(* interrupted.                                                            *)
DeferredInv ==
    /\ job[1] \in {"none", "ready", "running", "spin", "wakes", "done"}
    /\ job[2] \in {"none", "ready", "running", "done"}
    /\ job[1] = "spin" => drv = "tasklet1"
    /\ job[1] = "wakes" => drv = "wait2"
    /\ job[2] # "none" => drv = "tasklet2"
    /\ drv = "wait2" =>
          /\ wait2_condition # 0 => job[1] \in {"wakes", "done"}
          /\ mod \in {"live", "exit"} => job[1] \in {"wakes", "done"} \/ sig[1]

TeardownInv ==
    /\ JobTypes /\ FaultInv /\ LeftBehind /\ DeadTaskWasKilled
    /\ drv \in Threaded => \A j \in Jobs : ThreadInv(j)
    /\ drv \in Deferred => DeferredInv
=============================================================================
