----------------------------- MODULE WaitProofs -----------------------------
(***************************************************************************)
(* Proofs about tasks that wait for each other without a lock: the nine    *)
(* modules of Teardown, whose exit waits for what their init started, and  *)
(* the ring buffer of wait1.c.                                             *)
(***************************************************************************)
EXTENDS Teardown, WaitRing, TLAPS

-----------------------------------------------------------------------------
(* The nine modules.  A module is either threaded or deferred, and stays   *)
(* what it is until the next one is loaded.                                *)

LEMMA DriversAre ==
    ASSUME NEW d \in Drivers
    PROVE  /\ d \in Threaded <=> d \notin Deferred
           /\ d \in Threaded <=> d \in {"thread1", "thread2", "signal2"}
           /\ d \in Killable <=> d \in {"thread2", "signal2"}
  BY DriversAssumption DEF Threaded, Deferred, Killable

(* insmod, when nothing is left of the module before. *)
LEMMA InsmodStep ==
    ASSUME TeardownInv, NEW d \in Drivers, Insmod(d)
    PROVE  TeardownInv'
<1> USE DEF Insmod, All, Jobs
<1>1. JobTypes'
  BY DEF JobTypes, TeardownInv
<1>2. FaultInv' /\ LeftBehind' /\ DeadTaskWasKilled'
  BY DEF FaultInv, LeftBehind, DeadTaskWasKilled
<1>3. \A j \in Jobs : ThreadInv(j)'
  BY DEF ThreadInv, Passed, Busy
<1>4. DeferredInv'
  BY DEF DeferredInv
<1> QED
  BY <1>1, <1>2, <1>3, <1>4 DEF TeardownInv

(* The init of a threaded module. *)
LEMMA StartStep ==
    ASSUME TeardownInv, drv \in Threaded,
           NEW bad \in SUBSET Jobs, NEW woken \in SUBSET Jobs,
           bad = {} => woken = Jobs, StartThreads(bad, woken)
    PROVE  TeardownInv'
<1> USE DEF StartThreads, All, Jobs
<1>0. drv' = drv /\ drv \notin Deferred
  BY DriversAre DEF TeardownInv, JobTypes
<1>1. JobTypes'
  BY DEF JobTypes, TeardownInv
<1>2. FaultInv' /\ DeadTaskWasKilled'
  BY DEF FaultInv, DeadTaskWasKilled
<1>3. ASSUME NEW j \in Jobs
      PROVE  ThreadInv(j)'
  <2>1. ~stop[j] /\ mod' \in {"init", "live"}
    BY DEF TeardownInv, ThreadInv, Passed
  <2>2. job'[j] \in {"none", "ready"} /\ (mod' = "live" => job'[j] = "ready")
    BY DEF TeardownInv
  <2>3. held'[j]
    OBVIOUS
  <2> QED
    BY <2>1, <2>2, <2>3 DEF ThreadInv, Passed, Busy
<1>4. LeftBehind'
  BY DEF LeftBehind
<1> QED
  BY <1>0, <1>1, <1>2, <1>3, <1>4 DEF TeardownInv

(* A thread takes a step of its function. *)
LEMMA FunctionStep ==
    ASSUME TeardownInv, NEW j \in Jobs, ThreadStep(j)
    PROVE  TeardownInv'
<1> DEFINE places == {"ready", "top", "sleep", "leave", "left", "done"}
<1>1. /\ drv \in Threaded
      /\ UNCHANGED <<drv, mod, stop, sig, at, fault>>
  BY DEF ThreadStep, ThreadBegins, thread1_function, Threaded, Killable, Rest,
     thread2_worker_task_handler_fn, worker_task_handler_fn, ClearPointer,
     flags
<1>2. /\ job' = [job EXCEPT ![j] = job'[j]] /\ job[j] \in places \ {"done"}
      /\ job'[j] \in places
      /\ job'[j] \in {"leave", "done"} =>
            \/ stop[j] \/ (sig[j] /\ drv \in Killable)
            \/ job[j] \in {"leave", "left"}
      /\ job'[j] = "left" => drv = "signal2" /\ job[j] = "leave"
      /\ job[j] = "left" => job'[j] = "done"
      /\ held' = [held EXCEPT ![j] = held'[j]]
      /\ held'[j] = held[j] \/ (drv = "signal2" /\ job'[j] = "left"
                                /\ held'[j] = FALSE)
  <2> USE DEF TeardownInv, JobTypes, Move, Jobs
  <2>1. CASE ThreadBegins(j)
    BY <2>1 DEF ThreadBegins, Rest, flags
  <2>2. CASE thread1_function(j)
    BY <2>2 DEF thread1_function, Loop, Rest, flags
  <2>3. CASE thread2_worker_task_handler_fn(j)
    BY <2>3 DEF thread2_worker_task_handler_fn, Loop, Rest, flags, Killable
  <2>4. CASE worker_task_handler_fn(j)
    BY <2>4 DEF worker_task_handler_fn, ClearPointer, Loop, Rest, flags,
       Killable
  <2> QED
    BY <2>1, <2>2, <2>3, <2>4 DEF ThreadStep
<1>3. JobTypes'
  BY <1>1, <1>2 DEF TeardownInv, JobTypes
<1>4. ASSUME NEW i \in Jobs
      PROVE  ThreadInv(i)'
  <2>1. ThreadInv(i) /\ ThreadInv(j)
    BY <1>1 DEF TeardownInv
  <2>2. CASE i # j
    <3>1. job'[i] = job[i] /\ held'[i] = held[i]
      BY <1>2, <2>2 DEF TeardownInv, JobTypes
    <3> QED
      BY <1>1, <2>1, <3>1 DEF ThreadInv, Passed, Busy
  <2>3. CASE i = j
    BY <1>1, <1>2, <2>1, <2>3 DEF ThreadInv, Passed, Busy
  <2> QED
    BY <2>2, <2>3
<1>5. LeftBehind'
  BY <1>1, <1>4 DEF LeftBehind, ThreadInv, Passed, Threaded, Killable
<1>6. DeadTaskWasKilled'
  BY <1>1, <1>2 DEF TeardownInv, JobTypes, DeadTaskWasKilled
<1>7. FaultInv' /\ drv \notin Deferred
  BY <1>1, DriversAre DEF TeardownInv, JobTypes, FaultInv
<1> QED
  BY <1>1, <1>3, <1>4, <1>5, <1>6, <1>7 DEF TeardownInv

(* A signal from user space. *)
LEMMA KillStep ==
    ASSUME TeardownInv, NEW j \in Jobs, Kill(j)
    PROVE  TeardownInv'
<1>1. /\ drv \in Threaded
      /\ UNCHANGED <<drv, mod, job, held, stop, at, fault>>
      /\ sig' = [sig EXCEPT ![j] = TRUE]
  BY DEF Kill, Threaded
<1>2. JobTypes' /\ FaultInv' /\ drv \notin Deferred
  BY <1>1, DriversAre DEF TeardownInv, JobTypes, FaultInv
<1>3. \A i \in Jobs : sig[i] => sig'[i]
  BY <1>1 DEF TeardownInv, JobTypes
<1>4. \A i \in Jobs : ThreadInv(i)'
  BY <1>1, <1>3 DEF TeardownInv, ThreadInv, Passed, Busy
<1>5. LeftBehind' /\ DeadTaskWasKilled'
  BY <1>1, <1>3 DEF TeardownInv, LeftBehind, DeadTaskWasKilled, Busy
<1> QED
  BY <1>1, <1>2, <1>4, <1>5 DEF TeardownInv

(* The exits that stop their threads: each thread is stopped under a       *)
(* reference and waited for, or was killed and has cleared its pointer.    *)
LEMMA StopStep ==
    ASSUME TeardownInv, NEW j \in Jobs,
           cleanup_thread(j) \/ thread2_exit(j) \/ signal2_exit(j)
    PROVE  TeardownInv'
<1>1. /\ drv \in Threaded /\ mod = "exit" /\ ~fault
      /\ UNCHANGED <<drv, job, held, sig>>
  BY DEF cleanup_thread, thread2_exit, signal2_exit, TestAndStop, Threaded,
     Killable
<1>2. \/ StopCall(j)
      \/ \E step \in {"stop", "test"} : StopWait(j, step)
      \/ TestPointer(j)
  BY DEF cleanup_thread, thread2_exit, signal2_exit, TestAndStop
<1>3. \A i \in Jobs : ThreadInv(i)
  BY <1>1 DEF TeardownInv
<1>4. JobTypes /\ drv \notin Deferred
  BY <1>1, DriversAre DEF TeardownInv, JobTypes
<1>5. ASSUME StopCall(j), Busy(j), stop' = [stop EXCEPT ![j] = TRUE],
             at' = <<j, "wait">>, UNCHANGED <<mod, fault>>
      PROVE  TeardownInv'
  <2>0. at = <<j, "stop">>
    BY <1>5 DEF StopCall
  <2>1. JobTypes' /\ FaultInv'
    BY <1>1, <1>4, <1>5 DEF JobTypes, FaultInv
  <2>2. \A i \in Jobs : ThreadInv(i)'
    BY <1>1, <1>3, <1>4, <1>5, <2>0 DEF ThreadInv, Passed, Busy, JobTypes,
       Jobs
  <2>3. LeftBehind' /\ DeadTaskWasKilled'
    BY <1>1, <1>5 DEF LeftBehind, DeadTaskWasKilled
  <2> QED
    BY <1>1, <1>4, <2>1, <2>2, <2>3 DEF TeardownInv
<1>6. ASSUME StopCall(j), ~Busy(j) \/ ~held[j], fault' = TRUE,
             UNCHANGED <<stop, at, mod>>
      PROVE  TeardownInv'
  <2>0. at = <<j, "stop">>
    BY <1>6 DEF StopCall
  <2>1. JobTypes' /\ FaultInv'
    BY <1>1, <1>4, <1>6 DEF JobTypes, FaultInv
  <2>2. \A i \in Jobs : ThreadInv(i)'
    BY <1>1, <1>3, <1>6 DEF ThreadInv, Passed, Busy
  <2>3. sig[j] /\ ~stop[j] /\ job[j] \in {"left", "done"}
    BY <1>1, <1>3, <1>4, <1>6, <2>0 DEF ThreadInv, Passed, Busy, JobTypes,
       Jobs
  <2>4. LeftBehind' /\ DeadTaskWasKilled'
    BY <1>1, <1>6, <2>3 DEF LeftBehind, DeadTaskWasKilled
  <2> QED
    BY <1>1, <1>4, <2>1, <2>2, <2>4 DEF TeardownInv
<1>7. ASSUME NEW step \in {"stop", "test"}, Onward(j, step),
             UNCHANGED <<stop, fault>>,
             at \in {<<j, "wait">>, <<j, "test">>},
             job[j] = "done" \/ (drv = "signal2" /\ job[j] = "left" /\ sig[j])
      PROVE  TeardownInv'
  <2>1. JobTypes' /\ FaultInv'
    BY <1>1, <1>4, <1>7 DEF JobTypes, FaultInv, Onward, Jobs
  <2>2. mod' \in {"exit", "out"} /\ (mod' = "exit" => at'[1] = 2 /\ j = 1)
    BY <1>1, <1>7 DEF Onward
  <2>3. ASSUME NEW i \in Jobs
        PROVE  ThreadInv(i)'
    <3>1. Passed(i)' <=> (i = j \/ Passed(i))
      BY <1>1, <1>4, <1>7 DEF Passed, Onward, Jobs, JobTypes
    <3>2. (stop[i] => Passed(i)') /\ (mod' = "exit" => at'[1] \in Jobs)
      BY <1>1, <1>3, <1>7, <2>2, <3>1 DEF ThreadInv, Jobs
    <3>3. (Passed(i)' /\ Busy(i)) =>
             drv = "signal2" /\ job[i] = "left" /\ sig[i]
      BY <1>3, <1>7, <3>1 DEF ThreadInv, Busy
    <3> QED
      BY <1>1, <1>3, <1>7, <2>2, <3>2, <3>3 DEF ThreadInv, Busy
  <2>4. LeftBehind'
    BY <1>1, <2>3 DEF LeftBehind, ThreadInv, Passed, Threaded, Killable
  <2>5. DeadTaskWasKilled'
    BY <1>1, <1>7 DEF DeadTaskWasKilled
  <2> QED
    BY <1>1, <1>4, <2>1, <2>3, <2>4, <2>5 DEF TeardownInv
<1>8. ASSUME at = <<j, "test">>, held[j], at' = <<j, "stop">>,
             UNCHANGED <<mod, stop, fault>>
      PROVE  TeardownInv'
  <2>1. JobTypes' /\ FaultInv'
    BY <1>1, <1>4, <1>8 DEF JobTypes, FaultInv
  <2>2. \A i \in Jobs : ThreadInv(i)'
    BY <1>1, <1>3, <1>4, <1>8 DEF ThreadInv, Passed, Busy, JobTypes, Jobs
  <2>3. LeftBehind' /\ DeadTaskWasKilled'
    BY <1>1, <1>8 DEF LeftBehind, DeadTaskWasKilled
  <2> QED
    BY <1>1, <1>4, <2>1, <2>2, <2>3 DEF TeardownInv
<1>9. CASE TestPointer(j)
  <2>1. CASE held[j]
    BY <1>8, <1>9, <2>1 DEF TestPointer
  <2>2. CASE ~held[j]
    <3>1. job[j] = "done" \/ (drv = "signal2" /\ job[j] = "left" /\ sig[j])
      BY <1>1, <1>3, <1>4, <1>9, <2>2 DEF TestPointer, ThreadInv, Passed,
         Busy, JobTypes, Jobs
    <3> QED
      BY <1>7, <1>9, <2>2, <3>1 DEF TestPointer
  <2> QED
    BY <2>1, <2>2
<1> QED
  BY <1>2, <1>5, <1>6, <1>7, <1>9 DEF StopCall, StopWait

(* rmmod starts an exit. *)
LEMMA RmmodStep ==
    ASSUME TeardownInv, Rmmod
    PROVE  TeardownInv'
<1>1. /\ mod = "live" /\ mod' = "exit" /\ at'[1] = 1
      /\ at' \in {<<1, "test">>, <<1, "stop">>}
      /\ UNCHANGED <<drv, job, held, stop, sig, wait2_condition, fault>>
  BY DEF Rmmod
<1>2. ~fault
  BY <1>1 DEF TeardownInv, FaultInv
<1>3. JobTypes'
  BY <1>1 DEF TeardownInv, JobTypes, Jobs
<1>4. FaultInv' /\ LeftBehind' /\ DeadTaskWasKilled'
  BY <1>1, <1>2 DEF FaultInv, LeftBehind, DeadTaskWasKilled
<1>5. drv \in Threaded => \A j \in Jobs : ThreadInv(j)'
  BY <1>1 DEF TeardownInv, ThreadInv, Passed, Busy, Jobs
<1>6. drv \in Deferred => DeferredInv'
  BY <1>1 DEF TeardownInv, DeferredInv
<1> QED
  BY <1>1, <1>3, <1>4, <1>5, <1>6 DEF TeardownInv

(* A handler, the timer interrupt or the work function takes a step. *)
LEMMA HandlersStep ==
    ASSUME TeardownInv, HandlerStep
    PROVE  TeardownInv'
<1>1. /\ drv \in Deferred
      /\ UNCHANGED <<drv, mod, held, stop, sig, at, fault>>
  BY DEF HandlerStep, HandlerBegins, my_timer_callback, my_hrtimer_callback,
     my_tasklet_handler, ISR_handler, tasklet_demo_handle, tasklet_function,
     work_handler, Returns, Rest, flags, Deferred
<1>2. drv \notin Threaded /\ ~fault
  BY <1>1, DriversAre DEF TeardownInv, JobTypes, FaultInv
<1>3. DeferredInv /\ LeftBehind /\ JobTypes
  BY <1>1 DEF TeardownInv
<1>4. JobTypes' /\ DeferredInv' /\ LeftBehind'
  <2> USE <1>1, <1>2, <1>3 DEF JobTypes, DeferredInv, LeftBehind, Busy, Move,
          Rest, flags, Jobs
  <2>1. ASSUME NEW j \in Jobs, HandlerBegins(j)
        PROVE  JobTypes' /\ DeferredInv' /\ LeftBehind'
    BY <2>1 DEF HandlerBegins
  <2>2. CASE my_timer_callback \/ my_hrtimer_callback \/ tasklet_function
    BY <2>2 DEF my_timer_callback, my_hrtimer_callback, tasklet_function,
       Returns
  <2>3. CASE tasklet_demo_handle \/ ISR_handler
    BY <2>3 DEF tasklet_demo_handle, ISR_handler, Returns
  <2>4. CASE my_tasklet_handler
    BY <2>4 DEF my_tasklet_handler
  <2>5. CASE work_handler
    BY <2>5 DEF work_handler
  <2> QED
    BY <2>1, <2>2, <2>3, <2>4, <2>5 DEF HandlerStep
<1>5. FaultInv' /\ DeadTaskWasKilled'
  BY <1>1, <1>2 DEF FaultInv, DeadTaskWasKilled
<1> QED
  BY <1>1, <1>2, <1>4, <1>5 DEF TeardownInv

(* The init of a deferred module, and a signal to the one that sleeps. *)
LEMMA ArmStep ==
    ASSUME TeardownInv,
           \/ timer1_init \/ hrt_init \/ tasklet1_init \/ tasklet2_init
           \/ tasklet3_init \/ wait2_schedule \/ wait2_wait \/ Interrupt
    PROVE  TeardownInv'
<1>1. /\ drv \in Deferred /\ mod = "init" /\ mod' \in {"init", "live"}
      /\ UNCHANGED <<drv, held, stop, at, wait2_condition, fault>>
  BY DEF timer1_init, hrt_init, tasklet1_init, tasklet2_init, tasklet3_init,
     wait2_schedule, wait2_wait, Interrupt, Arm, Rest, flags, Deferred
<1>2. drv \notin Threaded /\ ~fault
  BY <1>1, DriversAre DEF TeardownInv, JobTypes, FaultInv
<1>3. DeferredInv /\ JobTypes
  BY <1>1 DEF TeardownInv
<1>4. JobTypes' /\ DeferredInv'
  <2> USE <1>1, <1>2, <1>3 DEF JobTypes, DeferredInv, Move, Rest, flags, Jobs
  <2>1. ASSUME NEW d \in Deferred \ {"wait2"}, Arm(d)
        PROVE  JobTypes' /\ DeferredInv'
    BY <2>1 DEF Arm
  <2>2. CASE wait2_schedule
    BY <2>2 DEF wait2_schedule
  <2>3. CASE wait2_wait
    BY <2>3 DEF wait2_wait
  <2>4. CASE Interrupt
    BY <2>4 DEF Interrupt
  <2> QED
    BY <2>1, <2>2, <2>3, <2>4 DEF timer1_init, hrt_init, tasklet1_init,
       tasklet2_init, tasklet3_init, Deferred
<1>5. FaultInv' /\ LeftBehind' /\ DeadTaskWasKilled'
  BY <1>1, <1>2 DEF FaultInv, LeftBehind, DeadTaskWasKilled
<1> QED
  BY <1>1, <1>2, <1>4, <1>5 DEF TeardownInv

(* The exit of a deferred module. *)
LEMMA LeaveStep ==
    ASSUME TeardownInv,
           \/ timer1_exit \/ hrt_cleanup \/ tasklet1_exit \/ tasklet2_exit
           \/ tasklet3_exit \/ wait2_exit, ~UNCHANGED vars
    PROVE  TeardownInv'
<1>1. /\ drv \in Deferred /\ mod = "exit" /\ mod' = "out"
      /\ UNCHANGED <<drv, held, stop, sig, at, wait2_condition, fault>>
  BY DEF timer1_exit, hrt_cleanup, tasklet1_exit, tasklet2_exit,
     tasklet3_exit, wait2_exit, TaskletKill, Leave, flags, Deferred
<1>2. drv \notin Threaded /\ ~fault
  BY <1>1, DriversAre DEF TeardownInv, JobTypes, FaultInv
<1>3. DeferredInv /\ JobTypes
  BY <1>1 DEF TeardownInv
<1>4. JobTypes' /\ DeferredInv' /\ LeftBehind'
  <2> USE <1>1, <1>2, <1>3 DEF JobTypes, DeferredInv, LeftBehind, Busy, Leave,
          Disarm, Jobs
  <2>1. CASE timer1_exit \/ hrt_cleanup \/ tasklet2_exit
    BY <2>1 DEF timer1_exit, hrt_cleanup, tasklet2_exit
  <2>2. CASE tasklet1_exit \/ tasklet3_exit
    BY <2>2 DEF tasklet1_exit, tasklet3_exit, TaskletKill
  <2>3. CASE wait2_exit
    BY <2>3 DEF wait2_exit
  <2> QED
    BY <2>1, <2>2, <2>3
<1>5. FaultInv' /\ DeadTaskWasKilled'
  BY <1>1, <1>2 DEF FaultInv, DeadTaskWasKilled
<1> QED
  BY <1>1, <1>2, <1>4, <1>5 DEF TeardownInv

(* The inductive invariant of the nine modules.                            *)
THEOREM TeardownInvariance == Spec => []TeardownInv
<1>1. Init => TeardownInv
  <2> SUFFICES ASSUME Init
               PROVE  TeardownInv
    OBVIOUS
  <2> USE DEF Init, All, Jobs
  <2>1. JobTypes /\ FaultInv
    BY DEF JobTypes, FaultInv
  <2>2. LeftBehind /\ DeadTaskWasKilled /\ DeferredInv
    BY DEF LeftBehind, DeadTaskWasKilled, DeferredInv, Busy
  <2>3. \A j \in Jobs : ThreadInv(j)
    BY DEF ThreadInv, Busy
  <2> QED
    BY <2>1, <2>2, <2>3 DEF TeardownInv
<1>2. TeardownInv /\ [Next]_vars => TeardownInv'
  <2> SUFFICES ASSUME TeardownInv, Next, ~UNCHANGED vars
               PROVE  TeardownInv'
    <3>1. ASSUME TeardownInv, UNCHANGED vars
          PROVE  TeardownInv'
      BY <3>1 DEF vars, TeardownInv, JobTypes, FaultInv, LeftBehind,
         DeadTaskWasKilled, ThreadInv, DeferredInv, Passed, Busy
    <3> QED
      BY <3>1
  <2>1. ASSUME NEW bad \in SUBSET Jobs,
               thread1_init(bad) \/ thread2_init(bad) \/ signal2_init(bad)
        PROVE  TeardownInv'
    <3>1. PICK woken \in SUBSET Jobs :
             (bad = {} => woken = Jobs) /\ StartThreads(bad, woken)
      BY <2>1 DEF thread1_init, thread2_init, signal2_init, WokenInTurn
    <3>2. drv \in Threaded
      BY <2>1 DEF thread1_init, thread2_init, signal2_init, Threaded, Killable
    <3> QED
      BY <3>1, <3>2, StartStep
  <2>2. CASE ModuleInit
    BY <2>1, <2>2, ArmStep DEF ModuleInit
  <2>3. CASE ModuleExit
    BY <2>3, StopStep, LeaveStep DEF ModuleExit
  <2>4. ASSUME NEW j \in Jobs, ThreadStep(j) \/ Kill(j)
        PROVE  TeardownInv'
    BY <2>4, FunctionStep, KillStep
  <2> QED
    BY <2>2, <2>3, <2>4, InsmodStep, RmmodStep, HandlersStep, ArmStep
       DEF Next, Spin, Crashed
<1> QED
  BY <1>1, <1>2, PTL DEF Spec

(* Once an exit has returned nothing of its module runs or is going to,    *)
(* but for the cases listed: kthread_stop, hrtimer_cancel, del_timer_sync  *)
(* and tasklet_kill are enough for what they are used on.                  *)
THEOREM NothingElseLeft == Spec => []LeftBehind
<1>1. TeardownInv => LeftBehind
  BY DEF TeardownInv
<1> QED
  BY <1>1, TeardownInvariance, PTL

(* kthread_stop meets a thread that has ended only if it was killed.       *)
THEOREM StopMeetsTheLiving == Spec => []DeadTaskWasKilled
<1>1. TeardownInv => DeadTaskWasKilled
  BY DEF TeardownInv
<1> QED
  BY <1>1, TeardownInvariance, PTL

-----------------------------------------------------------------------------
(* The ring buffer with one writer and one reader.  Remainders first. *)

LEMMA Remainder ==
    ASSUME NEW x \in Nat
    PROVE  \E q \in Int, b \in 0 .. RINGSIZE - 1 :
              x = RINGSIZE * q + b /\ x % RINGSIZE = b
<1> DEFINE q == x \div RINGSIZE
           b == x % RINGSIZE
           m == RINGSIZE * q
<1>1. b \in 0 .. RINGSIZE - 1
  BY RingAssumption
<1>2. q \in Int
  BY RingAssumption
<1>3. b = x - m
  BY RingAssumption
<1> HIDE DEF q, b
<1>4. m \in Int
  BY <1>2, RingAssumption
<1> HIDE DEF m
<1>5. x = m + b
  BY <1>1, <1>3, <1>4
<1> QED
  BY <1>1, <1>2, <1>5, Zenon DEF m, b

LEMMA RemainderOf ==
    ASSUME NEW x \in Nat, NEW q \in Int, NEW b \in 0 .. RINGSIZE - 1,
           x = RINGSIZE * q + b
    PROVE  x % RINGSIZE = b
  BY RingAssumption

(* The index after an index, ... *)
LEMMA NextIndex ==
    ASSUME NEW x \in Nat
    PROVE  (x + 1) % RINGSIZE = IF x % RINGSIZE = RINGSIZE - 1 THEN 0
                                ELSE (x % RINGSIZE) + 1
<1>1. PICK q \in Int, b \in 0 .. RINGSIZE - 1 :
         x = RINGSIZE * q + b /\ x % RINGSIZE = b
  BY Remainder
<1>2. RINGSIZE * (q + 1) = RINGSIZE * q + RINGSIZE /\ RINGSIZE * q \in Int
  BY <1>1, RingAssumption
<1>3. CASE b = RINGSIZE - 1
  <2>1. x + 1 = RINGSIZE * (q + 1) + 0 /\ x + 1 \in Nat /\ q + 1 \in Int
    BY <1>1, <1>2, <1>3, RingAssumption
  <2>2. 0 \in 0 .. RINGSIZE - 1
    BY RingAssumption
  <2>3. (x + 1) % RINGSIZE = 0
    BY <2>1, <2>2, RemainderOf
  <2> QED
    BY <1>1, <1>3, <2>3
<1>4. CASE b # RINGSIZE - 1
  <2>1. x + 1 = RINGSIZE * q + (b + 1) /\ x + 1 \in Nat
    BY <1>1, <1>2, RingAssumption
  <2>2. b + 1 \in 0 .. RINGSIZE - 1
    BY <1>1, <1>4, RingAssumption
  <2>3. (x + 1) % RINGSIZE = b + 1
    BY <1>1, <2>1, <2>2, RemainderOf
  <2> QED
    BY <1>1, <1>4, <2>3
<1> QED
  BY <1>3, <1>4

(* ... and the same index after a turn; but no two are the same within it. *)
LEMMA SameIndex ==
    ASSUME NEW x \in Nat, NEW y \in Nat, x <= y, y - x <= RINGSIZE
    PROVE  x % RINGSIZE = y % RINGSIZE <=> (y = x \/ y = x + RINGSIZE)
<1>1. PICK p \in Int, a \in 0 .. RINGSIZE - 1 :
         x = RINGSIZE * p + a /\ x % RINGSIZE = a
  BY Remainder
<1>2. PICK q \in Int, b \in 0 .. RINGSIZE - 1 :
         y = RINGSIZE * q + b /\ y % RINGSIZE = b
  BY Remainder
<1>3. ASSUME y = x + RINGSIZE
      PROVE  y % RINGSIZE = a
  <2>1. RINGSIZE * (p + 1) = RINGSIZE * p + RINGSIZE /\ RINGSIZE * p \in Int
    BY <1>1, RingAssumption
  <2>2. y = RINGSIZE * (p + 1) + a /\ p + 1 \in Int
    BY <1>1, <1>3, <2>1, RingAssumption
  <2> QED
    BY <1>1, <2>2, RemainderOf
<1>4. ASSUME a = b
      PROVE  y = x \/ y = x + RINGSIZE
  <2>1. RINGSIZE * (q - p) = RINGSIZE * q - RINGSIZE * p
    BY <1>1, <1>2, RingAssumption
  <2>2. RINGSIZE * p \in Int /\ RINGSIZE * q \in Int
    BY <1>1, <1>2, RingAssumption
  <2>3. y - x = RINGSIZE * (q - p)
    BY <1>1, <1>2, <1>4, <2>1, <2>2
  <2> DEFINE k == q - p
  <2>4. k \in Int /\ y - x = RINGSIZE * k
    BY <1>1, <1>2, <2>3
  <2> HIDE DEF k
  <2>5. RINGSIZE * k >= 0 /\ RINGSIZE * k <= RINGSIZE
    BY <2>4
  <2>6. k = 0 \/ k = 1
    <3>1. CASE k >= 2
      <4>1. RINGSIZE * k >= RINGSIZE * 2
        BY <2>4, <3>1, RingAssumption
      <4> QED
        BY <2>4, <2>5, <4>1, RingAssumption
    <3>2. CASE k <= -1
      <4>1. RINGSIZE * k <= RINGSIZE * (-1)
        BY <2>4, <3>2, RingAssumption
      <4> QED
        BY <2>4, <2>5, <4>1, RingAssumption
    <3> QED
      BY <2>4, <3>1, <3>2
  <2> QED
    BY <2>4, <2>6, RingAssumption
<1> QED
  BY <1>1, <1>2, <1>3, <1>4

(* The counts of one writer and one reader. *)
LEMMA Counts ==
    ASSUME NEW w, NEW r, Writers = {w}, Readers = {r}
    PROVE  /\ Stored = IF pc[w] \in Moving THEN written - 1 ELSE written
           /\ Taken = IF pc[r] \in Moving THEN last - 1 ELSE last
           /\ Stored' = IF pc'[w] \in Moving THEN written' - 1 ELSE written'
           /\ Taken' = IF pc'[r] \in Moving THEN last' - 1 ELSE last'
           /\ w # r /\ Tasks = {w, r}
  BY RingAssumption DEF Stored, Taken, Tasks

(* What the invariant says in numbers. *)
LEMMA CountBounds ==
    ASSUME NEW w, NEW r, Writers = {w}, Readers = {r}, RingInv
    PROVE  /\ Stored \in Nat /\ written \in Nat /\ last \in Nat
           /\ Stored <= written /\ written <= Stored + 1
           /\ ~overrun => /\ Taken \in Nat /\ Taken <= Stored
                          /\ written - Taken < RINGSIZE
<1>1. Stored \in Nat /\ written \in Nat /\ last \in Nat
  BY DEF RingInv, IndexInv, TypeOK
<1>2. Stored = written - 1 \/ Stored = written
  BY Counts
<1>3. ~overrun => Taken \in Nat /\ Taken <= Stored
                  /\ written - Taken < RINGSIZE
  BY DEF RingInv, ContentInv
<1> QED
  BY <1>1, <1>2, <1>3

(* A step in which the writer stays where it is, or in its loop, leaves    *)
(* the room that it has seen: the reader only makes more.                  *)
LEMMA RoomKept ==
    ASSUME NEW w, NEW r, Writers = {w}, Readers = {r}, RingInv, ~overrun,
           seen'[w] = seen[w], written' = written, Taken' \in Nat,
           Taken <= Taken', pc'[w] \in Looping => pc[w] \in Looping,
           pc'[w] = "move" => pc[w] = "move"
    PROVE  RoomInv'
<1> SUFFICES ASSUME seen[w] # -1
             PROVE  /\ pc'[w] \in Looping =>
                          \E h \in 1 .. Taken' :
                              /\ seen[w] = (h - 1) % RINGSIZE
                              /\ written - h < RINGSIZE
                    /\ pc'[w] = "move" => written - Taken' < RINGSIZE - 1
  BY DEF RoomInv
<1>0. Taken \in Nat /\ written \in Nat
  BY CountBounds
<1>1. CASE pc'[w] \in Looping
  <2>1. PICK h \in 1 .. Taken : /\ seen[w] = (h - 1) % RINGSIZE
                                /\ written - h < RINGSIZE
    BY <1>1 DEF RingInv, RoomInv
  <2>2. h \in 1 .. Taken'
    BY <1>0, <2>1
  <2>3. pc'[w] # "move"
    BY <1>1 DEF Looping
  <2> QED
    BY <2>1, <2>2, <2>3
<1>2. CASE pc'[w] = "move"
  <2>1. written - Taken < RINGSIZE - 1
    BY <1>2 DEF RingInv, RoomInv
  <2>2. \A a, b, c \in Nat : a - b < RINGSIZE - 1 /\ b <= c =>
                               a - c < RINGSIZE - 1
    BY RingAssumption
  <2>3. written - Taken' < RINGSIZE - 1
    BY <1>0, <2>1, <2>2
  <2> QED
    BY <1>2, <2>3 DEF Looping
<1> QED
  BY <1>1, <1>2

(* A step that moves neither a byte nor an index. *)
LEMMA QuietStep ==
    ASSUME NEW w, NEW r, Writers = {w}, Readers = {r}, RingInv, TypeOK',
           UNCHANGED <<head, tail, ring, history>>,
           pc'[w] \in Moving <=> pc[w] \in Moving,
           pc'[r] \in Moving <=> pc[r] \in Moving,
           pc'[w] = "store" => seen'[w] = tail,
           pc'[r] \in Looping \cup {"move", "store"} => seen'[r] = head,
           pc'[r] = "move" => pc[r] = "move" \/ head # tail,
           ~overrun => RoomInv'
    PROVE  RingInv'
<1>1. Stored' = Stored /\ Taken' = Taken
  BY Counts DEF history
<1>2. IndexInv'
  BY <1>1 DEF RingInv, IndexInv
<1>3. ASSUME ~overrun
      PROVE  ContentInv'
  <2>1. pc'[r] \in Moving \cup {"move"} => Taken < Stored
    <3>1. CASE pc[r] \in Moving \cup {"move"}
      BY <1>3, <3>1 DEF RingInv, ContentInv
    <3>2. CASE head # tail
      <4>1. Taken # Stored
        BY <1>3, <3>2 DEF RingInv, ContentInv, IndexInv
      <4>2. Taken \in Nat /\ Stored \in Nat /\ Taken <= Stored
        BY <1>3, CountBounds
      <4> QED
        BY <4>1, <4>2
    <3> QED
      BY <3>1, <3>2
  <2> QED
    BY <1>1, <1>3, <2>1 DEF RingInv, ContentInv, history
<1> QED
  BY <1>2, <1>3 DEF RingInv, history

(* prev is the index before head, or -1 for the first one. *)
LEMMA PrevIs ==
    ASSUME NEW i \in 0 .. RINGSIZE - 1
    PROVE  CMod(i - 1, RINGSIZE) = i - 1
<1>1. CASE i = 0
  <2>1. 1 % RINGSIZE = 1
    BY RingAssumption
  <2>2. -(i - 1) = 1 /\ ~(i - 1 >= 0) /\ i - 1 = 0 - 1 /\ -1 = 0 - 1
    <3>1. \A x \in Int : -x = 0 - x
      OBVIOUS
    <3>2. i - 1 \in Int /\ 0 - (i - 1) = 1
      BY <1>1
    <3>3. -(i - 1) = 0 - (i - 1)
      BY <3>1, <3>2, Zenon
    <3> QED
      BY <1>1, <3>2, <3>3
  <2>3. CMod(i - 1, RINGSIZE) = -(1 % RINGSIZE)
    BY <2>2, Zenon DEF CMod
  <2> QED
    BY <2>1, <2>2, <2>3
<1>2. CASE i # 0
  <2>1. i - 1 \in Nat /\ i - 1 < RINGSIZE
    BY <1>2, RingAssumption
  <2>2. (i - 1) % RINGSIZE = i - 1
    BY <2>1, RingAssumption
  <2> QED
    BY <2>1, <2>2 DEF CMod
<1> QED
  BY <1>1, <1>2

(* Type correctness. *)
LEMMA RingTypesStep ==
    ASSUME TypeOK, [RingNext]_ringvars
    PROVE  TypeOK'
<1> USE DEF TypeOK, globals, history, Goto, Pc
<1>1. ASSUME NEW t \in Tasks, Call(t)
      PROVE  TypeOK'
  <2>1. CMod(head - 1, RINGSIZE) \in -1 .. RINGSIZE - 1
    BY PrevIs, RingAssumption
  <2> QED
    BY <1>1, <2>1, RingAssumption DEF Call
<1>2. ASSUME NEW t \in Tasks,
             Test(t) \/ Reset(t) \/ Wait(t) \/ Signal(t) \/ Fault(t)
      PROVE  TypeOK'
  BY <1>2 DEF Test, Reset, Wait, Signal, Fault
<1>3. ASSUME NEW t \in Tasks, MoveByte(t)
      PROVE  TypeOK'
  <2>1. overrun' \in BOOLEAN
    BY <1>3, Zenon DEF MoveByte
  <2>2. written + 1 \in Nat
    OBVIOUS
  <2>3. ring' \in [0 .. RINGSIZE - 1 -> Nat]
    BY <1>3, <2>2 DEF MoveByte
  <2>4. written' \in Nat /\ last' \in Nat
    BY <1>3, <2>2 DEF MoveByte, Take
  <2> QED
    BY <1>3, <2>1, <2>3, <2>4 DEF MoveByte
<1>4. ASSUME NEW t \in Tasks, Load(t)
      PROVE  TypeOK'
  BY <1>4, RingAssumption DEF Load
<1>5. ASSUME NEW t \in Tasks, Store(t)
      PROVE  TypeOK'
  <2>1. 1 + seen[t] \in Nat
    BY RingAssumption
  <2>2. (1 + seen[t]) % RINGSIZE \in 0 .. RINGSIZE - 1
    BY <2>1, RingAssumption
  <2> QED
    BY <1>5, <2>2 DEF Store
<1>6. ASSUME NEW t \in Tasks, SetCondition(t) \/ Wake(t)
      PROVE  TypeOK'
  BY <1>6 DEF SetCondition, Wake
<1>7. CASE UNCHANGED ringvars
  BY <1>7 DEF ringvars
<1> QED
  BY <1>1, <1>2, <1>3, <1>4, <1>5, <1>6, <1>7 DEF RingNext, Step

(* The writer, up to its copying of the byte: prev, and the loop. *)
LEMMA WriterWaits ==
    ASSUME NEW w, NEW r, Writers = {w}, Readers = {r}, RingInv, TypeOK',
           \/ Call(w) \/ Test(w) \/ Reset(w) \/ Wait(w) \/ Signal(w)
           \/ Fault(w)
    PROVE  RingInv'
<1>0. w # r /\ w \in Tasks /\ r \in Tasks /\ w \in Writers
  BY Counts
<1>1. /\ UNCHANGED <<head, tail, ring, history>>
      /\ pc' = [pc EXCEPT ![w] = pc'[w]]
      /\ pc[w] \notin Moving /\ pc'[w] \notin Moving
  <2> USE <1>0 DEF RingInv, TypeOK, Goto, globals, Moving
  <2>1. CASE Call(w) \/ Test(w) \/ Reset(w)
    BY <2>1 DEF Call, Test, Reset
  <2>2. CASE Wait(w) \/ Signal(w) \/ Fault(w)
    BY <2>2 DEF Wait, Signal, Fault
  <2> QED
    BY <2>1, <2>2
<1>2. pc'[r] = pc[r] /\ seen'[r] = seen[r]
  <2>1. seen' = [seen EXCEPT ![w] = seen'[w]]
    BY <1>0 DEF Call, Test, Reset, Wait, Signal, Fault, RingInv, TypeOK
  <2> QED
    BY <1>0, <1>1, <2>1 DEF RingInv, TypeOK
<1>3. pc'[r] \in Looping \cup {"move", "store"} => seen'[r] = head
  BY <1>2 DEF RingInv, IndexInv
<1>4. ASSUME ~overrun
      PROVE  RoomInv'
  <2>0. /\ Taken \in Nat /\ written \in Nat /\ Stored = written
        /\ Taken' = Taken /\ written' = written /\ Taken <= written
        /\ written - Taken < RINGSIZE /\ head = Taken % RINGSIZE
        /\ tail = written % RINGSIZE
    BY <1>1, <1>2, <1>4, Counts, CountBounds DEF RingInv, ContentInv,
       IndexInv, history
  <2>1. Taken' \in Nat /\ Taken <= Taken'
    BY <2>0
  <2>2. CASE Call(w)
    <3>1. pc'[w] = "test" /\ seen'[w] = CMod(head - 1, RINGSIZE)
      BY <1>0, <2>2 DEF Call, Goto, RingInv, TypeOK
    <3>2. head \in 0 .. RINGSIZE - 1
      BY DEF RingInv, TypeOK
    <3>3. seen'[w] = head - 1
      BY <3>1, <3>2, PrevIs
    <3>4. CASE head = 0
      <4>1. seen'[w] = -1
        BY <3>3, <3>4
      <4> QED
        BY <4>1 DEF RoomInv
    <3>5. CASE head # 0
      <4>1. Taken # 0
        BY <2>0, <3>5, RingAssumption
      <4>2. Taken - 1 \in Nat /\ (Taken - 1) + 1 = Taken
            /\ Taken \in 1 .. Taken
        BY <2>0, <4>1
      <4>3. Taken % RINGSIZE = IF (Taken - 1) % RINGSIZE = RINGSIZE - 1 THEN 0
                               ELSE ((Taken - 1) % RINGSIZE) + 1
        BY <4>2, NextIndex
      <4>4. (Taken - 1) % RINGSIZE \in Nat
        BY <4>2, RingAssumption
      <4>5. seen'[w] = (Taken - 1) % RINGSIZE
        BY <2>0, <3>2, <3>3, <3>5, <4>3, <4>4
      <4>6. \E h \in 1 .. Taken' : /\ seen'[w] = (h - 1) % RINGSIZE
                                   /\ written' - h < RINGSIZE
        BY <2>0, <4>2, <4>5
      <4> QED
        BY <3>1, <4>6 DEF RoomInv
    <3> QED
      BY <3>4, <3>5
  <2>3. CASE Test(w)
    <3>1. /\ seen' = seen /\ pc[w] = "test"
          /\ pc'[w] = IF seen[w] = tail THEN "reset" ELSE "move"
      BY <1>0, <2>3 DEF Test, Goto, RingInv, TypeOK
    <3>2. CASE seen[w] = tail \/ seen[w] = -1
      <4>1. pc'[w] \in Looping => pc[w] \in Looping
        BY <3>1 DEF Looping
      <4>2. CASE seen[w] = tail
        <5>1. pc'[w] # "move"
          BY <3>1, <4>2
        <5> QED
          BY <1>4, <2>0, <2>1, <3>1, <4>1, <5>1, RoomKept
      <4>3. CASE seen[w] = -1
        BY <3>1, <4>3 DEF RoomInv
      <4> QED
        BY <3>2, <4>2, <4>3
    <3>3. CASE seen[w] # tail /\ seen[w] # -1
      <4>1. PICK h \in 1 .. Taken : /\ seen[w] = (h - 1) % RINGSIZE
                                    /\ written - h < RINGSIZE
        BY <1>4, <3>1, <3>3 DEF RingInv, RoomInv, Looping
      <4>2. /\ h - 1 \in Nat /\ h - 1 <= written
            /\ written - (h - 1) <= RINGSIZE
        BY <2>0, <4>1, RingAssumption
      <4>3. written # h - 1 + RINGSIZE
        BY <2>0, <3>3, <4>1, <4>2, SameIndex
      <4>4. written - Taken < RINGSIZE - 1
        BY <2>0, <4>1, <4>2, <4>3, RingAssumption
      <4> QED
        BY <2>0, <3>1, <3>3, <4>4 DEF RoomInv, Looping
    <3> QED
      BY <3>2, <3>3
  <2>4. CASE Reset(w) \/ Wait(w) \/ Signal(w) \/ Fault(w)
    <3>1. /\ seen' = seen /\ pc'[w] # "move"
          /\ pc'[w] \in Looping => pc[w] \in Looping
      BY <1>0, <2>4 DEF Reset, Wait, Signal, Fault, Goto, RingInv, TypeOK,
         Looping
    <3> QED
      BY <1>4, <2>0, <2>1, <3>1, RoomKept
  <2> QED
    BY <2>2, <2>3, <2>4
<1>5. /\ pc'[w] \in Moving <=> pc[w] \in Moving
      /\ pc'[r] \in Moving <=> pc[r] \in Moving
      /\ pc'[w] = "store" => seen'[w] = tail
      /\ pc'[r] = "move" => pc[r] = "move" \/ head # tail
  BY <1>1, <1>2 DEF Moving
<1> QED
  BY <1>1, <1>3, <1>4, <1>5, QuietStep

(* The reader, up to its copying of the byte. *)
LEMMA ReaderWaits ==
    ASSUME NEW w, NEW r, Writers = {w}, Readers = {r}, RingInv, TypeOK',
           \/ Call(r) \/ Test(r) \/ Reset(r) \/ Wait(r) \/ Signal(r)
           \/ Fault(r)
    PROVE  RingInv'
<1>0. w # r /\ w \in Tasks /\ r \in Tasks /\ r \notin Writers
  BY Counts
<1>1. /\ UNCHANGED <<head, tail, ring, history>>
      /\ pc' = [pc EXCEPT ![r] = pc'[r]]
      /\ seen' = [seen EXCEPT ![r] = seen'[r]]
      /\ pc[r] \notin Moving /\ pc'[r] \notin Moving
      /\ pc'[r] \in Looping \cup {"move"} => seen'[r] = head
      /\ pc'[r] = "move" => head # tail
  <2>1. pc[r] \in Looping \cup {"move"} => seen[r] = head
    BY DEF RingInv, IndexInv
  <2> USE <1>0, <2>1 DEF RingInv, TypeOK, Goto, globals, Moving, Looping
  <2>2. CASE Call(r) \/ Test(r) \/ Reset(r)
    BY <2>2 DEF Call, Test, Reset
  <2>3. CASE Wait(r) \/ Signal(r) \/ Fault(r)
    BY <2>3 DEF Wait, Signal, Fault
  <2> QED
    BY <2>2, <2>3
<1>2. pc'[w] = pc[w] /\ seen'[w] = seen[w]
  BY <1>0, <1>1 DEF RingInv, TypeOK
<1>3. ~overrun => RoomInv'
  <2>1. ASSUME ~overrun
        PROVE  Taken' \in Nat /\ Taken <= Taken'
    <3>1. Taken' = Taken /\ Taken \in Nat
      BY <1>1, <2>1, Counts, CountBounds DEF history
    <3> QED
      BY <3>1
  <2> QED
    BY <1>1, <1>2, <2>1, RoomKept DEF history
<1>4. /\ pc'[w] \in Moving <=> pc[w] \in Moving
      /\ pc'[r] \in Moving <=> pc[r] \in Moving
      /\ pc'[w] = "store" => seen'[w] = tail
      /\ pc'[r] = "move" => pc[r] = "move" \/ head # tail
      /\ pc'[r] \in Looping \cup {"move", "store"} => seen'[r] = head
  BY <1>1, <1>2 DEF Moving, RingInv, IndexInv
<1> QED
  BY <1>1, <1>3, <1>4, QuietStep

(* A task loads its own index, and after it has stored it sets condition   *)
(* and wakes the other.                                                    *)
LEMMA IndexMoves ==
    ASSUME NEW w, NEW r, Writers = {w}, Readers = {r}, RingInv, TypeOK',
           NEW t \in Tasks, Load(t) \/ SetCondition(t) \/ Wake(t)
    PROVE  RingInv'
<1>0. w # r /\ Tasks = {w, r} /\ r \notin Writers /\ w \in Writers
  BY Counts
<1>1. /\ UNCHANGED <<head, tail, ring, history>>
      /\ \A u \in {w, r} :
            /\ pc'[u] \in Moving <=> pc[u] \in Moving
            /\ pc'[u] \in Looping <=> pc[u] \in Looping
            /\ pc'[u] = "move" <=> pc[u] = "move"
            /\ pc'[u] # "store" => seen'[u] = seen[u]
      /\ pc'[w] = "store" => seen'[w] = tail
      /\ pc'[r] = "store" => seen'[r] = head
  <2>1. /\ pc[w] = "store" => seen[w] = tail
        /\ pc[r] = "store" => seen[r] = head
    BY DEF RingInv, IndexInv
  <2> USE <1>0, <2>1 DEF RingInv, TypeOK, Goto, globals, Moving, Looping
  <2>2. CASE Load(t)
    BY <2>2 DEF Load
  <2>3. CASE SetCondition(t)
    BY <2>3 DEF SetCondition
  <2>4. CASE Wake(t)
    BY <2>4 DEF Wake
  <2> QED
    BY <2>2, <2>3, <2>4
<1>2. ~overrun => RoomInv'
  <2>1. ASSUME ~overrun
        PROVE  Taken' \in Nat /\ Taken <= Taken'
    <3>1. Taken' = Taken /\ Taken \in Nat
      BY <1>1, <2>1, Counts, CountBounds DEF history
    <3> QED
      BY <3>1
  <2>2. CASE pc'[w] = "store"
    BY <2>2 DEF RoomInv, Looping
  <2>3. CASE pc'[w] # "store"
    <3>1. seen'[w] = seen[w] /\ written' = written
      BY <1>1, <2>3 DEF history
    <3> QED
      BY <1>1, <2>1, <3>1, RoomKept
  <2> QED
    BY <2>2, <2>3
<1>3. pc'[r] \in Looping \cup {"move", "store"} => seen'[r] = head
  BY <1>1 DEF RingInv, IndexInv, Looping
<1> QED
  BY <1>1, <1>2, <1>3, QuietStep

(* Moving an index on is counting. *)
LEMMA IndexCounts ==
    ASSUME NEW x \in Nat, NEW b, b = x % RINGSIZE
    PROVE  /\ (1 + b) % RINGSIZE = (x + 1) % RINGSIZE
           /\ (b + 1) % RINGSIZE = (x + 1) % RINGSIZE
<1>1. b \in 0 .. RINGSIZE - 1
  BY RingAssumption
<1>2. (x + 1) % RINGSIZE = IF b = RINGSIZE - 1 THEN 0 ELSE b + 1
  BY NextIndex
<1>3. b + 1 \in Nat /\ 1 + b = b + 1
  BY <1>1, RingAssumption
<1>4. CASE b = RINGSIZE - 1
  <2>1. b + 1 = RINGSIZE * 1 + 0 /\ 0 \in 0 .. RINGSIZE - 1
    BY <1>4, RingAssumption
  <2>2. (b + 1) % RINGSIZE = 0
    BY <1>3, <2>1, RemainderOf
  <2>3. (x + 1) % RINGSIZE = 0
    BY <1>2, <1>4
  <2> QED
    BY <1>3, <2>2, <2>3
<1>5. CASE b # RINGSIZE - 1
  <2>1. b + 1 = RINGSIZE * 0 + (b + 1) /\ b + 1 \in 0 .. RINGSIZE - 1
    BY <1>1, <1>5, RingAssumption
  <2>2. (b + 1) % RINGSIZE = b + 1
    BY <1>3, <2>1, RemainderOf
  <2>3. (x + 1) % RINGSIZE = b + 1
    BY <1>2, <1>5
  <2> QED
    BY <1>3, <2>2, <2>3
<1> QED
  BY <1>4, <1>5

(* The test that tells an overrun: the byte would be the RINGSIZEth. *)
LEMMA FullIs ==
    ASSUME NEW w, NEW r, Writers = {w}, Readers = {r}, RingInv, ~overrun,
           pc[w] = "move"
    PROVE  (tail + 1) % RINGSIZE = head <=> written + 1 = Taken + RINGSIZE
<1>1. /\ Taken \in Nat /\ written \in Nat /\ Stored = written
      /\ Taken <= written /\ written - Taken < RINGSIZE
      /\ head = Taken % RINGSIZE /\ tail = written % RINGSIZE
  BY Counts, CountBounds DEF RingInv, ContentInv, IndexInv, Moving
<1>2. (tail + 1) % RINGSIZE = (written + 1) % RINGSIZE
  BY <1>1, IndexCounts
<1>3. /\ written + 1 \in Nat /\ Taken <= written + 1
      /\ (written + 1) - Taken <= RINGSIZE /\ written + 1 # Taken
  BY <1>1, RingAssumption
<1>4. Taken % RINGSIZE = (written + 1) % RINGSIZE <=>
         (written + 1 = Taken \/ written + 1 = Taken + RINGSIZE)
  BY <1>1, <1>3, SameIndex
<1> QED
  BY <1>1, <1>2, <1>3, <1>4

(* The writer copies its byte. *)
LEMMA WriterCopies ==
    ASSUME NEW w, NEW r, Writers = {w}, Readers = {r}, RingInv, TypeOK',
           MoveByte(w)
    PROVE  RingInv'
<1>0. w # r /\ w \in Tasks /\ r \in Tasks /\ w \in Writers
  BY Counts
<1>1. /\ pc[w] = "move" /\ pc'[w] = "load" /\ pc'[r] = pc[r]
      /\ ring' = [ring EXCEPT ![tail] = written + 1]
      /\ written' = written + 1
      /\ UNCHANGED <<head, tail, seen, last>>
  BY <1>0 DEF MoveByte, Goto, RingInv, TypeOK
<1>2. overrun' <=> (overrun \/ (tail + 1) % RINGSIZE = head)
  BY <1>0, Zenon DEF MoveByte
<1>3. Stored' = Stored /\ Taken' = Taken /\ Stored = written
  <2>1. written \in Nat
    BY CountBounds
  <2>2. Stored' = written' - 1 /\ Stored = written /\ Taken' = Taken
    BY <1>1, Counts DEF Moving
  <2> QED
    BY <1>1, <2>1, <2>2
<1>4. IndexInv'
  BY <1>1, <1>3 DEF RingInv, IndexInv
<1>5. ASSUME ~overrun'
      PROVE  ContentInv' /\ RoomInv'
  <2>0. ~overrun /\ written + 1 # Taken + RINGSIZE
    BY <1>1, <1>2, <1>5, FullIs
  <2>1. /\ Taken \in Nat /\ written \in Nat /\ Taken <= written
        /\ written - Taken < RINGSIZE /\ tail = written % RINGSIZE
        /\ ContentInv /\ ring \in [0 .. RINGSIZE - 1 -> Nat]
    BY <1>3, <2>0, CountBounds DEF RingInv, IndexInv, TypeOK
  <2>2. written' - Taken < RINGSIZE
    BY <1>1, <2>0, <2>1, RingAssumption
  <2>3. ASSUME NEW k \in Taken .. written' - 1
        PROVE  ring'[k % RINGSIZE] = k + 1
    <3>1. /\ k \in Nat /\ k <= written /\ written - k <= RINGSIZE
          /\ written # k + RINGSIZE
      BY <1>1, <2>1, RingAssumption
    <3>2. k % RINGSIZE = written % RINGSIZE <=>
             (written = k \/ written = k + RINGSIZE)
      BY <2>1, <3>1, SameIndex
    <3>3. k % RINGSIZE \in 0 .. RINGSIZE - 1
      BY <3>1, RingAssumption
    <3>4. CASE k = written
      BY <1>1, <2>1, <3>3, <3>4
    <3>5. CASE k # written
      <4>1. k \in Taken .. written - 1
        BY <2>1, <3>1, <3>5
      <4>2. ring[k % RINGSIZE] = k + 1
        BY <2>1, <4>1 DEF ContentInv
      <4> QED
        BY <1>1, <2>1, <3>1, <3>2, <3>3, <3>5, <4>2
    <3> QED
      BY <3>4, <3>5
  <2>4. ContentInv'
    BY <1>1, <1>3, <2>1, <2>2, <2>3 DEF ContentInv
  <2> QED
    BY <1>1, <2>4 DEF RoomInv, Looping
<1> QED
  BY <1>4, <1>5 DEF RingInv

(* The reader copies a byte: the one after the last. *)
LEMMA ReaderTakesNext ==
    ASSUME NEW w, NEW r, Writers = {w}, Readers = {r}, RingInv, ~overrun,
           MoveByte(r)
    PROVE  last' = last + 1 /\ Taken = last
<1>0. r \in Tasks /\ r \notin Writers
  BY Counts
<1>1. pc[r] = "move" /\ last' = ring[head]
  BY <1>0 DEF MoveByte, Take
<1>2. /\ Taken \in Nat /\ Stored \in Nat /\ written \in Nat /\ Taken = last
      /\ Taken < Stored /\ Stored <= written
  BY <1>1, Counts, CountBounds DEF RingInv, ContentInv, Moving
<1>3. Taken \in Taken .. written - 1
  BY <1>2
<1>4. ring[Taken % RINGSIZE] = Taken + 1 /\ head = Taken % RINGSIZE
  BY <1>3 DEF RingInv, ContentInv
<1> QED
  BY <1>1, <1>2, <1>4

LEMMA ReaderCopies ==
    ASSUME NEW w, NEW r, Writers = {w}, Readers = {r}, RingInv, TypeOK',
           MoveByte(r)
    PROVE  RingInv'
<1>0. w # r /\ w \in Tasks /\ r \in Tasks /\ r \notin Writers
  BY Counts
<1>1. /\ pc[r] = "move" /\ pc'[r] = "load" /\ pc'[w] = pc[w]
      /\ UNCHANGED <<head, tail, seen, ring, written, overrun>>
  BY <1>0 DEF MoveByte, Goto, RingInv, TypeOK
<1>2. Stored' = Stored
  BY <1>1, Counts
<1>3. IndexInv'
  BY <1>1, <1>2 DEF RingInv, IndexInv, Looping
<1>4. ASSUME ~overrun
      PROVE  ContentInv' /\ RoomInv'
  <2>1. Taken' = Taken /\ Taken \in Nat
    <3>1. Taken \in Nat /\ last' = Taken + 1
      BY <1>4, CountBounds, ReaderTakesNext
    <3>2. Taken' = last' - 1
      BY <1>1, Counts DEF Moving
    <3> QED
      BY <3>1, <3>2
  <2>2. Taken < Stored
    BY <1>1, <1>4 DEF RingInv, ContentInv
  <2>3. ContentInv'
    BY <1>1, <1>2, <1>4, <2>1, <2>2 DEF RingInv, ContentInv
  <2>4. Taken' \in Nat /\ Taken <= Taken' /\ seen'[w] = seen[w]
    BY <1>1, <2>1
  <2>5. RoomInv'
    BY <1>1, <1>4, <2>4, RoomKept
  <2> QED
    BY <2>3, <2>5
<1> QED
  BY <1>1, <1>3, <1>4 DEF RingInv

(* The new index is stored. *)
LEMMA WriterStores ==
    ASSUME NEW w, NEW r, Writers = {w}, Readers = {r}, RingInv, TypeOK',
           Store(w)
    PROVE  RingInv'
<1>0. w # r /\ w \in Tasks /\ r \in Tasks /\ w \in Writers
  BY Counts
<1>1. /\ pc[w] = "store" /\ pc'[w] = "signal" /\ pc'[r] = pc[r]
      /\ tail' = (1 + seen[w]) % RINGSIZE
      /\ UNCHANGED <<head, ring, seen, written, last, overrun>>
  BY <1>0 DEF Store, Goto, RingInv, TypeOK, history
<1>2. /\ Stored \in Nat /\ Stored' = Stored + 1 /\ Stored' = written'
      /\ Taken' = Taken
  <2>1. Stored \in Nat /\ written \in Nat
    BY CountBounds
  <2>2. Stored = written - 1 /\ Stored' = written /\ Taken' = Taken
    BY <1>1, Counts DEF Moving
  <2> QED
    BY <1>1, <2>1, <2>2
<1>3. tail' = Stored' % RINGSIZE
  <2>1. seen[w] = Stored % RINGSIZE
    BY <1>1 DEF RingInv, IndexInv
  <2> QED
    BY <1>1, <1>2, <2>1, IndexCounts
<1>4. IndexInv'
  BY <1>1, <1>2, <1>3 DEF RingInv, IndexInv
<1>5. ASSUME ~overrun
      PROVE  ContentInv' /\ RoomInv'
  <2>1. Taken \in Nat /\ Taken <= Stored
    BY <1>5, CountBounds
  <2>2. Taken <= Stored' /\ (Taken < Stored => Taken < Stored')
    BY <1>2, <2>1
  <2>3. ContentInv'
    BY <1>1, <1>2, <1>5, <2>1, <2>2 DEF RingInv, ContentInv
  <2> QED
    BY <1>1, <2>3 DEF RoomInv, Looping
<1> QED
  BY <1>1, <1>4, <1>5 DEF RingInv

LEMMA ReaderStores ==
    ASSUME NEW w, NEW r, Writers = {w}, Readers = {r}, RingInv, TypeOK',
           Store(r)
    PROVE  RingInv'
<1>0. w # r /\ w \in Tasks /\ r \in Tasks /\ r \notin Writers
  BY Counts
<1>1. /\ pc[r] = "store" /\ pc'[r] = "signal" /\ pc'[w] = pc[w]
      /\ head' = (1 + seen[r]) % RINGSIZE
      /\ UNCHANGED <<tail, ring, seen, written, last, overrun>>
  BY <1>0 DEF Store, Goto, RingInv, TypeOK, history
<1>2. Stored' = Stored
  BY <1>1, Counts
<1>3. IndexInv'
  BY <1>1, <1>2 DEF RingInv, IndexInv, Looping
<1>4. ASSUME ~overrun
      PROVE  ContentInv' /\ RoomInv'
  <2>1. /\ Taken \in Nat /\ Taken' = Taken + 1 /\ written \in Nat
        /\ Stored \in Nat /\ Taken < Stored /\ written - Taken < RINGSIZE
    <3>1. /\ Taken \in Nat /\ last \in Nat /\ written \in Nat
          /\ Stored \in Nat /\ written - Taken < RINGSIZE
      BY <1>4, CountBounds
    <3>2. Taken = last - 1 /\ Taken' = last
      BY <1>1, Counts DEF Moving
    <3>3. Taken < Stored
      BY <1>1, <1>4 DEF RingInv, ContentInv, Moving
    <3> QED
      BY <3>1, <3>2, <3>3
  <2>2. head' = Taken' % RINGSIZE
    <3>1. seen[r] = Taken % RINGSIZE
      BY <1>1, <1>4 DEF RingInv, IndexInv, ContentInv
    <3> QED
      BY <1>1, <2>1, <3>1, IndexCounts
  <2>3. /\ Taken' \in Nat /\ Taken' <= Stored /\ written - Taken' < RINGSIZE
        /\ Taken <= Taken'
    BY <2>1, RingAssumption
  <2>4. \A k \in Taken' .. written - 1 : ring[k % RINGSIZE] = k + 1
    <3>1. \A k \in Taken' .. written - 1 : k \in Taken .. written - 1
      BY <2>1
    <3> QED
      BY <1>4, <3>1 DEF RingInv, ContentInv
  <2>5. ContentInv'
    BY <1>1, <1>2, <2>2, <2>3, <2>4 DEF ContentInv, Moving
  <2>6. RoomInv'
    BY <1>1, <1>4, <2>3, RoomKept
  <2> QED
    BY <2>5, <2>6
<1> QED
  BY <1>1, <1>3, <1>4 DEF RingInv

(* All steps of the two. *)
LEMMA RingStep ==
    ASSUME NEW w, NEW r, Writers = {w}, Readers = {r}, RingInv,
           [RingNext]_ringvars
    PROVE  RingInv'
<1>0. w # r /\ Tasks = {w, r}
  BY Counts
<1>1. TypeOK'
  BY RingTypesStep DEF RingInv
<1>2. CASE UNCHANGED ringvars
  <2>1. Stored' = Stored /\ Taken' = Taken
    BY <1>2, Counts DEF ringvars
  <2> QED
    BY <1>1, <1>2, <2>1 DEF ringvars, RingInv, IndexInv, ContentInv, RoomInv
<1>3. ASSUME NEW t \in Tasks, Call(t) \/ Step(t) \/ Signal(t)
      PROVE  RingInv'
  <2>1. CASE t = w
    BY <1>1, <1>3, <2>1, WriterWaits, WriterCopies, WriterStores, IndexMoves
       DEF Step
  <2>2. CASE t = r
    BY <1>1, <1>3, <2>2, ReaderWaits, ReaderCopies, ReaderStores, IndexMoves
       DEF Step
  <2> QED
    BY <1>0, <2>1, <2>2
<1> QED
  BY <1>2, <1>3 DEF RingNext

(* The inductive invariant of the ring buffer, for every size of the ring. *)
THEOREM RingInvariance ==
    ASSUME NEW w, NEW r, Writers = {w}, Readers = {r}
    PROVE  RingSpec => []RingInv
<1>1. RingInit => RingInv
  <2> SUFFICES ASSUME RingInit
               PROVE  RingInv
    OBVIOUS
  <2> USE DEF RingInit
  <2>0. w \in Tasks /\ r \in Tasks
    BY Counts
  <2>1. TypeOK
    <3>1. 0 \in 0 .. RINGSIZE - 1 /\ 0 \in -1 .. RINGSIZE - 1 /\ 0 \in Nat
      BY RingAssumption
    <3>2. /\ ring \in [0 .. RINGSIZE - 1 -> Nat] /\ pc \in [Tasks -> Pc]
          /\ seen \in [Tasks -> -1 .. RINGSIZE - 1]
      BY <3>1 DEF Pc
    <3> QED
      BY <3>1, <3>2 DEF TypeOK
  <2>2. pc[w] = "user" /\ pc[r] = "user"
    BY <2>0
  <2>3. Stored = 0 /\ Taken = 0
    BY <2>2, Counts DEF Moving
  <2>4. 0 % RINGSIZE = 0
    BY RingAssumption
  <2>5. IndexInv
    BY <2>2, <2>3, <2>4 DEF IndexInv, Looping
  <2>6. ContentInv
    BY <2>2, <2>3, <2>4, RingAssumption DEF ContentInv, Moving
  <2>7. RoomInv
    BY <2>2 DEF RoomInv, Looping
  <2> QED
    BY <2>1, <2>5, <2>6, <2>7 DEF RingInv
<1>2. RingInv /\ [RingNext]_ringvars => RingInv'
  BY RingStep
<1> QED
  BY <1>1, <1>2, PTL DEF RingSpec

(* With one writer and one reader my_read returns the bytes in the order   *)
(* my_write got them, none twice and none left out, until one is stored    *)
(* into a full ring; and that happens only to a writer that came when head *)
(* was 0.  For every size of the ring and any faults and signals.          *)
THEOREM FirstInFirstOut ==
    ASSUME NEW w, NEW r, Writers = {w}, Readers = {r}
    PROVE  RingSpec => Fifo
<1>1. RingInv /\ [RingNext]_ringvars =>
        [/\ \A t \in Readers : Takes(t) /\ ~overrun => last' = last + 1
         /\ \A t \in Writers :
               Takes(t) /\ overrun' /\ ~overrun => seen[t] = -1]_ringvars
  <2> SUFFICES ASSUME RingInv, [RingNext]_ringvars, ~overrun
               PROVE  /\ Takes(r) => last' = last + 1
                      /\ Takes(w) /\ overrun' => seen[w] = -1
    OBVIOUS
  <2>0. w # r /\ Tasks = {w, r} /\ pc \in [Tasks -> Pc]
    BY Counts DEF RingInv, TypeOK
  <2>1. ASSUME NEW u \in Tasks, Takes(u)
        PROVE  MoveByte(u)
    <3>1. RingNext
      BY <2>1 DEF Takes, ringvars
    <3>2. PICK t \in Tasks : Call(t) \/ Step(t) \/ Signal(t)
      BY <3>1 DEF RingNext
    <3>3. CASE Wake(t)
      BY <2>0, <2>1, <3>3 DEF Wake, Takes
    <3>4. CASE ~Wake(t)
      <4>1. pc' = [pc EXCEPT ![t] = pc'[t]]
        BY <2>0, <3>2, <3>4 DEF Step, Call, Test, Reset, Wait, MoveByte,
           Fault, Load, Store, SetCondition, Signal, Goto
      <4>2. t = u
        BY <2>0, <2>1, <4>1 DEF Takes
      <4>3. pc[t] = "move" /\ pc'[t] = "load"
        BY <2>1, <4>2 DEF Takes
      <4> QED
        BY <2>0, <3>2, <3>4, <4>2, <4>3 DEF Step, Call, Test, Reset, Wait,
           Fault, Load, Store, SetCondition, Signal, Goto
    <3> QED
      BY <3>3, <3>4
  <2>2. Takes(r) => last' = last + 1
    BY <2>0, <2>1, ReaderTakesNext
  <2>3. ASSUME Takes(w), overrun', seen[w] # -1
        PROVE  FALSE
    <3>1. MoveByte(w) /\ pc[w] = "move"
      BY <2>0, <2>1, <2>3 DEF Takes
    <3>2. (tail + 1) % RINGSIZE = head
      BY <2>3, <3>1, Zenon DEF MoveByte
    <3>3. written + 1 = Taken + RINGSIZE
      BY <3>1, <3>2, FullIs
    <3>4. written - Taken < RINGSIZE - 1
      BY <2>3, <3>1 DEF RingInv, RoomInv
    <3>5. written \in Nat /\ Taken \in Nat
      BY CountBounds
    <3> QED
      BY <3>3, <3>4, <3>5, RingAssumption
  <2> QED
    BY <2>2, <2>3
<1> QED
  BY <1>1, RingInvariance, PTL DEF RingSpec, Fifo
=============================================================================
