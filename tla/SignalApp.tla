----------------------------- MODULE SignalApp -----------------------------
(***************************************************************************)
(* The driver src/Signal/signal1.c and the program that goes with it,      *)
(* src/Signal/signal1_userspace/sig1usr.c.  A process opens the device,    *)
(* registers itself, and reads, whereupon the driver sends SIGTEST to the  *)
(* process registered last; the program then waits for signals until       *)
(* SIGINT.  Several processes may run the program; the driver keeps one    *)
(* pointer, `task', for all of them and locks nothing.                     *)
(*                                                                         *)
(* Each access to `task' is a step.  A process handles its signals outside *)
(* the driver.  The program is built without optimisation: its loop reads  *)
(* `done' and `check' anew every time.                                     *)
(***************************************************************************)
EXTENDS Integers, FiniteSets

CONSTANTS
    Apps,       \* the processes, each of which runs the program once
    NoTask      \* NULL

ASSUME AppsAssumption == NoTask \notin Apps

VARIABLES
    loaded,     \* the driver is loaded
    task,       \* the registered process
    place,      \* per process: the place in main or in the driver
    arg,        \* per process: the task its send_sig_info is called with
    done,       \* per process
    check,      \* per process
    armed,      \* per process: ctrl_c_handler is installed
    queue,      \* per process: SIGTESTs not yet handled
    got,        \* history, per process: SIGTESTs handled
    shared,     \* history: two processes had the device open
    fault       \* a signal was sent to no process

appvars == <<loaded, task, place, arg, done, check, armed, queue, got, shared,
          fault>>
program == <<arg, done, check, armed, queue, got>>

(* In the driver: the file is open and no signal is handled. *)
InDriver == {"r_test", "r_load", "r_send", "c_test", "c_clear"}
(* In main with the file open: before ioctl, before read, in the loop. *)
InMain == {"opened", "registered", "wait", "awake"}
HasFile == InDriver \cup InMain

Goto(a, p) == place' = [place EXCEPT ![a] = p]
Set(f, a, v) == [f EXCEPT ![a] = v]

AppInit ==
    /\ loaded = FALSE /\ task = NoTask
    /\ place = [a \in Apps |-> "start"] /\ arg = [a \in Apps |-> NoTask]
    /\ done = [a \in Apps |-> FALSE] /\ check = [a \in Apps |-> FALSE]
    /\ armed = [a \in Apps |-> TRUE]
    /\ queue = [a \in Apps |-> 0] /\ got = [a \in Apps |-> 0]
    /\ shared = FALSE /\ fault = FALSE

-----------------------------------------------------------------------------
(* The driver is loaded, and removed while nobody has its file open.  A    *)
(* load that fails leaves nothing that these programs meet: what it leaves *)
(* registered (the cdev, where a later step fails) has no device file.     *)

test_driver_init ==
    /\ ~loaded /\ ~fault
    /\ loaded' \in BOOLEAN      \* a registration may fail
    /\ task' = NoTask
    /\ UNCHANGED <<place, shared, fault, program>>

test_driver_exit ==
    /\ loaded /\ \A a \in Apps : place[a] \notin HasFile
    /\ loaded' = FALSE
    /\ UNCHANGED <<task, place, shared, fault, program>>

-----------------------------------------------------------------------------
(* main, and the driver functions it calls *)

(* The handlers are installed, then the device is opened. *)
OpenDevice(a) ==
    /\ place[a] = "start"
    /\ Goto(a, IF loaded THEN "opened" ELSE "gone")
    /\ shared' = (shared \/ (loaded /\ \E b \in Apps : place[b] \in HasFile))
    /\ UNCHANGED <<loaded, task, fault, program>>

(* ioctl(REG_CURRENT_TASK) *)
test_ioctl(a) ==
    /\ place[a] = "opened"
    /\ task' = a
    /\ Goto(a, "registered")
    /\ UNCHANGED <<loaded, shared, fault, program>>

ReadCall(a) ==
    /\ place[a] = "registered"
    /\ Goto(a, "r_test")
    /\ UNCHANGED <<loaded, task, shared, fault, program>>

(* Mutant: the test for NULL is the wrong way round. *)
ReadTestSwapped(a) ==
    /\ place[a] = "r_test"
    /\ Goto(a, IF task = NoTask THEN "r_load" ELSE "wait")
    /\ UNCHANGED <<loaded, task, shared, fault, program>>

(* test_read: the pointer is tested, *)
ReadTest(a) ==
    /\ place[a] = "r_test"
    /\ Goto(a, IF task # NoTask THEN "r_load" ELSE "wait")
    /\ UNCHANGED <<loaded, task, shared, fault, program>>

(* loaded again for the call, *)
ReadLoad(a) ==
    /\ place[a] = "r_load"
    /\ arg' = Set(arg, a, task)
    /\ Goto(a, "r_send")
    /\ UNCHANGED <<loaded, task, done, check, armed, queue, got, shared,
                   fault>>

(* and used: NULL by now, or a process that has ended, is a fault. *)
ReadSend(a) ==
    /\ place[a] = "r_send" /\ ~fault
    /\ LET t == arg[a]
       IN  IF t \in Apps /\ place[t] # "gone"
           THEN queue' = Set(queue, t, queue[t] + 1) /\ UNCHANGED fault
           ELSE fault' = TRUE /\ UNCHANGED queue
    /\ arg' = Set(arg, a, NoTask)
    /\ Goto(a, "wait")
    /\ UNCHANGED <<loaded, task, done, check, armed, got, shared>>

(* while (!done && !check); *)
Spin(a) ==
    /\ place[a] = "wait" /\ (done[a] \/ check[a])
    /\ Goto(a, "awake")
    /\ UNCHANGED <<loaded, task, shared, fault, program>>

(* Mutant: the outer loop does not look at done. *)
LoopForever(a) ==
    /\ place[a] = "awake"
    /\ check' = Set(check, a, FALSE)
    /\ Goto(a, "wait")
    /\ UNCHANGED <<loaded, task, arg, done, armed, queue, got, shared, fault>>

(* check = 0, and around again or on to close(fd). *)
Loop(a) ==
    /\ place[a] = "awake"
    /\ check' = Set(check, a, FALSE)
    /\ Goto(a, IF done[a] THEN "c_test" ELSE "wait")
    /\ UNCHANGED <<loaded, task, arg, done, armed, queue, got, shared, fault>>

(* The file is closed; the process ends, and its memory goes. *)
Vanish(a) ==
    /\ Goto(a, "gone")
    /\ done' = Set(done, a, FALSE) /\ check' = Set(check, a, FALSE)
    /\ armed' = Set(armed, a, FALSE)
    /\ queue' = Set(queue, a, 0) /\ got' = Set(got, a, 0)
    /\ UNCHANGED arg

(* Mutant: nothing is done about a registered process that goes. *)
ReleaseTestNot(a) ==
    /\ place[a] = "c_test"
    /\ Vanish(a)
    /\ UNCHANGED <<loaded, task, shared, fault>>

(* test_release, called by close or when the process ends: tests task, *)
ReleaseTest(a) ==
    /\ place[a] = "c_test"
    /\ IF task = a THEN Goto(a, "c_clear") /\ UNCHANGED program
       ELSE Vanish(a)
    /\ UNCHANGED <<loaded, task, shared, fault>>

(* and clears it, also if another process has registered by now. *)
ReleaseClear(a) ==
    /\ place[a] = "c_clear"
    /\ task' = NoTask
    /\ Vanish(a)
    /\ UNCHANGED <<loaded, shared, fault>>

-----------------------------------------------------------------------------
(* Signals *)

(* sig_event_handler; SIGTEST is a queued signal. *)
sig_event_handler(a) ==
    /\ place[a] \in InMain /\ queue[a] > 0
    /\ queue' = Set(queue, a, queue[a] - 1)
    /\ got' = Set(got, a, got[a] + 1)
    /\ check' = Set(check, a, TRUE)
    /\ UNCHANGED <<loaded, task, place, arg, done, armed, shared, fault>>

(* ctrl_c_handler, which SA_RESETHAND removes *)
ctrl_c_handler(a) ==
    /\ place[a] \in InMain /\ armed[a]
    /\ done' = Set(done, a, TRUE) /\ armed' = Set(armed, a, FALSE)
    /\ UNCHANGED <<loaded, task, place, arg, check, queue, got, shared, fault>>

(* SIGKILL at any time, or a second SIGINT, ends the process once it is    *)
(* out of the driver; the kernel closes its file.                          *)
Killed(a) ==
    /\ place[a] \in InMain
    /\ Goto(a, "c_test")
    /\ UNCHANGED <<loaded, task, shared, fault, program>>

-----------------------------------------------------------------------------
AppStep(a) ==
    \/ test_ioctl(a) \/ ReadCall(a) \/ ReadTest(a) \/ ReadLoad(a)
    \/ ReadSend(a) \/ Spin(a) \/ Loop(a) \/ ReleaseTest(a) \/ ReleaseClear(a)

Signal(a) == sig_event_handler(a) \/ ctrl_c_handler(a) \/ Killed(a)

Ended == fault /\ UNCHANGED appvars

AppNext ==
    \/ test_driver_init \/ test_driver_exit \/ Ended
    \/ \E a \in Apps : OpenDevice(a) \/ AppStep(a) \/ Signal(a)

AppSpec == AppInit /\ [][AppNext]_appvars

(* A process that can run does; nobody has to start it or press ctrl-c. *)
AppFairSpec ==
    /\ AppSpec
    /\ \A a \in Apps :
          WF_appvars(AppStep(a)) /\ WF_appvars(sig_event_handler(a))

-----------------------------------------------------------------------------
(* Properties *)

(* The driver does not keep a pointer to a process that has ended: the     *)
(* registered process has the file open, and will clear the pointer or     *)
(* leave it to the process that replaced it.                               *)
TaskIsAlive == task # NoTask => place[task] \in HasFile \ {"opened"}

(* A program that has the device to itself is never without its signal:    *)
(* its read sends it exactly one, and sends none to anything else.         *)
LoneProgram ==
    ~shared =>
        /\ ~fault
        /\ \A a \in Apps :
              place[a] \in {"wait", "awake"} => queue[a] + got[a] = 1

(* "install ctrl-c interrupt handler to cleanup at exit": a program that   *)
(* was interrupted ends, however many signals arrive.                      *)
InterruptEnds == \A a \in Apps : done[a] ~> (place[a] = "gone" \/ fault)

-----------------------------------------------------------------------------
(* The inductive invariant behind the theorems of ProgramProofs. *)

Places == HasFile \cup {"start", "gone"}

TypeInv ==
    /\ task \in Apps \cup {NoTask}
    /\ place \in [Apps -> Places] /\ arg \in [Apps -> Apps \cup {NoTask}]
    /\ queue \in [Apps -> Nat] /\ got \in [Apps -> Nat]

(* The module stays as long as its file is open. *)
LoadedInv == \A a \in Apps : place[a] \in HasFile => loaded

(* One process with the file: it is the registered one from ioctl to read, *)
(* which sends to nobody else.                                             *)
Registered == {"registered", "r_test", "r_load", "r_send"}
LoneInv ==
    /\ ~fault
    /\ \A a, b \in Apps : place[a] \in HasFile /\ place[b] \in HasFile => a = b
    /\ \A a \in Apps :
          /\ place[a] \in Registered => task = a
          /\ place[a] = "r_send" => arg[a] = a
          /\ place[a] \in Registered \cup {"start", "opened"} =>
                queue[a] = 0 /\ got[a] = 0
          /\ place[a] \in {"wait", "awake"} => queue[a] + got[a] = 1

SignalInv ==
    TypeInv /\ LoadedInv /\ TaskIsAlive /\ (~shared => LoneInv)
=============================================================================
