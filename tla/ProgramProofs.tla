--------------------------- MODULE ProgramProofs ---------------------------
(***************************************************************************)
(* Proofs about the two programs and the devices they use: the watchdog    *)
(* test program, for every ping rate, timeout and number of options, and   *)
(* the signalling driver with its program, for any number of processes.    *)
(*                                                                         *)
(* ResetExplained is not inductive: a reset comes at the end of a          *)
(* countdown.  WatchdogInv adds the race that the program wins, that what  *)
(* is left of the sleep is less than what is left of the countdown, and    *)
(* that a watchdog which counts while no program runs was left so by a run *)
(* that could not stop it.                                                 *)
(*                                                                         *)
(* TaskIsAlive is inductive once the types are known.  LoneProgram is not: *)
(* that a read sends one signal to its own process rests on `task' being   *)
(* this process from the ioctl to the send, which holds as long as no      *)
(* other process has the file open (LoneInv).                              *)
(***************************************************************************)
EXTENDS Watchdog, SignalApp, TLAPS

-----------------------------------------------------------------------------
(* The watchdog program *)

(* It holds before the program is run for the first time.                  *)
LEMMA WatchdogInit == Init => WatchdogInv
BY WatchdogAssumption DEF Init, WatchdogInv, ResetExplained, LeftCounting

(* The options of one command line leave it alone.                         *)
LEMMA OptionsStep ==
    ASSUME WatchdogInv,
           \/ Query \/ Disable \/ Enable \/ SetPretimeout \/ Usage
           \/ \E r \in Rates : PingRate(r)
           \/ \E t \in Timeouts : SetTimeout(t)
    PROVE  WatchdogInv'
<1> USE WatchdogAssumption DEF WatchdogInv, ResetExplained, LeftCounting,
        fixed, Option, Start, Stop, Refused
<1>1. CASE Query
  BY <1>1 DEF Query
<1>2. CASE Disable \/ Enable
  BY <1>2 DEF Disable, Enable
<1>3. CASE SetPretimeout \/ Usage
  BY <1>3 DEF SetPretimeout, Usage
<1>4. ASSUME NEW r \in Rates, PingRate(r)
      PROVE  WatchdogInv'
  BY <1>4 DEF PingRate
<1>5. ASSUME NEW t \in Timeouts, SetTimeout(t)
      PROVE  WatchdogInv'
  BY <1>5 DEF SetTimeout
<1> QED
  BY <1>1, <1>2, <1>3, <1>4, <1>5

(* So do the loop, the ways out of it, and the passing of time.            *)
LEMMA LoopStep ==
    ASSUME WatchdogInv,
           \/ Open \/ Decide \/ keep_alive \/ WakeUp \/ End \/ term
           \/ Interrupted \/ Tick
    PROVE  WatchdogInv'
<1> USE WatchdogAssumption DEF WatchdogInv, ResetExplained, LeftCounting,
        fixed
<1>1. CASE Open
  BY <1>1 DEF Open, Start
<1>2. CASE Decide \/ WakeUp
  BY <1>2 DEF Decide, WakeUp, device
<1>3. CASE keep_alive
  BY <1>3 DEF keep_alive, Restart
<1>4. CASE End \/ term
  <2>1. how' = "stopped" => nowayout \/ ~running'
    BY <1>4, Zenon DEF End, term, WriteAndClose, Close
  <2>2. /\ ~reset /\ pc' = "out" /\ asleep' = 0
        /\ how' \in {"stopped", "failed"}
        /\ UNCHANGED <<options, ping_rate, timeout, left, fixed, reset>>
    BY <1>4 DEF End, term, WriteAndClose, Close
  <2> QED
    BY <2>1, <2>2
<1>5. CASE Interrupted
  BY <1>5 DEF Interrupted, Close
<1>6. CASE Tick
  <2>1. reset' <=> (running /\ left = 1)
    BY <1>6, Zenon DEF Tick
  <2>2. left' = IF running THEN left - 1 ELSE left
    BY <1>6 DEF Tick
  <2>3. CASE pc = "sleep"
    BY <1>6, <2>1, <2>2, <2>3 DEF Tick
  <2>4. CASE pc = "out"
    BY <1>6, <2>1, <2>2, <2>4 DEF Tick
  <2> QED
    BY <1>6, <2>3, <2>4 DEF Tick
<1> QED
  BY <1>1, <1>2, <1>3, <1>4, <1>5, <1>6

(* The inductive invariant of the program and its device.                  *)
THEOREM WatchdogInvariance == Spec => []WatchdogInv
<1>1. WatchdogInv /\ [Next]_vars => WatchdogInv'
  <2> SUFFICES ASSUME WatchdogInv, [Next]_vars
               PROVE  WatchdogInv'
    OBVIOUS
  <2>1. CASE UNCHANGED vars
    BY <2>1 DEF vars, fixed, WatchdogInv, ResetExplained, LeftCounting
  <2>2. CASE Rebooted
    BY <2>1, <2>2 DEF Rebooted
  <2> QED
    BY <2>1, <2>2, OptionsStep, LoopStep DEF Next, GetBootStatus, GetTimeout,
       GetPretimeout, GetTimeLeft, Info
<1> QED
  BY <1>1, WatchdogInit, PTL DEF Spec

(* The machine is reset only for one of the reasons listed: a ping rate    *)
(* that is too long, a device without pings, or a run that ended and could *)
(* not stop it.                                                            *)
THEOREM NoUnexplainedReset == Spec => []ResetExplained
<1>1. WatchdogInv => ResetExplained
  BY DEF WatchdogInv
<1> QED
  BY <1>1, WatchdogInvariance, PTL

-----------------------------------------------------------------------------
(* The signalling driver and its program *)

(* Every step keeps the types, the module while its file is open, and the  *)
(* registered process alive.                                               *)
LEMMA AliveStep ==
    ASSUME TypeInv, LoadedInv, TaskIsAlive, [AppNext]_appvars
    PROVE  TypeInv' /\ LoadedInv' /\ TaskIsAlive'
<1> USE AppsAssumption DEF TypeInv, LoadedInv, TaskIsAlive, Places, HasFile,
        InDriver, InMain, Goto, Set, program, Vanish
<1>1. CASE test_driver_init \/ test_driver_exit
  BY <1>1 DEF test_driver_init, test_driver_exit
<1>2. ASSUME NEW a \in Apps, OpenDevice(a) \/ test_ioctl(a) \/ ReadCall(a)
      PROVE  TypeInv' /\ LoadedInv' /\ TaskIsAlive'
  BY <1>2 DEF OpenDevice, test_ioctl, ReadCall
<1>3. ASSUME NEW a \in Apps, ReadTest(a) \/ ReadLoad(a)
      PROVE  TypeInv' /\ LoadedInv' /\ TaskIsAlive'
  BY <1>3 DEF ReadTest, ReadLoad
<1>4. ASSUME NEW a \in Apps, ReadSend(a)
      PROVE  TypeInv' /\ LoadedInv' /\ TaskIsAlive'
  BY <1>4 DEF ReadSend
<1>5. ASSUME NEW a \in Apps, Spin(a) \/ Loop(a)
      PROVE  TypeInv' /\ LoadedInv' /\ TaskIsAlive'
  BY <1>5 DEF Spin, Loop
<1>6. ASSUME NEW a \in Apps, ReleaseTest(a) \/ ReleaseClear(a)
      PROVE  TypeInv' /\ LoadedInv' /\ TaskIsAlive'
  BY <1>6 DEF ReleaseTest, ReleaseClear
<1>7. ASSUME NEW a \in Apps, Signal(a)
      PROVE  TypeInv' /\ LoadedInv' /\ TaskIsAlive'
  BY <1>7 DEF Signal, sig_event_handler, ctrl_c_handler, Killed
<1>8. CASE UNCHANGED appvars
  BY <1>8 DEF appvars
<1> QED
  BY <1>1, <1>2, <1>3, <1>4, <1>5, <1>6, <1>7, <1>8
     DEF AppNext, AppStep, Ended

(* Every step that does not let a second process in keeps LoneInv.         *)
LEMMA LoneStep ==
    ASSUME TypeInv, LoadedInv, ~shared => LoneInv, [AppNext]_appvars, ~shared'
    PROVE  LoneInv'
<1> USE AppsAssumption DEF TypeInv, LoadedInv, LoneInv, Places, HasFile,
        InDriver, InMain, Registered, Goto, Set, program, Vanish
<1>1. CASE test_driver_init \/ test_driver_exit
  BY <1>1 DEF test_driver_init, test_driver_exit
<1>2. ASSUME NEW a \in Apps, OpenDevice(a)
      PROVE  LoneInv'
  <2>1. ~shared /\ (loaded => \A b \in Apps : place[b] \notin HasFile)
    BY <1>2, Zenon DEF OpenDevice
  <2> QED
    BY <1>2, <2>1 DEF OpenDevice
<1>3. ASSUME NEW a \in Apps, test_ioctl(a) \/ ReadCall(a)
      PROVE  LoneInv'
  BY <1>3 DEF test_ioctl, ReadCall
<1>4. ASSUME NEW a \in Apps, ReadTest(a) \/ ReadLoad(a)
      PROVE  LoneInv'
  BY <1>4 DEF ReadTest, ReadLoad
<1>5. ASSUME NEW a \in Apps, ReadSend(a)
      PROVE  LoneInv'
  BY <1>5 DEF ReadSend
<1>6. ASSUME NEW a \in Apps, Spin(a) \/ Loop(a)
      PROVE  LoneInv'
  BY <1>6 DEF Spin, Loop
<1>7. ASSUME NEW a \in Apps, ReleaseTest(a) \/ ReleaseClear(a)
      PROVE  LoneInv'
  BY <1>7 DEF ReleaseTest, ReleaseClear
<1>8. ASSUME NEW a \in Apps, Signal(a)
      PROVE  LoneInv'
  BY <1>8 DEF Signal, sig_event_handler, ctrl_c_handler, Killed
<1>9. CASE UNCHANGED appvars
  BY <1>9 DEF appvars
<1> QED
  BY <1>1, <1>2, <1>3, <1>4, <1>5, <1>6, <1>7, <1>8, <1>9
     DEF AppNext, AppStep, Ended

(* The inductive invariant of the driver and its processes.                *)
THEOREM SignalInvariance == AppSpec => []SignalInv
<1>1. AppInit => SignalInv
  BY AppsAssumption DEF AppInit, SignalInv, TypeInv, LoadedInv, TaskIsAlive,
     LoneInv, Places, HasFile, InDriver, InMain, Registered
<1>2. SignalInv /\ [AppNext]_appvars => SignalInv'
  BY AliveStep, LoneStep DEF SignalInv
<1> QED
  BY <1>1, <1>2, PTL DEF AppSpec

(* The driver never holds a pointer to a process that has ended, however   *)
(* many processes register, are interrupted and are killed.                *)
THEOREM PointerAlive == AppSpec => []TaskIsAlive
<1>1. SignalInv => TaskIsAlive
  BY DEF SignalInv
<1> QED
  BY <1>1, SignalInvariance, PTL

(* A program that had the device to itself has got, or is about to get,    *)
(* exactly one signal for its read, and the driver did not fault.          *)
THEOREM LoneProgramServed == AppSpec => []LoneProgram
<1>1. SignalInv => LoneProgram
  BY DEF SignalInv, LoneInv, LoneProgram
<1> QED
  BY <1>1, SignalInvariance, PTL
=============================================================================
