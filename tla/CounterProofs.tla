--------------------------- MODULE CounterProofs ---------------------------
(***************************************************************************)
(* Theorems about CounterDrivers, for every width of the counter, every    *)
(* number of rounds and every way the steps of test_driver_init may fail.  *)
(*                                                                         *)
(* CounterInv says who is inside which lock, that the lock is set up       *)
(* before a thread exists, what the registers of the threads are worth,    *)
(* what the sequence tells, what the exit has waited for, and which result *)
(* of a kernel call stands behind a crash.                                 *)
(***************************************************************************)
EXTENDS CounterDrivers, TLAPS

(* The counter wraps at an even number, so an increment flips its parity.  *)
LEMMA Parity ==
    ASSUME NEW v \in 0 .. Modulus - 1
    PROVE  /\ (v + 1) % Modulus \in 0 .. Modulus - 1
           /\ ((v + 1) % Modulus) % 2 = 1 - (v % 2)
<1>1. CASE v + 1 < Modulus
  <2>1. (v + 1) % Modulus = v + 1
    BY <1>1, CounterAssumption
  <2> QED
    BY <1>1, <2>1, CounterAssumption
<1>2. CASE v + 1 = Modulus
  <2>1. (v + 1) % Modulus = 0
    BY <1>2, CounterAssumption
  <2> QED
    BY <1>2, <2>1, CounterAssumption
<1> QED
  BY <1>1, <1>2, CounterAssumption

(* What a step of test_driver_init does to the driver's state. *)
LEMMA LoadStep ==
    ASSUME CounterInv, Load
    PROVE  /\ DriverTypeOK'
           /\ mod \in InitPc
           /\ pc' \in [Threads -> Places]
           /\ \A t \in Threads : pc'[t] = pc[t] \/ pc'[t] \in {"none", "top"}
           /\ \A t \in Threads : pc'[t] # pc[t] => pc[t] = "none"
           /\ NotStarted' /\ Stopped'
           /\ UNCHANGED <<drv, readers, seq_no, etc_bit_check, values, writes,
                          overlap>>
           /\ \/ /\ UNCHANGED <<lock, sequence, raced>>
                 /\ lock = NotSetUp =>
                       /\ pc' = pc
                       /\ mod' \in {"cdev", "class", "device", "early_lock",
                                   "failed", "oops"}
              \/ /\ drv \in {"mtx1", "sem1"} /\ mod' = "thread1" /\ pc' = pc
                 /\ lock' = 1 /\ UNCHANGED <<sequence, raced>>
              \/ /\ drv = "seqlock1" /\ pc' = pc
                 /\ lock' = 1 /\ sequence' = 0
                 /\ raced' = (raced \/ InWrite \/ InRead)
<1> USE DEF Load, Spin1Init, Spin2Init, Atomic1Init, Mtx1Init, Sem1Init,
        Seqlock1Init, SetUpLock, SeqlockInit, counterVars, values, history,
        locks
<1>1. should_stop' \in [Threads -> BOOLEAN]
  BY Zenon DEF CounterInv, TypeOK, DriverTypeOK, InitStep, AllocRegion,
     AddCdev, CreateClass, CreateDevice, RunThread1, RunThread2, RunThread,
     NoEarlyLock, NoLateLock
<1>2. InitStep \/ NoEarlyLock \/ NoLateLock
  OBVIOUS
<1>3. /\ DriverTypeOK' /\ mod \in InitPc
      /\ pc' \in [Threads -> Places]
      /\ \A t \in Threads : pc'[t] = pc[t] \/ pc'[t] \in {"none", "top"}
      /\ \A t \in Threads : pc'[t] # pc[t] => pc[t] = "none"
      /\ NotStarted' /\ Stopped'
  <2> USE DEF CounterInv, TypeOK, DriverTypeOK, NotStarted, Stopped, Threads,
          Places, InitPc, ExitPc, EndPc, Resources
  <2>1. CASE AllocRegion \/ AddCdev \/ CreateClass
    BY <1>1, <2>1 DEF AllocRegion, AddCdev, CreateClass, RClass
  <2>2. CASE CreateDevice \/ NoEarlyLock \/ NoLateLock
    BY <1>1, <2>2 DEF CreateDevice, RDevice, NoEarlyLock, NoLateLock
  <2>3. CASE RunThread1
    <3>1. PICK o \in Outcomes :
            /\ task' = [task EXCEPT ![1] = IF o = "ok" THEN "task" ELSE o]
            /\ pc' = [pc EXCEPT ![1] = IF o = "ok" THEN "top" ELSE "none"]
            /\ IF o = "null" THEN RDevice ELSE mod' = "thread2" /\ held' = held
      BY <2>3, Zenon DEF RunThread1, RunThread
    <3>2. o \in {"ok", "null", "err"}
      BY OutcomesAssumption
    <3>3. pc[1] = "none" /\ pc[2] = "none" /\ should_stop' = should_stop
      BY <2>3 DEF RunThread1, RunThread
    <3>4. /\ mod' \in {"failed", "thread2"}
          /\ held' \in SUBSET Resources
      BY <3>1, <3>2 DEF RDevice
    <3>5. /\ pc' \in [Threads -> Places] /\ pc'[2] = "none"
          /\ pc'[1] \in {"none", "top"}
      BY <3>1, <3>2, <3>3
    <3>6. DriverTypeOK'
      BY <1>1, <3>1, <3>2, <3>4
    <3> QED
      BY <2>3, <3>3, <3>4, <3>5, <3>6 DEF RunThread1
  <2>4. CASE RunThread2
    <3>1. PICK o \in Outcomes :
            /\ task' = [task EXCEPT ![2] = IF o = "ok" THEN "task" ELSE o]
            /\ pc' = [pc EXCEPT ![2] = IF o = "ok" THEN "top" ELSE "none"]
            /\ IF o = "null" THEN RDevice
               ELSE mod' = "late_lock" /\ held' = held
      BY <2>4, Zenon DEF RunThread2, RunThread
    <3>2. o \in {"ok", "null", "err"}
      BY OutcomesAssumption
    <3> QED
      BY <1>1, <2>4, <3>1, <3>2 DEF RunThread2, RDevice
  <2> QED
    BY <1>2, <2>1, <2>2, <2>3, <2>4 DEF InitStep
<1>4. lock = NotSetUp =>
        \/ mod = "early_lock" /\ drv \in {"mtx1", "sem1"} /\ SetUpLock
        \/ /\ pc' = pc
           /\ mod' \in {"cdev", "class", "device", "early_lock", "failed",
                       "oops"}
  BY DEF CounterInv, LockInv, InitStep, AllocRegion, AddCdev, CreateClass,
     CreateDevice, RunThread1, RunThread2, NoEarlyLock, NoLateLock, RClass,
     RDevice
<1> QED
  BY <1>3, <1>4 DEF NoEarlyLock, NoLateLock

(* What a step of test_driver_exit does to it. *)
LEMMA ExitKeeps ==
    ASSUME CounterInv, Exit
    PROVE  /\ DriverTypeOK' /\ NotStarted' /\ Stopped'
           /\ mod' \notin {"region", "cdev", "class", "device", "early_lock"}
           /\ mod \notin {"region", "cdev", "class", "device", "early_lock",
                          "failed", "oops"}
           /\ UNCHANGED <<pc, counterVars>>
<1> USE DEF Exit, ExitStop1, ExitStep, ExitWait1, ExitStop2, ExitWait2,
        ExitDestroy, KthreadStop, KthreadStopped
<1>1. should_stop' \in [Threads -> BOOLEAN]
  BY Zenon DEF CounterInv, TypeOK, DriverTypeOK
<1> QED
  BY <1>1 DEF CounterInv, TypeOK, DriverTypeOK, NotStarted, Stopped, InitPc,
     ExitPc, EndPc, Resources

(* What a step of a thread does to it. *)
LEMMA ThreadKeeps ==
    ASSUME CounterInv, NEW t \in Threads, Thread(t)
    PROVE  /\ DriverTypeOK' /\ NotStarted' /\ Stopped'
           /\ UNCHANGED <<mod, held, task, drv, raced>>
           /\ pc[t] \notin {"none", "returned"}
           /\ pc' = [pc EXCEPT ![t] = pc'[t]]
<1>1. /\ UNCHANGED <<mod, held, task, should_stop, drv, raced>>
      /\ pc[t] \notin {"none", "returned"}
      /\ pc' = [pc EXCEPT ![t] = pc'[t]]
  BY DEF CounterInv, TypeOK, Thread, Spin1Thread, Mtx1Thread, Sem1Thread,
     Atomic1Thread, Spin2Writer, Spin2Reader, Seqlock1Writer, Seqlock1Reader,
     Loop, LoopTest, Goto, Acquire, Round, FetchAdd, Store, Show, Release,
     WriteLock, ReadLock, ReadUnlock, WriteSeqlock, WriteSequnlock, ReadSpin,
     ReadSeqbegin, ReadSeqretry, AtomicInc, TestAndChangeBit, counterVars,
     history, vars, driverVars, Writer, Reader
<1> QED
  BY <1>1 DEF CounterInv, TypeOK, DriverTypeOK, NotStarted, Stopped, Threads

-----------------------------------------------------------------------------
(* The state keeps its type. *)
LEMMA CounterTypeStep ==
    ASSUME CounterInv, [Next]_vars
    PROVE  TypeOK'
<1>1. CASE Load
  <2>1. /\ pc' \in [Threads -> Places]
        /\ \A t \in Threads : pc'[t] \in Body(drv, t)
    BY <1>1, LoadStep DEF CounterInv, TypeOK, Body
  <2>2. raced' \in BOOLEAN
    BY <1>1, LoadStep, Zenon DEF CounterInv, TypeOK
  <2>3. UNCHANGED <<drv, readers, seq_no, etc_bit_check, test_global_variable,
                    reg, shown, mine, increments, writes, overlap>>
    BY <1>1, LoadStep DEF values
  <2> QED
    BY <1>1, <2>1, <2>2, <2>3, LoadStep, CounterAssumption
       DEF CounterInv, TypeOK
<1>2. CASE Exit
  BY <1>2, ExitKeeps DEF CounterInv, TypeOK, counterVars
<1>3. ASSUME NEW t \in Threads, Thread(t)
      PROVE  TypeOK'
  <2> USE DEF CounterInv, TypeOK, Threads, Locked, OneReads, Writer, Reader
  <2>1. DriverTypeOK' /\ drv' = drv /\ raced' = raced
    BY <1>3, ThreadKeeps
  <2>2. pc'[t] \in Body(drv, t) /\ pc'[t] \in Places
    <3> USE DEF Body, Places
    <3>1. CASE drv \in Locked
      BY <1>3, <3>1 DEF Thread, Spin1Thread, Mtx1Thread, Sem1Thread,
         Atomic1Thread, Spin2Writer, Spin2Reader, Seqlock1Writer,
         Seqlock1Reader, Loop, LoopTest, Goto, Acquire, Round, FetchAdd,
         Store, Show, Release
    <3>2. CASE drv = "spin2"
      BY <1>3, <3>2 DEF Thread, Spin1Thread, Mtx1Thread, Sem1Thread,
         Atomic1Thread, Spin2Writer, Spin2Reader, Seqlock1Writer,
         Seqlock1Reader, Loop, LoopTest, Goto, FetchAdd, Store, Show,
         Release, WriteLock, ReadLock, ReadUnlock
    <3>3. CASE drv = "seqlock1"
      BY <1>3, <3>3 DEF Thread, Spin1Thread, Mtx1Thread, Sem1Thread,
         Atomic1Thread, Spin2Writer, Spin2Reader, Seqlock1Writer,
         Seqlock1Reader, Loop, LoopTest, Goto, FetchAdd, Store, Show,
         WriteSeqlock, WriteSequnlock, ReadSpin, ReadSeqbegin, ReadSeqretry,
         vars, driverVars
    <3>4. CASE drv = "atomic1"
      BY <1>3, <3>4 DEF Thread, Spin1Thread, Mtx1Thread, Sem1Thread,
         Atomic1Thread, Spin2Writer, Spin2Reader, Seqlock1Writer,
         Seqlock1Reader, Loop, LoopTest, Goto, AtomicInc, TestAndChangeBit,
         Show
    <3> QED
      BY <3>1, <3>2, <3>3, <3>4 DEF Drivers
  <2>3. /\ pc' \in [Threads -> Places]
        /\ \A s \in Threads : pc'[s] \in Body(drv, s)
    BY <1>3, <2>2, ThreadKeeps
  <2>4. overlap' \in BOOLEAN
    <3>1. CASE WriteSeqlock
      BY <3>1, Zenon DEF WriteSeqlock
    <3>2. CASE ReadSeqbegin
      <4>1. InWrite \in BOOLEAN
        BY DEF InWrite
      <4> QED
        BY <3>2, <4>1, Zenon DEF ReadSeqbegin
    <3>3. CASE overlap' = overlap
      BY <3>3
    <3> QED
      BY <1>3, <3>1, <3>2, <3>3 DEF Thread, Spin1Thread, Mtx1Thread,
         Sem1Thread, Atomic1Thread, Spin2Writer, Spin2Reader,
         Seqlock1Writer, Seqlock1Reader, Loop, Acquire, Round, FetchAdd,
         Store, Show, Release, WriteLock, ReadLock, ReadUnlock,
         WriteSequnlock, ReadSpin, ReadSeqretry, AtomicInc,
         TestAndChangeBit, counterVars, history, vars
  <2>5. /\ lock' \in {0, 1, NotSetUp} /\ readers' \in {0, 1}
        /\ etc_bit_check' \in {0, 1}
    BY <1>3 DEF Thread, Spin1Thread, Mtx1Thread, Sem1Thread, Atomic1Thread,
       Spin2Writer, Spin2Reader, Seqlock1Writer, Seqlock1Reader, Loop,
       Acquire, Round, FetchAdd, Store, Show, Release, WriteLock, ReadLock,
       ReadUnlock, WriteSeqlock, WriteSequnlock, ReadSpin, ReadSeqbegin,
       ReadSeqretry, AtomicInc, TestAndChangeBit, counterVars, vars, locks
  <2>7. /\ sequence' \in 0 .. 2 * MaxWrites /\ seq_no' \in 0 .. 2 * MaxWrites
        /\ writes' \in 0 .. MaxWrites
    <3>1. CASE drv = "seqlock1" /\ WriteSeqlock
      BY <3>1, CounterAssumption DEF WriteSeqlock, Goto, SeqInv, InWrite
    <3>2. CASE drv = "seqlock1" /\ WriteSequnlock
      BY <3>2, CounterAssumption DEF WriteSequnlock, Goto, SeqInv, InWrite,
         history
    <3>3. CASE ReadSeqbegin
      BY <3>3 DEF ReadSeqbegin
    <3>4. CASE UNCHANGED <<sequence, seq_no, writes>>
      BY <3>4
    <3> QED
      BY <1>3, <3>1, <3>2, <3>3, <3>4 DEF Thread, Spin1Thread, Mtx1Thread,
         Sem1Thread, Atomic1Thread, Spin2Writer, Spin2Reader,
         Seqlock1Writer, Seqlock1Reader, Loop, Acquire, Round, FetchAdd,
         Store, Show, Release, WriteLock, ReadLock, ReadUnlock, ReadSpin,
         ReadSeqretry, AtomicInc, TestAndChangeBit, counterVars, history,
         vars, locks
  <2>6. /\ test_global_variable' \in 0 .. Modulus - 1
        /\ reg' \in [Threads -> 0 .. Modulus - 1]
        /\ shown' \in [Threads -> 0 .. Modulus - 1]
        /\ mine' \in [Threads -> 0 .. Modulus - 1]
        /\ increments' \in 0 .. Modulus - 1
    BY <1>3, Parity DEF Thread, Spin1Thread, Mtx1Thread, Sem1Thread,
       Atomic1Thread, Spin2Writer, Spin2Reader, Seqlock1Writer,
       Seqlock1Reader, Loop, Acquire, Round, FetchAdd, Store, Show, Release,
       WriteLock, ReadLock, ReadUnlock, WriteSeqlock, WriteSequnlock,
       ReadSpin, ReadSeqbegin, ReadSeqretry, AtomicInc, TestAndChangeBit,
       counterVars, vars, values
  <2> QED
    BY <2>1, <2>3, <2>4, <2>5, <2>6, <2>7
<1>4. CASE UNCHANGED vars
  BY <1>4 DEF vars, driverVars, counterVars, CounterInv, TypeOK, DriverTypeOK
<1> QED
  BY <1>1, <1>2, <1>3, <1>4 DEF Next, DriverEnded, vars

-----------------------------------------------------------------------------
(* Who is inside which lock, and that it is set up by then. *)
LEMMA LockStep ==
    ASSUME CounterInv, [Next]_vars
    PROVE  LockInv'
<1> USE DEF CounterInv, TypeOK, LockInv, Inside, NotSetUp, InWrite, Writer,
        Reader, Locked, Threads
<1>1. CASE Load
  <2>1. /\ NotStarted' /\ drv' = drv /\ readers' = readers
        /\ \A t \in Threads : pc'[t] = pc[t] \/ pc'[t] \in {"none", "top"}
        /\ \A t \in Threads : pc'[t] # pc[t] => pc[t] = "none"
    BY <1>1, LoadStep
  <2>2. CASE /\ UNCHANGED <<lock, sequence, raced>>
             /\ lock = NotSetUp =>
                   /\ pc' = pc
                   /\ mod' \in {"cdev", "class", "device", "early_lock",
                               "failed", "oops"}
    BY <2>1, <2>2
  <2>3. CASE /\ drv \in {"mtx1", "sem1"} /\ mod' = "thread1"
             /\ lock' = 1 /\ pc' = pc
    BY <1>1, <2>1, <2>3 DEF NotStarted
  <2>4. CASE drv = "seqlock1" /\ lock' = 1 /\ pc' = pc
    BY <2>1, <2>4
  <2> QED
    BY <1>1, <2>2, <2>3, <2>4, LoadStep
<1>2. CASE Exit
  BY <1>2, ExitKeeps DEF counterVars
<1>3. ASSUME NEW t \in Threads, Thread(t)
      PROVE  LockInv'
  <2>1. lock # NotSetUp /\ mod' = mod /\ drv' = drv
    BY <1>3, ThreadKeeps
  <2>2. CASE drv \in Locked
    BY <1>3, <2>1, <2>2 DEF Thread, Spin1Thread, Mtx1Thread, Sem1Thread,
       Atomic1Thread, Spin2Writer, Spin2Reader, Seqlock1Writer,
       Seqlock1Reader, Loop, LoopTest, Goto, Acquire, Round, FetchAdd, Store,
       Show, Release, counterVars, locks
  <2>3. CASE drv = "spin2"
    BY <1>3, <2>1, <2>3 DEF Thread, Spin1Thread, Mtx1Thread, Sem1Thread,
       Atomic1Thread, Spin2Writer, Spin2Reader, Seqlock1Writer,
       Seqlock1Reader, Loop, LoopTest, Goto, FetchAdd, Store, Show, Release,
       WriteLock, ReadLock, ReadUnlock, counterVars, locks, Body, OneReads
  <2>4. CASE drv \in {"seqlock1", "atomic1"}
    BY <1>3, <2>1, <2>4 DEF Thread, Spin1Thread, Mtx1Thread, Sem1Thread,
       Atomic1Thread, Spin2Writer, Spin2Reader, Seqlock1Writer,
       Seqlock1Reader, Loop, FetchAdd, Store, Show, WriteSeqlock,
       WriteSequnlock, ReadSpin, ReadSeqbegin, ReadSeqretry, AtomicInc,
       TestAndChangeBit, counterVars, locks, vars
  <2> QED
    BY <2>2, <2>3, <2>4 DEF Drivers, OneReads
<1>4. CASE UNCHANGED vars
  BY <1>4 DEF vars, driverVars, counterVars
<1> QED
  BY <1>1, <1>2, <1>3, <1>4 DEF Next, DriverEnded, vars

(* What the threads have loaded, stored and printed. *)
LEMMA ValueStep ==
    ASSUME CounterInv, [Next]_vars
    PROVE  ValueInv'
<1> USE DEF CounterInv, TypeOK, ValueInv, PrintsItsOwn, ReadStable,
        BitFollowsCount, Flipping, Writer, Reader, Locked, Threads
<1>1. CASE Load
  <2>1. /\ UNCHANGED <<drv, etc_bit_check, test_global_variable, reg, shown,
                       mine>>
        /\ \A t \in Threads : pc'[t] = pc[t] \/ pc'[t] \in {"none", "top"}
        /\ \A t \in Threads : pc'[t] # pc[t] => pc[t] = "none"
    BY <1>1, LoadStep DEF values
  <2>2. \A t \in Threads : Flipping(t)' = Flipping(t)
    BY <2>1
  <2> QED
    BY <2>1, <2>2
<1>2. CASE Exit
  BY <1>2, ExitKeeps DEF counterVars
<1>3. ASSUME NEW t \in Threads, Thread(t)
      PROVE  ValueInv'
  <2>1. drv' = drv
    BY <1>3, ThreadKeeps
  <2>2. CASE drv \in Locked
    BY <1>3, <2>1, <2>2 DEF LockInv, Inside, Thread, Spin1Thread, Mtx1Thread,
       Sem1Thread, Atomic1Thread, Spin2Writer, Spin2Reader, Seqlock1Writer,
       Seqlock1Reader, Loop, LoopTest, Goto, Acquire, Round, FetchAdd, Store,
       Show, Release, counterVars, values
  <2>3. CASE drv = "spin2"
    BY <1>3, <2>1, <2>3 DEF LockInv, InWrite, Thread, Spin1Thread,
       Mtx1Thread, Sem1Thread, Atomic1Thread, Spin2Writer, Spin2Reader,
       Seqlock1Writer, Seqlock1Reader, Loop, LoopTest, Goto, FetchAdd, Store,
       Show, Release, WriteLock, ReadLock, ReadUnlock, counterVars, values,
       Body, OneReads
  <2>4. CASE drv = "seqlock1"
    BY <1>3, <2>1, <2>4 DEF Thread, Spin1Thread, Mtx1Thread, Sem1Thread,
       Atomic1Thread, Spin2Writer, Spin2Reader, Seqlock1Writer,
       Seqlock1Reader, Loop, LoopTest, Goto, FetchAdd, Store, Show,
       WriteSeqlock, WriteSequnlock, ReadSpin, ReadSeqbegin, ReadSeqretry,
       counterVars, values, vars, driverVars, Body, OneReads
  <2>5. CASE drv = "atomic1"
    <3>1. Atomic1Thread(t)
      BY <1>3, <2>5 DEF Thread, Spin1Thread, Mtx1Thread, Sem1Thread,
         Spin2Writer, Spin2Reader, Seqlock1Writer, Seqlock1Reader
    <3>2. CASE AtomicInc(t)
      <4>1. /\ test_global_variable' = (test_global_variable + 1) % Modulus
            /\ pc' = [pc EXCEPT ![t] = "flip"] /\ pc[t] = "inc"
            /\ UNCHANGED <<etc_bit_check, reg, shown, mine>>
        BY <3>2 DEF AtomicInc, Goto, locks
      <4>2. /\ test_global_variable \in 0 .. Modulus - 1
            /\ test_global_variable' \in 0 .. Modulus - 1
            /\ test_global_variable' % 2 = 1 - (test_global_variable % 2)
        BY <4>1, Parity
      <4>3. Flipping(1)' + Flipping(2)' = Flipping(1) + Flipping(2) + 1
        BY <4>1
      <4>4. BitFollowsCount'
        <5>1. (test_global_variable + Flipping(1) + Flipping(2)
                + etc_bit_check) % 2 = 0
          BY <2>5
        <5>2. /\ Flipping(1) \in Int /\ Flipping(2) \in Int
              /\ etc_bit_check \in Int
          OBVIOUS
        <5>3. Flipping(1)' \in Int /\ Flipping(2)' \in Int
          OBVIOUS
        <5> HIDE DEF Flipping
        <5> QED
          BY <4>1, <4>2, <4>3, <5>1, <5>2, <5>3, CounterAssumption
      <4>5. \A s \in Threads : pc'[s] # "store"
        BY <2>5, <4>1 DEF Body, OneReads
      <4> QED
        BY <2>1, <2>5, <4>4, <4>5
    <3>3. CASE TestAndChangeBit(t)
      BY <2>1, <2>5, <3>3 DEF TestAndChangeBit, Goto, values, Body
    <3>4. CASE Loop(t, "inc") \/ Show(t, "print", "top")
      BY <2>1, <2>5, <3>4 DEF Loop, LoopTest, Show, Goto, counterVars, Body,
         locks
    <3> QED
      BY <3>1, <3>2, <3>3, <3>4 DEF Atomic1Thread
  <2> QED
    BY <2>2, <2>3, <2>4, <2>5 DEF Drivers, OneReads
<1>4. CASE UNCHANGED vars
  BY <1>4 DEF vars, driverVars, counterVars
<1> QED
  BY <1>1, <1>2, <1>3, <1>4 DEF Next, DriverEnded, vars

(* The sequence is odd exactly while the writer is in its section, as long *)
(* as seqlock_init has not come in between, and it moves with every write. *)
LEMMA SeqStep ==
    ASSUME CounterInv, [Next]_vars
    PROVE  SeqInv'
<1> SUFFICES ASSUME drv' = "seqlock1"
             PROVE  SeqInv'
  BY DEF SeqInv
<1> USE DEF CounterInv, TypeOK, SeqInv, InWrite, InRead, ReadUndisturbed,
        Writer, Reader, Threads
<1>1. CASE Load
  <2>1. /\ UNCHANGED <<drv, seq_no, writes, overlap>>
        /\ \A t \in Threads : pc'[t] = pc[t] \/ pc'[t] \in {"none", "top"}
        /\ \A t \in Threads : pc'[t] # pc[t] => pc[t] = "none"
    BY <1>1, LoadStep
  <2>2. CASE UNCHANGED <<sequence, raced>>
    BY <2>1, <2>2
  <2>3. CASE /\ pc' = pc /\ sequence' = 0
             /\ raced' = (raced \/ InWrite \/ InRead)
    <3>1. sequence' <= 2 * writes' - (IF InWrite' THEN 1 ELSE 0)
      BY <2>1, <2>3, CounterAssumption
    <3>2. pc'[Writer] = "lock" => writes' < MaxWrites
      BY <2>1, <2>3
    <3>3. ~raced' => ~raced /\ ~InWrite' /\ ~InRead'
      <4> HIDE DEF InWrite, InRead
      <4>1. InWrite' = InWrite /\ InRead' = InRead
        BY <2>3 DEF InWrite, InRead
      <4> QED
        BY <2>3, <4>1, Zenon
    <3>4. ~raced' => sequence' % 2 = 0 /\ ReadUndisturbed'
      BY <2>1, <2>3, <3>3
    <3> QED
      BY <3>1, <3>2, <3>3, <3>4
  <2> QED
    BY <1>1, <2>2, <2>3, LoadStep
<1>2. CASE Exit
  BY <1>2, ExitKeeps DEF counterVars
<1>3. ASSUME NEW t \in Threads, Thread(t)
      PROVE  SeqInv'
  <2>1. drv = "seqlock1" /\ raced' = raced
    BY <1>3, ThreadKeeps
  <2>2. \/ t = Writer /\ Seqlock1Writer
        \/ t = Reader /\ Seqlock1Reader
    BY <1>3, <2>1 DEF Thread, Spin1Thread, Mtx1Thread, Sem1Thread,
       Atomic1Thread, Spin2Writer, Spin2Reader
  <2>3. CASE WriteSeqlock
    BY <2>1, <2>3, CounterAssumption DEF WriteSeqlock, Goto
  <2>4. CASE WriteSequnlock
    BY <2>1, <2>4, CounterAssumption DEF WriteSequnlock, Goto, history
  <2>5. CASE FetchAdd(Writer) \/ Store(Writer)
    BY <2>1, <2>5 DEF FetchAdd, Store, Goto, locks, history, Locked
  <2>6. CASE /\ writes < MaxWrites \/ should_stop[Writer]
             /\ Loop(Writer, "lock")
    BY <2>1, <2>6 DEF Loop, LoopTest, counterVars
  <2>7. CASE ReadSeqbegin
    BY <2>1, <2>7 DEF ReadSeqbegin, Goto
  <2>8. CASE Show(Reader, "fetch", "retry")
    BY <2>1, <2>8 DEF Show, Goto, locks, history
  <2>9. CASE ReadSeqretry
    BY <2>1, <2>9 DEF ReadSeqretry, Goto, counterVars
  <2>10. CASE \/ Loop(Reader, "begin") \/ ReadSpin
              \/ Goto(Reader, "print", "top") /\ UNCHANGED counterVars
    BY <2>1, <2>10 DEF Loop, LoopTest, ReadSpin, Goto, counterVars, vars,
       driverVars
  <2> QED
    BY <2>2, <2>3, <2>4, <2>5, <2>6, <2>7, <2>8, <2>9, <2>10
       DEF Seqlock1Writer, Seqlock1Reader
<1>4. CASE UNCHANGED vars
  BY <1>4 DEF vars, driverVars, counterVars
<1> QED
  BY <1>1, <1>2, <1>3, <1>4 DEF Next, DriverEnded, vars

(* Which results of the kernel calls stand behind a crash or a failed load.*)
LEMMA FaultStep ==
    ASSUME CounterInv, [Next]_vars
    PROVE  FaultInv'
<1> USE DEF CounterInv, FaultInv, FaultsExplained, Threads, ExitPc
<1>1. CASE Load
  <2> USE DEF NotStarted
  <2>1. InitStep \/ NoEarlyLock \/ NoLateLock
    BY <1>1 DEF Load, Spin1Init, Spin2Init, Atomic1Init, Mtx1Init, Sem1Init,
       Seqlock1Init, SetUpLock, SeqlockInit
  <2>2. CASE AllocRegion \/ AddCdev \/ CreateClass
    BY <2>2 DEF AllocRegion, AddCdev, CreateClass, RClass, TypeOK,
       DriverTypeOK, Resources
  <2>3. CASE CreateDevice \/ NoEarlyLock \/ NoLateLock
    BY <2>3 DEF CreateDevice, NoEarlyLock, NoLateLock, RDevice, TypeOK,
       DriverTypeOK, Resources
  <2>4. CASE RunThread1
    <3>1. PICK o \in Outcomes :
            /\ task' = [task EXCEPT ![1] = IF o = "ok" THEN "task" ELSE o]
            /\ pc' = [pc EXCEPT ![1] = IF o = "ok" THEN "top" ELSE "none"]
            /\ IF o = "null" THEN RDevice
               ELSE mod' = "thread2" /\ held' = held
      BY <2>4, Zenon DEF RunThread1, RunThread
    <3>2. o \in {"ok", "null", "err"}
      BY OutcomesAssumption
    <3>3. /\ task'[1] = IF o = "ok" THEN "task" ELSE o
          /\ pc'[1] = IF o = "ok" THEN "top" ELSE "none"
          /\ task'[2] = task[2] /\ pc'[2] = pc[2]
      BY <3>1 DEF TypeOK, DriverTypeOK
    <3> QED
      BY <2>4, <3>1, <3>2, <3>3 DEF RunThread1, RDevice, TypeOK,
         DriverTypeOK, Resources
  <2>5. CASE RunThread2
    <3>1. PICK o \in Outcomes :
            /\ task' = [task EXCEPT ![2] = IF o = "ok" THEN "task" ELSE o]
            /\ pc' = [pc EXCEPT ![2] = IF o = "ok" THEN "top" ELSE "none"]
            /\ IF o = "null" THEN RDevice
               ELSE mod' = "late_lock" /\ held' = held
      BY <2>5, Zenon DEF RunThread2, RunThread
    <3>2. o \in {"ok", "null", "err"}
      BY OutcomesAssumption
    <3>3. /\ task'[2] = IF o = "ok" THEN "task" ELSE o
          /\ pc'[2] = IF o = "ok" THEN "top" ELSE "none"
          /\ task'[1] = task[1] /\ pc'[1] = pc[1]
      BY <3>1 DEF TypeOK, DriverTypeOK
    <3> QED
      BY <2>5, <3>1, <3>2, <3>3 DEF RunThread2, RDevice, TypeOK,
         DriverTypeOK, Resources
  <2> QED
    BY <2>1, <2>2, <2>3, <2>4, <2>5 DEF InitStep
<1>2. CASE Exit
  <2>1. UNCHANGED <<pc, task>>
    BY <1>2 DEF Exit, ExitStop1, ExitStep, ExitWait1, ExitStop2, ExitWait2,
       ExitDestroy, KthreadStop, KthreadStopped
  <2>2. CASE ExitDestroy
    BY <2>1, <2>2 DEF ExitDestroy
  <2>3. CASE ExitStop1 \/ ExitStop2
    BY <2>1, <2>3 DEF ExitStop1, ExitStop2, KthreadStop, TypeOK, DriverTypeOK
  <2>4. CASE ExitWait1 \/ ExitWait2
    BY <2>1, <2>4 DEF ExitWait1, ExitWait2, KthreadStopped
  <2> QED
    BY <1>2, <2>2, <2>3, <2>4 DEF Exit, ExitStep
<1>3. ASSUME NEW t \in Threads, Thread(t)
      PROVE  FaultInv'
  BY <1>3, ThreadKeeps DEF TypeOK
<1>4. CASE UNCHANGED vars
  BY <1>4 DEF vars, driverVars
<1> QED
  BY <1>1, <1>2, <1>3, <1>4 DEF Next, DriverEnded, vars

-----------------------------------------------------------------------------
(* Before test_driver_init begins. *)
LEMMA CounterInit == Init => CounterInv
<1> SUFFICES ASSUME Init
             PROVE  CounterInv
  OBVIOUS
<1> USE DEF Init, DriverInit, Threads
<1>1. TypeOK
  <2>1. should_stop \in [Threads -> BOOLEAN]
    OBVIOUS
  <2>2. /\ pc \in [Threads -> Places]
        /\ \A t \in Threads : pc[t] \in Body(drv, t)
    BY DEF Places, Body
  <2>3. lock \in {0, 1, NotSetUp}
    BY DEF NotSetUp
  <2>4. DriverTypeOK
    BY <2>1 DEF DriverTypeOK, InitPc, Resources
  <2>5. overlap \in BOOLEAN /\ raced \in BOOLEAN
    BY Zenon
  <2>6. 0 \in 0 .. Modulus - 1 /\ 0 \in 0 .. MaxWrites
    BY CounterAssumption
  <2>7. /\ reg \in [Threads -> 0 .. Modulus - 1]
        /\ shown \in [Threads -> 0 .. Modulus - 1]
        /\ mine \in [Threads -> 0 .. Modulus - 1]
    BY <2>6
  <2>8. sequence \in 0 .. 2 * MaxWrites /\ seq_no \in 0 .. 2 * MaxWrites
    BY CounterAssumption
  <2> QED
    BY <2>2, <2>3, <2>4, <2>5, <2>6, <2>7, <2>8 DEF TypeOK
<1>2. LockInv /\ NotStarted /\ Stopped
  BY DEF LockInv, NotStarted, Stopped, Inside, InWrite, NotSetUp, Writer,
     Reader
<1>3. ValueInv
  BY DEF ValueInv, PrintsItsOwn, ReadStable, BitFollowsCount, Flipping,
     Reader
<1>4. SeqInv
  BY DEF SeqInv, InWrite, InRead, ReadUndisturbed, Writer, Reader
<1>5. FaultInv
  BY DEF FaultInv, FaultsExplained, ExitPc
<1> QED
  BY <1>1, <1>2, <1>3, <1>4, <1>5 DEF CounterInv

(* No step of any of the six drivers leaves the invariant. *)
LEMMA CounterNext == CounterInv /\ [Next]_vars => CounterInv'
<1> SUFFICES ASSUME CounterInv, [Next]_vars
             PROVE  CounterInv'
  OBVIOUS
<1>1. NotStarted' /\ Stopped'
  <2>1. CASE UNCHANGED vars
    BY <2>1 DEF CounterInv, NotStarted, Stopped, vars, driverVars
  <2> QED
    BY <2>1, LoadStep, ExitKeeps, ThreadKeeps DEF Next, DriverEnded, vars
<1> QED
  BY <1>1, CounterTypeStep, LockStep, ValueStep, SeqStep, FaultStep
     DEF CounterInv

(* The invariant holds throughout every run of the drivers. *)
THEOREM CounterInvariance == Spec => []CounterInv
  BY CounterInit, CounterNext, PTL DEF Spec

(* Every variable keeps its type: the counter stays within its width, the  *)
(* sequence within two steps a write section.                              *)
THEOREM CounterTypeCorrect == Spec => []TypeOK
<1>1. CounterInv => TypeOK
  BY DEF CounterInv
<1> QED
  BY <1>1, CounterInvariance, PTL

(* No thread of mtx1 or sem1 meets a lock that is not set up, and what a   *)
(* thread prints inside its lock is the value that the lock protects.      *)
THEOREM LockDiscipline == Spec => []LockProtects
<1>1. CounterInv => LockProtects
  BY DEF CounterInv, LockInv, ValueInv, LockSetUpBeforeUse, LockProtects
<1> QED
  BY <1>1, CounterInvariance, PTL

(* What the reading thread of seqlock1 prints was not written to while it  *)
(* was at it.                                                              *)
THEOREM ReaderUndisturbed == Spec => []ReadUndisturbed
<1>1. CounterInv => ReadUndisturbed
  BY DEF CounterInv, SeqInv, ReadUndisturbed
<1> QED
  BY <1>1, CounterInvariance, PTL

(* The bit of atomic1 is the parity of the increments it was changed for.  *)
THEOREM BitParity == Spec => []BitFollowsCount
<1>1. CounterInv => BitFollowsCount
  BY DEF CounterInv, ValueInv
<1> QED
  BY <1>1, CounterInvariance, PTL

(* A module that is gone has left no thread and no registration behind.    *)
THEOREM ExitClean == Spec => []ExitLeavesNothing
<1>1. CounterInv => ExitLeavesNothing
  BY DEF CounterInv, Stopped, ExitLeavesNothing, Threads
<1> QED
  BY <1>1, CounterInvariance, PTL

(* A crash of the exit and what a failed load leaves are explained by the  *)
(* results of kthread_run and class_create alone.                          *)
THEOREM FaultsAccounted == Spec => []FaultsExplained
<1>1. CounterInv => FaultsExplained
  BY DEF CounterInv, FaultInv
<1> QED
  BY <1>1, CounterInvariance, PTL

(* All six drivers implement the counter: each increment a thread makes    *)
(* moves the variable by one, and a thread prints only values it has.      *)
THEOREM CounterRefinement == Spec => NoLostIncrement
<1>1. Init => AbstractCounter!Init
  BY DEF Init, AbstractCounter!Init
<1>2. CounterInv /\ [Next]_vars
        => [AbstractCounter!Next]_<<test_global_variable, increments, shown>>
  <2> SUFFICES ASSUME CounterInv, [Next]_vars
               PROVE  \/ UNCHANGED <<test_global_variable, increments, shown>>
                      \/ AbstractCounter!Increment
                      \/ \E t \in Threads : AbstractCounter!Show(t)
    BY DEF AbstractCounter!Next
  <2>1. CASE Load
    BY <2>1, LoadStep DEF values
  <2>2. CASE Exit
    BY <2>2, ExitKeeps DEF counterVars
  <2>3. ASSUME NEW t \in Threads, Thread(t)
        PROVE  \/ UNCHANGED <<test_global_variable, increments, shown>>
               \/ AbstractCounter!Increment \/ AbstractCounter!Show(t)
    <3>1. CASE Store(t) \/ AtomicInc(t)
      BY <3>1 DEF CounterInv, ValueInv, Store, AtomicInc, Goto,
         AbstractCounter!Increment
    <3>2. CASE \E from, to : Show(t, from, to)
      BY <3>2 DEF Show, AbstractCounter!Show
    <3>3. CASE UNCHANGED <<test_global_variable, increments, shown>>
      BY <3>3
    <3> QED
      BY <2>3, <3>1, <3>2, <3>3 DEF Thread, Spin1Thread, Mtx1Thread,
         Sem1Thread, Atomic1Thread, Spin2Writer, Spin2Reader,
         Seqlock1Writer, Seqlock1Reader, Loop, Acquire, Round, FetchAdd,
         Release, WriteLock, ReadLock, ReadUnlock, WriteSeqlock,
         WriteSequnlock, ReadSpin, ReadSeqbegin, ReadSeqretry,
         TestAndChangeBit, counterVars, vars, values
  <2>4. CASE UNCHANGED vars
    BY <2>4 DEF vars, counterVars
  <2> QED
    BY <2>1, <2>2, <2>3, <2>4 DEF Next, DriverEnded, vars
<1> QED
  BY <1>1, <1>2, CounterInvariance, PTL
     DEF Spec, NoLostIncrement, AbstractCounter!Spec
=============================================================================
