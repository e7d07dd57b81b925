--------------------------- MODULE CounterDrivers ---------------------------
(***************************************************************************)
(* Six drivers that run two kernel threads over test_global_variable:      *)
(*                                                                         *)
(*   spin1     src/Spinlock/spin1.c    both threads increment and print    *)
(*   mtx1      src/Mutex/mtx1.c        it inside a spin lock, a mutex, a   *)
(*   sem1      src/Semaphore/sem1.c    semaphore of one                    *)
(*   spin2     src/Spinlock/spin2.c    thread 1 increments it, thread 2    *)
(*   seqlock1  src/SeqLock/seqlock1.c  prints it: rwlock, sequence lock    *)
(*   atomic1   src/Atomic/atomic1.c    both use atomic operations only     *)
(*                                                                         *)
(* test_global_variable++ is a load and a store.  The mutex and the        *)
(* semaphore are set up before the threads are created, the sequence lock  *)
(* after; before that it is the module's zeroed memory, an unlocked lock   *)
(* with sequence 0.  Its 32 bits do not come round within one read, so it  *)
(* is not wrapped, and MaxWrites bounds it.                                *)
(*                                                                         *)
(* down_interruptible is used without a look at its result: a kernel       *)
(* thread gets no signals, so it returns only with the semaphore.          *)
(***************************************************************************)
EXTENDS ThreadedDriver

CONSTANTS
    Modulus,    \* the counter's type counts modulo this, a power of two
    MaxWrites   \* bound: write sections of seqlock1; then thread 1 sleeps

ASSUME CounterAssumption ==
    Modulus \in Nat \ {0} /\ Modulus % 2 = 0 /\ MaxWrites \in Nat

VARIABLES
    drv,                    \* which of the drivers this is
    lock,                   \* free units of the lock, or NotSetUp
    readers,                \* spin2: 1 while thread 2 holds the read lock
    sequence, seq_no,       \* seqlock1: of the lock, of the reader
    etc_bit_check,          \* atomic1: bit 1 of it
    test_global_variable,
    reg,                    \* per thread: what its increment has loaded
    shown,                  \* per thread: what it has printed last
    mine,                   \* history: what a thread's increment has stored
    increments,             \* history: increments made, modulo Modulus
    writes,                 \* history: write sections of seqlock1
    overlap,                \* history: a write section met this read
    raced                   \* history: seqlock_init hit a thread in the lock

counterVars == <<drv, lock, readers, sequence, seq_no, etc_bit_check,
                 test_global_variable, reg, shown, mine, increments, writes,
                 overlap, raced>>
vars == <<driverVars, counterVars>>

(* Groups of variables that actions leave alone together. *)
locks   == <<lock, readers, sequence, seq_no, etc_bit_check>>
values  == <<test_global_variable, reg, shown, mine, increments>>
history == <<writes, overlap, raced>>

NotSetUp == 2
Writer   == 1
Reader   == 2
Locked   == {"spin1", "mtx1", "sem1"}
OneReads == {"spin2", "seqlock1"}
Drivers  == Locked \cup OneReads \cup {"atomic1"}

Init ==
    /\ DriverInit
    /\ drv \in Drivers
    /\ lock = IF drv \in {"mtx1", "sem1"} THEN NotSetUp ELSE 1
    /\ readers = 0 /\ sequence = 0 /\ seq_no = 0 /\ etc_bit_check = 0
    /\ test_global_variable = 0 /\ increments = 0
    /\ reg = [t \in Threads |-> 0]
    /\ shown = [t \in Threads |-> 0]
    /\ mine = [t \in Threads |-> 0]
    /\ writes = 0 /\ overlap = FALSE /\ raced = FALSE

-----------------------------------------------------------------------------
(* test_driver_init of the drivers *)

(* mutex_init(&test_mutex), sema_init(&sem, 1) *)
SetUpLock ==
    /\ NoEarlyLock
    /\ lock' = 1
    /\ UNCHANGED <<drv, readers, sequence, seq_no, etc_bit_check, values,
                   history>>

InWrite == pc[Writer] \in {"load", "store", "unlock"}
InRead  == pc[Reader] \in {"fetch", "retry"}

(* seqlock_init(&test_seq_lock) *)
SeqlockInit ==
    /\ NoLateLock
    /\ sequence' = 0 /\ lock' = 1
    /\ raced' = (raced \/ InWrite \/ InRead)
    /\ UNCHANGED <<drv, readers, seq_no, etc_bit_check, values, writes,
                   overlap>>

(* spin1, spin2, atomic1: nothing is set up at run time. *)
Spin1Init ==
    /\ drv = "spin1"
    /\ InitStep \/ NoEarlyLock \/ NoLateLock
    /\ UNCHANGED counterVars

Spin2Init ==
    /\ drv = "spin2"
    /\ InitStep \/ NoEarlyLock \/ NoLateLock
    /\ UNCHANGED counterVars

Atomic1Init ==
    /\ drv = "atomic1"
    /\ InitStep \/ NoEarlyLock \/ NoLateLock
    /\ UNCHANGED counterVars

Mtx1Init ==
    /\ drv = "mtx1"
    /\ \/ SetUpLock
       \/ (InitStep \/ NoLateLock) /\ UNCHANGED counterVars

Sem1Init ==
    /\ drv = "sem1"
    /\ \/ SetUpLock
       \/ (InitStep \/ NoLateLock) /\ UNCHANGED counterVars

Seqlock1Init ==
    /\ drv = "seqlock1"
    /\ \/ SeqlockInit
       \/ (InitStep \/ NoEarlyLock) /\ UNCHANGED counterVars

Load ==
    \/ Spin1Init \/ Spin2Init \/ Atomic1Init \/ Mtx1Init \/ Sem1Init
    \/ Seqlock1Init

(* test_driver_exit is the same in all six. *)
Exit == (ExitStop1 \/ ExitStep) /\ UNCHANGED counterVars

-----------------------------------------------------------------------------
(* The increment: test_global_variable++ *)

FetchAdd(t) ==
    /\ Goto(t, "load", "store")
    /\ reg' = [reg EXCEPT ![t] = test_global_variable]
    /\ UNCHANGED <<drv, locks, test_global_variable, shown, mine,
                   increments, history>>

Store(t) ==
    /\ Goto(t, "store", IF drv \in Locked THEN "print" ELSE "unlock")
    /\ test_global_variable' = (reg[t] + 1) % Modulus
    /\ mine' = [mine EXCEPT ![t] = test_global_variable']
    /\ increments' = (increments + 1) % Modulus
    /\ UNCHANGED <<drv, locks, reg, shown, history>>

(* pr_info("In Thread Function1 %lu\n", test_global_variable) *)
Show(t, from, to) ==
    /\ Goto(t, from, to)
    /\ shown' = [shown EXCEPT ![t] = test_global_variable]
    /\ UNCHANGED <<drv, locks, test_global_variable, reg, mine,
                   increments, history>>

-----------------------------------------------------------------------------
(* spin1, mtx1, sem1: both threads *)

(* spin_lock, mutex_lock, down_interruptible.  What happens to a lock that *)
(* is not set up is not defined: here it lets everyone pass.               *)
Acquire(t) ==
    /\ drv \in Locked
    /\ Goto(t, "lock", "load")
    /\ \/ lock = 1 /\ lock' = 0
       \/ lock = NotSetUp /\ lock' = NotSetUp
    /\ UNCHANGED <<drv, readers, sequence, seq_no, etc_bit_check, values,
                   history>>

Release(t) ==
    /\ Goto(t, "unlock", "top")
    /\ lock' = IF lock = NotSetUp THEN NotSetUp ELSE 1
    /\ UNCHANGED <<drv, readers, sequence, seq_no, etc_bit_check, values,
                   history>>

Loop(t, first) == LoopTest(t, first) /\ UNCHANGED counterVars

Round(t) ==
    FetchAdd(t) \/ Store(t) \/ Show(t, "print", "unlock") \/ Release(t)

Spin1Thread(t) ==
    drv = "spin1" /\ (Loop(t, "lock") \/ Acquire(t) \/ Round(t))

(* Mutant: the mutex is not taken. *)
Mtx1ThreadUnlocked(t) ==
    /\ drv = "mtx1"
    /\ \/ Loop(t, "lock") \/ Round(t)
       \/ Goto(t, "lock", "load") /\ UNCHANGED counterVars

Mtx1Thread(t) ==
    drv = "mtx1" /\ (Loop(t, "lock") \/ Acquire(t) \/ Round(t))

Sem1Thread(t) ==
    drv = "sem1" /\ (Loop(t, "lock") \/ Acquire(t) \/ Round(t))

-----------------------------------------------------------------------------
(* spin2 *)

WriteLock ==
    /\ drv = "spin2" /\ lock = 1 /\ readers = 0
    /\ Goto(Writer, "lock", "load")
    /\ lock' = 0
    /\ UNCHANGED <<drv, readers, sequence, seq_no, etc_bit_check, values,
                   history>>

(* Mutant: the read lock does not wait for the writer. *)
ReadLockAtOnce ==
    /\ drv = "spin2"
    /\ Goto(Reader, "lock", "fetch")
    /\ readers' = 1
    /\ UNCHANGED <<drv, lock, sequence, seq_no, etc_bit_check, values,
                   history>>

ReadLock ==
    /\ drv = "spin2" /\ lock = 1
    /\ Goto(Reader, "lock", "fetch")
    /\ readers' = 1
    /\ UNCHANGED <<drv, lock, sequence, seq_no, etc_bit_check, values,
                   history>>

(* Mutant: the read lock is not released. *)
ReadUnlockNot ==
    /\ Goto(Reader, "print", "top")
    /\ UNCHANGED counterVars

ReadUnlock ==
    /\ Goto(Reader, "print", "top")
    /\ readers' = 0
    /\ UNCHANGED <<drv, lock, sequence, seq_no, etc_bit_check, values,
                   history>>

Spin2Writer ==
    /\ drv = "spin2"
    /\ \/ Loop(Writer, "lock") \/ WriteLock \/ FetchAdd(Writer)
       \/ Store(Writer) \/ Release(Writer)

Spin2Reader ==
    /\ drv = "spin2"
    /\ \/ Loop(Reader, "lock") \/ ReadLock \/ Show(Reader, "fetch", "print")
       \/ ReadUnlock

-----------------------------------------------------------------------------
(* seqlock1 *)

(* Mutant: the sequence is not moved when a write begins. *)
WriteSeqlockQuiet ==
    /\ lock = 1
    /\ Goto(Writer, "lock", "load")
    /\ lock' = 0
    /\ writes' = writes + 1
    /\ overlap' = (overlap \/ InRead)
    /\ UNCHANGED <<drv, readers, sequence, seq_no, etc_bit_check, values,
                   raced>>

(* write_seqlock: the spin lock, and the sequence becomes odd. *)
WriteSeqlock ==
    /\ lock = 1
    /\ Goto(Writer, "lock", "load")
    /\ lock' = 0
    /\ sequence' = sequence + 1
    /\ writes' = writes + 1
    /\ overlap' = (overlap \/ InRead)
    /\ UNCHANGED <<drv, readers, seq_no, etc_bit_check, values, raced>>

WriteSequnlock ==
    /\ Goto(Writer, "unlock", "top")
    /\ sequence' = sequence + 1
    /\ lock' = 1
    /\ UNCHANGED <<drv, readers, seq_no, etc_bit_check, values, history>>

(* read_seqbegin spins while the sequence is odd. *)
ReadSpin ==
    /\ sequence % 2 = 1
    /\ Runs /\ pc[Reader] = "begin"
    /\ UNCHANGED vars

ReadSeqbegin ==
    /\ sequence % 2 = 0
    /\ Goto(Reader, "begin", "fetch")
    /\ seq_no' = sequence
    /\ overlap' = InWrite
    /\ UNCHANGED <<drv, lock, readers, sequence, etc_bit_check, values,
                   writes, raced>>

ReadSeqretry ==
    /\ Goto(Reader, "retry", IF sequence # seq_no THEN "begin" ELSE "print")
    /\ UNCHANGED counterVars

Seqlock1Writer ==
    /\ drv = "seqlock1"
    /\ \/ /\ writes < MaxWrites \/ should_stop[Writer]
          /\ Loop(Writer, "lock")
       \/ WriteSeqlock \/ FetchAdd(Writer) \/ Store(Writer) \/ WriteSequnlock

Seqlock1Reader ==
    /\ drv = "seqlock1"
    /\ \/ Loop(Reader, "begin") \/ ReadSpin \/ ReadSeqbegin
       \/ Show(Reader, "fetch", "retry") \/ ReadSeqretry
       \/ Goto(Reader, "print", "top") /\ UNCHANGED counterVars

-----------------------------------------------------------------------------
(* atomic1: both threads *)

AtomicInc(t) ==
    /\ Goto(t, "inc", "flip")
    /\ test_global_variable' = (test_global_variable + 1) % Modulus
    /\ increments' = (increments + 1) % Modulus
    /\ UNCHANGED <<drv, locks, reg, shown, mine, history>>

(* Mutant: set_bit in the place of change_bit. *)
TestAndSetBit(t) ==
    /\ Goto(t, "flip", "print")
    /\ etc_bit_check' = 1
    /\ UNCHANGED <<drv, lock, readers, sequence, seq_no, values, history>>

TestAndChangeBit(t) ==
    /\ Goto(t, "flip", "print")
    /\ etc_bit_check' = 1 - etc_bit_check
    /\ UNCHANGED <<drv, lock, readers, sequence, seq_no, values, history>>

Atomic1Thread(t) ==
    /\ drv = "atomic1"
    /\ \/ Loop(t, "inc") \/ AtomicInc(t) \/ TestAndChangeBit(t)
       \/ Show(t, "print", "top")

-----------------------------------------------------------------------------
Thread(t) ==
    \/ Spin1Thread(t) \/ Mtx1Thread(t) \/ Sem1Thread(t) \/ Atomic1Thread(t)
    \/ t = Writer /\ (Spin2Writer \/ Seqlock1Writer)
    \/ t = Reader /\ (Spin2Reader \/ Seqlock1Reader)

Next ==
    \/ Load \/ Exit
    \/ \E t \in Threads : Thread(t)
    \/ DriverEnded /\ UNCHANGED counterVars

Spec == Init /\ [][Next]_vars

(* The exit in progress and the threads run.  Strong fairness of the       *)
(* acquisitions: the lock is free again and again, and the kernel hands it *)
(* to a waiter.                                                            *)
Fairness ==
    /\ WF_vars(ExitStep /\ UNCHANGED counterVars)
    /\ \A t \in Threads : WF_vars(Thread(t)) /\ SF_vars(Acquire(t))
    /\ SF_vars(WriteLock) /\ SF_vars(ReadLock)

FairSpec == Spec /\ Fairness

-----------------------------------------------------------------------------
(* Properties *)

Places == {"none", "top", "returned", "lock", "load", "store", "print",
           "unlock", "fetch", "begin", "retry", "inc", "flip"}

(* Where a thread of a driver can be. *)
Body(d, t) ==
    {"none", "top", "returned"} \cup
    CASE d \in Locked -> {"lock", "load", "store", "print", "unlock"}
      [] d = "atomic1" -> {"inc", "flip", "print"}
      [] d \in OneReads /\ t = Writer -> {"lock", "load", "store", "unlock"}
      [] d = "spin2" /\ t = Reader -> {"lock", "fetch", "print"}
      [] d = "seqlock1" /\ t = Reader -> {"begin", "fetch", "retry", "print"}

TypeOK ==
    /\ DriverTypeOK
    /\ drv \in Drivers
    /\ pc \in [Threads -> Places]
    /\ \A t \in Threads : pc[t] \in Body(drv, t)
    /\ lock \in {0, 1, NotSetUp} /\ readers \in {0, 1}
    /\ sequence \in 0 .. 2 * MaxWrites /\ seq_no \in 0 .. 2 * MaxWrites
    /\ etc_bit_check \in {0, 1}
    /\ test_global_variable \in 0 .. Modulus - 1
    /\ increments \in 0 .. Modulus - 1
    /\ reg \in [Threads -> 0 .. Modulus - 1]
    /\ shown \in [Threads -> 0 .. Modulus - 1]
    /\ mine \in [Threads -> 0 .. Modulus - 1]
    /\ writes \in 0 .. MaxWrites
    /\ overlap \in BOOLEAN /\ raced \in BOOLEAN

(* In mtx1 and sem1 no thread reaches a lock that test_driver_init has not *)
(* set up yet.                                                             *)
LockSetUpBeforeUse ==
    \A t \in Threads :
        pc[t] \notin {"none", "top", "returned"} => lock # NotSetUp

(* In spin1, mtx1 and sem1 a thread prints the value its own increment has *)
(* made: no increment of the other thread comes between the two.           *)
PrintsItsOwn ==
    \A t \in Threads :
        (drv \in Locked /\ pc[t] = "unlock") => shown[t] = mine[t]

(* In spin2 what thread 2 prints under the read lock is the value of the   *)
(* variable until it unlocks.                                              *)
ReadStable ==
    (drv = "spin2" /\ pc[Reader] = "print")
        => shown[Reader] = test_global_variable

(* The lock does what it is there for: nobody uses it before it is set up, *)
(* and what a thread of these four drivers prints inside it is the value   *)
(* of the variable it protects: the thread's own increment, or one that no *)
(* writer changes until the reader has left.                               *)
LockProtects == LockSetUpBeforeUse /\ PrintsItsOwn /\ ReadStable

(* In seqlock1 the value thread 2 leaves its inner loop with was read      *)
(* outside every write section, and no write began before the sequence     *)
(* was tested, unless seqlock_init came while a thread was in the lock.    *)
ReadUndisturbed ==
    (drv = "seqlock1" /\ ~raced /\ pc[Reader] = "print") => ~overlap

Flipping(t) == IF pc[t] = "flip" THEN 1 ELSE 0

(* In atomic1 the bit follows the count: it is the count's parity once the *)
(* threads that have incremented and not yet changed the bit are taken off.*)
BitFollowsCount ==
    drv = "atomic1" =>
        (test_global_variable + Flipping(1) + Flipping(2) + etc_bit_check)
            % 2 = 0

(* No increment is lost, in any of the drivers and whatever the            *)
(* interleaving: each one that a thread completes moves the variable by    *)
(* one, as in the abstract counter, also where two threads are at it at    *)
(* once, and the threads show values that the variable has.                *)
AbstractCounter ==
    INSTANCE Counter WITH Users <- Threads, value <- test_global_variable

NoLostIncrement == AbstractCounter!Spec

(* With fairness: kthread_stop gets both threads out of their loops and    *)
(* the removal of the module completes, unless seqlock_init came while a   *)
(* thread was inside the lock.                                             *)
ExitCompletes == (mod = "wait1" /\ ~raced) ~> (mod \in {"gone", "oops"})

(* With fairness: the removal of the module completes.  "Initialize the    *)
(* seqlock" inside a write section leaves the sequence odd when the writer *)
(* has gone, and thread 2 then never gets out of read_seqbegin.            *)
RemovalDone == mod = "wait1" ~> (mod \in {"gone", "oops"})

-----------------------------------------------------------------------------
(* The inductive invariant behind the theorems of CounterProofs.           *)

Inside == {t \in Threads : pc[t] \in {"load", "store", "print", "unlock"}}

LockInv ==
    /\ lock = NotSetUp =>
          /\ mod \in {"region", "cdev", "class", "device", "early_lock",
                      "failed", "oops"}
          /\ \A t \in Threads : pc[t] = "none"
    /\ drv \notin {"mtx1", "sem1"} => lock # NotSetUp
    /\ drv \in Locked =>
          /\ \A s, t \in Inside : s = t
          /\ Inside # {} => lock = 0
    /\ drv = "spin2" =>
          /\ InWrite => lock = 0
          /\ readers = IF pc[Reader] \in {"fetch", "print"} THEN 1 ELSE 0
          /\ readers = 1 => lock = 1

NotStarted ==
    /\ mod \in {"region", "cdev", "class", "device", "early_lock", "thread1"}
           => \A t \in Threads : pc[t] = "none"
    /\ mod = "thread2" => pc[2] = "none"

ValueInv ==
    /\ \A t \in Threads :
        /\ pc[t] = "store" => reg[t] = test_global_variable
        /\ (drv \in Locked /\ pc[t] \in {"print", "unlock"}) =>
              mine[t] = test_global_variable
    /\ PrintsItsOwn /\ ReadStable /\ BitFollowsCount

SeqInv ==
    drv = "seqlock1" =>
        /\ sequence <= 2 * writes - (IF InWrite THEN 1 ELSE 0)
        /\ pc[Writer] = "lock" => writes < MaxWrites
        /\ ~raced =>
              /\ sequence % 2 = IF InWrite THEN 1 ELSE 0
              /\ InRead => /\ seq_no <= sequence /\ seq_no % 2 = 0
                           /\ seq_no = sequence => ~overlap
              /\ ReadUndisturbed

Stopped ==
    /\ mod \in {"stop2", "wait2", "destroy", "gone"} => pc[1] = "returned"
    /\ mod \in {"destroy", "gone"} => pc[2] = "returned"
    /\ mod = "gone" => held = {}

(* What stands behind FaultsExplained: the places before a call have not   *)
(* seen its outcome, and a NULL ends the load.                             *)
FaultInv ==
    /\ FaultsExplained
    /\ mod \in ExitPc \cup {"late_lock"} =>
          \A t \in Threads : task[t] # "null"
    /\ mod = "region" => held = {}
    /\ mod \in {"cdev", "class"} =>
          "class" \notin held /\ "device" \notin held
    /\ mod = "thread2" => task[1] # "null"
    /\ \A t \in Threads : pc[t] # "none" => task[t] = "task"

CounterInv ==
    /\ TypeOK /\ LockInv /\ NotStarted /\ ValueInv /\ SeqInv /\ Stopped
    /\ FaultInv
=============================================================================
