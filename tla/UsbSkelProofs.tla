--------------------------- MODULE UsbSkelProofs ---------------------------
(***************************************************************************)
(* Theorems about UsbSkel, for every finite set of threads, every number   *)
(* of write slots, every buffer size and every set of device statuses.     *)
(*                                                                         *)
(* The invariants are proved together: IInv of UsbSkel is inductive, and   *)
(* one lemma per conjunct shows that a step preserves it.  The conjuncts   *)
(* lean on each other: the phases on the mutex, the reference count on the *)
(* phases, the read buffer on the mutex.                                   *)
(***************************************************************************)
EXTENDS UsbSkel, TLAPS, FiniteSetTheorems

(* io_mutex is held exactly by the thread, or the core, whose place in the *)
(* code lies between its lock and its unlock.                              *)
LEMMA MutexStep ==
    ASSUME TypeOK, MutexInv, [Next]_vars
    PROVE  MutexInv'
<1> USE ThreadsAssumption DEF TypeOK, MutexInv, HoldsMutex,
        CoreHoldsMutex, FlushPc, ReadPc, ResetPc, Goto, bus, object,
        writes, reads, locks, locals
<1>1. CASE Probe
  BY <1>1 DEF Probe, ProbeAlloc, ProbeSetup, ProbeRegister, ProbeError
<1>2. CASE PowerAndReset
  BY <1>2 DEF PowerAndReset, Suspend, Resume, PreReset, DrawDown, PostReset
<1>3. CASE Unplug
  BY <1>3 DEF Unplug
<1>4. CASE Disconnect
  BY <1>4 DEF Disconnect, DisconnectIntfdata, DisconnectDeregister,
     DisconnectLock, DisconnectMark, DisconnectKillRead, DisconnectKill,
     DisconnectPut
<1>5. ASSUME NEW t \in Threads, CallStart(t)
      PROVE  MutexInv'
  BY <1>5 DEF CallStart, OpenFind, FlushCall, ReadCall, WriteCall
<1>6. ASSUME NEW t \in Threads, OpenGet(t) \/ FlushStep(t)
      PROVE  MutexInv'
  BY <1>6 DEF OpenGet, FlushStep, FlushLock, FlushWait, FlushKill,
     FlushKillRead, FlushErrors, Release
<1>7. ASSUME NEW t \in Threads, ReadStep(t)
      PROVE  MutexInv'
  BY <1>7 DEF ReadStep, ReadLock, ReadCheck, ReadRetry, ReadWait,
     ReadErrors, ReadClear, ReadCopy, ReadStart, ReadMore, StartReadIO,
     ReadSubmit, ReadExit
<1>8. ASSUME NEW t \in Threads, WriteStep(t)
      PROVE  MutexInv'
  BY <1>8 DEF WriteStep, WriteDown, WriteErrors, WriteClear, WriteAlloc,
     WriteLock, WriteSubmit, WriteUnanchor, WriteError
<1>9. ASSUME NEW s \in Status, ReadCallback(s) \/ WriteCallback(s)
      PROVE  MutexInv'
  BY <1>9 DEF ReadCallback, WriteCallback
<1>10. CASE UNCHANGED vars
  BY <1>10 DEF vars
<1> QED
  BY <1>1, <1>2, <1>3, <1>4, <1>5, <1>6, <1>7, <1>8, <1>9, <1>10 DEF Next,
     CallStep, Terminated

(* The read buffer belongs to the URB while it is submitted and to the     *)
(* reader that holds io_mutex otherwise.                                   *)
LEMMA ReadInvStep ==
    ASSUME TypeOK, MutexInv, ReadInv, [Next]_vars
    PROVE  ReadInv'
<1> USE ThreadsAssumption, SizesAssumption DEF TypeOK, MutexInv,
        ReadInv, SubmitPc, HoldsMutex, FlushPc, ReadPc, MinOf, Available,
        Goto, bus, object,
        writes, reads, locks, locals
<1>1. CASE Probe
  BY <1>1 DEF Probe, ProbeAlloc, ProbeSetup, ProbeRegister, ProbeError
<1>2. CASE PowerAndReset
  BY <1>2 DEF PowerAndReset, Suspend, Resume, PreReset, DrawDown, PostReset
<1>3. CASE Unplug
  BY <1>3 DEF Unplug
<1>4. CASE Disconnect
  BY <1>4 DEF Disconnect, DisconnectIntfdata, DisconnectDeregister,
     DisconnectLock, DisconnectMark, DisconnectKillRead, DisconnectKill,
     DisconnectPut
<1>5. ASSUME NEW t \in Threads, CallStart(t)
      PROVE  ReadInv'
  BY <1>5 DEF CallStart, OpenFind, FlushCall, ReadCall, WriteCall
<1>6. ASSUME NEW t \in Threads, OpenGet(t) \/ FlushStep(t)
      PROVE  ReadInv'
  BY <1>6 DEF OpenGet, FlushStep, FlushLock, FlushWait, FlushKill,
     FlushKillRead, FlushErrors, Release
<1>7. ASSUME NEW t \in Threads, ReadStep(t)
      PROVE  ReadInv'
  BY <1>7 DEF ReadStep, ReadLock, ReadCheck, ReadRetry, ReadWait,
     ReadErrors, ReadClear, ReadCopy, ReadStart, ReadMore, StartReadIO,
     ReadSubmit, ReadExit
<1>8. ASSUME NEW t \in Threads, WriteStep(t)
      PROVE  ReadInv'
  BY <1>8 DEF WriteStep, WriteDown, WriteErrors, WriteClear, WriteAlloc,
     WriteLock, WriteSubmit, WriteUnanchor, WriteError
<1>9. ASSUME NEW s \in Status, ReadCallback(s) \/ WriteCallback(s)
      PROVE  ReadInv'
  BY <1>9 DEF ReadCallback, WriteCallback
<1>10. CASE UNCHANGED vars
  BY <1>10 DEF vars
<1> QED
  BY <1>1, <1>2, <1>3, <1>4, <1>5, <1>6, <1>7, <1>8, <1>9, <1>10 DEF Next,
     CallStep, Terminated

(* ongoing_read always has a URB, or a submitting reader, to clear it.     *)
LEMMA OngoingStep ==
    ASSUME TypeOK, OngoingReadHasAnEnd, [Next]_vars
    PROVE  OngoingReadHasAnEnd'
<1> USE DEF TypeOK, OngoingReadHasAnEnd, Goto, bus, object,
        writes, reads, locks, locals
<1>1. CASE Probe
  BY <1>1 DEF Probe, ProbeAlloc, ProbeSetup, ProbeRegister, ProbeError
<1>2. CASE PowerAndReset
  BY <1>2 DEF PowerAndReset, Suspend, Resume, PreReset, DrawDown, PostReset
<1>3. CASE Unplug
  BY <1>3 DEF Unplug
<1>4. CASE Disconnect
  BY <1>4 DEF Disconnect, DisconnectIntfdata, DisconnectDeregister,
     DisconnectLock, DisconnectMark, DisconnectKillRead, DisconnectKill,
     DisconnectPut
<1>5. ASSUME NEW t \in Threads, CallStart(t)
      PROVE  OngoingReadHasAnEnd'
  BY <1>5 DEF CallStart, OpenFind, FlushCall, ReadCall, WriteCall
<1>6. ASSUME NEW t \in Threads, OpenGet(t) \/ FlushStep(t)
      PROVE  OngoingReadHasAnEnd'
  BY <1>6 DEF OpenGet, FlushStep, FlushLock, FlushWait, FlushKill,
     FlushKillRead, FlushErrors, Release
<1>7. ASSUME NEW t \in Threads, ReadStep(t)
      PROVE  OngoingReadHasAnEnd'
  BY <1>7 DEF ReadStep, ReadLock, ReadCheck, ReadRetry, ReadWait,
     ReadErrors, ReadClear, ReadCopy, ReadStart, ReadMore, StartReadIO,
     ReadSubmit, ReadExit
<1>8. ASSUME NEW t \in Threads, WriteStep(t)
      PROVE  OngoingReadHasAnEnd'
  BY <1>8 DEF WriteStep, WriteDown, WriteErrors, WriteClear, WriteAlloc,
     WriteLock, WriteSubmit, WriteUnanchor, WriteError
<1>9. ASSUME NEW s \in Status, ReadCallback(s) \/ WriteCallback(s)
      PROVE  OngoingReadHasAnEnd'
  BY <1>9 DEF ReadCallback, WriteCallback
<1>10. CASE UNCHANGED vars
  BY <1>10 DEF vars
<1> QED
  BY <1>1, <1>2, <1>3, <1>4, <1>5, <1>6, <1>7, <1>8, <1>9, <1>10 DEF Next,
     CallStep, Terminated

(* The phases of the device's life: what may be in flight, and where the   *)
(* threads may be, while the core is in probe, suspend, reset, disconnect. *)
LEMMA PhaseStep ==
    ASSUME TypeOK, MutexInv, PhaseInv, NoIOAfterDisconnect,
           QuietDuringReset, [Next]_vars
    PROVE  PhaseInv' /\ NoIOAfterDisconnect' /\ QuietDuringReset'
<1> USE ThreadsAssumption DEF TypeOK, MutexInv, PhaseInv, Idle,
        NoIOAfterDisconnect, QuietDuringReset, AnchorEmpty, Frozen,
        HoldsMutex, CoreHoldsMutex, PastCheck, ReadPc, FlushPc, ProbePc,
        SuspendPc, ResetPc, Goto, bus, object,
        writes, reads, locks, locals
<1>1. CASE Probe
  BY <1>1 DEF Probe, ProbeAlloc, ProbeSetup, ProbeRegister, ProbeError
<1>2. CASE PowerAndReset
  BY <1>2 DEF PowerAndReset, Suspend, Resume, PreReset, DrawDown, PostReset
<1>3. CASE Unplug
  BY <1>3 DEF Unplug
<1>4. CASE Disconnect
  BY <1>4 DEF Disconnect, DisconnectIntfdata, DisconnectDeregister,
     DisconnectLock, DisconnectMark, DisconnectKillRead, DisconnectKill,
     DisconnectPut
<1>5. ASSUME NEW t \in Threads, CallStart(t)
      PROVE  PhaseInv' /\ NoIOAfterDisconnect' /\ QuietDuringReset'
  BY <1>5 DEF CallStart, OpenFind, FlushCall, ReadCall, WriteCall
<1>6. ASSUME NEW t \in Threads, OpenGet(t) \/ FlushStep(t)
      PROVE  PhaseInv' /\ NoIOAfterDisconnect' /\ QuietDuringReset'
  BY <1>6 DEF OpenGet, FlushStep, FlushLock, FlushWait, FlushKill,
     FlushKillRead, FlushErrors, Release
<1>7. ASSUME NEW t \in Threads, ReadStep(t)
      PROVE  PhaseInv' /\ NoIOAfterDisconnect' /\ QuietDuringReset'
  BY <1>7 DEF ReadStep, ReadLock, ReadCheck, ReadRetry, ReadWait,
     ReadErrors, ReadClear, ReadCopy, ReadStart, ReadMore, StartReadIO,
     ReadSubmit, ReadExit
<1>8. ASSUME NEW t \in Threads, WriteStep(t)
      PROVE  PhaseInv' /\ NoIOAfterDisconnect' /\ QuietDuringReset'
  BY <1>8 DEF WriteStep, WriteDown, WriteErrors, WriteClear, WriteAlloc,
     WriteLock, WriteSubmit, WriteUnanchor, WriteError
<1>9. ASSUME NEW s \in Status, ReadCallback(s) \/ WriteCallback(s)
      PROVE  PhaseInv' /\ NoIOAfterDisconnect' /\ QuietDuringReset'
  BY <1>9 DEF ReadCallback, WriteCallback
<1>10. CASE UNCHANGED vars
  BY <1>10 DEF vars
<1> QED
  BY <1>1, <1>2, <1>3, <1>4, <1>5, <1>6, <1>7, <1>8, <1>9, <1>10 DEF Next,
     CallStep, Terminated

(* The Boolean fields stay Boolean. *)
LEMMA FlagStep ==
    ASSUME FlagsOK, [Next]_vars
    PROVE  FlagsOK'
<1> USE DEF FlagsOK, Goto, bus, object,
        writes, reads, locks, locals
<1>1. CASE Probe
  BY <1>1, Zenon DEF Probe, ProbeAlloc, ProbeSetup, ProbeRegister,
     ProbeError
<1>2. CASE PowerAndReset
  BY <1>2, Zenon DEF PowerAndReset, Suspend, Resume, PreReset, DrawDown,
     PostReset
<1>3. CASE Unplug
  BY <1>3, Zenon DEF Unplug
<1>4. CASE Disconnect
  BY <1>4, Zenon DEF Disconnect, DisconnectIntfdata, DisconnectDeregister,
     DisconnectLock, DisconnectMark, DisconnectKillRead, DisconnectKill,
     DisconnectPut
<1>5. ASSUME NEW t \in Threads, CallStart(t)
      PROVE  FlagsOK'
  BY <1>5, Zenon DEF CallStart, OpenFind, FlushCall, ReadCall, WriteCall
<1>6. ASSUME NEW t \in Threads, OpenGet(t) \/ FlushStep(t)
      PROVE  FlagsOK'
  BY <1>6, Zenon DEF OpenGet, FlushStep, FlushLock, FlushWait, FlushKill,
     FlushKillRead, FlushErrors, Release
<1>7. ASSUME NEW t \in Threads, ReadStep(t)
      PROVE  FlagsOK'
  BY <1>7, Zenon DEF ReadStep, ReadLock, ReadCheck, ReadRetry, ReadWait,
     ReadErrors, ReadClear, ReadCopy, ReadStart, ReadMore, StartReadIO,
     ReadSubmit, ReadExit
<1>8. ASSUME NEW t \in Threads, WriteStep(t)
      PROVE  FlagsOK'
  BY <1>8, Zenon DEF WriteStep, WriteDown, WriteErrors, WriteClear,
     WriteAlloc, WriteLock, WriteSubmit, WriteUnanchor, WriteError
<1>9. ASSUME NEW s \in Status, ReadCallback(s) \/ WriteCallback(s)
      PROVE  FlagsOK'
  BY <1>9, Zenon DEF ReadCallback, WriteCallback
<1>10. CASE UNCHANGED vars
  BY <1>10, Zenon DEF vars
<1> QED
  BY <1>1, <1>2, <1>3, <1>4, <1>5, <1>6, <1>7, <1>8, <1>9, <1>10 DEF Next,
     CallStep, Terminated

(* The finite sets of threads that the invariants count. *)
LEMMA Counting ==
    ASSUME NEW S \in SUBSET Threads, NEW t
    PROVE  /\ Cardinality(S) \in Nat
           /\ Cardinality(S) = 0 <=> S = {}
           /\ t \notin S => Cardinality(S \cup {t}) = Cardinality(S) + 1
           /\ t \in S => Cardinality(S \ {t}) = Cardinality(S) - 1
<1>1. IsFiniteSet(S)
  BY ThreadsAssumption, FS_Subset
<1> QED
  BY <1>1, FS_CardinalityType, FS_EmptySet, FS_AddElement, FS_RemoveElement

(* Whoever drops a reference has one: the count is positive while the core *)
(* or an open file refers to the object.                                   *)
LEMMA OneRef ==
    ASSUME TypeOK, RefInv
    PROVE  /\ CoreHasRef => kref > 0
           /\ \A t \in Threads : pc[t] \notin {"closed", "o_get"} => kref > 0
<1>1. Openers \in SUBSET Threads
  BY DEF Openers
<1>2. /\ Cardinality(Openers) \in Nat
      /\ Cardinality(Openers) = 0 <=> Openers = {}
  BY <1>1, Counting
<1>3. ASSUME NEW t \in Threads, pc[t] \notin {"closed", "o_get"}
      PROVE  Openers # {}
  BY <1>3 DEF Openers
<1> QED
  BY <1>2, <1>3 DEF RefInv, TypeOK

(* Every variable keeps its type.  That kref - 1 is a natural number needs *)
(* the reference count, and that the copied bytes fit in the buffer needs  *)
(* the read invariant.                                                     *)
LEMMA TypeStep ==
    ASSUME TypeOK, RefInv, ReadInv, MutexInv, [Next]_vars
    PROVE  TypeOK'
<1> USE ThreadsAssumption, SizesAssumption, StatusAssumption, OneRef,
        FlagStep
        DEF TypeOK,  ReadInv, CoreHasRef, MinOf,
        Available, Status, KrefPut, Pc, FlushPc, ReadPc, WritePc, CorePc,
        ProbePc, SuspendPc, ResetPc, DisconnectPc, Goto, bus, object,
        writes, reads, locks, locals
<1>1. CASE Probe
  BY <1>1 DEF Probe, ProbeAlloc, ProbeSetup, ProbeRegister, ProbeError
<1>2. CASE PowerAndReset
  BY <1>2 DEF PowerAndReset, Suspend, Resume, PreReset, DrawDown, PostReset
<1>3. CASE Unplug
  BY <1>3 DEF Unplug
<1>4. CASE Disconnect
  BY <1>4 DEF Disconnect, DisconnectIntfdata, DisconnectDeregister,
     DisconnectLock, DisconnectMark, DisconnectKillRead, DisconnectKill,
     DisconnectPut
<1>5. ASSUME NEW t \in Threads, CallStart(t)
      PROVE  TypeOK'
  BY <1>5 DEF CallStart, OpenFind, FlushCall, ReadCall, WriteCall
<1>6. ASSUME NEW t \in Threads, OpenGet(t) \/ FlushStep(t)
      PROVE  TypeOK'
  BY <1>6 DEF OpenGet, FlushStep, FlushLock, FlushWait, FlushKill,
     FlushKillRead, FlushErrors, Release
<1>7. ASSUME NEW t \in Threads, ReadStep(t)
      PROVE  TypeOK'
  BY <1>7 DEF ReadStep, ReadLock, ReadCheck, ReadRetry, ReadWait,
     ReadErrors, ReadClear, ReadCopy, ReadStart, ReadMore, StartReadIO,
     ReadSubmit, ReadExit
<1>8. ASSUME NEW t \in Threads, WriteStep(t)
      PROVE  TypeOK'
  BY <1>8 DEF WriteStep, WriteDown, WriteErrors, WriteClear, WriteAlloc,
     WriteLock, WriteSubmit, WriteUnanchor, WriteError
<1>9. ASSUME NEW s \in Status, ReadCallback(s) \/ WriteCallback(s)
      PROVE  TypeOK'
  BY <1>9 DEF ReadCallback, WriteCallback
<1>10. CASE UNCHANGED vars
  BY <1>10 DEF vars
<1> QED
  BY <1>1, <1>2, <1>3, <1>4, <1>5, <1>6, <1>7, <1>8, <1>9, <1>10 DEF Next,
     CallStep, Terminated

(* kref counts the open files and the core's reference exactly.            *)
LEMMA RefInvStep ==
    ASSUME TypeOK, MutexInv, PhaseInv, RefInv, [Next]_vars
    PROVE  RefInv'
<1> USE DEF TypeOK, Goto, bus, object,
        writes, reads, locks, locals
<1>s. Openers \in SUBSET Threads /\ Openers' \in SUBSET Threads
  BY DEF Openers
<1>c. /\ Cardinality(Openers) \in Nat
      /\ Cardinality(Openers') \in Nat
  BY <1>s, Counting
<1>1. CASE Probe
  <2>1. Openers' = Openers
    BY <1>1 DEF Probe, ProbeAlloc, ProbeSetup, ProbeRegister, ProbeError,
       Openers
  <2>2. CASE ProbeAlloc
    <3>1. kref = 0 /\ Cardinality(Openers) = 0
      BY <2>2, <1>c DEF ProbeAlloc, RefInv, CoreHasRef
    <3> QED
      BY <2>1, <2>2, <3>1 DEF ProbeAlloc, RefInv, CoreHasRef
  <2>3. CASE ProbeSetup \/ ProbeRegister
    BY <2>1, <2>3 DEF ProbeSetup, ProbeRegister, RefInv, CoreHasRef
  <2>4. CASE ProbeError
    BY <2>1, <2>4, <1>c DEF ProbeError, RefInv, KrefPut, CoreHasRef
  <2> QED
    BY <1>1, <2>2, <2>3, <2>4 DEF Probe
<1>2. CASE PowerAndReset
  <2>1. Openers' = Openers
    BY <1>2 DEF PowerAndReset, Suspend, Resume, PreReset, DrawDown,
       PostReset, Openers
  <2> QED
    BY <1>2, <2>1, <1>c DEF PowerAndReset, Suspend, Resume, PreReset,
       DrawDown, PostReset, RefInv, KrefPut, CoreHasRef
<1>3. CASE Unplug
  <2>1. Openers' = Openers
    BY <1>3 DEF Unplug, Openers
  <2> QED
    BY <1>3, <2>1, <1>c DEF Unplug, RefInv, KrefPut, CoreHasRef
<1>4. CASE Disconnect
  <2>1. Openers' = Openers
    BY <1>4 DEF Disconnect, DisconnectIntfdata, DisconnectDeregister,
       DisconnectLock, DisconnectMark, DisconnectKillRead, DisconnectKill,
       DisconnectPut, Openers
  <2> QED
    BY <1>4, <2>1, <1>c DEF Disconnect, DisconnectIntfdata,
       DisconnectDeregister, DisconnectLock, DisconnectMark,
       DisconnectKillRead, DisconnectKill, DisconnectPut, RefInv, KrefPut,
       CoreHasRef
<1>5. ASSUME NEW t \in Threads, CallStart(t)
      PROVE  RefInv'
  <2>1. Openers' = Openers
    BY <1>5 DEF CallStart, OpenFind, FlushCall, ReadCall, WriteCall, Openers
  <2> QED
    BY <1>5, <2>1, <1>c DEF CallStart, OpenFind, FlushCall, ReadCall,
       WriteCall, RefInv, KrefPut, CoreHasRef
<1>6. ASSUME NEW t \in Threads, OpenGet(t) \/ FlushStep(t)
      PROVE  RefInv'
  <2>1. CASE OpenGet(t)
    <3>1. CASE kref' = kref
      <4>1. Openers' = Openers
        BY <1>6, <2>1, <3>1 DEF OpenGet, Openers
      <4> QED
        BY <2>1, <3>1, <4>1 DEF OpenGet, RefInv, CoreHasRef
    <3>2. CASE kref' = kref + 1 /\ pc' = [pc EXCEPT ![t] = "user"]
      <4>1. t \notin Openers /\ Openers' = Openers \cup {t}
        BY <1>6, <2>1, <3>2 DEF OpenGet, Openers
      <4>2. CoreHasRef
        BY <1>6, <2>1 DEF OpenGet, PhaseInv, CoreHasRef
      <4>3. Cardinality(Openers') = Cardinality(Openers) + 1
        BY <4>1, <1>s, Counting
      <4> QED
        BY <2>1, <3>2, <4>2, <4>3, <1>c DEF OpenGet, RefInv, CoreHasRef
    <3> QED
      BY <2>1, <3>1, <3>2 DEF OpenGet
  <2>2. CASE Release(t)
    <3>1. t \in Openers /\ Openers' = Openers \ {t}
      BY <1>6, <2>2 DEF Release, Openers
    <3>2. Cardinality(Openers') = Cardinality(Openers) - 1
      BY <3>1, <1>s, Counting
    <3>3. core # "unplugged" /\ core' = core
      BY <1>6, <2>2 DEF Release, PhaseInv
    <3>4. /\ kref' = kref - 1
          /\ mem' = IF kref = 1 THEN "freed" ELSE mem
      BY <2>2 DEF Release, KrefPut
    <3>5. kref' = Cardinality(Openers)' + (IF CoreHasRef' THEN 1 ELSE 0)
      BY <3>2, <3>3, <3>4, <1>c DEF RefInv, CoreHasRef
    <3>6. kref > 0 /\ mem = "live"
      BY <3>1, OneRef DEF Openers, RefInv
    <3> QED
      BY <3>3, <3>4, <3>5, <3>6 DEF RefInv
  <2>3. CASE FlushStep(t) /\ ~Release(t)
    <3>1. Openers' = Openers /\ UNCHANGED <<core, mem, kref>>
      BY <1>6, <2>3 DEF Openers, FlushStep, FlushLock, FlushWait, FlushKill,
         FlushKillRead, FlushErrors
    <3> QED
      BY <3>1 DEF RefInv, CoreHasRef
  <2> QED
    BY <1>6, <2>1, <2>2, <2>3
<1>7. ASSUME NEW t \in Threads, ReadStep(t)
      PROVE  RefInv'
  <2>1. Openers' = Openers
    BY <1>7 DEF ReadStep, ReadLock, ReadCheck, ReadRetry, ReadWait,
       ReadErrors, ReadClear, ReadCopy, ReadStart, ReadMore, StartReadIO,
       ReadSubmit, ReadExit, Openers
  <2> QED
    BY <1>7, <2>1, <1>c DEF ReadStep, ReadLock, ReadCheck, ReadRetry,
       ReadWait, ReadErrors, ReadClear, ReadCopy, ReadStart, ReadMore,
       StartReadIO, ReadSubmit, ReadExit, RefInv, KrefPut, CoreHasRef
<1>8. ASSUME NEW t \in Threads, WriteStep(t)
      PROVE  RefInv'
  <2>1. Openers' = Openers
    BY <1>8 DEF WriteStep, WriteDown, WriteErrors, WriteClear, WriteAlloc,
       WriteLock, WriteSubmit, WriteUnanchor, WriteError, Openers
  <2> QED
    BY <1>8, <2>1, <1>c DEF WriteStep, WriteDown, WriteErrors, WriteClear,
       WriteAlloc, WriteLock, WriteSubmit, WriteUnanchor, WriteError,
       RefInv, KrefPut, CoreHasRef
<1>9. ASSUME NEW s \in Status, ReadCallback(s) \/ WriteCallback(s)
      PROVE  RefInv'
  <2>1. Openers' = Openers
    BY <1>9 DEF ReadCallback, WriteCallback, Openers
  <2> QED
    BY <1>9, <2>1, <1>c DEF ReadCallback, WriteCallback, RefInv, KrefPut,
       CoreHasRef
<1>10. CASE UNCHANGED vars
  <2>1. Openers' = Openers
    BY <1>10 DEF vars, Openers
  <2> QED
    BY <1>10, <2>1, <1>c DEF vars, RefInv, KrefPut, CoreHasRef
<1> QED
  BY <1>1, <1>2, <1>3, <1>4, <1>5, <1>6, <1>7, <1>8, <1>9, <1>10 DEF Next,
     CallStep, Terminated

(* No step loses a slot of limit_sem or gives one back twice.              *)
LEMMA SlotsStep ==
    ASSUME TypeOK, PhaseInv, RefInv, SlotsConserved, [Next]_vars
    PROVE  SlotsConserved'
<1> USE DEF TypeOK, Goto, bus, object,
        writes, reads, locks, locals
<1>s. SlotHolders \in SUBSET Threads /\ SlotHolders' \in SUBSET Threads
  BY DEF SlotHolders
<1>c. /\ Cardinality(SlotHolders) \in Nat
      /\ Cardinality(SlotHolders') \in Nat
  BY <1>s, Counting
<1>1. CASE Probe
  <2>1. SlotHolders' = SlotHolders
    BY <1>1 DEF Probe, ProbeAlloc, ProbeSetup, ProbeRegister, ProbeError,
       SlotHolders
  <2>2. CASE ProbeAlloc
    <3>1. SlotHolders = {} /\ inflight = 0 /\ mem = "none"
      BY <2>2 DEF ProbeAlloc, PhaseInv, RefInv, Idle, SlotHolders,
         HoldsSlot, WritePc
    <3>2. Cardinality(SlotHolders) = 0
      BY <3>1, <1>s, Counting
    <3> QED
      BY <2>1, <2>2, <3>1, <3>2, SizesAssumption DEF ProbeAlloc,
         SlotsConserved
  <2>3. CASE ProbeSetup \/ ProbeRegister
    BY <2>1, <2>3 DEF ProbeSetup, ProbeRegister, SlotsConserved
  <2>4. CASE ProbeError
    <3>1. mem = "live"
      BY <2>4, OneRef DEF ProbeError, RefInv, CoreHasRef
    <3> QED
      BY <2>1, <2>4, <3>1 DEF ProbeError, KrefPut, SlotsConserved
  <2> QED
    BY <1>1, <2>2, <2>3, <2>4 DEF Probe
<1>2. CASE PowerAndReset
  <2>1. SlotHolders' = SlotHolders
    BY <1>2 DEF PowerAndReset, Suspend, Resume, PreReset, DrawDown,
       PostReset, SlotHolders, HoldsSlot, WritePc
  <2> QED
    BY <1>2, <2>1, <1>c DEF PowerAndReset, Suspend, Resume, PreReset,
       DrawDown, PostReset, SlotsConserved, KrefPut
<1>3. CASE Unplug
  <2>1. SlotHolders' = SlotHolders
    BY <1>3 DEF Unplug, SlotHolders, HoldsSlot, WritePc
  <2> QED
    BY <1>3, <2>1, <1>c DEF Unplug, SlotsConserved, KrefPut
<1>4. CASE Disconnect
  <2>1. SlotHolders' = SlotHolders /\ UNCHANGED <<limit_sem, inflight>>
    BY <1>4 DEF Disconnect, DisconnectIntfdata, DisconnectDeregister,
       DisconnectLock, DisconnectMark, DisconnectKillRead, DisconnectKill,
       DisconnectPut, SlotHolders
  <2>2. mem = "live" /\ mem' # "none"
    BY <1>4, OneRef DEF Disconnect, DisconnectIntfdata,
       DisconnectDeregister, DisconnectLock, DisconnectMark,
       DisconnectKillRead, DisconnectKill, DisconnectPut, KrefPut, RefInv,
       CoreHasRef
  <2> QED
    BY <2>1, <2>2 DEF SlotsConserved
<1>5. ASSUME NEW t \in Threads, CallStart(t)
      PROVE  SlotsConserved'
  <2>1. SlotHolders' = SlotHolders
    BY <1>5 DEF CallStart, OpenFind, FlushCall, ReadCall, WriteCall,
       SlotHolders, HoldsSlot, WritePc
  <2> QED
    BY <1>5, <2>1, <1>c DEF CallStart, OpenFind, FlushCall, ReadCall,
       WriteCall, SlotsConserved, KrefPut
<1>6. ASSUME NEW t \in Threads, OpenGet(t) \/ FlushStep(t)
      PROVE  SlotsConserved'
  <2>1. SlotHolders' = SlotHolders /\ UNCHANGED <<limit_sem, inflight>>
    BY <1>6 DEF OpenGet, FlushStep, FlushLock, FlushWait, FlushKill,
       FlushKillRead, FlushErrors, Release, SlotHolders, HoldsSlot, WritePc
  <2>2. mem = "none" <=> mem' = "none"
    BY <1>6, OneRef DEF OpenGet, FlushStep, FlushLock, FlushWait, FlushKill,
       FlushKillRead, FlushErrors, Release, KrefPut, RefInv
  <2> QED
    BY <2>1, <2>2 DEF SlotsConserved
<1>7. ASSUME NEW t \in Threads, ReadStep(t)
      PROVE  SlotsConserved'
  <2>1. SlotHolders' = SlotHolders
    BY <1>7 DEF ReadStep, ReadLock, ReadCheck, ReadRetry, ReadWait,
       ReadErrors, ReadClear, ReadCopy, ReadStart, ReadMore, StartReadIO,
       ReadSubmit, ReadExit, SlotHolders, HoldsSlot, WritePc
  <2> QED
    BY <1>7, <2>1, <1>c DEF ReadStep, ReadLock, ReadCheck, ReadRetry,
       ReadWait, ReadErrors, ReadClear, ReadCopy, ReadStart, ReadMore,
       StartReadIO, ReadSubmit, ReadExit, SlotsConserved, KrefPut
<1>8. ASSUME NEW t \in Threads, WriteStep(t)
      PROVE  SlotsConserved'
  <2>1. CASE WriteDown(t)
    <3>1. CASE limit_sem > 0 /\ limit_sem' = limit_sem - 1
               /\ pc' = [pc EXCEPT ![t] = "w_errors"]
      <4>1. t \notin SlotHolders /\ SlotHolders' = SlotHolders \cup {t}
        BY <1>8, <2>1, <3>1 DEF WriteDown, SlotHolders, HoldsSlot, WritePc
      <4>2. Cardinality(SlotHolders') = Cardinality(SlotHolders) + 1
        BY <4>1, <1>s, Counting
      <4> QED
        BY <2>1, <3>1, <4>2, <1>c DEF WriteDown, SlotsConserved
    <3>2. CASE limit_sem' = limit_sem /\ pc' = [pc EXCEPT ![t] = "user"]
      <4>1. SlotHolders' = SlotHolders
        BY <1>8, <2>1, <3>2 DEF WriteDown, SlotHolders, HoldsSlot, WritePc
      <4> QED
        BY <2>1, <3>2, <4>1 DEF WriteDown, SlotsConserved
    <3> QED
      BY <2>1, <3>1, <3>2 DEF WriteDown
  <2>2. CASE WriteSubmit(t) /\ inflight' = inflight + 1
             /\ pc' = [pc EXCEPT ![t] = "user"]
    <3>1. t \in SlotHolders /\ SlotHolders' = SlotHolders \ {t}
      BY <1>8, <2>2 DEF WriteSubmit, SlotHolders, HoldsSlot, WritePc
    <3>2. Cardinality(SlotHolders') = Cardinality(SlotHolders) - 1
      BY <3>1, <1>s, Counting
    <3> QED
      BY <2>2, <3>2, <1>c DEF WriteSubmit, SlotsConserved
  <2>3. CASE WriteError(t)
    <3>1. t \in SlotHolders /\ SlotHolders' = SlotHolders \ {t}
      BY <1>8, <2>3 DEF WriteError, SlotHolders, HoldsSlot, WritePc
    <3>2. Cardinality(SlotHolders') = Cardinality(SlotHolders) - 1
      BY <3>1, <1>s, Counting
    <3> QED
      BY <2>3, <3>2, <1>c DEF WriteError, SlotsConserved
  <2>4. CASE \/ WriteErrors(t) \/ WriteClear(t) \/ WriteAlloc(t)
             \/ WriteLock(t) \/ WriteUnanchor(t)
             \/ WriteSubmit(t) /\ inflight' = inflight
                    /\ pc'[t] \in {"w_error", "w_unanchor"}
    <3>1. SlotHolders' = SlotHolders /\ UNCHANGED <<mem, limit_sem, inflight>>
      BY <1>8, <2>4 DEF WriteErrors, WriteClear, WriteAlloc, WriteLock,
         WriteUnanchor, WriteSubmit, SlotHolders, HoldsSlot, WritePc
    <3> QED
      BY <3>1 DEF SlotsConserved
  <2> QED
    BY <1>8, <2>1, <2>2, <2>3, <2>4 DEF WriteStep, WriteSubmit
<1>9. ASSUME NEW s \in Status, ReadCallback(s) \/ WriteCallback(s)
      PROVE  SlotsConserved'
  <2>1. SlotHolders' = SlotHolders
    BY <1>9 DEF ReadCallback, WriteCallback, SlotHolders, HoldsSlot, WritePc
  <2> QED
    BY <1>9, <2>1, <1>c DEF ReadCallback, WriteCallback, SlotsConserved,
       KrefPut
<1>10. CASE UNCHANGED vars
  <2>1. SlotHolders' = SlotHolders
    BY <1>10 DEF vars, SlotHolders, HoldsSlot, WritePc
  <2> QED
    BY <1>10, <2>1, <1>c DEF vars, SlotsConserved, KrefPut
<1> QED
  BY <1>1, <1>2, <1>3, <1>4, <1>5, <1>6, <1>7, <1>8, <1>9, <1>10 DEF Next,
     CallStep, Terminated

(* The state before the device is plugged in satisfies the invariant.      *)
LEMMA InitIInv == Init => IInv
<1> SUFFICES ASSUME Init
             PROVE  IInv
  OBVIOUS
<1>1. Openers = {} /\ SlotHolders = {}
  BY DEF Init, Openers, SlotHolders, HoldsSlot, WritePc
<1>2. Cardinality(Openers) = 0 /\ Cardinality(SlotHolders) = 0
  BY <1>1, FS_EmptySet
<1>0. FlagsOK
  BY Zenon DEF Init, FlagsOK
<1>3. TypeOK
  BY <1>0, ThreadsAssumption, SizesAssumption DEF Init, TypeOK, CorePc, Pc,
     Status
<1>4. MutexInv /\ PhaseInv /\ ReadInv
  BY ThreadsAssumption DEF Init, MutexInv, PhaseInv, ReadInv, Idle,
     HoldsMutex, CoreHoldsMutex, SubmitPc, PastCheck, ReadPc, FlushPc,
     ProbePc, SuspendPc, ResetPc
<1>5. RefInv /\ SlotsConserved
  BY <1>2 DEF Init, RefInv, SlotsConserved, CoreHasRef
<1>6. NoIOAfterDisconnect /\ QuietDuringReset /\ OngoingReadHasAnEnd
  BY DEF Init, NoIOAfterDisconnect, QuietDuringReset, OngoingReadHasAnEnd
<1> QED
  BY <1>3, <1>4, <1>5, <1>6 DEF IInv

(* IInv is an invariant of the driver: every conjunct is kept by a step    *)
(* with the help of the others.                                            *)
THEOREM Invariance == Spec => []IInv
<1>1. IInv /\ [Next]_vars => IInv'
  BY MutexStep, ReadInvStep, OngoingStep, PhaseStep, TypeStep, RefInvStep,
     SlotsStep DEF IInv
<1> QED
  BY <1>1, InitIInv, PTL DEF Spec

(* Type correctness: in particular kref and limit_sem never go below zero, *)
(* and the copied bytes always fit in bulk_in_buffer.                      *)
THEOREM TypeCorrect == Spec => []TypeOK
<1>1. IInv => TypeOK
  BY DEF IInv
<1> QED
  BY <1>1, Invariance, PTL

(* skel_delete never frees the object under an open file, a probe or       *)
(* disconnect in progress, or a URB in flight.                             *)
THEOREM Safe == Spec => []NoUseAfterFree
<1>1. IInv => NoUseAfterFree
  <2> SUFFICES ASSUME IInv, mem # "live"
               PROVE  /\ \A t \in Threads : pc[t] = "closed"
                      /\ ~CoreHasRef
                      /\ inflight = 0 /\ ~rurb
    BY DEF NoUseAfterFree
  <2>1. /\ ~CoreHasRef
        /\ \A t \in Threads : pc[t] \in {"closed", "o_get"}
    BY OneRef DEF IInv, RefInv, TypeOK
  <2>2. core \in {"unplugged", "unbound"}
    BY <2>1 DEF CoreHasRef
  <2> QED
    BY <2>1, <2>2 DEF IInv, PhaseInv, Idle, NoIOAfterDisconnect
<1> QED
  BY <1>1, Invariance, PTL

(* The last kref_put frees the object: none survives its last user.        *)
THEOREM LeakFree == Spec => []NoLeak
<1>1. IInv => NoLeak
  <2>1. Openers = {} => Cardinality(Openers) = 0
    BY FS_EmptySet
  <2> QED
    BY <2>1 DEF IInv, RefInv, NoLeak, CoreHasRef
<1> QED
  BY <1>1, Invariance, PTL

(* After skel_disconnect has killed the URBs none is submitted again, and  *)
(* none is active when skel_post_reset runs or the device is suspended.    *)
THEOREM Quiescence == Spec => []NoIOWhenStopped
<1>1. IInv => NoIOWhenStopped
  BY DEF IInv, NoIOWhenStopped
<1> QED
  BY <1>1, Invariance, PTL

(* limit_sem accounts for every write slot on every path of skel_write.    *)
THEOREM SlotAccounting == Spec => []SlotsConserved
<1>1. IInv => SlotsConserved
  BY DEF IInv
<1> QED
  BY <1>1, Invariance, PTL

(* bulk_in_urb is never filled or submitted while it is in use, and        *)
(* ongoing_read is never left set with nobody to clear it.                 *)
THEOREM ReadUrbOwnership == Spec => []ReadUrbOwned
<1>1. IInv => ReadUrbOwned
  BY DEF IInv, TypeOK, ReadInv, SubmitPc, ReadUrbLeftAlone, ReadUrbOwned
<1> QED
  BY <1>1, Invariance, PTL

(* No transfer is started over bytes that no read has copied out yet.      *)
THEOREM NoDataDropped == Spec => NoUnreadDataDropped
<1>1. IInv /\ [Next]_vars =>
        [ongoing_read' /\ ~ongoing_read => copied = filled]_vars
  <2> SUFFICES ASSUME IInv, Next, ongoing_read', ~ongoing_read
               PROVE  copied = filled
    OBVIOUS
  <2>1. \E t \in Threads : ReadStart(t) \/ ReadMore(t)
    BY DEF Next, Probe, ProbeAlloc, ProbeSetup, ProbeRegister, ProbeError,
       PowerAndReset, Suspend, Resume, PreReset, DrawDown, PostReset,
       Unplug, Disconnect, DisconnectIntfdata, DisconnectDeregister,
       DisconnectLock, DisconnectMark, DisconnectKillRead, DisconnectKill,
       DisconnectPut, CallStart, OpenFind, FlushCall, ReadCall, WriteCall,
       CallStep, OpenGet, FlushStep, FlushLock, FlushWait, FlushKill,
       FlushKillRead, FlushErrors, Release, ReadStep, ReadLock, ReadCheck,
       ReadRetry, ReadWait, ReadErrors, ReadClear, ReadCopy, ReadSubmit,
       ReadExit, WriteStep, WriteDown, WriteErrors, WriteClear, WriteAlloc,
       WriteLock, WriteSubmit, WriteUnanchor, WriteError, ReadCallback,
       WriteCallback, Terminated, vars, bus, object, writes, reads, locks,
       locals
  <2> QED
    BY <2>1 DEF IInv, TypeOK, ReadInv, ReadStart, ReadMore, StartReadIO,
       Available
<1> QED
  BY <1>1, Invariance, PTL DEF Spec, NoUnreadDataDropped
=============================================================================
