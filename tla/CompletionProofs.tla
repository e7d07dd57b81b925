-------------------------- MODULE CompletionProofs --------------------------
(***************************************************************************)
(* Theorems about CompletionDrv, for every finite set of readers and every *)
(* number of reads.  CompInv counts the events on their way: reported, in  *)
(* the thread's hands, pending in the completion, or about to be signalled *)
(* by a task inside test_read.                                             *)
(***************************************************************************)
EXTENDS CompletionDrv, TLAPS, FiniteSetTheorems

(* Tasks inside test_read form a finite set that a step changes by one.    *)
LEMMA CountCommitted ==
    ASSUME NEW S \in SUBSET Readers, NEW r
    PROVE  /\ Cardinality(S) \in Nat
           /\ r \notin S => Cardinality(S \cup {r}) = Cardinality(S) + 1
           /\ r \in S => Cardinality(S \ {r}) = Cardinality(S) - 1
<1>1. IsFiniteSet(S)
  BY ReadersAssumption, FS_Subset
<1> QED
  BY <1>1, FS_CardinalityType, FS_AddElement, FS_RemoveElement

(* The invariant holds before the module is loaded. *)
LEMMA CompInit == Init => CompInv
<1> SUFFICES ASSUME Init
             PROVE  CompInv
  OBVIOUS
<1>1. Cardinality(Committed) = 0
  <2>1. Committed = {}
    BY DEF Init, Committed
  <2> QED
    BY <2>1, FS_EmptySet
<1>2. noticed \in [Readers -> BOOLEAN]
  BY Zenon DEF Init
<1>3. TypeOK
  BY <1>2, ReadersAssumption DEF Init, TypeOK, ModPc, Devices, ThreadPc,
     Pc
<1> QED
  BY <1>1, <1>3 DEF Init, CompInv, Pending, Reporting, Signalled,
     ReportsAreReads, ReadNotLost

(* Every step keeps it. *)
LEMMA CompStep ==
    ASSUME CompInv, [Next]_vars
    PROVE  CompInv'
<1> USE ReadersAssumption
        DEF CompInv, TypeOK, ModPc, Devices, ThreadPc, Pc, Pending, Reporting,
            Signalled, ReportsAreReads, ReadNotLost
<1>1. Committed \in SUBSET Readers /\ Committed' \in SUBSET Readers
  BY DEF Committed
<1>2. Cardinality(Committed) \in Nat /\ Cardinality(Committed') \in Nat
  BY <1>1, CountCommitted
<1>3. CASE Load \/ CreateThread \/ Thread \/ ExitFlag \/ ExitStep
  <2>1. Committed' = Committed
    BY <1>3 DEF Committed, Load, CreateThread, Thread, WaitForCompletion,
       TestFlag, Report, ClearFlag, ExitFlag, ExitStep, ExitCheck,
       ExitComplete, ExitDestroy
  <2>2. noticed' \in [Readers -> BOOLEAN]
    BY <1>3, Zenon DEF Load, CreateThread, Thread, WaitForCompletion,
       TestFlag, Report, ClearFlag, ExitFlag, ExitStep, ExitCheck,
       ExitComplete, ExitDestroy
  <2>3. CASE Load \/ CreateThread \/ ExitFlag \/ ExitStep
    BY <1>2, <2>1, <2>2, <2>3 DEF Load, CreateThread, ExitFlag,
       ExitStep, ExitCheck, ExitComplete, ExitDestroy
  <2>4. CASE Thread
    BY <1>2, <2>1, <2>2, <2>4 DEF Thread, WaitForCompletion, TestFlag,
       Report, ClearFlag
  <2> QED
    BY <1>3, <2>3, <2>4
<1>4. ASSUME NEW r \in Readers, ReadCall(r)
      PROVE  CompInv'
  <2>1. r \notin Committed /\ Committed' = Committed \cup {r}
    BY <1>4 DEF ReadCall, Committed
  <2>2. Cardinality(Committed') = Cardinality(Committed) + 1
    BY <1>1, <2>1, CountCommitted
  <2>3. noticed' \in [Readers -> BOOLEAN]
    BY <1>4, Zenon DEF ReadCall
  <2> QED
    BY <1>2, <1>4, <2>2, <2>3 DEF ReadCall
<1>5. ASSUME NEW r \in Readers, ReadCheck(r)
      PROVE  CompInv'
  <2>1. CASE done = 0
    <3>1. Committed' = Committed
      BY <1>5, <2>1 DEF ReadCheck, Committed
    <3> QED
      BY <1>2, <1>5, <2>1, <3>1 DEF ReadCheck
  <2>2. CASE done # 0
    <3>1. r \in Committed /\ Committed' = Committed \ {r}
      BY <1>5, <2>2 DEF ReadCheck, Committed
    <3>2. Cardinality(Committed') = Cardinality(Committed) - 1
      BY <1>1, <3>1, CountCommitted
    <3> QED
      BY <1>2, <1>5, <2>2, <3>2 DEF ReadCheck
  <2> QED
    BY <2>1, <2>2
<1>6. ASSUME NEW r \in Readers, ReadComplete(r)
      PROVE  CompInv'
  <2>1. r \in Committed /\ Committed' = Committed \ {r}
    BY <1>6 DEF ReadComplete, Committed
  <2>2. Cardinality(Committed') = Cardinality(Committed) - 1
    BY <1>1, <2>1, CountCommitted
  <2> QED
    BY <1>2, <1>6, <2>2 DEF ReadComplete
<1>7. CASE UNCHANGED vars
  BY <1>7 DEF vars, Committed
<1> QED
  BY <1>3, <1>4, <1>5, <1>6, <1>7 DEF Next, ReadStep, Terminated

(* The accounting of events is an invariant of the driver.                 *)
THEOREM CompInvariance == Spec => []CompInv
<1>1. CompInv /\ [Next]_vars => CompInv'
  BY CompStep
<1> QED
  BY <1>1, CompInit, PTL DEF Spec

(* The thread reports no more reads than test_read was called, and the     *)
(* event of the exit as one only after clearing its flag; the counters     *)
(* keep their bounds.                                                      *)
THEOREM ReportsBounded == Spec => [](TypeOK /\ ReportsAreReads)
<1>1. CompInv => TypeOK /\ ReportsAreReads
  BY DEF CompInv
<1> QED
  BY <1>1, CompInvariance, PTL

(* A read that has returned was noticed or has a completion pending: the   *)
(* test of completion_done in test_read loses no event.                    *)
THEOREM NoReadLost == Spec => []ReadNotLost
<1>1. CompInv => ReadNotLost
  BY DEF CompInv
<1> QED
  BY <1>1, CompInvariance, PTL
=============================================================================
