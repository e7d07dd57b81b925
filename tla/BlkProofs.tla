----------------------------- MODULE BlkProofs -----------------------------
(***************************************************************************)
(* Theorems about the RAM disk, for every finite set of tasks, capacity,   *)
(* sector size and list of segments.                                       *)
(*                                                                         *)
(* First BlkDisk.  The heart of the argument is IdleInv: between           *)
(* del_timer_sync and the release that arms the timer again bd_mutex or    *)
(* the count of users keeps it off, so the handler and the tasks never     *)
(* work on the disk together.                                              *)
(*                                                                         *)
(* Then Blk, the disk with its requests, served side by side.  Sector by   *)
(* sector it is the same argument: a write in progress wants its payload   *)
(* there, no copy puts anything else there, and when a write ends its copy *)
(* has passed the sector.  Requests and disk need each other: a copy is a  *)
(* write of BlkDisk because a task has the disk open all the while, and no *)
(* erasing meets a request because BlkDisk erases an unused disk only.     *)
(***************************************************************************)
EXTENDS Blk, TLAPS, FiniteSetTheorems, WellFoundedInduction

(* The count of users is the cardinality of a set of tasks. *)
LEMMA CountUsers ==
    ASSUME NEW S \in SUBSET Tasks, NEW t
    PROVE  /\ Cardinality(S) \in 0 .. Cardinality(Tasks)
           /\ Cardinality(S) = 0 <=> S = {}
           /\ t \notin S => Cardinality(S \cup {t}) = Cardinality(S) + 1
           /\ t \in S => Cardinality(S \ {t}) = Cardinality(S) - 1
<1>1. IsFiniteSet(S) /\ Cardinality(S) <= Cardinality(Tasks)
  BY BlkAssumption, FS_Subset
<1>2. Cardinality(S) \in Nat /\ Cardinality(Tasks) \in Nat
  BY <1>1, BlkAssumption, FS_CardinalityType
<1>3. Cardinality(S) = 0 <=> S = {}
  BY <1>1, FS_EmptySet
<1>4. t \notin S => Cardinality(S \cup {t}) = Cardinality(S) + 1
  BY <1>1, FS_AddElement
<1>5. t \in S => Cardinality(S \ {t}) = Cardinality(S) - 1
  BY <1>1, FS_RemoveElement
<1> QED
  BY <1>1, <1>2, <1>3, <1>4, <1>5

(* A task that opens joins the users, one that releases leaves them, and   *)
(* no other step changes them or the count.                                *)
LEMMA UsersStep ==
    ASSUME BlkInv, [Next]_vars
    PROVE  users' = Cardinality(Users')
<1> USE DEF BlkInv, TypeOK, IdleInv, LifeInv, Goto, setup
<1>1. Users \in SUBSET Tasks /\ Users' \in SUBSET Tasks
  BY DEF Users
<1>2. Cardinality(Users) \in Nat
  BY <1>1, BlkAssumption, FS_Subset, FS_CardinalityType
<1>3. CASE SetupData
  <2>1. Users = {} /\ Users' = {}
    BY <1>3 DEF SetupData, Users
  <2> QED
    BY <2>1, <1>3, FS_EmptySet DEF SetupData
<1>4. ASSUME NEW t \in Tasks, OpenCount(t)
      PROVE  users' = Cardinality(Users')
  <2>1. t \notin Users /\ Users' = Users \cup {t}
    BY <1>4 DEF OpenCount, Users
  <2> QED
    BY <1>1, <1>4, <2>1, CountUsers DEF OpenCount
<1>5. ASSUME NEW t \in Tasks, ReleaseCount(t)
      PROVE  users' = Cardinality(Users')
  <2>1. t \in Users /\ Users' = Users \ {t}
    BY <1>5 DEF ReleaseCount, Users
  <2> QED
    BY <1>1, <1>5, <2>1, CountUsers DEF ReleaseCount
<1>6. CASE UNCHANGED <<users, pc>>
  BY <1>6 DEF Users
<1>7. ASSUME NEW t \in Tasks, 
             \/ OpenCall(t) \/ ReleaseCall(t) \/ OpenDelTimer(t)
             \/ OpenLock(t) \/ OpenCheck(t) \/ OpenRevalidate(t)
             \/ ReleaseLock(t)
      PROVE  users' = Cardinality(Users')
  <2>1. Users' = Users /\ users' = users
    BY <1>7 DEF OpenCall, ReleaseCall, OpenDelTimer, OpenLock, OpenCheck,
       OpenRevalidate, ReleaseLock, Users
  <2> QED
    BY <2>1
<1> QED
  BY <1>3, <1>4, <1>5, <1>6, <1>7
     DEF Next, Load, InitRegister, SetupQueue, SetupDisk, Unload, Exit,
         ExitTimer, ExitDisk, ExitData, Stuck, vars, Timer,
         TimerExpire, InvalidateLock, Invalidate, UserStep, Write, Revalidate,
         OpenStep, ReleaseStep

(* The locks and the life of the module. *)
LEMMA LocksStep ==
    ASSUME BlkInv, [Next]_vars
    PROVE  LockInv' /\ LifeInv'
<1> USE BlkAssumption DEF BlkInv, TypeOK, LockInv, LifeInv, InOpen, Goto,
        setup
<1>1. CASE Load \/ Unload
  <2>1. LockInv'
    BY <1>1 DEF Load, InitRegister, SetupData, SetupQueue, SetupDisk, Unload,
       Exit, ExitTimer, ExitDisk, ExitData, Stuck, vars, IdleInv,
       TimerOnLiveDevice
  <2>2. CASE Load
    BY <2>1, <2>2 DEF Load, InitRegister, SetupData, SetupQueue, SetupDisk,
       ExitPc
  <2>3. CASE Unload
    BY <2>1, <2>3 DEF Unload, Exit, ExitTimer, ExitDisk, ExitData, Stuck,
       vars, ExitPc
  <2> QED
    BY <1>1, <2>2, <2>3
<1>2. CASE Timer
  <2>1. LockInv'
    BY <1>2 DEF Timer, TimerExpire, InvalidateLock, Invalidate
  <2>2. UNCHANGED <<mod, gd, mem, pc>>
    BY <1>2 DEF Timer, TimerExpire, InvalidateLock, Invalidate
  <2> QED
    BY <2>1, <2>2
<1>3. ASSUME NEW t \in Tasks, UserStep(t)
      PROVE  LockInv' /\ LifeInv'
  BY <1>3 DEF UserStep, OpenCall, Write, Revalidate, ReleaseCall, Erase
<1>4. ASSUME NEW t \in Tasks, OpenStep(t) \/ ReleaseStep(t)
      PROVE  LockInv' /\ LifeInv'
  BY <1>4 DEF OpenStep, OpenDelTimer, OpenLock, OpenCheck, OpenRevalidate,
     OpenCount, ReleaseStep, ReleaseLock, ReleaseCount
<1>5. CASE UNCHANGED vars
  BY <1>5 DEF vars
<1> QED
  BY <1>1, <1>2, <1>3, <1>4, <1>5 DEF Next

(* The timer, the users and the media change flag. *)
LEMMA IdleStep ==
    ASSUME BlkInv, [Next]_vars
    PROVE  IdleInv'
<1> USE BlkAssumption DEF BlkInv, TypeOK, LockInv, LifeInv, IdleInv, InOpen,
        TimerOnLiveDevice, Users, Goto, setup
<1>0. users' = Cardinality(Users')
  BY UsersStep
<1>e. Users # {} <=> users # 0
  BY CountUsers
<1> DEFINE Rest ==
      /\ \A t \in Tasks : pc[t] \in InOpen => timer = "idle"
      /\ Users # {} => timer = "idle" /\ ~media_change
      /\ \A t \in Tasks : pc[t] = "o_count" => ~media_change
      /\ \A t \in Tasks : pc[t] = "o_revalidate" => users = 0 /\ media_change
      /\ TimerOnLiveDevice
<1>1. CASE Load \/ Unload
  <2>1. Rest'
    BY <1>1 DEF Load, InitRegister, SetupData, SetupQueue, SetupDisk, Unload,
       Exit, ExitTimer, ExitDisk, ExitData, Stuck, vars
  <2> QED
    BY <1>0, <2>1
<1>2. CASE Timer
  <2>1. Rest'
    BY <1>2, <1>e DEF Timer, TimerExpire, InvalidateLock, Invalidate
  <2> QED
    BY <1>0, <2>1
<1>3. ASSUME NEW t \in Tasks, UserStep(t)
      PROVE  IdleInv'
  <2>1. Rest'
    BY <1>3, <1>e DEF UserStep, OpenCall, Write, Revalidate, ReleaseCall, Erase
  <2> QED
    BY <1>0, <2>1
<1>4. ASSUME NEW t \in Tasks, OpenStep(t)
      PROVE  IdleInv'
  <2>1. Rest'
    BY <1>4, <1>e DEF OpenStep, OpenDelTimer, OpenLock, OpenCheck,
       OpenRevalidate, OpenCount, Erase
  <2> QED
    BY <1>0, <2>1
<1>5. ASSUME NEW t \in Tasks, ReleaseStep(t)
      PROVE  IdleInv'
  <2>1. Users' # {} <=> users' # 0
    BY <1>0, CountUsers
  <2>2. Rest'
    BY <1>5, <1>e, <2>1 DEF ReleaseStep, ReleaseLock, ReleaseCount
  <2> QED
    BY <1>0, <2>2
<1>6. CASE UNCHANGED vars
  BY <1>6 DEF vars
<1> QED
  BY <1>1, <1>2, <1>3, <1>4, <1>5, <1>6 DEF Next

(* Every variable keeps its type; users never drops below zero because a   *)
(* task that releases is counted.                                          *)
LEMMA BlkTypeStep ==
    ASSUME BlkInv, [Next]_vars
    PROVE  TypeOK'
<1> USE BlkAssumption DEF BlkInv, TypeOK, Pc, InitPc, ExitPc, Goto, setup
<1>1. users' \in 0 .. Cardinality(Tasks)
  <2>1. Users' \in SUBSET Tasks
    BY DEF Users
  <2> QED
    BY <2>1, UsersStep, CountUsers
<1>2. queue' \in BOOLEAN /\ gd' \in BOOLEAN /\ media_change' \in BOOLEAN
  <2>1. CASE Load \/ Unload \/ Timer
    BY <2>1, Zenon DEF Load, InitRegister, SetupData, SetupQueue, SetupDisk,
       Unload, Exit, ExitTimer, ExitDisk, ExitData, Stuck, vars,
       Timer, TimerExpire,
       InvalidateLock, Invalidate
  <2>2. ASSUME NEW t \in Tasks, UserStep(t) \/ OpenStep(t) \/ ReleaseStep(t)
        PROVE  /\ queue' \in BOOLEAN /\ gd' \in BOOLEAN
               /\ media_change' \in BOOLEAN
    BY <2>2, Zenon DEF UserStep, OpenCall, Write, Revalidate, ReleaseCall,
       Erase, OpenStep, OpenDelTimer, OpenLock, OpenCheck, OpenRevalidate,
       OpenCount, ReleaseStep, ReleaseLock, ReleaseCount
  <2> QED
    BY <2>1, <2>2, Zenon DEF Next, vars
<1>3. CASE Load \/ Unload \/ Timer
  BY <1>1, <1>2, <1>3 DEF Load, InitRegister, SetupData, SetupQueue,
     SetupDisk, Unload, Exit, ExitTimer, ExitDisk, ExitData, Stuck, vars,
     Timer, TimerExpire, InvalidateLock, Invalidate
<1>4. ASSUME NEW t \in Tasks, UserStep(t) \/ ReleaseStep(t)
      PROVE  TypeOK'
  BY <1>1, <1>2, <1>4 DEF UserStep, OpenCall, Write, Revalidate, ReleaseCall,
     Erase, ReleaseStep, ReleaseLock, ReleaseCount
<1>5. ASSUME NEW t \in Tasks, OpenStep(t)
      PROVE  TypeOK'
  BY <1>1, <1>2, <1>5 DEF OpenStep, OpenDelTimer, OpenLock, OpenCheck,
     OpenRevalidate, OpenCount, Erase
<1>6. CASE UNCHANGED vars
  BY <1>6 DEF vars
<1> QED
  BY <1>3, <1>4, <1>5, <1>6 DEF Next

(* BlkInv holds before the module is loaded. *)
LEMMA DiskInvInit == Init => BlkInv
<1> SUFFICES ASSUME Init
             PROVE  BlkInv
  OBVIOUS
<1>1. Users = {} /\ Cardinality(Users) = 0
  BY FS_EmptySet DEF Init, Users
<1>2. queue \in BOOLEAN /\ gd \in BOOLEAN /\ media_change \in BOOLEAN
  BY Zenon DEF Init
<1>3. Cardinality(Tasks) \in Nat
  BY BlkAssumption, FS_CardinalityType
<1>4. TypeOK
  BY <1>2, <1>3, BlkAssumption DEF Init, TypeOK, Pc
<1>5. LockInv /\ LifeInv /\ IdleInv
  BY <1>1, BlkAssumption DEF Init, LockInv, LifeInv, IdleInv, InOpen,
     TimerOnLiveDevice
<1> QED
  BY <1>4, <1>5 DEF BlkInv

(* The inductive invariant of the disk. *)
THEOREM BlkInvariance == Spec => []BlkInv
<1>1. BlkInv /\ [Next]_vars => BlkInv'
  BY LocksStep, IdleStep, BlkTypeStep DEF BlkInv
<1> QED
  BY <1>1, DiskInvInit, PTL DEF Spec

(* Type correctness: the count of users stays between 0 and the tasks.     *)
THEOREM BlkTypeCorrect == Spec => []TypeOK
<1>1. BlkInv => TypeOK
  BY DEF BlkInv
<1> QED
  BY <1>1, BlkInvariance, PTL

(* The timer is armed only while the disk is idle, and only on a device    *)
(* that is completely set up and not yet given back.                       *)
THEOREM TimerSafe == Spec => []TimerOnlyWhenIdle
<1>1. BlkInv => TimerOnlyWhenIdle
  <2> SUFFICES ASSUME BlkInv
               PROVE  TimerOnlyWhenIdle
    OBVIOUS
  <2>1. Users # {} <=> users # 0
    BY CountUsers DEF BlkInv, IdleInv, Users
  <2> QED
    BY <2>1 DEF BlkInv, IdleInv, TimerOnlyWhenIdle
<1> QED
  BY <1>1, BlkInvariance, PTL

(* Nobody works on a disk with a pending media change.                     *)
THEOREM MediaFresh == Spec => []NoStaleMedia
<1>1. BlkInv => NoStaleMedia
  BY DEF BlkInv, IdleInv, NoStaleMedia, Users
<1> QED
  BY <1>1, BlkInvariance, PTL

(* blk1_revalidate erases only a disk that nobody uses and whose media     *)
(* change was flagged, with or without dev->lock.                          *)
THEOREM EraseSafe == Spec => EraseOnlyUnused
<1>1. BlkInv /\ [Next]_vars =>
        [(mod = "loaded" /\ data' = Zero /\ data # Zero) =>
            users = 0 /\ media_change]_vars
  <2> SUFFICES ASSUME BlkInv, Next, mod = "loaded", data' = Zero, data # Zero
               PROVE  users = 0 /\ media_change
    OBVIOUS
  <2>1. \E t \in Tasks : OpenRevalidate(t) \/ Revalidate(t)
    BY BlkAssumption DEF Next, Load, InitRegister, SetupData, SetupQueue,
       SetupDisk, Unload, Exit, ExitTimer, ExitDisk, ExitData, Stuck, vars,
       Timer, TimerExpire, InvalidateLock, Invalidate, UserStep, OpenCall,
       Write, ReleaseCall, OpenStep, OpenDelTimer, OpenLock, OpenCheck,
       OpenCount, ReleaseStep, ReleaseLock, ReleaseCount, setup
  <2>2. ASSUME NEW t \in Tasks, Revalidate(t)
        PROVE  FALSE
    BY <2>2 DEF BlkInv, IdleInv, Users, Revalidate, Erase
  <2> QED
    BY <2>1, <2>2 DEF BlkInv, IdleInv, OpenRevalidate
<1> QED
  BY <1>1, BlkInvariance, PTL DEF Spec, EraseOnlyUnused

-----------------------------------------------------------------------------
(* The lengths of segments.  Start is a recursive function; that there is  *)
(* one is an induction, done here with least counterexamples.              *)

LEMMA LeastNat ==
    ASSUME NEW T \in SUBSET Nat, T # {}
    PROVE  \E n \in T : \A m \in T : n <= m
<1>1. PICK n \in T : \A m \in T : ~(<<m, n>> \in OpToRel(<, Nat))
  BY NatLessThanWellFounded, WFMin, Zenon
<1>2. \A m \in T : ~(m < n)
  BY <1>1, Zenon DEF OpToRel
<1> QED
  BY <1>2

LEMMA SetInduction ==
    ASSUME NEW S, 0 \in S, \A n \in Nat : n \in S => n + 1 \in S
    PROVE  \A n \in Nat : n \in S
<1> SUFFICES ASSUME Nat \ S # {}
             PROVE  FALSE
  OBVIOUS
<1>1. PICK n \in Nat \ S : \A m \in Nat \ S : n <= m
  BY LeastNat
<1>2. n - 1 \in Nat /\ n - 1 \notin Nat \ S
  BY <1>1
<1> QED
  BY <1>1, <1>2

(* The equation that defines the sums of the segments before each one. *)
Sums(segs, f) ==
    f = [k \in 1 .. Len(segs) + 1 |->
            IF k = 1 THEN 0 ELSE f[k - 1] + segs[k - 1]]

LEMMA SumsExist ==
    ASSUME NEW segs \in Seq(Nat)
    PROVE  \E f \in [1 .. Len(segs) + 1 -> Nat] : Sums(segs, f)
<1> DEFINE P(n, g) == \A k \in 1 .. n + 1 :
                        g[k] = IF k = 1 THEN 0 ELSE g[k - 1] + segs[k - 1]
           S == {n \in Nat : n <= Len(segs) =>
                               \E g \in [1 .. n + 1 -> Nat] : P(n, g)}
<1>1. 0 \in S
  <2> DEFINE z == [k \in 1 .. 0 + 1 |-> 0]
  <2>1. z \in [1 .. 0 + 1 -> Nat]
    OBVIOUS
  <2>2. ASSUME NEW k \in 1 .. 0 + 1
        PROVE  k = 1 /\ z[k] = 0
    OBVIOUS
  <2> HIDE DEF z
  <2>3. P(0, z)
    BY <2>2
  <2> QED
    BY <2>1, <2>3
<1>2. ASSUME NEW n \in Nat, n \in S
      PROVE  n + 1 \in S
  <2>0. n + 1 \in Nat
    OBVIOUS
  <2> SUFFICES ASSUME n + 1 <= Len(segs)
               PROVE  \E g \in [1 .. (n + 1) + 1 -> Nat] : P(n + 1, g)
    BY <2>0, Zenon
  <2>1. PICK g \in [1 .. n + 1 -> Nat] : P(n, g)
    BY <1>2
  <2> DEFINE h == [k \in 1 .. n + 2 |->
                     IF k = n + 2 THEN g[n + 1] + segs[n + 1] ELSE g[k]]
  <2>2. segs[n + 1] \in Nat
    OBVIOUS
  <2>3. h \in [1 .. n + 2 -> Nat]
    BY <2>2
  <2>4. P(n + 1, h)
    BY <2>1
  <2>5. n + 2 = (n + 1) + 1
    OBVIOUS
  <2> QED
    BY <2>3, <2>4, <2>5
<1> HIDE DEF S
<1>3. \A n \in Nat : n \in S
  BY <1>1, <1>2, SetInduction
<1>4. Len(segs) \in S
  BY <1>3
<1>5. PICK f \in [1 .. Len(segs) + 1 -> Nat] : P(Len(segs), f)
  BY <1>4 DEF S
<1> QED
  BY <1>5 DEF Sums

LEMMA StartSums ==
    ASSUME NEW segs \in Seq(Nat)
    PROVE  /\ IO!Start(segs, 1) = 0
           /\ \A i \in 1 .. Len(segs) + 1 : IO!Start(segs, i) \in Nat
           /\ \A i \in 1 .. Len(segs) :
                 IO!Start(segs, i + 1) = IO!Start(segs, i) + segs[i]
<1> DEFINE f == CHOOSE f : Sums(segs, f)
<1>1. PICK g \in [1 .. Len(segs) + 1 -> Nat] : Sums(segs, g)
  BY SumsExist
<1>2. Sums(segs, f)
  BY <1>1
<1>3. \A i : IO!Start(segs, i) = f[i]
  BY DEF IO!Start, Sums
<1> HIDE DEF f
<1>4. f[1] = 0 /\ \A i \in 1 .. Len(segs) : f[i + 1] = f[i] + segs[i]
  BY <1>2 DEF Sums
<1> DEFINE S == {n \in Nat : n <= Len(segs) => f[n + 1] \in Nat}
<1>5. 0 \in S
  BY <1>4
<1>6. ASSUME NEW n \in Nat, n \in S
      PROVE  n + 1 \in S
  <2>1. n + 1 <= Len(segs) => segs[n + 1] \in Nat
    OBVIOUS
  <2> QED
    BY <1>4, <1>6, <2>1
<1> HIDE DEF S
<1>7. \A n \in Nat : n \in S
  BY <1>5, <1>6, SetInduction
<1>8. \A i \in 1 .. Len(segs) + 1 : f[i] \in Nat
  <2> TAKE i \in 1 .. Len(segs) + 1
  <2>1. i - 1 \in S
    BY <1>7
  <2> QED
    BY <2>1 DEF S
<1> QED
  BY <1>3, <1>4, <1>8

(* No segment starts beyond the end of its list. *)
LEMMA StartMonotonic ==
    ASSUME NEW segs \in Seq(Nat), NEW i \in 1 .. Len(segs) + 1
    PROVE  IO!Start(segs, i) <= IO!Total(segs)
<1> DEFINE N == Len(segs) + 1
           St(j) == IO!Start(segs, j)
           S == {n \in Nat : n < N => St(N - n) <= St(N)}
<1>0. N \in Nat
  OBVIOUS
<1>1. \A j \in 1 .. N : St(j) \in Nat
  BY StartSums
<1>2. \A j \in 1 .. Len(segs) : St(j + 1) = St(j) + segs[j] /\ segs[j] \in Nat
  BY StartSums
<1> HIDE DEF St
<1>3. 0 \in S
  BY <1>1
<1>4. ASSUME NEW n \in Nat, n \in S
      PROVE  n + 1 \in S
  <2> SUFFICES ASSUME n + 1 < N
               PROVE  St(N - (n + 1)) <= St(N)
    OBVIOUS
  <2> DEFINE j == N - (n + 1)
  <2>1. /\ j \in 1 .. Len(segs) /\ j + 1 = N - n
        /\ {j, j + 1, N} \subseteq 1 .. N
    OBVIOUS
  <2>2. St(N - n) <= St(N)
    BY <1>4
  <2> HIDE DEF j
  <2>3. St(j) \in Nat /\ St(j + 1) \in Nat /\ St(N) \in Nat
    BY <1>1, <2>1, Zenon
  <2>4. St(j + 1) = St(j) + segs[j] /\ segs[j] \in Nat
    BY <1>2, <2>1, Zenon
  <2>5. St(j + 1) <= St(N)
    BY <2>1, <2>2, Zenon
  <2>6. St(j) <= St(N)
    BY <2>3, <2>4, <2>5
  <2> QED
    BY <2>6 DEF j
<1> HIDE DEF S
<1>5. N - i \in S
  <2>1. \A n \in Nat : n \in S
    BY <1>3, <1>4, SetInduction
  <2> QED
    BY <2>1
<1>6. N - i < N /\ N - (N - i) = i
  OBVIOUS
<1>7. St(i) <= St(N)
  BY <1>5, <1>6 DEF S
<1> QED
  BY <1>7 DEF St, IO!Total

(* The test for the end of the device is a test against the capacity.      *)
LEMMA BeyondEndIs ==
    ASSUME NEW sector \in Nat, NEW nsect \in Nat
    PROVE  /\ IO!Capacity \in Nat
           /\ IO!BeyondEnd(sector, nsect) <=> sector + nsect > IO!Capacity
<1> DEFINE K == KERNEL_SECTOR_SIZE
           q == hardsect_size \div K
           C == nsectors * q
           a == sector + nsect
<1>1. K \in Nat /\ K > 0 /\ nsectors \in Nat /\ hardsect_size \in Nat
  BY BlkIOAssumption
<1>2. q \in Nat /\ hardsect_size = q * K
  BY <1>1, BlkIOAssumption
<1> HIDE DEF q
<1>3. C \in Nat /\ nsectors * hardsect_size = C * K
  BY <1>1, <1>2
<1>4. a \in Nat
  OBVIOUS
<1> HIDE DEF C, a, K
<1>5. a > C => a * K > C * K
  BY <1>1, <1>3, <1>4
<1>6. a <= C => a * K <= C * K
  BY <1>1, <1>3, <1>4
<1>7. a * K > nsectors * hardsect_size <=> a > C
  BY <1>1, <1>3, <1>4, <1>5, <1>6
<1>8. IO!Capacity = C /\ IO!size = nsectors * hardsect_size
  BY DEF IO!Capacity, IO!size, C, q, K
<1> QED
  BY <1>3, <1>7, <1>8 DEF IO!BeyondEnd, a, K

-----------------------------------------------------------------------------
(* Steps of Blk *)

LEMMA RequestIs ==
    ASSUME NEW r \in AllRequests
    PROVE  /\ r # IO!NoReq /\ r.pos \in Nat /\ r.segs \in Seq(Nat)
           /\ r.value \in Nat
           /\ r.write => r.value \in Payloads /\ r.value > 0
<1>1. CASE r \in IO!Requests
  <2>1. PICK p \in IO!Sectors, s \in Segmentations, w \in BOOLEAN,
             v \in Payloads :
               r = [pos |-> p, segs |-> s, write |-> w, value |-> v]
    BY <1>1 DEF IO!Requests
  <2>2. r.pos = p /\ r.segs = s /\ r.value = v /\ "pos" \in DOMAIN r
    BY <2>1
  <2>3. DOMAIN IO!NoReq = {}
    BY DEF IO!NoReq
  <2>4. r # IO!NoReq
    BY <2>2, <2>3, Zenon
  <2>5. p \in Nat /\ s \in Seq(Nat) /\ v \in Nat /\ v > 0
    BY BlkIOAssumption DEF IO!Sectors
  <2> QED
    BY <2>2, <2>4, <2>5
<1>2. CASE r = IO!Passthrough
  <2>1. /\ r.pos = 0 /\ r.segs = <<>> /\ r.write = FALSE /\ r.value = 0
        /\ "pos" \in DOMAIN r
    BY <1>2 DEF IO!Passthrough
  <2>2. DOMAIN IO!NoReq = {}
    BY DEF IO!NoReq
  <2>3. r # IO!NoReq
    BY <2>1, <2>2, Zenon
  <2> QED
    BY <2>1, <2>3
<1> QED
  BY <1>1, <1>2 DEF AllRequests

(* The sectors a request names lie within the capacity, and what a write   *)
(* gives them is content of a sector.                                      *)
LEMMA RequestFits ==
    ASSUME NEW r \in AllRequests, IO!InCapacity(r)
    PROVE  /\ IO!Total(r.segs) \in Nat /\ IO!Start(r.segs, 1) = 0
           /\ IO!Capacity \in Nat
           /\ r.pos + IO!Total(r.segs) <= IO!Capacity
           /\ IO!Field(r) \subseteq IO!Sectors
           /\ \A o \in 0 .. IO!Total(r.segs) - 1 : r.pos + o \in IO!Sectors
           /\ r.write =>
                 \A s \in IO!Field(r) : IO!Gives(r, s) \subseteq Content
<1> DEFINE total == IO!Total(r.segs)
<1>1. r.pos \in Nat /\ r.segs \in Seq(Nat) /\ r.value \in Nat
  BY RequestIs
<1>2. /\ {1, Len(r.segs) + 1} \subseteq 1 .. Len(r.segs) + 1
  BY <1>1
<1>3. total \in Nat /\ IO!Start(r.segs, 1) = 0
  BY <1>1, <1>2, StartSums DEF IO!Total
<1>4. IO!Capacity \in Nat /\ r.pos + total <= IO!Capacity
  BY BeyondEndIs DEF IO!InCapacity
<1> HIDE DEF total
<1>5. IO!Field(r) \subseteq IO!Sectors
  BY <1>1, <1>3, <1>4 DEF IO!Field, IO!Sectors, total
<1>6. \A o \in 0 .. total - 1 : r.pos + o \in IO!Sectors
  BY <1>1, <1>3, <1>4 DEF IO!Sectors
<1>7. ASSUME r.write, NEW s \in IO!Field(r)
      PROVE  IO!Gives(r, s) \subseteq Content
  <2>1. CASE IO!Even(r)
    <3>1. s \in r.pos .. r.pos + total - 1
      BY <1>7, <2>1 DEF IO!Field, total
    <3>2. s - r.pos \in IO!Sectors
      BY <1>1, <1>3, <1>4, <3>1 DEF IO!Sectors
    <3>3. r.value \in Payloads
      BY <1>7, RequestIs
    <3>4. r.value + (s - r.pos) \in Content
      BY <3>2, <3>3, ContentAssumption
    <3> QED
      BY <2>1, <3>4 DEF IO!Gives
  <2>2. CASE ~IO!Even(r)
    BY <2>2 DEF IO!Gives
  <2> QED
    BY <2>1, <2>2
<1> QED
  BY <1>3, <1>4, <1>5, <1>6, <1>7 DEF total

(* The content of the disk is one number in every sector. *)
LEMMA ContentIs ==
    Values \cup {Zero} = [IO!Sectors -> Content]
<1>1. Zero \in [IO!Sectors -> Content]
  BY ContentAssumption
<1> QED
  BY <1>1, ContentAssumption

(* A step of the disk is one of BlkDisk, and changes the data only when no *)
(* task has it open.                                                       *)
LEMMA DiskStepNext == DiskStep => Next
  BY Zenon DEF DiskStep, Close, Next, UserStep

LEMMA EraseUnused ==
    ASSUME BlkInv, DiskStep, InUse
    PROVE  data' = data
<1> PICK u \in Tasks : pc[u] = "open"
  BY DEF InUse
<1>1. mod = "loaded" /\ ~media_change
  BY DEF BlkInv, LifeInv, IdleInv, Users
<1>2. \A t \in Tasks : pc[t] # "o_revalidate"
  <2>1. Users # {} /\ users = Cardinality(Users) /\ Users \in SUBSET Tasks
    BY DEF BlkInv, IdleInv, Users
  <2>2. users # 0
    BY <2>1, CountUsers
  <2> QED
    BY <2>2 DEF BlkInv, IdleInv
<1>3. CASE Load \/ Unload \/ Timer
  BY <1>1, <1>3 DEF Load, InitRegister, SetupData, SetupQueue, SetupDisk,
     Unload, Exit, ExitTimer, ExitDisk, ExitData, Stuck, vars,
       Timer, TimerExpire,
     InvalidateLock, Invalidate
<1>4. ASSUME NEW t \in Tasks,
             \/ OpenCall(t) \/ Revalidate(t) \/ Close(t)
             \/ OpenStep(t) \/ ReleaseStep(t)
      PROVE  data' = data
  BY <1>1, <1>2, <1>4 DEF OpenCall, Revalidate, Erase, Close, ReleaseCall,
     OpenStep, OpenDelTimer, OpenLock, OpenCheck, OpenRevalidate, OpenCount,
     ReleaseStep, ReleaseLock, ReleaseCount
<1> QED
  BY <1>3, <1>4 DEF DiskStep

(* The last close waits for the requests. *)
LEMMA StaysAttended ==
    ASSUME BlkInv, DiskStep, InUse,
           \E g \in Tags : req[g] # IO!NoReq
    PROVE  InUse'
<1> PICK u \in Tasks : pc[u] = "open"
  BY DEF InUse
<1> USE DEF InUse, BlkInv, TypeOK
<1>1. CASE Load \/ Unload \/ Timer
  <2>1. pc' = pc
    BY <1>1 DEF Load, InitRegister, SetupData, SetupQueue, SetupDisk,
       Unload, Exit, ExitTimer, ExitDisk, ExitData, Stuck, vars,
       Timer, TimerExpire,
       InvalidateLock, Invalidate
  <2> QED
    BY <2>1
<1>2. ASSUME NEW t \in Tasks, OpenCall(t) \/ OpenStep(t) \/ ReleaseStep(t)
      PROVE  InUse'
  <2>1. pc[t] # "open" /\ pc' = [pc EXCEPT ![t] = pc'[t]]
    BY <1>2 DEF Goto, OpenCall, OpenStep, OpenDelTimer, OpenLock, OpenCheck,
       OpenRevalidate, OpenCount, ReleaseStep, ReleaseLock, ReleaseCount
  <2> QED
    BY <2>1
<1>3. ASSUME NEW t \in Tasks, Revalidate(t)
      PROVE  InUse'
  BY <1>3 DEF Revalidate
<1>4. ASSUME NEW t \in Tasks, Close(t)
      PROVE  InUse'
  BY <1>4 DEF Close, ReleaseCall, Goto
<1> QED
  BY <1>1, <1>2, <1>3, <1>4 DEF DiskStep

(* The segment at place i of a list. *)
LEMMA SegmentAt ==
    ASSUME NEW segs \in Seq(Nat), NEW i \in 1 .. Len(segs)
    PROVE  /\ segs[1] \in Nat /\ segs[i] \in Nat
           /\ IO!Start(segs, i) \in Nat
           /\ IO!Start(segs, i + 1) = IO!Start(segs, i) + segs[i]
           /\ IO!Start(segs, i + 1) <= IO!Total(segs)
<1>1. 1 \in 1 .. Len(segs) /\ {i, i + 1} \subseteq 1 .. Len(segs) + 1
  OBVIOUS
<1>2. segs[1] \in Nat /\ segs[i] \in Nat
  BY <1>1
<1> QED
  BY <1>1, <1>2, StartSums, StartMonotonic

(* Where the iterator of a request under way stands. *)
LEMMA Bounds ==
    ASSUME IOTypes, NEW g \in Tags, IO!InSegment(g), InStep(g)
    PROVE  LET r == req[g]
           IN  /\ r \in AllRequests /\ r.segs \in Seq(Nat)
               /\ seg[g] \in 1 .. Len(r.segs) /\ Len(r.segs) \in Nat
               /\ IO!CurSectors(g) = r.segs[1] /\ r.segs[1] \in Nat
               /\ r.segs[seg[g]] \in Nat
               /\ r.pos \in Nat /\ pos_sector[g] \in Nat
               /\ r.pos <= pos_sector[g]
               /\ copied[g] \in Nat /\ copied[g] <= r.segs[1]
               /\ IO!Start(r.segs, seg[g]) \in Nat
               /\ IO!Start(r.segs, seg[g] + 1) =
                     IO!Start(r.segs, seg[g]) + r.segs[seg[g]]
               /\ IO!Start(r.segs, seg[g] + 1) <= IO!Total(r.segs)
               /\ IO!Total(r.segs) \in Nat /\ IO!Capacity \in Nat
               /\ r.pos + IO!Total(r.segs) <= IO!Capacity
<1> DEFINE r == req[g]
           i == seg[g]
<1>1. /\ r \in AllRequests /\ i \in Nat /\ pos_sector[g] \in Nat
      /\ copied[g] \in Nat /\ i <= Len(r.segs)
  BY DEF IOTypes, IO!InSegment
<1>2. /\ IO!InCapacity(r) /\ i \in 1 .. Len(r.segs) + 1
      /\ r.pos <= pos_sector[g]
      /\ copied[g] <= IF i > Len(r.segs) THEN 0 ELSE r.segs[1]
  BY DEF InStep
<1>3. r.segs \in Seq(Nat) /\ r.pos \in Nat
  BY <1>1, RequestIs
<1>4. i \in 1 .. Len(r.segs)
  BY <1>1, <1>2, <1>3
<1>5. /\ r.segs[1] \in Nat /\ r.segs[i] \in Nat
      /\ IO!Start(r.segs, i) \in Nat
      /\ IO!Start(r.segs, i + 1) = IO!Start(r.segs, i) + r.segs[i]
      /\ IO!Start(r.segs, i + 1) <= IO!Total(r.segs)
  BY <1>3, <1>4, SegmentAt
<1>8. /\ IO!Total(r.segs) \in Nat /\ IO!Capacity \in Nat
      /\ r.pos + IO!Total(r.segs) <= IO!Capacity
  BY <1>1, <1>2, RequestFits
<1>9. copied[g] <= r.segs[1]
  BY <1>1, <1>2, <1>3, <1>5
<1> QED
  BY <1>1, <1>2, <1>3, <1>4, <1>5, <1>8, <1>9 DEF IO!CurSectors

(* With segments of one length blk1_transfer stays within the device.      *)
LEMMA EvenSegment ==
    ASSUME IOTypes, NEW g \in Tags, IO!InSegment(g), InStep(g),
           IO!Even(req[g])
    PROVE  /\ IO!CurSectors(g) = req[g].segs[seg[g]]
           /\ pos_sector[g] = req[g].pos + IO!Start(req[g].segs, seg[g])
           /\ ~IO!BeyondEnd(pos_sector[g], IO!CurSectors(g))
<1> DEFINE r == req[g]
           n == IO!CurSectors(g)
           start == IO!Start(r.segs, seg[g])
<1>1. /\ r.segs \in Seq(Nat) /\ seg[g] \in 1 .. Len(r.segs)
      /\ n = r.segs[1] /\ n \in Nat /\ pos_sector[g] \in Nat
      /\ r.pos \in Nat /\ start \in Nat /\ r.segs[seg[g]] \in Nat
      /\ start + r.segs[seg[g]] <= IO!Total(r.segs)
      /\ IO!Total(r.segs) \in Nat /\ IO!Capacity \in Nat
      /\ r.pos + IO!Total(r.segs) <= IO!Capacity
  BY Bounds
<1>2. n = r.segs[seg[g]]
  BY <1>1 DEF IO!Even
<1>3. pos_sector[g] = r.pos + start
  BY DEF InStep
<1> DEFINE l == r.segs[seg[g]]
           total == IO!Total(r.segs)
<1> HIDE DEF n, start, l, total, r
<1>4. ~(pos_sector[g] + n > IO!Capacity)
  <2>1. /\ n \in Nat /\ r.pos \in Nat /\ start \in Nat /\ start + l <= total
        /\ total \in Nat /\ r.pos + total <= IO!Capacity
        /\ IO!Capacity \in Nat /\ n = l /\ pos_sector[g] = r.pos + start
    BY <1>1, <1>2, <1>3 DEF l, total
  <2> QED
    BY <2>1
<1>5. ~IO!BeyondEnd(pos_sector[g], n)
  BY <1>1, <1>4, BeyondEndIs
<1> QED
  BY <1>2, <1>3, <1>5 DEF n, start, r

(* One sector of a segment: it lies on the disk behind the start of its    *)
(* request, and a write puts there what it was to give.                    *)
LEMMA CopyPlace ==
    ASSUME IOTypes, NEW g \in Tags, IO!InSegment(g), InStep(g),
           ~IO!BeyondEnd(pos_sector[g], IO!CurSectors(g)),
           copied[g] < IO!CurSectors(g)
    PROVE  LET r == req[g]
               s == pos_sector[g] + copied[g]
               o == IO!Start(r.segs, seg[g]) + copied[g]
               m == IO!Memory(r, seg[g], copied[g])
           IN  /\ s \in IO!Sectors
               /\ IO!Even(r) => /\ copied[g] < r.segs[seg[g]]
                                /\ s = r.pos + o
                                /\ o \in 0 .. IO!Total(r.segs) - 1
               /\ r.write => /\ s \in IO!Field(r)
                             /\ m \in IO!Gives(r, s)
                             /\ m \in Content /\ m # 0
<1> DEFINE r == req[g]
           s == pos_sector[g] + copied[g]
           start == IO!Start(r.segs, seg[g])
           o == start + copied[g]
           m == IO!Memory(r, seg[g], copied[g])
           n == IO!CurSectors(g)
           l == r.segs[seg[g]]
           total == IO!Total(r.segs)
<1>1. /\ r \in AllRequests /\ n \in Nat /\ pos_sector[g] \in Nat
      /\ r.pos \in Nat /\ start \in Nat /\ l \in Nat
      /\ r.pos <= pos_sector[g] /\ copied[g] \in Nat
      /\ start + l <= total /\ total \in Nat /\ IO!Capacity \in Nat
      /\ r.pos + total <= IO!Capacity
  BY Bounds
<1>0. ~(pos_sector[g] + n > IO!Capacity) /\ copied[g] < n
  BY <1>1, BeyondEndIs
<1>3. r.value \in Nat /\ (r.write => r.value \in Payloads /\ r.value > 0)
  BY <1>1, RequestIs
<1>4. IO!Even(r) => n = l /\ pos_sector[g] = r.pos + start
  BY EvenSegment
<1>5. m = IF copied[g] < l THEN r.value + o ELSE IO!Junk
  BY DEF IO!Memory
<1>6. IO!Field(r) = IF IO!Even(r) THEN r.pos .. r.pos + total - 1
                    ELSE r.pos .. IO!Capacity - 1
  BY DEF IO!Field
<1>7. IO!Gives(r, s) = IF IO!Even(r) THEN {r.value + (s - r.pos)} ELSE Content
  BY DEF IO!Gives
<1> HIDE DEF start, n, l, total, m, r
<1>2. copied[g] < n /\ pos_sector[g] + n <= IO!Capacity
  BY <1>0, <1>1
<1>8. s \in IO!Sectors /\ s >= r.pos /\ s \in Nat /\ o \in Nat
  BY <1>1, <1>2 DEF IO!Sectors
<1>9. IO!Even(r) => /\ copied[g] < l /\ s = r.pos + o
                    /\ o \in 0 .. total - 1
                    /\ s \in r.pos .. r.pos + total - 1
                    /\ s - r.pos = o
  BY <1>1, <1>2, <1>4
<1>10. s \in IO!Field(r)
  <2>1. s \in r.pos .. IO!Capacity - 1
    BY <1>1, <1>2
  <2> QED
    BY <1>6, <1>9, <2>1
<1>11. ASSUME r.write
       PROVE  m \in Content /\ m # 0
  <2>1. CASE copied[g] < l
    <3>1. o \in IO!Sectors
      BY <1>1, <2>1 DEF IO!Sectors
    <3>2. r.value + o \in Content
      BY <1>3, <1>11, <3>1, ContentAssumption
    <3>3. r.value + o # 0
      BY <1>3, <1>8, <1>11
    <3> QED
      BY <1>5, <2>1, <3>2, <3>3
  <2>2. CASE ~(copied[g] < l)
    BY <1>5, <2>2, ContentAssumption DEF IO!Junk
  <2> QED
    BY <2>1, <2>2
<1>12. r.write => m \in IO!Gives(r, s)
  BY <1>5, <1>7, <1>9, <1>11
<1> QED
  BY <1>8, <1>9, <1>10, <1>11, <1>12 DEF start, n, l, total, m, r

(* What a write is through with are sectors it names. *)
LEMMA PassedInField ==
    ASSUME IOTypes, NEW g \in Tags, req[g] # IO!NoReq, InStep(g)
    PROVE  /\ Passed(g) \subseteq IO!Field(req[g])
           /\ Passed(g) \subseteq IO!Sectors
           /\ seg[g] > Len(req[g].segs) => Passed(g) = IO!Field(req[g])
<1> DEFINE r == req[g]
<1>1. /\ r \in AllRequests /\ IO!InCapacity(r) /\ seg[g] \in Nat
      /\ pos_sector[g] \in Nat /\ copied[g] \in Nat
      /\ seg[g] \in 1 .. Len(r.segs) + 1
  BY DEF IOTypes, InStep
<1>2. IO!Field(r) \subseteq IO!Sectors /\ IO!Total(r.segs) \in Nat
  BY <1>1, RequestFits
<1>3. r.segs \in Seq(Nat) /\ r.pos \in Nat /\ Len(r.segs) \in Nat
  BY <1>1, RequestIs
<1>4. CASE ~IO!Even(r)
  BY <1>2, <1>4 DEF Passed
<1>5. CASE IO!Even(r)
  <2>1. /\ Passed(g) = r.pos .. pos_sector[g] + copied[g] - 1
        /\ IO!Field(r) = r.pos .. r.pos + IO!Total(r.segs) - 1
        /\ pos_sector[g] = r.pos + IO!Start(r.segs, seg[g])
    BY <1>5 DEF Passed, IO!Field, InStep
  <2>2. CASE seg[g] > Len(r.segs)
    <3>1. seg[g] = Len(r.segs) + 1 /\ copied[g] = 0
      BY <1>1, <1>3, <2>2 DEF InStep
    <3>2. pos_sector[g] + copied[g] - 1 = r.pos + IO!Total(r.segs) - 1
      BY <1>1, <1>2, <1>3, <2>1, <3>1 DEF IO!Total
    <3> QED
      BY <1>2, <2>1, <3>2
  <2>3. CASE ~(seg[g] > Len(r.segs))
    <3>1. IO!InSegment(g)
      BY <1>1, <1>3, <2>3 DEF IO!InSegment
    <3>2. /\ copied[g] <= r.segs[1] /\ r.segs[seg[g]] \in Nat
          /\ IO!Start(r.segs, seg[g]) \in Nat /\ r.segs[1] \in Nat
          /\ IO!Start(r.segs, seg[g]) + r.segs[seg[g]] <= IO!Total(r.segs)
          /\ IO!CurSectors(g) = r.segs[1]
      BY <3>1, Bounds
    <3>3. r.segs[1] = r.segs[seg[g]]
      BY <1>5, <3>1, <3>2, EvenSegment
    <3> DEFINE p == r.pos
               start == IO!Start(r.segs, seg[g])
               l == r.segs[1]
               total == IO!Total(r.segs)
    <3>4. /\ p \in Nat /\ start \in Nat /\ l \in Nat /\ total \in Nat
          /\ pos_sector[g] = p + start /\ copied[g] <= l
          /\ copied[g] \in Nat /\ start + l <= total
      BY <1>1, <1>2, <1>3, <2>1, <3>2, <3>3
    <3>5. /\ Passed(g) = p .. pos_sector[g] + copied[g] - 1
          /\ IO!Field(r) = p .. p + total - 1
      BY <2>1
    <3> HIDE DEF p, start, l, total
    <3>6. Passed(g) \subseteq IO!Field(r)
      BY <3>4, <3>5
    <3> QED
      BY <1>2, <2>3, <3>6
  <2> QED
    BY <2>2, <2>3
<1> QED
  BY <1>4, <1>5

(* What a read is through with is part of its memory. *)
LEMMA ReadInMemory ==
    ASSUME IOTypes, NEW g \in Tags, req[g] # IO!NoReq, InStep(g),
           IO!Even(req[g]),
           NEW o \in 0 .. IO!Start(req[g].segs, seg[g]) + copied[g] - 1
    PROVE  o \in 0 .. IO!Total(req[g].segs) - 1
<1> DEFINE r == req[g]
           start == IO!Start(r.segs, seg[g])
           total == IO!Total(r.segs)
<1>1. /\ r \in AllRequests /\ IO!InCapacity(r) /\ seg[g] \in Nat
      /\ copied[g] \in Nat /\ seg[g] \in 1 .. Len(r.segs) + 1
  BY DEF IOTypes, InStep
<1>2. total \in Nat
  BY <1>1, RequestFits
<1>3. r.segs \in Seq(Nat) /\ Len(r.segs) \in Nat
  BY <1>1, RequestIs
<1>4. start \in Nat
  BY <1>1, <1>3, StartSums
<1>5. CASE seg[g] > Len(r.segs)
  <2>1. seg[g] = Len(r.segs) + 1 /\ copied[g] = 0
    BY <1>1, <1>3, <1>5 DEF InStep
  <2>2. start = total
    BY <2>1 DEF IO!Total
  <2> HIDE DEF start, total
  <2> QED
    BY <1>2, <2>1, <2>2 DEF start, total
<1>6. CASE ~(seg[g] > Len(r.segs))
  <2>1. IO!InSegment(g)
    BY <1>1, <1>3, <1>6 DEF IO!InSegment
  <2> DEFINE l == r.segs[seg[g]]
  <2>2. copied[g] <= l /\ l \in Nat /\ start + l <= total
    BY <2>1, Bounds, EvenSegment
  <2>3. o \in 0 .. start + copied[g] - 1
    OBVIOUS
  <2> HIDE DEF start, total, l
  <2>4. o \in 0 .. total - 1
    BY <1>1, <1>2, <1>4, <2>2, <2>3
  <2> QED
    BY <2>4 DEF total
<1> QED
  BY <1>5, <1>6

(* A step of the disk keeps the requests: data changes only without them.  *)
LEMMA DiskStepIO ==
    ASSUME BlkInv, TypeOK', IOInv, DiskStep
    PROVE  IOInv'
<1>1. data' \in [IO!Sectors -> Content]
  BY ContentIs DEF TypeOK
<1>2. UNCHANGED <<req, seg, pos_sector, copied, buffer, may>>
  BY DEF DiskStep, Follow
<1>3. Attended'
  BY <1>2, StaysAttended DEF IOInv, Attended
<1>4. CASE data' = data
  <2>1. UNCHANGED <<want, old>>
    BY <1>4 DEF DiskStep, Follow
  <2> QED
    BY <1>2, <1>3, <1>4, <2>1 DEF IOInv, IOTypes, IO!WritesLand, IO!Allowed,
       IO!Writers, Served, InStep, Landing, Passed, Returning
<1>5. CASE data' # data
  <2>1. \A g \in Tags : req[g] = IO!NoReq
    BY <1>5, EraseUnused DEF IOInv, Attended
  <2>2. /\ want' = [s \in IO!Sectors |-> {data'[s]}]
        /\ old' = [s \in IO!Sectors |-> {}]
    BY <1>5 DEF DiskStep, Follow
  <2>3. IOTypes'
    BY <1>1, <1>2, <2>2 DEF IOInv, IOTypes
  <2>4. IO!WritesLand'
    BY <1>1, <2>2 DEF IO!WritesLand, IO!Allowed
  <2>5. \A g \in Tags : Served(g)'
    BY <1>2, <2>1 DEF IOInv, Served
  <2> QED
    BY <1>3, <2>3, <2>4, <2>5 DEF IOInv
<1> QED
  BY <1>4, <1>5

(* One step of a write's memcpy puts into a sector what it is wanted to    *)
(* hold, so it disturbs no other request.                                  *)
LEMMA CopyWriteIO ==
    ASSUME IOInv, NEW g \in Tags, IO!CopySector(g), req[g].write,
           UNCHANGED disk
    PROVE  IOInv' /\ data' \in Values
<1> DEFINE r == req[g]
           s == pos_sector[g] + copied[g]
           m == IO!Memory(r, seg[g], copied[g])
<1>1. /\ IO!InSegment(g) /\ ~IO!BeyondEnd(pos_sector[g], IO!CurSectors(g))
      /\ copied[g] < IO!CurSectors(g)
      /\ copied' = [copied EXCEPT ![g] = @ + 1]
      /\ UNCHANGED <<req, seg, pos_sector, want, old, may>>
      /\ data' = [data EXCEPT ![s] = m] /\ buffer' = buffer
  BY DEF IO!CopySector, IO!Transfer
<1>2. /\ IOTypes /\ InStep(g) /\ Landing(g) /\ may[g] = <<>>
  BY <1>1 DEF IOInv, Served, IO!InSegment
<1>3. /\ s \in IO!Sectors /\ s \in IO!Field(r) /\ m \in IO!Gives(r, s)
      /\ m \in Content /\ m # 0
  BY <1>1, <1>2, CopyPlace
<1>4. m \in want[s]
  BY <1>2, <1>3 DEF Landing
<1>5. data \in [IO!Sectors -> Content]
  BY <1>2 DEF IOTypes
<1> HIDE DEF m, s
<1>6. /\ data' \in [IO!Sectors -> Content] /\ data'[s] = m
      /\ \A x \in IO!Sectors \ {s} : data'[x] = data[x]
  BY <1>1, <1>3, <1>5
<1>7. data' \in Values
  BY <1>3, <1>6, ContentAssumption
<1>8. \A x \in IO!Sectors : data[x] \in want[x] => data'[x] \in want[x]
  BY <1>4, <1>6
<1>9. copied[g] \in Nat /\ copied'[g] = copied[g] + 1 
      /\ \A h \in Tags \ {g} : copied'[h] = copied[h]
      /\ copied' \in [Tags -> Nat]
  BY <1>1, <1>2 DEF IOTypes
<1>10. IOTypes'
  BY <1>1, <1>2, <1>6, <1>9 DEF IOTypes
<1>11. Attended'
  BY <1>1 DEF IOInv, Attended, InUse, disk
<1>12. \A x \in IO!Sectors : /\ IO!Writers(x)' = IO!Writers(x)
                              /\ IO!Allowed(x)' = IO!Allowed(x)
                              /\ want[x] \subseteq IO!Allowed(x)
  BY <1>1 DEF IO!Writers, IO!Allowed
<1>13. IO!WritesLand'
  BY <1>4, <1>6, <1>12 DEF IOInv, IO!WritesLand
<1>14. \A h \in Tags : req[h] # IO!NoReq =>
           /\ req[h] \in AllRequests
           /\ InStep(h) => IO!Field(req[h]) \subseteq IO!Sectors
  BY <1>2, RequestFits DEF IOTypes, InStep
<1>15. ASSUME NEW h \in Tags, h # g
       PROVE  Served(h)'
  <2>1. Served(h)
    BY DEF IOInv
  <2>2. CASE req[h] = IO!NoReq
    BY <1>1, <1>9, <1>15, <2>1, <2>2 DEF Served
  <2>3. ASSUME req[h] # IO!NoReq
        PROVE  InStep(h)'
    BY <1>1, <1>9, <1>15, <2>1, <2>3 DEF Served, InStep
  <2>4. CASE req[h] # IO!NoReq /\ req[h].write
    <3>1. InStep(h) /\ Landing(h) /\ may[h] = <<>>
      BY <2>1, <2>4 DEF Served
    <3>2. Passed(h) \subseteq IO!Sectors
      BY <1>2, <2>4, <3>1, PassedInField
    <3>3. Passed(h)' = Passed(h)
      BY <1>1, <1>9, <1>15 DEF Passed
    <3>4. Landing(h)'
      BY <1>1, <1>8, <3>1, <3>2, <3>3 DEF Landing
    <3> QED
      BY <1>1, <2>3, <2>4, <3>1, <3>4 DEF Served
  <2>5. CASE req[h] # IO!NoReq /\ ~req[h].write
    <3>1. Returning(h)
      BY <2>1, <2>5 DEF Served
    <3>2. InStep(h)
      BY <2>1, <2>5 DEF Served
    <3>3. \A o \in DOMAIN may[h] : req[h].pos + o \in IO!Sectors
      BY <1>14, <2>5, <3>1, <3>2, RequestFits DEF Returning, InStep
    <3>4. Returning(h)'
      BY <1>1, <1>9, <1>12, <1>15, <3>1, <3>3 DEF Returning
    <3> QED
      BY <1>1, <2>3, <2>5, <3>4 DEF Served
  <2> QED
    BY <2>2, <2>4, <2>5
<1>16. Served(g)'
  <2>1. r.segs[1] \in Nat /\ IO!CurSectors(g) = r.segs[1]
        /\ pos_sector[g] \in Nat /\ r.pos \in Nat /\ Len(r.segs) \in Nat
        /\ seg[g] \in 1 .. Len(r.segs)
    BY <1>1, <1>2, Bounds
  <2>2. copied[g] + 1 <= r.segs[1] /\ ~(seg[g] > Len(r.segs))
    BY <1>1, <1>9, <2>1
  <2>3. InStep(g)'
    <3>1. /\ IO!InCapacity(r) /\ seg[g] \in 1 .. Len(r.segs) + 1
          /\ r.pos <= pos_sector[g]
          /\ IO!Even(r) => pos_sector[g] = r.pos + IO!Start(r.segs, seg[g])
      BY <1>2 DEF InStep
    <3>2. copied'[g] <= IF seg[g] > Len(r.segs) THEN 0 ELSE r.segs[1]
      BY <1>9, <2>2
    <3> QED
      BY <1>1, <3>1, <3>2 DEF InStep
  <2>4. Passed(g)' \subseteq Passed(g) \cup {s}
    <3>1. CASE IO!Even(r)
      <4>1. /\ Passed(g)' = r.pos .. pos_sector[g] + (copied[g] + 1) - 1
            /\ Passed(g) = r.pos .. pos_sector[g] + copied[g] - 1
        BY <1>1, <1>9, <3>1 DEF Passed
      <4> QED
        BY <1>9, <2>1, <4>1 DEF s
    <3>2. CASE ~IO!Even(r)
      BY <1>1, <3>2 DEF Passed
    <3> QED
      BY <3>1, <3>2
  <2>5. Passed(g) \subseteq IO!Sectors
    BY <1>1, <1>2, PassedInField DEF IO!InSegment
  <2>6. Landing(g)'
    BY <1>1, <1>2, <1>4, <1>6, <1>8, <2>4, <2>5 DEF Landing
  <2> QED
    BY <1>1, <1>2, <2>3, <2>6 DEF Served, IO!InSegment
<1> QED
  BY <1>7, <1>10, <1>11, <1>13, <1>15, <1>16 DEF IOInv

(* One step of a read's memcpy takes what its sector holds at that moment. *)
LEMMA CopyReadIO ==
    ASSUME IOInv, NEW g \in Tags, IO!CopySector(g), ~req[g].write,
           UNCHANGED disk
    PROVE  IOInv' /\ data' = data
<1> DEFINE r == req[g]
           start == IO!Start(r.segs, seg[g])
           s == pos_sector[g] + copied[g]
           o == start + copied[g]
<1>1. /\ IO!InSegment(g) /\ ~IO!BeyondEnd(pos_sector[g], IO!CurSectors(g))
      /\ copied[g] < IO!CurSectors(g)
      /\ copied' = [copied EXCEPT ![g] = @ + 1]
      /\ UNCHANGED <<data, req, seg, pos_sector, want, old, may>>
      /\ buffer' = IF copied[g] < r.segs[seg[g]]
                   THEN [buffer EXCEPT ![g][o] = data[s]] ELSE buffer
  BY DEF IO!CopySector, IO!Transfer
<1>2. IOTypes /\ InStep(g) /\ Returning(g)
  BY <1>1 DEF IOInv, Served, IO!InSegment
<1>3. /\ s \in IO!Sectors
      /\ IO!Even(r) => /\ copied[g] < r.segs[seg[g]] /\ s = r.pos + o
                       /\ o \in 0 .. IO!Total(r.segs) - 1
  BY <1>1, <1>2, CopyPlace
<1>4. /\ copied[g] \in Nat /\ copied'[g] = copied[g] + 1
      /\ \A h \in Tags \ {g} : copied'[h] = copied[h]
      /\ copied' \in [Tags -> Nat]
  BY <1>1, <1>2 DEF IOTypes
<1>5. /\ DOMAIN buffer' = Tags /\ DOMAIN buffer'[g] = DOMAIN buffer[g]
      /\ \A h \in Tags \ {g} : buffer'[h] = buffer[h]
      /\ \A x \in DOMAIN buffer[g] :
            x # o /\ IO!Even(r) => buffer'[g][x] = buffer[g][x]
      /\ IO!Even(r) /\ o \in DOMAIN buffer[g] => buffer'[g][o] = data[s]
  <2>1. DOMAIN buffer = Tags
    BY <1>2 DEF IOTypes
  <2> HIDE DEF s, o, r
  <2>2. CASE copied[g] < r.segs[seg[g]]
    BY <1>1, <2>1, <2>2
  <2>3. CASE ~(copied[g] < r.segs[seg[g]])
    BY <1>1, <1>3, <2>1, <2>3
  <2> QED
    BY <2>2, <2>3
<1>6. IOTypes'
  BY <1>1, <1>2, <1>4, <1>5 DEF IOTypes
<1>7. Attended'
  BY <1>1 DEF IOInv, Attended, InUse, disk
<1>8. /\ \A x : /\ IO!Writers(x)' = IO!Writers(x)
                 /\ IO!Allowed(x)' = IO!Allowed(x)
      /\ IO!WritesLand'
  BY <1>1 DEF IOInv, IO!WritesLand, IO!Allowed, IO!Writers
<1>9. ASSUME NEW h \in Tags, h # g
      PROVE  Served(h)'
  BY <1>1, <1>4, <1>5, <1>8, <1>9 DEF IOInv, Served, InStep, Landing, Passed,
     Returning
<1>10. Served(g)'
  <2>1. /\ r.segs[1] \in Nat /\ IO!CurSectors(g) = r.segs[1]
        /\ r.pos \in Nat /\ start \in Nat /\ Len(r.segs) \in Nat
        /\ seg[g] \in 1 .. Len(r.segs) /\ IO!Total(r.segs) \in Nat
    BY <1>1, <1>2, Bounds
  <2>2. copied[g] + 1 <= r.segs[1] /\ ~(seg[g] > Len(r.segs))
    BY <1>1, <1>4, <2>1
  <2>3. InStep(g)'
    <3>1. /\ IO!InCapacity(r) /\ seg[g] \in 1 .. Len(r.segs) + 1
          /\ r.pos <= pos_sector[g]
          /\ IO!Even(r) => pos_sector[g] = r.pos + IO!Start(r.segs, seg[g])
      BY <1>2 DEF InStep
    <3>2. copied'[g] <= IF seg[g] > Len(r.segs) THEN 0 ELSE r.segs[1]
      BY <1>4, <2>2
    <3> QED
      BY <1>1, <3>1, <3>2 DEF InStep
  <2>4. /\ DOMAIN buffer[g] = 0 .. IO!Total(r.segs) - 1
        /\ DOMAIN may[g] = 0 .. IO!Total(r.segs) - 1
        /\ \A x \in DOMAIN may[g] : IO!Allowed(r.pos + x) \subseteq may[g][x]
        /\ IO!Even(r) =>
              \A x \in 0 .. start + copied[g] - 1 : buffer[g][x] \in may[g][x]
    BY <1>2 DEF Returning
  <2>5. ASSUME IO!Even(r), NEW x \in 0 .. start + (copied[g] + 1) - 1
        PROVE  buffer'[g][x] \in may[g][x]
    <3>1. CASE x = o
      <4>1. o \in DOMAIN may[g] /\ buffer'[g][o] = data[r.pos + o]
        BY <1>3, <1>5, <2>4, <2>5
      <4>2. data[r.pos + o] \in IO!Allowed(r.pos + o)
        BY <1>3, <2>5 DEF IOInv, IO!WritesLand
      <4> QED
        BY <2>4, <3>1, <4>1, <4>2
    <3>2. CASE x # o
      <4>1. x \in 0 .. start + copied[g] - 1
        <5>1. start \in Nat /\ copied[g] \in Nat
          BY <1>4, <2>1
        <5> HIDE DEF start
        <5> QED
          BY <2>5, <3>2, <5>1
      <4>2. x \in 0 .. IO!Total(r.segs) - 1
        BY <1>3, <1>4, <2>1, <2>5, <4>1
      <4>3. buffer'[g][x] = buffer[g][x]
        BY <1>5, <2>4, <2>5, <3>2, <4>2
      <4> QED
        BY <2>4, <2>5, <4>1, <4>3
    <3> QED
      BY <3>1, <3>2
  <2>6. Returning(g)'
    BY <1>1, <1>4, <1>5, <1>8, <2>4, <2>5 DEF Returning
  <2> QED
    BY <1>1, <2>3, <2>6 DEF Served, IO!InSegment
<1> QED
  BY <1>1, <1>6, <1>7, <1>8, <1>9, <1>10 DEF IOInv

(* blk1_transfer returns: with segments of one length what was copied is   *)
(* the whole segment.                                                      *)
LEMMA NextSegmentIO ==
    ASSUME IOInv, NEW g \in Tags, IO!NextSegment(g), UNCHANGED disk
    PROVE  IOInv' /\ data' = data
<1> DEFINE r == req[g]
           n == IO!CurSectors(g)
<1>1. /\ IO!InSegment(g)
      /\ IO!BeyondEnd(pos_sector[g], n) \/ copied[g] = n
      /\ pos_sector' = [pos_sector EXCEPT ![g] = @ + n]
      /\ seg' = [seg EXCEPT ![g] = @ + 1]
      /\ copied' = [copied EXCEPT ![g] = 0]
      /\ UNCHANGED <<data, req, buffer, want, old, may>>
  BY DEF IO!NextSegment
<1>2. IOTypes /\ InStep(g)
  BY <1>1 DEF IOInv, Served, IO!InSegment
<1>3. /\ n = r.segs[1] /\ n \in Nat /\ pos_sector[g] \in Nat
      /\ r.pos \in Nat /\ r.pos <= pos_sector[g] /\ copied[g] \in Nat
      /\ seg[g] \in 1 .. Len(r.segs) /\ Len(r.segs) \in Nat
      /\ IO!Start(r.segs, seg[g]) \in Nat
      /\ IO!Start(r.segs, seg[g] + 1) =
            IO!Start(r.segs, seg[g]) + r.segs[seg[g]]
  BY <1>1, <1>2, Bounds
<1>4. IO!Even(r) => /\ copied[g] = n /\ n = r.segs[seg[g]]
                    /\ pos_sector[g] = r.pos + IO!Start(r.segs, seg[g])
  BY <1>1, <1>2, EvenSegment
<1> DEFINE start == IO!Start(r.segs, seg[g])
           end == IO!Start(r.segs, seg[g] + 1)
<1>5. /\ pos_sector'[g] = pos_sector[g] + n /\ seg'[g] = seg[g] + 1
      /\ copied'[g] = 0
      /\ \A h \in Tags \ {g} : /\ pos_sector'[h] = pos_sector[h]
                               /\ seg'[h] = seg[h] /\ copied'[h] = copied[h]
  BY <1>1, <1>2 DEF IOTypes
<1>6. IOTypes'
  <2> HIDE DEF n, r
  <2>1. seg[g] + 1 \in Nat /\ pos_sector[g] + n \in Nat
    BY <1>3
  <2> QED
    BY <1>1, <1>2, <2>1 DEF IOTypes
<1>7. Attended'
  BY <1>1 DEF IOInv, Attended, InUse, disk
<1>8. /\ \A x : /\ IO!Writers(x)' = IO!Writers(x)
                 /\ IO!Allowed(x)' = IO!Allowed(x)
      /\ IO!WritesLand'
  BY <1>1 DEF IOInv, IO!WritesLand, IO!Allowed, IO!Writers
<1>9. ASSUME NEW h \in Tags, h # g
      PROVE  Served(h)'
  BY <1>1, <1>5, <1>8, <1>9 DEF IOInv, Served, InStep, Landing, Passed,
     Returning
<1>10. Served(g)'
  <2>1. /\ IO!InCapacity(r) /\ r = req'[g] /\ r # IO!NoReq
    BY <1>1, <1>2 DEF InStep, IO!InSegment
  <2> HIDE DEF n, start, end
  <2>2. /\ seg[g] + 1 \in 1 .. Len(r.segs) + 1
        /\ r.pos <= pos_sector[g] + n
    <3> HIDE DEF r
    <3> QED
      BY <1>3
  <2>3. IO!Even(r) => /\ pos_sector[g] + n = r.pos + end
                      /\ start + copied[g] - 1 = end + 0 - 1
                      /\ pos_sector[g] + n + 0 - 1 =
                            pos_sector[g] + copied[g] - 1
    <3> SUFFICES ASSUME IO!Even(r)
                 PROVE  /\ pos_sector[g] + n = r.pos + end
                        /\ start + copied[g] - 1 = end + 0 - 1
                        /\ pos_sector[g] + n + 0 - 1 =
                              pos_sector[g] + copied[g] - 1
      OBVIOUS
    <3>1. /\ start \in Nat /\ end = start + n /\ r.pos \in Nat /\ n \in Nat
          /\ copied[g] = n /\ pos_sector[g] = r.pos + start
      BY <1>3, <1>4 DEF start, end
    <3> QED
      BY <3>1
  <2>4. InStep(g)'
    <3>1. 0 <= IF seg'[g] > Len(r.segs) THEN 0 ELSE r.segs[1]
      BY <1>3
    <3> QED
      BY <1>5, <2>1, <2>2, <2>3, <3>1 DEF InStep, end
  <2>5. CASE r.write
    <3>1. Landing(g) /\ may[g] = <<>>
      BY <2>1, <2>5 DEF IOInv, Served
    <3>2. Passed(g)' = Passed(g)
      <4>1. /\ Passed(g)' = IF IO!Even(r)
                            THEN r.pos .. pos_sector[g] + n + 0 - 1
                            ELSE IO!Field(r)
            /\ Passed(g) = IF IO!Even(r)
                           THEN r.pos .. pos_sector[g] + copied[g] - 1
                           ELSE IO!Field(r)
        BY <1>1, <1>5, <2>1 DEF Passed
      <4>2. CASE IO!Even(r)
        <5>1. pos_sector[g] + n + 0 - 1 = pos_sector[g] + copied[g] - 1
          BY <2>3, <4>2, Zenon
        <5>2. /\ Passed(g)' = r.pos .. pos_sector[g] + n + 0 - 1
              /\ Passed(g) = r.pos .. pos_sector[g] + copied[g] - 1
          BY <4>1, <4>2, Zenon
        <5> QED
          BY <5>1, <5>2, Zenon
      <4>3. CASE ~IO!Even(r)
        BY <4>1, <4>3, Zenon
      <4> QED
        BY <4>2, <4>3
    <3> QED
      BY <1>1, <2>1, <2>4, <2>5, <3>1, <3>2 DEF Served, Landing
  <2>6. CASE ~r.write
    <3>1. Returning(g)
      BY <2>1, <2>6 DEF IOInv, Served
    <3>2. IO!Even(r) =>
            IO!Start(r.segs, seg'[g]) + copied'[g] - 1 =
                IO!Start(r.segs, seg[g]) + copied[g] - 1
      <4>1. IO!Start(r.segs, seg'[g]) + copied'[g] - 1 = end + 0 - 1
        BY <1>5 DEF end
      <4> QED
        BY <2>3, <4>1 DEF start
    <3>3. Returning(g)'
      BY <1>1, <1>8, <2>1, <3>1, <3>2 DEF Returning
    <3> QED
      <4>1. req'[g] # IO!NoReq /\ ~req'[g].write
        BY <2>1, <2>6, Zenon
      <4> QED
        BY <2>4, <3>3, <4>1 DEF Served
  <2> QED
    BY <2>5, <2>6
<1> QED
  BY <1>1, <1>6, <1>7, <1>8, <1>9, <1>10 DEF IOInv

(* A write that ends leaves no sector it names without it.                 *)
LEMMA EndIO ==
    ASSUME IOInv, NEW g \in Tags, IO!RequestEnd(g), UNCHANGED disk
    PROVE  IOInv' /\ data' = data
<1> DEFINE r == req[g]
<1>1. /\ r # IO!NoReq /\ seg[g] > Len(r.segs)
      /\ req' = [req EXCEPT ![g] = IO!NoReq]
      /\ seg' = [seg EXCEPT ![g] = 0]
      /\ pos_sector' = [pos_sector EXCEPT ![g] = 0]
      /\ buffer' = [buffer EXCEPT ![g] = <<>>]
      /\ old' = [s \in IO!Sectors |-> IF IO!Writers(s) \subseteq {g} THEN {}
                                      ELSE old[s]]
      /\ may' = [may EXCEPT ![g] = <<>>]
      /\ UNCHANGED <<want, data, copied>>
  BY DEF IO!RequestEnd, IO!NoteEnd
<1>2. IOTypes /\ InStep(g) /\ Served(g)
  BY <1>1 DEF IOInv, Served
<1>3. /\ req'[g] = IO!NoReq /\ may'[g] = <<>>
      /\ \A h \in Tags \ {g} :
            /\ req'[h] = req[h] /\ seg'[h] = seg[h] /\ buffer'[h] = buffer[h]
            /\ pos_sector'[h] = pos_sector[h] /\ may'[h] = may[h]
  BY <1>1, <1>2 DEF IOTypes
<1>4. \A s \in IO!Sectors : IO!Writers(s)' = IO!Writers(s) \ {g}
  BY <1>3 DEF IO!Writers
<1>5. IOTypes'
  BY <1>1, <1>2 DEF IOTypes
<1>6. Attended'
  BY <1>1, <1>3 DEF IOInv, Attended, InUse, disk
<1>7. \A s \in IO!Sectors : IO!Allowed(s)' \subseteq IO!Allowed(s)
  BY <1>1, <1>4 DEF IO!Allowed
<1>8. IO!WritesLand'
  <2> SUFFICES ASSUME NEW s \in IO!Sectors
               PROVE  data[s] \in IO!Allowed(s)'
    BY <1>1 DEF IO!WritesLand
  <2>0. data[s] \in IO!Allowed(s)
    BY DEF IOInv, IO!WritesLand
  <2>1. CASE IO!Writers(s) = {}
    BY <1>1, <1>4, <2>0, <2>1 DEF IO!Allowed
  <2>2. CASE IO!Writers(s) = {g}
    <3>1. r.write /\ s \in IO!Field(r)
      BY <2>2 DEF IO!Writers
    <3>2. s \in Passed(g)
      BY <1>1, <1>2, <3>1, PassedInField
    <3>3. data[s] \in want[s]
      BY <1>1, <1>2, <3>1, <3>2 DEF Served, Landing
    <3> QED
      BY <1>1, <1>4, <2>2, <3>3 DEF IO!Allowed
  <2>3. CASE ~(IO!Writers(s) \subseteq {g})
    <3>1. IO!Writers(s)' # {} /\ IO!Writers(s) # {}
      BY <1>4, <2>3
    <3> QED
      BY <1>1, <2>0, <2>3, <3>1 DEF IO!Allowed
  <2> QED
    BY <2>1, <2>2, <2>3
<1>9. ASSUME NEW h \in Tags, h # g
      PROVE  Served(h)'
  <2>1. Served(h)
    BY DEF IOInv
  <2>2. CASE req[h] = IO!NoReq \/ req[h].write
    BY <1>1, <1>3, <1>9, <2>1, <2>2 DEF Served, InStep, Landing, Passed
  <2>3. CASE req[h] # IO!NoReq /\ ~req[h].write
    <3>1. InStep(h) /\ Returning(h) /\ req[h] \in AllRequests
      BY <1>2, <2>1, <2>3 DEF Served, IOTypes
    <3>2. \A o \in DOMAIN may[h] : req[h].pos + o \in IO!Sectors
      BY <3>1, RequestFits DEF Returning, InStep
    <3>3. Returning(h)'
      BY <1>1, <1>3, <1>7, <1>9, <3>1, <3>2 DEF Returning
    <3>4. InStep(h)'
      BY <1>1, <1>3, <1>9, <3>1 DEF InStep
    <3> QED
      BY <1>3, <1>9, <2>3, <3>3, <3>4 DEF Served
  <2> QED
    BY <2>2, <2>3
<1>10. Served(g)'
  <2>1. copied[g] = 0
    <3>1. copied[g] \in Nat /\ copied[g] <= 0
      BY <1>1, <1>2 DEF IOTypes, InStep
    <3> QED
      BY <3>1
  <2> QED
    BY <1>1, <1>3, <2>1 DEF Served
<1> QED
  BY <1>1, <1>5, <1>6, <1>8, <1>9, <1>10 DEF IOInv

(* What the start of a request with tag g does, but for the reference. *)
LEMMA StartIs ==
    ASSUME IOInv, NEW g \in Tags, NEW r \in AllRequests,
           IO!RequestStart(g, r)
    PROVE  /\ req[g] = IO!NoReq /\ copied[g] = 0 /\ may[g] = <<>>
           /\ IO!InCapacity(r) /\ r # IO!NoReq
           /\ req' = [req EXCEPT ![g] = r] /\ req'[g] = r
           /\ seg'[g] = 1 /\ pos_sector'[g] = r.pos
           /\ \A h \in Tags \ {g} :
                 /\ req'[h] = req[h] /\ seg'[h] = seg[h]
                 /\ pos_sector'[h] = pos_sector[h] /\ buffer'[h] = buffer[h]
           /\ UNCHANGED <<data, copied>>
           /\ seg' \in [Tags -> Nat] /\ pos_sector' \in [Tags -> Nat]
           /\ req' \in [Tags -> AllRequests \cup {IO!NoReq}]
           /\ DOMAIN buffer' = Tags
           /\ InStep(g)'
<1>1. /\ req[g] = IO!NoReq /\ IO!InCapacity(r)
      /\ req' = [req EXCEPT ![g] = r] /\ seg' = [seg EXCEPT ![g] = 1]
      /\ pos_sector' = [pos_sector EXCEPT ![g] = r.pos]
      /\ buffer' = [buffer EXCEPT ![g] =
                      IF r.write THEN <<>>
                      ELSE [o \in 0 .. IO!Total(r.segs) - 1 |-> IO!Junk]]
      /\ UNCHANGED <<data, copied>>
  BY DEF IO!RequestStart
<1>2. IOTypes /\ copied[g] = 0 /\ may[g] = <<>>
  BY <1>1 DEF IOInv, Served
<1>3. r # IO!NoReq /\ r.pos \in Nat /\ r.segs \in Seq(Nat)
  BY RequestIs
<1>4. /\ req'[g] = r /\ seg'[g] = 1 /\ pos_sector'[g] = r.pos
      /\ \A h \in Tags \ {g} :
            /\ req'[h] = req[h] /\ seg'[h] = seg[h]
            /\ pos_sector'[h] = pos_sector[h] /\ buffer'[h] = buffer[h]
      /\ seg' \in [Tags -> Nat] /\ pos_sector' \in [Tags -> Nat]
      /\ req' \in [Tags -> AllRequests \cup {IO!NoReq}]
      /\ DOMAIN buffer' = Tags
  BY <1>1, <1>2, <1>3 DEF IOTypes
<1>5. InStep(g)'
  <2>1. /\ 1 \in 1 .. Len(r.segs) + 1 /\ r.pos <= r.pos
        /\ 0 <= IF 1 > Len(r.segs) THEN 0 ELSE r.segs[1]
    <3>1. Len(r.segs) \in Nat /\ (~(1 > Len(r.segs)) => r.segs[1] \in Nat)
      BY <1>3
    <3> QED
      BY <1>3, <3>1
  <2>2. r.pos = r.pos + IO!Start(r.segs, 1)
    <3>1. IO!Start(r.segs, 1) = 0
      BY <1>1, RequestFits
    <3> QED
      BY <1>3, <3>1
  <2> QED
    BY <1>1, <1>2, <1>4, <2>1, <2>2 DEF InStep
<1> QED
  BY <1>1, <1>2, <1>3, <1>4, <1>5

(* A write that begins adds to what its sectors may hold, and takes        *)
(* nothing away from what they are wanted to hold by writes in progress.   *)
LEMMA StartWriteIO ==
    ASSUME IOInv, InUse, UNCHANGED disk, NEW g \in Tags,
           NEW r \in AllRequests, IO!RequestStart(g, r), r.write
    PROVE  IOInv' /\ data' = data
<1>1. /\ req[g] = IO!NoReq /\ copied[g] = 0 /\ may[g] = <<>>
      /\ IO!InCapacity(r) /\ r # IO!NoReq /\ req'[g] = r
      /\ seg'[g] = 1 /\ pos_sector'[g] = r.pos
      /\ \A h \in Tags \ {g} :
            /\ req'[h] = req[h] /\ seg'[h] = seg[h]
            /\ pos_sector'[h] = pos_sector[h] /\ buffer'[h] = buffer[h]
      /\ UNCHANGED <<data, copied>>
      /\ InStep(g)'
  BY StartIs
<1>2. /\ want' = [s \in IO!Sectors |->
                    IF s \notin IO!Field(r) THEN want[s]
                    ELSE IF IO!Writers(s) = {} THEN IO!Gives(r, s)
                    ELSE want[s] \cup IO!Gives(r, s)]
      /\ old' = [s \in IO!Sectors |->
                   IF s \in IO!Field(r) /\ IO!Writers(s) = {} THEN want[s]
                   ELSE old[s]]
      /\ may' = [h \in Tags |-> [o \in DOMAIN may[h] |->
                   IF req[h].pos + o \in IO!Field(r)
                   THEN may[h][o] \cup IO!Gives(r, req[h].pos + o)
                   ELSE may[h][o]]]
  BY DEF IO!RequestStart, IO!NoteWrite
<1>3. /\ IO!Field(r) \subseteq IO!Sectors
      /\ \A s \in IO!Field(r) : IO!Gives(r, s) \subseteq Content
  BY <1>1, RequestFits
<1>4. IOTypes
  BY DEF IOInv
<1>5. \A s \in IO!Sectors :
        IO!Writers(s)' = IF s \in IO!Field(r) THEN IO!Writers(s) \cup {g}
                         ELSE IO!Writers(s)
  BY <1>1 DEF IO!Writers
<1>6. \A s \in IO!Sectors :
        IO!Allowed(s)' = IF s \in IO!Field(r)
                         THEN IO!Allowed(s) \cup IO!Gives(r, s)
                         ELSE IO!Allowed(s)
  <2> SUFFICES ASSUME NEW s \in IO!Sectors
               PROVE  IO!Allowed(s)' = IF s \in IO!Field(r)
                                       THEN IO!Allowed(s) \cup IO!Gives(r, s)
                                       ELSE IO!Allowed(s)
    OBVIOUS
  <2>1. CASE s \notin IO!Field(r)
    BY <1>2, <1>5, <2>1 DEF IO!Allowed
  <2>2. CASE s \in IO!Field(r) /\ IO!Writers(s) = {}
    <3>1. want'[s] = IO!Gives(r, s) /\ old'[s] = want[s]
      BY <1>2, <2>2
    <3>2. IO!Writers(s)' # {}
      BY <1>5, <2>2
    <3> QED
      BY <2>2, <3>1, <3>2 DEF IO!Allowed
  <2>3. CASE s \in IO!Field(r) /\ IO!Writers(s) # {}
    <3>1. want'[s] = want[s] \cup IO!Gives(r, s) /\ old'[s] = old[s]
      BY <1>2, <2>3
    <3>2. IO!Writers(s)' # {}
      BY <1>5, <2>3
    <3> QED
      BY <2>3, <3>1, <3>2 DEF IO!Allowed
  <2> QED
    BY <2>1, <2>2, <2>3
<1>7. IO!WritesLand'
  <2>1. \A s \in IO!Sectors : data'[s] \in IO!Allowed(s)
    BY <1>1 DEF IOInv, IO!WritesLand
  <2> QED
    BY <1>6, <2>1 DEF IO!WritesLand
<1>8. IOTypes'
  <2>1. /\ want' \in [IO!Sectors -> SUBSET Content]
        /\ old' \in [IO!Sectors -> SUBSET Content]
    BY <1>2, <1>3, <1>4 DEF IOTypes
  <2>2. DOMAIN may' = Tags
    BY <1>2
  <2>3. /\ seg' \in [Tags -> Nat] /\ pos_sector' \in [Tags -> Nat]
        /\ req' \in [Tags -> AllRequests \cup {IO!NoReq}]
        /\ DOMAIN buffer' = Tags
    BY StartIs
  <2> QED
    BY <1>1, <1>4, <2>1, <2>2, <2>3 DEF IOTypes
<1>9. Attended'
  BY DEF Attended, InUse, disk
<1>10. ASSUME NEW h \in Tags, h # g
       PROVE  Served(h)'
  <2>1. Served(h)
    BY DEF IOInv
  <2>2. may[h] = <<>> => may'[h] = <<>>
    BY <1>2
  <2>3. CASE req[h] = IO!NoReq
    BY <1>1, <1>10, <2>1, <2>2, <2>3 DEF Served
  <2>4. ASSUME req[h] # IO!NoReq
        PROVE  InStep(h)' /\ InStep(h) /\ req[h] \in AllRequests
    BY <1>1, <1>4, <1>10, <2>1, <2>4 DEF Served, InStep, IOTypes
  <2>5. CASE req[h] # IO!NoReq /\ req[h].write
    <3>1. Landing(h) /\ may[h] = <<>>
      BY <2>1, <2>5 DEF Served
    <3>2. /\ IO!Field(req[h]) \subseteq IO!Sectors
          /\ Passed(h) \subseteq IO!Field(req[h])
      BY <1>4, <2>4, <2>5, RequestFits, PassedInField DEF InStep
    <3>3. \A s \in IO!Field(req[h]) : h \in IO!Writers(s)
      BY <2>5 DEF IO!Writers
    <3>4. \A s \in IO!Field(req[h]) : want[s] \subseteq want'[s]
      BY <1>2, <3>2, <3>3
    <3>5. Passed(h)' = Passed(h)
      BY <1>1, <1>10 DEF Passed
    <3>6. Landing(h)'
      BY <1>1, <1>10, <3>1, <3>2, <3>4, <3>5 DEF Landing
    <3> QED
      BY <1>1, <1>10, <2>2, <2>4, <2>5, <3>1, <3>6 DEF Served
  <2>6. CASE req[h] # IO!NoReq /\ ~req[h].write
    <3>1. Returning(h)
      BY <2>1, <2>6 DEF Served
    <3>2. \A o \in DOMAIN may[h] : req[h].pos + o \in IO!Sectors
      BY <2>4, <2>6, <3>1, RequestFits DEF Returning, InStep
    <3>3. /\ DOMAIN may'[h] = DOMAIN may[h]
          /\ \A o \in DOMAIN may[h] :
                may'[h][o] = IF req[h].pos + o \in IO!Field(r)
                             THEN may[h][o] \cup IO!Gives(r, req[h].pos + o)
                             ELSE may[h][o]
      BY <1>2
    <3>4. \A o \in DOMAIN may[h] :
             IO!Allowed(req[h].pos + o)' \subseteq may'[h][o]
      <4> TAKE o \in DOMAIN may[h]
      <4>1. PICK s \in IO!Sectors : s = req[h].pos + o
        BY <3>2
      <4>2. IO!Allowed(s)' \subseteq may'[h][o]
        BY <1>6, <3>1, <3>3, <4>1 DEF Returning
      <4>3. req'[h].pos + o = s
        BY <1>1, <1>10, <4>1
      <4> QED
        BY <4>2, <4>3
    <3>5. IO!Even(req[h]) =>
            \A o \in 0 .. IO!Start(req[h].segs, seg[h]) + copied[h] - 1 :
                buffer[h][o] \in may'[h][o]
      <4>1. IO!Even(req[h]) =>
              \A o \in 0 .. IO!Start(req[h].segs, seg[h]) + copied[h] - 1 :
                  o \in DOMAIN may[h] /\ buffer[h][o] \in may[h][o]
        BY <1>4, <2>4, <2>6, <3>1, ReadInMemory DEF Returning
      <4> QED
        BY <3>3, <4>1
    <3>7. Returning(h)'
      BY <1>1, <1>10, <3>1, <3>3, <3>4, <3>5 DEF Returning
    <3> QED
      BY <1>1, <1>10, <2>4, <2>6, <3>7 DEF Served
  <2> QED
    BY <2>3, <2>5, <2>6
<1>11. Served(g)'
  <2>1. may'[g] = <<>>
    BY <1>1, <1>2
  <2>2. \A s \in IO!Field(r) : IO!Gives(r, s) \subseteq want'[s]
    BY <1>2, <1>3
  <2>3. \A s \in Passed(g)' : data'[s] \in want'[s]
    <3>1. CASE IO!Even(r)
      <4>1. r.pos \in Nat /\ Passed(g)' = r.pos .. r.pos + 0 - 1
        BY <1>1, <3>1, RequestIs DEF Passed
      <4>2. Passed(g)' = {}
        BY <4>1
      <4> QED
        BY <4>2
    <3>2. CASE ~IO!Even(r)
      <4>1. Passed(g)' = IO!Field(r)
        BY <1>1, <3>2 DEF Passed
      <4>2. \A s \in IO!Field(r) : IO!Gives(r, s) = Content
        BY <3>2 DEF IO!Gives
      <4>3. \A s \in IO!Field(r) : data'[s] \in Content
        BY <1>1, <1>3, <1>4 DEF IOTypes
      <4> QED
        BY <2>2, <4>1, <4>2, <4>3
    <3> QED
      BY <3>1, <3>2
  <2> QED
    BY <1>1, <2>1, <2>2, <2>3 DEF Served, Landing
<1> QED
  BY <1>1, <1>7, <1>8, <1>9, <1>10, <1>11 DEF IOInv

(* A read that begins may find what its sectors are allowed to hold; a     *)
(* passthrough request is like a read of nothing.                          *)
LEMMA StartReadIO ==
    ASSUME IOInv, InUse, UNCHANGED disk, NEW g \in Tags,
           NEW r \in AllRequests, IO!RequestStart(g, r), ~r.write
    PROVE  IOInv' /\ data' = data
<1> DEFINE total == IO!Total(r.segs)
<1>1. /\ req[g] = IO!NoReq /\ copied[g] = 0
      /\ IO!InCapacity(r) /\ r # IO!NoReq /\ req'[g] = r
      /\ seg'[g] = 1 /\ pos_sector'[g] = r.pos
      /\ \A h \in Tags \ {g} :
            /\ req'[h] = req[h] /\ seg'[h] = seg[h]
            /\ pos_sector'[h] = pos_sector[h] /\ buffer'[h] = buffer[h]
      /\ UNCHANGED <<data, copied>>
      /\ InStep(g)'
  BY StartIs
<1>2. IOTypes
  BY DEF IOInv
<1>3. /\ UNCHANGED <<want, old>>
      /\ may' = [may EXCEPT ![g] = [o \in 0 .. total - 1 |->
                                      IO!Allowed(r.pos + o)]]
      /\ buffer' = [buffer EXCEPT ![g] = [o \in 0 .. total - 1 |-> IO!Junk]]
  BY DEF IO!RequestStart, IO!NoteRead
<1> HIDE DEF total
<1>4. /\ may'[g] = [o \in 0 .. total - 1 |-> IO!Allowed(r.pos + o)]
      /\ buffer'[g] = [o \in 0 .. total - 1 |-> IO!Junk]
      /\ \A h \in Tags \ {g} : may'[h] = may[h]
      /\ DOMAIN may' = Tags
  BY <1>2, <1>3 DEF IOTypes
<1>5. \A s : IO!Writers(s)' = IO!Writers(s)
  BY <1>1 DEF IO!Writers
<1>6. \A s : IO!Allowed(s)' = IO!Allowed(s)
  BY <1>3, <1>5 DEF IO!Allowed
<1>7. IO!WritesLand'
  BY <1>1, <1>6 DEF IOInv, IO!WritesLand
<1>8. IOTypes'
  <2>1. /\ seg' \in [Tags -> Nat] /\ pos_sector' \in [Tags -> Nat]
        /\ req' \in [Tags -> AllRequests \cup {IO!NoReq}]
        /\ DOMAIN buffer' = Tags
    BY StartIs
  <2> QED
    BY <1>1, <1>2, <1>3, <1>4, <2>1 DEF IOTypes
<1>9. Attended'
  BY DEF Attended, InUse, disk
<1>10. ASSUME NEW h \in Tags, h # g
       PROVE  Served(h)'
  BY <1>1, <1>3, <1>4, <1>6, <1>10 DEF IOInv, Served, InStep, Landing,
     Passed, Returning
<1>11. Served(g)'
  <2>1. IO!Start(r.segs, 1) = 0
    BY <1>1, RequestFits
  <2>2. \A o \in 0 .. IO!Start(r.segs, 1) + 0 - 1 : FALSE
    BY <2>1
  <2>3. Returning(g)'
    BY <1>1, <1>4, <1>6, <2>2 DEF Returning, total
  <2> QED
    BY <1>1, <2>3 DEF Served
<1> QED
  BY <1>1, <1>7, <1>8, <1>9, <1>10, <1>11 DEF IOInv

(* A step of a request keeps the invariant, and what it does to the data   *)
(* is a write.                                                             *)
LEMMA RequestIO ==
    ASSUME IOInv, Request
    PROVE  IOInv' /\ (data' # data => InUse /\ data' \in Values)
<1>0. UNCHANGED disk
  BY DEF Request
<1>1. ASSUME InUse, NEW g \in Tags, NEW r \in AllRequests,
             IO!RequestStart(g, r)
      PROVE  IOInv' /\ data' = data
  BY <1>0, <1>1, StartReadIO, StartWriteIO
<1>2. ASSUME NEW g \in Tags, IO!CopySector(g)
      PROVE  IOInv' /\ (data' # data => InUse /\ data' \in Values)
  <2>1. InUse
    BY <1>2 DEF IO!CopySector, IO!InSegment, IOInv, Attended
  <2> QED
    BY <1>0, <1>2, <2>1, CopyReadIO, CopyWriteIO
<1>3. ASSUME NEW g \in Tags, IO!NextSegment(g) \/ IO!RequestEnd(g)
      PROVE  IOInv' /\ data' = data
  BY <1>0, <1>3, NextSegmentIO, EndIO
<1>4. CASE InUse /\ IO!Begin
  <2>1. \E g \in Tags, r \in AllRequests : IO!RequestStart(g, r)
    BY <1>4, Zenon DEF IO!Begin, IO!RequestPassthrough, AllRequests
  <2> QED
    BY <1>1, <1>4, <2>1
<1>5. CASE IO!Continue
  BY <1>2, <1>3, <1>5 DEF IO!Continue
<1> QED
  BY <1>4, <1>5 DEF Request

(* A request is a write by a task that has the disk open, or is not seen.  *)
LEMMA RequestNext ==
    ASSUME BlkInv, IOInv, Request
    PROVE  [Next]_vars
<1>0. UNCHANGED disk
  BY DEF Request
<1>1. CASE data' = data
  BY <1>0, <1>1 DEF disk, vars
<1>2. CASE data' # data
  <2>1. InUse /\ data' \in Values
    BY <1>2, RequestIO
  <2>2. PICK t \in Tasks : pc[t] = "open"
    BY <2>1 DEF InUse
  <2>3. Write(t)
    BY <1>0, <2>1, <2>2 DEF Write, setup, disk
  <2> QED
    BY <2>3 DEF Next, UserStep
<1> QED
  BY <1>1, <1>2

(* The initial state: the disk is empty and nothing was requested.         *)
LEMMA IOInit == BlkInit => BlkInv /\ IOInv
<1> SUFFICES ASSUME BlkInit
             PROVE  BlkInv /\ IOInv
  OBVIOUS
<1>1. Init /\ BlkInv
  BY DiskInvInit DEF BlkInit
<1>2. IO!Idle
  BY DEF BlkInit
<1>3. data \in [IO!Sectors -> Content]
  BY <1>1, ContentIs DEF BlkInv, TypeOK
<1>4. IOTypes /\ Attended
  BY <1>2, <1>3 DEF IO!Idle, IOTypes, Attended
<1>5. IO!WritesLand
  BY <1>2, <1>3 DEF IO!Idle, IO!WritesLand, IO!Allowed
<1>6. \A g \in Tags : Served(g)
  BY <1>2 DEF IO!Idle, Served
<1> QED
  BY <1>1, <1>4, <1>5, <1>6 DEF IOInv

(* A step of the whole is a step of the disk or is not seen, and the two   *)
(* invariants together are inductive.                                      *)
LEMMA IOStep ==
    ASSUME BlkInv, IOInv, [BlkNext]_blkvars
    PROVE  [Next]_vars /\ BlkInv' /\ IOInv'
<1>1. [Next]_vars
  <2>1. CASE UNCHANGED blkvars
    BY <2>1 DEF blkvars, disk, vars
  <2> QED
    BY <2>1, DiskStepNext, RequestNext DEF BlkNext
<1>2. BlkInv'
  BY <1>1, LocksStep, IdleStep, BlkTypeStep DEF BlkInv
<1>3. IOInv'
  <2>1. CASE UNCHANGED blkvars
    BY <2>1 DEF blkvars, disk, IO!iovars, IOInv, IOTypes, Attended, InUse,
       IO!WritesLand, IO!Allowed, IO!Writers, Served, InStep, Landing, Passed,
       Returning
  <2>2. CASE DiskStep
    BY <1>2, <2>2, DiskStepIO DEF BlkInv
  <2> QED
    BY <2>1, <2>2, RequestIO DEF BlkNext
<1> QED
  BY <1>1, <1>2, <1>3

(* The inductive invariant of the disk and its requests, served side by    *)
(* side without a lock.                                                    *)
THEOREM IOInvariance == BlkSpec => [](BlkInv /\ IOInv)
  BY IOInit, IOStep, PTL DEF BlkSpec

(* Whatever order the copies of blk1_request go in, a sector holds what    *)
(* one of the last writes to it gave, or, while they are in progress, what *)
(* it held before; any number of requests side by side.                    *)
THEOREM WritesAllLand == BlkSpec => []WritesLand
<1>1. BlkInv /\ IOInv => WritesLand
  BY DEF IOInv, WritesLand
<1> QED
  BY <1>1, IOInvariance, PTL

(* After its last segment the memory of a read with segments of one length *)
(* holds, sector by sector, what that sector was allowed to hold at some   *)
(* moment since the read began, whatever is written and read meanwhile.    *)
THEOREM ReadsAllReturn == BlkSpec => []ReadsReturn
<1>1. BlkInv /\ IOInv => ReadsReturn
  <2> SUFFICES ASSUME IOInv, NEW g \in Tags, req[g] # IO!NoReq,
                      seg[g] > Len(req[g].segs), ~req[g].write,
                      IO!Even(req[g]), NEW o \in DOMAIN buffer[g]
               PROVE  buffer[g][o] \in may[g][o]
    BY DEF ReadsReturn, IO!ReadsReturn
  <2> DEFINE r == req[g]
  <2>1. InStep(g) /\ Returning(g) /\ IOTypes
    BY DEF IOInv, Served
  <2>2. r \in AllRequests /\ seg[g] \in 1 .. Len(r.segs) + 1
    BY <2>1 DEF IOTypes, InStep
  <2>3. Len(r.segs) \in Nat /\ copied[g] \in Nat
    BY <2>1, <2>2, RequestIs DEF IOTypes
  <2>4. seg[g] = Len(r.segs) + 1 /\ copied[g] = 0
    BY <2>1, <2>2, <2>3 DEF InStep
  <2>5. IO!Total(r.segs) \in Nat
    BY <2>1, <2>2, RequestFits DEF InStep
  <2>6. o \in 0 .. IO!Start(r.segs, seg[g]) + copied[g] - 1
    <3>1. o \in 0 .. IO!Total(r.segs) - 1
      BY <2>1 DEF Returning
    <3>2. IO!Start(r.segs, seg[g]) = IO!Total(r.segs)
      BY <2>4 DEF IO!Total
    <3> QED
      BY <2>4, <2>5, <3>1, <3>2
  <2> QED
    BY <2>1, <2>6 DEF Returning
<1> QED
  BY <1>1, IOInvariance, PTL

(* Seen without its requests the disk is the one of BlkDisk: every copy    *)
(* that changes the data is a write by a task that has the disk open.      *)
LEMMA DiskRefined == BlkSpec => Spec
<1>1. BlkInit => Init
  BY DEF BlkInit
<1> QED
  BY <1>1, IOInvariance, IOStep, PTL DEF BlkSpec, Spec

(* So the guarantees of BlkDisk hold of the disk with its requests: while  *)
(* blk1_request transfers, no timer is armed, no media change is pending   *)
(* and nothing is erased.                                                  *)
THEOREM DiskStaysSafe ==
    BlkSpec => [](TimerOnlyWhenIdle /\ NoStaleMedia) /\ EraseOnlyUnused
  BY DiskRefined, TimerSafe, MediaFresh, EraseSafe, PTL
=============================================================================
