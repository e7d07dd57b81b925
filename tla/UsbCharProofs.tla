--------------------------- MODULE UsbCharProofs ---------------------------
(***************************************************************************)
(* For every set of tasks, buffer size and count: in the driver of         *)
(* src/USB/usbdrv4.c the mutex m of the device has the tasks that use it   *)
(* one at a time, disconnect cannot free it under any of them, and what    *)
(* they read is the device's stream of bytes without a gap.                *)
(*                                                                         *)
(* The first is LockInv.  The second needs it (in_buf has one user) and    *)
(* says where in in_buf the bytes are that the reader has not got yet.     *)
(***************************************************************************)
EXTENDS UsbChar, TLAPS

(* The variables that the argument is about, with their types. *)
LockTypes ==
    /\ core \in CorePc
    /\ intfdata \in BOOLEAN
    /\ mem \in {"none", "live", "freed"}
    /\ m \in Tasks \cup {Core, NoOwner}
    /\ pc \in [Tasks -> Pc]

(* Between open and close a task owns m, and only then. *)
OwnerUses == \A t \in Tasks : t \in Using <=> m = t

(* The data of the interface is there from the end of probe until          *)
(* disconnect clears it, and the structure while the core is between the   *)
(* two.                                                                    *)
DataOfInterface ==
    /\ intfdata => core \in {"bound", "d_intfdata"}
    /\ mem = "live" <=> core \notin {"unplugged", "oops"}

(* A task can be about to try m, or own it, only while disconnect has not  *)
(* passed the point that waits for it: usb_deregister_dev for the first,   *)
(* mutex_lock for the second.                                              *)
Waits ==
    /\ \A t \in Tasks : pc[t] = "o_try" =>
                            core \in {"bound", "d_intfdata", "d_deregister"}
    /\ m \in Tasks => core \in {"bound", "d_intfdata", "d_deregister",
                                "d_lock"}
    /\ m = Core <=> core = "d_free"

LockInv == LockTypes /\ OwnerUses /\ DataOfInterface /\ Waits

LEMMA InitLock == Init => LockInv
  BY OwnersAssumption
  DEF Init, LockInv, LockTypes, OwnerUses, DataOfInterface, Waits, Using,
      CorePc, Pc

(* Steps of the USB core leave the tasks where they are. *)
LEMMA CoreStep == LockInv /\ (Probe \/ Unplug \/ Disconnect) => LockInv'
<1> SUFFICES ASSUME LockInv, Probe \/ Unplug \/ Disconnect
             PROVE  LockInv'
    OBVIOUS
<1> USE OwnersAssumption
    DEF LockInv, LockTypes, OwnerUses, DataOfInterface, Waits, Using, CorePc,
        Pc
<1>1. CASE ProbeAlloc
      BY <1>1 DEF ProbeAlloc
<1>2. CASE ProbeBuffers
      BY <1>2 DEF ProbeBuffers, ProbeErr
<1>3. CASE ProbeRegister
      BY <1>3 DEF ProbeRegister, ProbeErr
<1>4. CASE ProbeIntfdata
      BY <1>4 DEF ProbeIntfdata
<1>5. CASE Unplug
      BY <1>5 DEF Unplug
<1>6. CASE DisconnectIntfdata
      BY <1>6 DEF DisconnectIntfdata
<1>7. CASE DisconnectDeregister
      BY <1>7 DEF DisconnectDeregister
<1>8. CASE DisconnectLock
      BY <1>8 DEF DisconnectLock
<1>9. CASE DisconnectFree
      BY <1>9 DEF DisconnectFree
<1> QED
    BY <1>1, <1>2, <1>3, <1>4, <1>5, <1>6, <1>7, <1>8, <1>9
    DEF Probe, Disconnect

(* Steps of a task leave the USB core where it is; open and close change   *)
(* the owner, the other calls keep it.                                     *)
LEMMA TaskStep ==
    ASSUME NEW t \in Tasks, LockInv, Call(t) \/ CallStep(t)
    PROVE  LockInv'
<1> USE OwnersAssumption
    DEF LockInv, LockTypes, OwnerUses, DataOfInterface, Waits, Using, CorePc,
        Pc, Goto, Return, device
<1>1. CASE OpenFind(t)
      BY <1>1 DEF OpenFind
<1>2. CASE OpenTry(t)
      <2>1. CASE m = NoOwner
            BY <1>2, <2>1 DEF OpenTry
      <2>2. CASE m # NoOwner
            BY <1>2, <2>2 DEF OpenTry
      <2> QED  BY <2>1, <2>2
<1>3. CASE CloseCall(t)
      BY <1>3 DEF CloseCall
<1>4. CASE Close(t)
      BY <1>4 DEF Close
<1>5. CASE \E c \in Counts : WriteCall(t, c) \/ ReadCall(t, c)
      BY <1>5 DEF WriteCall, ReadCall
<1>6. CASE WriteSend(t)
      BY <1>6 DEF WriteSend, locals
<1>7. CASE ReadLeftOver(t)
      BY <1>7 DEF ReadLeftOver
<1>8. CASE ReadMsg(t)
      BY <1>8 DEF ReadMsg
<1>9. CASE ReadFault(t)
      BY <1>9 DEF ReadFault
<1>10. CASE ReadCopy(t)
      BY <1>10 DEF ReadCopy
<1> QED
    BY <1>1, <1>2, <1>3, <1>4, <1>5, <1>6, <1>7, <1>8, <1>9, <1>10
    DEF Call, CallStep

(* The invariant of m, probe, disconnect, open and close. *)
THEOREM LockInvariant == Spec => []LockInv
<1>1. LockInv /\ [Next]_vars => LockInv'
  <2> SUFFICES ASSUME LockInv, [Next]_vars
               PROVE  LockInv'
      OBVIOUS
  <2>1. CASE Probe \/ Unplug \/ Disconnect
        BY <2>1, CoreStep
  <2>2. CASE Dead \/ UNCHANGED vars
        BY <2>2
        DEF Dead, vars, LockInv, LockTypes, OwnerUses, DataOfInterface, Waits,
            Using
  <2>3. ASSUME NEW t \in Tasks, Call(t) \/ CallStep(t)
        PROVE  LockInv'
        BY <2>3, TaskStep
  <2> QED  BY <2>1, <2>2, <2>3 DEF Next
<1> QED  BY <1>1, InitLock, PTL DEF Spec

(* test_usb1_disconnect never frees the structure or its buffers under a   *)
(* task that has the device open or is inside test_usb1_open.              *)
THEOREM NeverFreedInUse == Spec => []FreedOnlyUnused
<1>1. LockInv => FreedOnlyUnused
      BY OwnersAssumption
      DEF LockInv, LockTypes, OwnerUses, DataOfInterface, Waits, Using,
          FreedOnlyUnused, Pc, CorePc
<1> QED  BY <1>1, LockInvariant, PTL

(* mutex_trylock in test_usb1_open lets one file at a time use the device. *)
THEOREM OneUserAtATime == Spec => []OneUser
<1>1. LockInv => OneUser
      BY DEF LockInv, OwnerUses, Using, OneUser
<1> QED  BY <1>1, LockInvariant, PTL

-----------------------------------------------------------------------------
(* The stream of bytes.  The device numbers them modulo Numbers, which is  *)
(* more than in_buf holds, so no sum below reaches twice that.             *)

LEMMA ModSmall ==
    ASSUME NEW x \in Nat, x < 2 * Numbers
    PROVE  x % Numbers = IF x < Numbers THEN x ELSE x - Numbers
  BY BuffersAssumption

LEMMA ModAdd ==
    ASSUME NEW a \in Nat, NEW b \in Nat, a + b < 2 * Numbers
    PROVE  ((a % Numbers) + b) % Numbers = (a + b) % Numbers
<1> DEFINE r == a % Numbers
<1>1. r = (IF a < Numbers THEN a ELSE a - Numbers) /\ r \in Nat
  BY ModSmall, BuffersAssumption
<1> HIDE DEF r
<1>2. (a + b) % Numbers = IF a + b < Numbers THEN a + b ELSE a + b - Numbers
  BY ModSmall, BuffersAssumption
<1>3. r + b \in Nat /\ r + b < 2 * Numbers
  BY <1>1, BuffersAssumption
<1>4. (r + b) % Numbers = IF r + b < Numbers THEN r + b ELSE r + b - Numbers
  BY <1>1, <1>3, ModSmall, BuffersAssumption
<1>5. (r + b) % Numbers = (a + b) % Numbers
  BY <1>1, <1>2, <1>4, BuffersAssumption
<1> QED
  BY <1>5 DEF r

(* The next n bytes after number g are the first n of buf, and s follows.  *)
Holds(buf, n, g, s) ==
    /\ s = (g + n) % Numbers
    /\ \A i \in 1 .. n : buf[i] = (g + i - 1) % Numbers

(* A packet of n bytes put into in_buf when it holds nothing. *)
LEMMA PacketHolds ==
    ASSUME NEW n \in 0 .. IN_SIZE, NEW s \in 0 .. Numbers - 1, NEW buf,
           \A i \in 1 .. n : buf[i] = (s + i - 1) % Numbers
    PROVE  Holds(buf, n, s, (s + n) % Numbers)
  BY DEF Holds

(* A read takes the first k of n bytes and moves the others to the start:  *)
(* the stream goes on k bytes later.                                       *)
LEMMA TakeHolds ==
    ASSUME NEW n \in 0 .. IN_SIZE, NEW k \in 0 .. n,
           NEW g \in 0 .. Numbers - 1, NEW s, NEW buf, NEW moved,
           Holds(buf, n, g, s),
           \A i \in 1 .. n - k : moved[i] = buf[i + k]
    PROVE  /\ Holds(moved, n - k, (g + k) % Numbers, s)
           /\ k > 0 => (g + k) % Numbers = (buf[k] + 1) % Numbers
<1> USE BuffersAssumption
<1> DEFINE h == (g + k) % Numbers
<1>1. s = (h + (n - k)) % Numbers
  <2>1. (h + (n - k)) % Numbers = ((g + k) + (n - k)) % Numbers
    <3>1. g + k \in Nat /\ n - k \in Nat /\ (g + k) + (n - k) < 2 * Numbers
      OBVIOUS
    <3> QED
      BY <3>1, ModAdd, Zenon
  <2>2. (g + k) + (n - k) = g + n
    OBVIOUS
  <2> QED
    BY <2>1, <2>2 DEF Holds
<1>2. ASSUME NEW i \in 1 .. n - k
      PROVE  moved[i] = (h + i - 1) % Numbers
  <2>1. moved[i] = (g + (i + k) - 1) % Numbers
    BY DEF Holds
  <2>2. (h + (i - 1)) % Numbers = ((g + k) + (i - 1)) % Numbers
    <3>1. g + k \in Nat /\ i - 1 \in Nat /\ (g + k) + (i - 1) < 2 * Numbers
      OBVIOUS
    <3> QED
      BY <3>1, ModAdd, Zenon
  <2>3. (g + k) + (i - 1) = g + (i + k) - 1 /\ h \in Int
    OBVIOUS
  <2>4. h + (i - 1) = h + i - 1
    BY <2>3
  <2> QED
    BY <2>1, <2>2, <2>3, <2>4
<1>3. ASSUME k > 0
      PROVE  h = (buf[k] + 1) % Numbers
  <2>1. buf[k] = (g + k - 1) % Numbers
    BY <1>3 DEF Holds
  <2>2. (((g + k - 1) % Numbers) + 1) % Numbers =
           ((g + k - 1) + 1) % Numbers
    BY <1>3, ModAdd
  <2>3. (g + k - 1) + 1 = g + k
    OBVIOUS
  <2> QED
    BY <2>1, <2>2, <2>3
<1> QED
  BY <1>1, <1>2, <1>3 DEF Holds

LEMMA CountsNat == \A c \in Counts \cup {0} : c \in Nat
  BY BuffersAssumption

(* The types of the variables that LockTypes leaves out. *)
InputTypes ==
    /\ WroteInv
    /\ in_buf = <<>> \/ in_buf \in [1 .. IN_SIZE -> 0 .. Numbers - 1]
    /\ in_buf_left_over \in 0 .. IN_SIZE
    /\ cnt \in [Tasks -> Counts \cup {0}]
    /\ read_size \in [Tasks -> 0 .. IN_SIZE]
    /\ wrote_cnt \in [Tasks -> Nat]
    /\ \A t \in Tasks : wrote_cnt[t] <= cnt[t]
    /\ sent \in 0 .. Numbers - 1 /\ got \in 0 .. Numbers - 1

(* The bytes a task that uses the device has in in_buf. *)
Waiting(t) == IF pc[t] = "r_copy" THEN read_size[t] ELSE in_buf_left_over

LEMMA StreamHolds ==
    StreamIntact <=> \A t \in Using : Holds(in_buf, Waiting(t), got, sent)
  BY DEF StreamIntact, Holds, Waiting

(* Steps that leave the input alone, and the task's share of it. *)
LEMMA InputKept ==
    ASSUME InputTypes, BufferInv, StreamIntact,
           UNCHANGED <<input, locals, stream>>,
           \A t \in Tasks : pc[t] = "w_send" => pc'[t] = "w_send",
           \A t \in Using' : t \in Using /\ (pc'[t] = pc[t] \/
                 (pc[t] # "r_copy" /\ pc'[t] \notin {"r_msg", "r_copy"}))
    PROVE  InputTypes' /\ BufferInv' /\ StreamIntact'
<1> USE DEF input, locals, stream
<1>1. InputTypes'
  BY DEF InputTypes, WroteInv
<1>2. BufferInv'
  BY DEF BufferInv
<1>3. StreamIntact'
  BY DEF StreamIntact
<1> QED
  BY <1>1, <1>2, <1>3

(* probe clears the buffer, when there is nobody to use it. *)
LEMMA StreamCore ==
    ASSUME LockInv, InputTypes, BufferInv, StreamIntact,
           Probe \/ Unplug \/ Disconnect
    PROVE  InputTypes' /\ BufferInv' /\ StreamIntact'
<1>1. CASE ProbeAlloc
  <2>1. Using' = {}
    BY <1>1, OwnersAssumption
    DEF ProbeAlloc, LockInv, LockTypes, OwnerUses, DataOfInterface, Waits,
        Using
  <2>2. InputTypes'
    BY <1>1, BuffersAssumption DEF ProbeAlloc, InputTypes, WroteInv, input,
       locals, stream
  <2> QED
    BY <2>1, <2>2 DEF BufferInv, StreamIntact
<1>2. CASE UNCHANGED <<input, pc, locals, stream>>
  BY <1>2, InputKept DEF Using
<1> QED
  BY <1>1, <1>2
  DEF Probe, ProbeBuffers, ProbeRegister, ProbeIntfdata, Unplug, Disconnect,
      DisconnectIntfdata, DisconnectDeregister, DisconnectLock,
      DisconnectFree

(* A step of the one task that uses the device. *)
LEMMA OneHolds ==
    ASSUME NEW t \in Tasks, LockInv', t \in Using',
           Holds(in_buf', Waiting(t)', got', sent'),
           /\ pc'[t] = "r_msg" => in_buf_left_over' = 0
           /\ pc'[t] = "r_copy" /\ read_size'[t] > 0 => in_buf' # <<>>
           /\ in_buf_left_over' > 0 => in_buf' # <<>>
    PROVE  BufferInv' /\ StreamIntact'
<1>1. \A u \in Using' : u = t
  BY DEF LockInv, OwnerUses, Using
<1>2. BufferInv'
  BY <1>1 DEF BufferInv
<1>3. StreamIntact'
  BY <1>1 DEF StreamIntact, Holds, Waiting
<1> QED
  BY <1>2, <1>3

(* open starts the stream anew, close and write leave it alone. *)
LEMMA StreamOpenClose ==
    ASSUME NEW t \in Tasks, LockInv, LockInv', InputTypes, BufferInv,
           StreamIntact,
           \/ OpenFind(t) \/ OpenTry(t) \/ CloseCall(t) \/ Close(t)
    PROVE  InputTypes' /\ BufferInv' /\ StreamIntact'
<1> USE DEF Goto, LockInv, LockTypes, Using
<1>1. CASE OpenFind(t) \/ CloseCall(t) \/ Close(t)
  BY <1>1, InputKept DEF OpenFind, CloseCall, Close
<1>2. CASE OpenTry(t) /\ m # NoOwner
  BY <1>2, InputKept DEF OpenTry, input, stream
<1>3. CASE OpenTry(t) /\ m = NoOwner
  <2>1. InputTypes'
    BY <1>3, BuffersAssumption DEF OpenTry, InputTypes, WroteInv, locals
  <2>2. sent = (sent + 0) % Numbers
    <3>1. sent \in Nat /\ sent < Numbers /\ sent < 2 * Numbers
          /\ sent + 0 = sent
      BY BuffersAssumption DEF InputTypes
    <3> QED
      BY <3>1, ModSmall
  <2>3. t \in Using' /\ pc'[t] = "user" /\ in_buf_left_over' = 0
    BY <1>3 DEF OpenTry
  <2>4. Holds(in_buf', Waiting(t)', got', sent')
    BY <1>3, <2>2, <2>3 DEF OpenTry, Holds, Waiting
  <2> QED
    BY <2>1, <2>3, <2>4, OneHolds
<1> QED
  BY <1>1, <1>2, <1>3

LEMMA StreamWrite ==
    ASSUME NEW t \in Tasks, LockInv, LockInv', InputTypes, BufferInv,
           StreamIntact,
           WriteSend(t) \/ \E c \in Counts : WriteCall(t, c) \/ ReadCall(t, c)
    PROVE  InputTypes' /\ BufferInv' /\ StreamIntact'
<1> USE BuffersAssumption DEF Goto, Return, LockInv, LockTypes
<1>1. t \in Using /\ t \in Using' /\ pc[t] # "r_copy"
      /\ pc'[t] \notin {"r_msg", "r_copy"}
  BY DEF WriteSend, WriteCall, ReadCall, Using, locals
<1>2. UNCHANGED <<input, stream>>
  BY DEF WriteSend, WriteCall, ReadCall
<1>3. InputTypes'
  <2>1. UNCHANGED <<in_buf, in_buf_left_over, sent, got>>
    BY <1>2 DEF input, stream
  <2>2. CASE Return(t)
    <3>1. \A u \in Tasks : wrote_cnt'[u] <= cnt'[u]
      BY <2>2 DEF InputTypes
    <3>2. WroteInv'
      BY <2>2 DEF InputTypes, WroteInv
    <3> QED
      BY <2>1, <2>2, <3>1, <3>2 DEF InputTypes
  <2>3. CASE WriteSend(t) /\ ~Return(t)
    <3> DEFINE wrote == wrote_cnt[t] + MIN(OUT_SIZE, cnt[t] - wrote_cnt[t])
    <3>1. /\ wrote_cnt' = [wrote_cnt EXCEPT ![t] = wrote]
          /\ ~(wrote >= cnt[t]) /\ pc[t] = "w_send"
          /\ UNCHANGED <<pc, cnt, read_size>>
      BY <2>3 DEF WriteSend
    <3>2. cnt[t] \in Nat /\ wrote_cnt[t] \in Nat /\ wrote_cnt[t] <= cnt[t]
      <4>1. cnt[t] \in Counts \cup {0}
        BY DEF InputTypes
      <4>2. wrote_cnt[t] \in Nat /\ wrote_cnt[t] <= cnt[t]
        BY DEF InputTypes
      <4>3. cnt[t] \in Nat
        BY <4>1, CountsNat, Zenon
      <4> QED
        BY <4>2, <4>3
    <3>3. wrote \in Nat
      BY <3>2 DEF MIN
    <3> HIDE DEF wrote
    <3>4. \A u \in Tasks : wrote_cnt'[u] <= cnt'[u]
      BY <3>1, <3>2, <3>3 DEF InputTypes
    <3> QED
      BY <2>1, <3>1, <3>3, <3>4 DEF InputTypes, WroteInv
  <2>4. ASSUME NEW c \in Counts, WriteCall(t, c) \/ ReadCall(t, c)
        PROVE  InputTypes'
    <3>1. /\ pc[t] = "user" /\ cnt' = [cnt EXCEPT ![t] = c]
          /\ UNCHANGED <<read_size, wrote_cnt>>
          /\ pc' = [pc EXCEPT ![t] = pc'[t]]
      BY <2>4 DEF WriteCall, ReadCall
    <3>2. wrote_cnt[t] = 0 /\ c \in Nat
      BY <3>1 DEF InputTypes, WroteInv
    <3>3. \A u \in Tasks : wrote_cnt'[u] <= cnt'[u]
      BY <3>1, <3>2 DEF InputTypes
    <3>4. WroteInv'
      BY <3>1, <3>2 DEF InputTypes, WroteInv
    <3>5. cnt' \in [Tasks -> Counts \cup {0}]
      BY <3>1 DEF InputTypes
    <3> QED
      BY <2>1, <3>1, <3>3, <3>4, <3>5 DEF InputTypes
  <2> QED
    BY <2>2, <2>3, <2>4
<1>4. Holds(in_buf', Waiting(t)', got', sent')
  BY <1>1, <1>2, StreamHolds DEF Holds, Waiting, input, stream
<1>5. in_buf_left_over' > 0 => in_buf' # <<>>
  BY <1>1, <1>2 DEF BufferInv, input
<1> QED
  BY <1>1, <1>3, <1>4, <1>5, OneHolds

(* test_usb1_read: what is left over, then a packet, then the copy. *)
LEMMA StreamReadStep ==
    ASSUME NEW t \in Tasks, LockInv, LockInv', InputTypes, BufferInv,
           StreamIntact,
           ReadLeftOver(t) \/ ReadMsg(t) \/ ReadFault(t)
    PROVE  InputTypes' /\ BufferInv' /\ StreamIntact'
<1> USE BuffersAssumption DEF Goto, Return, LockInv, LockTypes
<1>1. t \in Using /\ t \in Using'
  BY DEF ReadLeftOver, ReadMsg, ReadFault, Using
<1>2. Holds(in_buf, Waiting(t), got, sent)
  BY <1>1, StreamHolds
<1>3. CASE ReadLeftOver(t)
  <2>1. InputTypes'
    <3>1. /\ in_buf_left_over' \in 0 .. IN_SIZE
          /\ read_size' \in [Tasks -> 0 .. IN_SIZE]
      <4>1. \/ /\ read_size' = [read_size EXCEPT ![t] = in_buf_left_over]
               /\ in_buf_left_over' = 0
            \/ UNCHANGED <<read_size, in_buf_left_over>>
        BY <1>3 DEF ReadLeftOver
      <4>2. /\ in_buf_left_over \in 0 .. IN_SIZE
            /\ read_size \in [Tasks -> 0 .. IN_SIZE]
        BY DEF InputTypes
      <4>3. 0 \in 0 .. IN_SIZE
        OBVIOUS
      <4> QED
        BY <4>1, <4>2, <4>3
    <3>2. UNCHANGED <<in_buf, cnt, wrote_cnt, sent, got>>
      BY <1>3 DEF ReadLeftOver, stream
    <3>3. WroteInv'
      BY <1>3 DEF ReadLeftOver, InputTypes, WroteInv
    <3> QED
      BY <3>1, <3>2, <3>3 DEF InputTypes
  <2>2. Holds(in_buf', Waiting(t)', got', sent')
    BY <1>2, <1>3 DEF ReadLeftOver, InputTypes, Holds, Waiting, stream
  <2>3. /\ pc'[t] = "r_msg" => in_buf_left_over' = 0
        /\ pc'[t] = "r_copy" /\ read_size'[t] > 0 => in_buf' # <<>>
        /\ in_buf_left_over' > 0 => in_buf' # <<>>
    BY <1>1, <1>3 DEF ReadLeftOver, InputTypes, BufferInv
  <2> QED
    BY <1>1, <2>1, <2>2, <2>3, OneHolds
<1>4. ASSUME NEW n \in 0 .. IN_SIZE, ReadMsg(t),
             in_buf' = [i \in 1 .. IN_SIZE |->
                          IF i <= n THEN (sent + i - 1) % Numbers
                          ELSE IF i \in DOMAIN in_buf THEN in_buf[i]
                          ELSE 0],
             sent' = (sent + n) % Numbers,
             read_size' = [read_size EXCEPT ![t] = n],
             Goto(t, "r_copy"),
             UNCHANGED <<cnt, wrote_cnt>>
      PROVE  InputTypes' /\ BufferInv' /\ StreamIntact'
  <2>1. in_buf_left_over = 0 /\ got = sent /\ pc[t] = "r_msg"
    <3>1. in_buf_left_over = 0 /\ pc[t] = "r_msg"
      BY <1>1, <1>4 DEF ReadMsg, BufferInv
    <3>2. sent = (got + 0) % Numbers
      BY <1>2, <3>1 DEF Holds, Waiting
    <3>3. /\ got \in Nat /\ got < Numbers /\ got < 2 * Numbers
          /\ got + 0 = got
      BY DEF InputTypes
    <3> QED
      BY <3>1, <3>2, <3>3, ModSmall
  <2>2. UNCHANGED <<in_buf_left_over, got>>
    BY <1>4 DEF ReadMsg
  <2>3. in_buf' \in [1 .. IN_SIZE -> 0 .. Numbers - 1] /\ in_buf' # <<>>
    <3>1. \A i \in 1 .. IN_SIZE : (sent + i - 1) % Numbers \in 0 .. Numbers - 1
      BY DEF InputTypes
    <3>2. \A i \in DOMAIN in_buf : in_buf[i] \in 0 .. Numbers - 1
      BY DEF InputTypes
    <3>3. in_buf' \in [1 .. IN_SIZE -> 0 .. Numbers - 1]
      BY <1>4, <3>1, <3>2
    <3>4. 1 \in DOMAIN in_buf'
      BY <3>3
    <3> QED
      BY <3>3, <3>4
  <2>4. InputTypes'
    BY <1>4, <2>1, <2>2, <2>3 DEF InputTypes, WroteInv
  <2>5. \A i \in 1 .. n : in_buf'[i] = (sent + i - 1) % Numbers
    BY <1>4
  <2>6. Holds(in_buf', n, sent, sent')
    BY <1>4, <2>5, PacketHolds DEF InputTypes
  <2>7. pc'[t] = "r_copy" /\ read_size'[t] = n
    BY <1>4 DEF InputTypes
  <2> QED
    BY <1>1, <2>1, <2>2, <2>3, <2>4, <2>6, <2>7, OneHolds DEF Waiting
<1>5. CASE /\ ReadMsg(t)
           /\ UNCHANGED <<in_buf, sent, cnt, wrote_cnt>>
           /\ read_size' = [read_size EXCEPT ![t] = 0]
           /\ Goto(t, "r_copy")
  <2>1. pc[t] = "r_msg" /\ UNCHANGED <<in_buf_left_over, got>>
    BY <1>5 DEF ReadMsg
  <2>2. in_buf_left_over = 0
    BY <1>1, <2>1 DEF BufferInv
  <2>3. InputTypes'
    BY <1>5, <2>1 DEF InputTypes, WroteInv
  <2>4. pc'[t] = "r_copy" /\ read_size'[t] = 0
    BY <1>5 DEF InputTypes
  <2>5. Waiting(t)' = 0 /\ Waiting(t) = 0
    BY <2>1, <2>2, <2>4 DEF Waiting
  <2>6. Holds(in_buf', Waiting(t)', got', sent')
    BY <1>2, <1>5, <2>1, <2>5
  <2> QED
    BY <1>1, <2>1, <2>2, <2>3, <2>4, <2>6, OneHolds
<1>6. CASE ReadMsg(t) /\ Return(t) /\ UNCHANGED <<in_buf, sent>>
  <2>1. pc[t] = "r_msg" /\ UNCHANGED <<in_buf_left_over, got>>
    BY <1>6 DEF ReadMsg
  <2>2. pc'[t] = "user"
    BY <1>6
  <2>3. InputTypes'
    BY <1>6, <2>1 DEF InputTypes, WroteInv
  <2>4. Holds(in_buf', Waiting(t)', got', sent')
    BY <1>2, <1>6, <2>1, <2>2 DEF Holds, Waiting
  <2>5. in_buf_left_over = 0
    BY <1>1, <2>1 DEF BufferInv
  <2> QED
    BY <1>1, <2>1, <2>2, <2>3, <2>4, <2>5, OneHolds
<1>7. CASE ReadFault(t)
  <2>1. /\ pc[t] = "r_copy" /\ pc'[t] = "user"
        /\ UNCHANGED <<in_buf, sent, got>>
        /\ in_buf_left_over' = read_size[t]
    BY <1>7 DEF ReadFault, stream
  <2>2. InputTypes'
    BY <1>7, <2>1 DEF ReadFault, InputTypes, WroteInv
  <2>3. Holds(in_buf', Waiting(t)', got', sent')
    BY <1>2, <2>1 DEF Holds, Waiting
  <2>4. in_buf_left_over' > 0 => in_buf' # <<>>
    BY <1>1, <2>1 DEF BufferInv
  <2> QED
    BY <1>1, <2>1, <2>2, <2>3, <2>4, OneHolds
<1> QED
  BY <1>3, <1>4, <1>5, <1>6, <1>7 DEF ReadMsg

LEMMA StreamReadCopy ==
    ASSUME NEW t \in Tasks, LockInv, LockInv', InputTypes, BufferInv,
           StreamIntact, ReadCopy(t)
    PROVE  InputTypes' /\ BufferInv' /\ StreamIntact'
<1> USE BuffersAssumption DEF Goto, Return, LockInv, LockTypes
<1> DEFINE n == read_size[t]
           k == MIN(n, cnt[t])
<1>1. t \in Using /\ t \in Using' /\ pc[t] = "r_copy" /\ pc'[t] = "user"
  BY DEF ReadCopy, Using
<1>2. n \in 0 .. IN_SIZE /\ cnt[t] \in Nat /\ got \in 0 .. Numbers - 1
  <2>1. cnt[t] \in Counts \cup {0}
    BY DEF InputTypes
  <2>2. n \in 0 .. IN_SIZE /\ got \in 0 .. Numbers - 1
    BY DEF InputTypes
  <2> QED
    BY <2>1, <2>2, CountsNat, Zenon
<1>3. k \in 0 .. n /\ (k < n => k = cnt[t])
  BY <1>2 DEF MIN
<1>4. Holds(in_buf, n, got, sent)
  BY <1>1, StreamHolds DEF Waiting
<1>5. /\ in_buf' = [i \in DOMAIN in_buf |->
                      IF i + cnt[t] <= n THEN in_buf[i + cnt[t]]
                      ELSE in_buf[i]]
      /\ in_buf_left_over' = n - k
      /\ got' = IF k = 0 THEN got ELSE (in_buf[k] + 1) % Numbers
      /\ sent' = sent
  BY DEF ReadCopy, After
<1>6. n > 0 => in_buf # <<>> /\ DOMAIN in_buf = 1 .. IN_SIZE
  BY <1>1 DEF InputTypes, BufferInv
<1> HIDE DEF k
<1> HIDE DEF n
<1>7. ASSUME NEW i \in 1 .. n - k
      PROVE  in_buf'[i] = in_buf[i + k]
  <2>1. k = cnt[t] /\ i + k <= n /\ i \in 1 .. IN_SIZE /\ n > 0
    BY <1>2, <1>3
  <2> QED
    BY <1>5, <1>6, <2>1
<1>8. /\ Holds(in_buf', n - k, (got + k) % Numbers, sent)
      /\ k > 0 => (got + k) % Numbers = (in_buf[k] + 1) % Numbers
  <2>1. k \in 0 .. n
    BY <1>3
  <2> QED
    BY <1>2, <1>4, <1>7, <2>1, TakeHolds
<1>9. got' = (got + k) % Numbers
  <2>1. CASE k > 0
    BY <1>3, <1>5, <1>8, <2>1
  <2>2. CASE k = 0
    <3>1. /\ got + k \in Nat /\ got + k < Numbers /\ got + k < 2 * Numbers
          /\ got + k = got
      BY <1>2, <2>2
    <3> QED
      BY <1>5, <2>2, <3>1, ModSmall
  <2> QED
    BY <1>2, <1>3, <2>1, <2>2
<1>10. Holds(in_buf', Waiting(t)', got', sent')
  BY <1>1, <1>5, <1>8, <1>9 DEF Waiting
<1>11. InputTypes'
  <2>1. got' \in 0 .. Numbers - 1 /\ in_buf_left_over' \in 0 .. IN_SIZE
    BY <1>2, <1>3, <1>5, <1>9
  <2>2. in_buf' = <<>> \/ in_buf' \in [1 .. IN_SIZE -> 0 .. Numbers - 1]
    <3>1. CASE in_buf = <<>>
      BY <1>5, <3>1
    <3>2. CASE in_buf \in [1 .. IN_SIZE -> 0 .. Numbers - 1]
      <4>1. \A i \in 1 .. IN_SIZE : i + cnt[t] <= n =>
               i + cnt[t] \in 1 .. IN_SIZE
        BY <1>2
      <4> QED
        BY <1>5, <3>2, <4>1
    <3> QED
      BY <3>1, <3>2 DEF InputTypes
  <2>3. /\ cnt' = [cnt EXCEPT ![t] = 0]
        /\ read_size' = [read_size EXCEPT ![t] = 0]
        /\ wrote_cnt' = [wrote_cnt EXCEPT ![t] = 0]
        /\ pc' = [pc EXCEPT ![t] = "user"]
    BY DEF ReadCopy
  <2>4. WroteInv'
    BY <2>3 DEF InputTypes, WroteInv
  <2>5. \A u \in Tasks : wrote_cnt'[u] <= cnt'[u]
    BY <2>3 DEF InputTypes
  <2> QED
    BY <1>5, <2>1, <2>2, <2>3, <2>4, <2>5 DEF InputTypes
<1>12. in_buf_left_over' > 0 => in_buf' # <<>>
  <2>1. ASSUME in_buf_left_over' > 0
        PROVE  1 \in DOMAIN in_buf'
    BY <1>2, <1>3, <1>5, <1>6, <2>1
  <2> QED
    BY <2>1
<1> QED
  BY <1>1, <1>10, <1>11, <1>12, OneHolds

LEMMA StreamStep ==
    ASSUME LockInv, LockInv', InputTypes, BufferInv, StreamIntact, [Next]_vars
    PROVE  InputTypes' /\ BufferInv' /\ StreamIntact'
<1>1. CASE Probe \/ Unplug \/ Disconnect
  BY <1>1, StreamCore
<1>2. CASE Dead \/ UNCHANGED vars
  <2>1. UNCHANGED <<input, pc, locals, stream>>
    BY <1>2 DEF Dead, vars, input, locals, stream
  <2> QED
    BY <2>1, InputKept DEF Using
<1>3. ASSUME NEW t \in Tasks, Call(t) \/ CallStep(t)
      PROVE  InputTypes' /\ BufferInv' /\ StreamIntact'
  BY <1>3, StreamOpenClose, StreamWrite, StreamReadStep, StreamReadCopy
  DEF Call, CallStep
<1> QED
  BY <1>1, <1>2, <1>3 DEF Next

LEMMA FlagsStep ==
    ASSUME attached \in BOOLEAN, minor \in BOOLEAN, [Next]_vars
    PROVE  attached' \in BOOLEAN /\ minor' \in BOOLEAN
<1>1. CASE Probe \/ Unplug \/ Disconnect
  BY <1>1, Zenon
  DEF Probe, ProbeAlloc, ProbeBuffers, ProbeRegister, ProbeErr, ProbeIntfdata,
      Unplug, Disconnect, DisconnectIntfdata, DisconnectDeregister,
      DisconnectLock, DisconnectFree
<1>2. CASE Dead \/ UNCHANGED vars
  BY <1>2, Zenon DEF Dead, vars
<1>3. ASSUME NEW t \in Tasks, Call(t) \/ CallStep(t)
      PROVE  attached' \in BOOLEAN /\ minor' \in BOOLEAN
  <2>1. UNCHANGED device
    BY <1>3, Zenon DEF Call, CallStep, OpenFind, CloseCall, WriteCall,
       ReadCall, OpenTry, Close, WriteSend, ReadLeftOver, ReadMsg, ReadFault,
       ReadCopy
  <2> QED
    BY <2>1, Zenon DEF device
<1> QED
  BY <1>1, <1>2, <1>3, Zenon DEF Next

LEMMA StreamInit ==
    Init => /\ InputTypes /\ BufferInv /\ StreamIntact
            /\ attached \in BOOLEAN /\ minor \in BOOLEAN
<1> SUFFICES ASSUME Init
             PROVE  /\ InputTypes /\ BufferInv /\ StreamIntact
                    /\ attached \in BOOLEAN /\ minor \in BOOLEAN
  OBVIOUS
<1>1. attached \in BOOLEAN /\ minor \in BOOLEAN
  BY Zenon DEF Init
<1>2. Using = {}
  BY DEF Init, Using
<1>3. InputTypes
  BY BuffersAssumption DEF Init, InputTypes, WroteInv
<1> QED
  BY <1>1, <1>2, <1>3 DEF BufferInv, StreamIntact

(* The inductive invariant of the driver's input, with the types of all    *)
(* its variables: whatever a call of test_usb1_read leaves in in_buf, the  *)
(* next packet is asked for only when it is gone.                          *)
THEOREM StreamInvariance == Spec => []StreamInv
<1> DEFINE Inv == /\ LockInv /\ InputTypes /\ BufferInv /\ StreamIntact
                  /\ attached \in BOOLEAN /\ minor \in BOOLEAN
<1>1. Init => Inv
  BY InitLock, StreamInit
<1>2. Inv /\ LockInv' /\ [Next]_vars => Inv'
  BY StreamStep, FlagsStep
<1>3. Inv => StreamInv
  BY DEF LockInv, LockTypes, InputTypes, StreamInv, TypeOK
<1> HIDE DEF Inv
<1> QED
  BY <1>1, <1>2, <1>3, LockInvariant, PTL DEF Spec

(* No byte that the device has sent since the open is lost, repeated or    *)
(* swapped on its way through in_buf, whatever sizes a read asks for and   *)
(* whatever times out, fails or cannot be copied.                          *)
THEOREM NoByteLost == Spec => []StreamIntact
<1>1. StreamInv => StreamIntact
  BY DEF StreamInv
<1> QED
  BY <1>1, StreamInvariance, PTL
=============================================================================
