------------------------------ MODULE WaitRing ------------------------------
(***************************************************************************)
(* The ring buffer device of src/WaitQueue/wait1.c.  my_write puts one     *)
(* byte at tail and my_read takes one from head; both sleep on one wait    *)
(* queue, guarded by the global `condition', and no lock protects any of   *)
(* it: every load and store of the globals is a step of its own.           *)
(*                                                                         *)
(* Bytes are numbered in the order the calls of my_write stored them, so   *)
(* that what a read returns can be compared with what was written.         *)
(***************************************************************************)
EXTENDS Integers, FiniteSets

CONSTANTS
    Writers, Readers,   \* tasks inside write() and read() of the device
    RINGSIZE,
    MaxWrites           \* bound: bytes written in a behaviour

ASSUME RingAssumption ==
    /\ IsFiniteSet(Writers) /\ IsFiniteSet(Readers)
    /\ Writers \cap Readers = {}
    /\ RINGSIZE \in Nat \ {0, 1}
    /\ MaxWrites \in Nat

Tasks == Writers \cup Readers

VARIABLES
    head, tail, ring, condition,    \* the globals of the driver
    pc,         \* per task: the place in its call
    seen,       \* per task: its local prev or next, then the index it loaded
    written,    \* bytes stored so far
    last,       \* the byte the last read returned, 0 before the first
    overrun     \* a byte was stored into a ring that was full

ringvars == <<head, tail, ring, condition, pc, seen, written, last, overrun>>
globals == <<head, tail, ring, condition>>
history == <<written, last, overrun>>

Pc == {"user", "test", "reset", "wait", "asleep", "move", "load", "store",
       "signal", "wake"}

Goto(t, p) == pc' = [pc EXCEPT ![t] = p]

(* The C operator %: the quotient is truncated, so -1 % RINGSIZE is -1. *)
CMod(a, n) == IF a >= 0 THEN a % n ELSE -((-a) % n)

RingInit ==
    /\ head = 0 /\ tail = 0 /\ condition = 0
    /\ ring = [i \in 0 .. RINGSIZE - 1 |-> 0]
    /\ pc = [t \in Tasks |-> "user"]
    /\ seen = [t \in Tasks |-> 0]
    /\ written = 0 /\ last = 0 /\ overrun = FALSE

(* prev = (head - 1) % RINGSIZE in my_write, next = head in my_read: loaded *)
(* once, before the loop.                                                  *)
Call(t) ==
    /\ pc[t] = "user"
    /\ t \in Writers => written + Cardinality({w \in Writers : pc[w] # "user"})
                          < MaxWrites
    /\ seen' = [seen EXCEPT ![t] =
                  IF t \in Writers THEN CMod(head - 1, RINGSIZE) ELSE head]
    /\ Goto(t, "test")
    /\ UNCHANGED <<globals, history>>

(* while (prev == tail) and while (next == tail) *)
Test(t) ==
    /\ pc[t] = "test"
    /\ Goto(t, IF seen[t] = tail THEN "reset" ELSE "move")
    /\ UNCHANGED <<globals, seen, history>>

Reset(t) ==
    /\ pc[t] = "reset"
    /\ condition' = 0
    /\ Goto(t, "wait")
    /\ UNCHANGED <<head, tail, ring, seen, history>>

(* wait_event_interruptible(wq, condition != 0): look at the condition and *)
(* sleep; being woken means to look again.                                 *)
Wait(t) ==
    /\ pc[t] = "wait"
    /\ Goto(t, IF condition # 0 THEN "test" ELSE "asleep")
    /\ UNCHANGED <<globals, seen, history>>

(* A signal ends the wait and the call, with -ERESTARTSYS. *)
Signal(t) ==
    /\ pc[t] \in {"wait", "asleep"}
    /\ Goto(t, "user")
    /\ UNCHANGED <<globals, seen, history>>

(* A definition marked `Mutant' is a deliberate fault, put in the place of *)
(* the definition that follows it to see that a property can fail.         *)

(* Mutant: the reader takes the byte in front of head. *)
TakePrevious == ring[(head + RINGSIZE - 1) % RINGSIZE]

Take == ring[head]

(* get_user(ring[tail], buf) and put_user(ring[head], buf). *)
MoveByte(t) ==
    /\ pc[t] = "move"
    /\ IF t \in Writers
         THEN /\ ring' = [ring EXCEPT ![tail] = written + 1]
              /\ written' = written + 1
              /\ overrun' = (overrun \/ (tail + 1) % RINGSIZE = head)
              /\ UNCHANGED last
         ELSE /\ last' = Take
              /\ UNCHANGED <<ring, written, overrun>>
    /\ Goto(t, "load")
    /\ UNCHANGED <<head, tail, condition, seen>>

(* ... either of which may fail with -EFAULT. *)
Fault(t) ==
    /\ pc[t] = "move"
    /\ Goto(t, "user")
    /\ UNCHANGED <<globals, seen, history>>

(* tail = (1 + tail) % RINGSIZE and the same for head: a load and a store. *)
Load(t) ==
    /\ pc[t] = "load"
    /\ seen' = [seen EXCEPT ![t] = IF t \in Writers THEN tail ELSE head]
    /\ Goto(t, "store")
    /\ UNCHANGED <<globals, history>>

Store(t) ==
    /\ pc[t] = "store"
    /\ LET next == (1 + seen[t]) % RINGSIZE
       IN  IF t \in Writers THEN tail' = next /\ UNCHANGED head
           ELSE head' = next /\ UNCHANGED tail
    /\ Goto(t, "signal")
    /\ UNCHANGED <<ring, condition, seen, history>>

SetCondition(t) ==
    /\ pc[t] = "signal"
    /\ condition' = 1
    /\ Goto(t, "wake")
    /\ UNCHANGED <<head, tail, ring, seen, history>>

(* wake_up_interruptible wakes every sleeper; the call returns 1. *)
Wake(t) ==
    /\ pc[t] = "wake"
    /\ pc' = [u \in Tasks |-> IF u = t THEN "user"
                              ELSE IF pc[u] = "asleep" THEN "wait" ELSE pc[u]]
    /\ UNCHANGED <<globals, seen, history>>

Step(t) ==
    \/ Test(t) \/ Reset(t) \/ Wait(t) \/ MoveByte(t) \/ Fault(t) \/ Load(t)
    \/ Store(t) \/ SetCondition(t) \/ Wake(t)

RingNext == \E t \in Tasks : Call(t) \/ Step(t) \/ Signal(t)

RingSpec == RingInit /\ [][RingNext]_ringvars

-----------------------------------------------------------------------------
(* Properties *)

TypeOK ==
    /\ head \in 0 .. RINGSIZE - 1 /\ tail \in 0 .. RINGSIZE - 1
    /\ ring \in [0 .. RINGSIZE - 1 -> Nat]
    /\ condition \in {0, 1}
    /\ pc \in [Tasks -> Pc]
    /\ seen \in [Tasks -> -1 .. RINGSIZE - 1]
    /\ written \in Nat /\ last \in Nat
    /\ overrun \in BOOLEAN

Takes(t) == pc[t] = "move" /\ pc'[t] = "load"

(* With one writer and one reader, and until a byte is stored into a full  *)
(* ring, the device is a FIFO: every read returns the byte that follows    *)
(* the one before, in spite of the missing lock and whatever faults and    *)
(* signals cut calls short.  And the writer, which should "sleep if        *)
(* necessary until the ringbuffer has room for new data", runs over a full *)
(* ring in one case only: it came when head was 0 and prev is -1.          *)
Fifo ==
    [][/\ \A t \in Readers : Takes(t) /\ ~overrun => last' = last + 1
       /\ \A t \in Writers : Takes(t) /\ overrun' /\ ~overrun => seen[t] = -1
      ]_ringvars

-----------------------------------------------------------------------------
(* The inductive invariant of one writer and one reader, for the theorems  *)
(* of WaitProofs.                                                          *)

Moving == {"load", "store"}         \* the byte is moved, the index is not
Looping == {"test", "reset", "wait", "asleep"}

(* How often tail and head have been moved on. *)
Stored == IF \E t \in Writers : pc[t] \in Moving THEN written - 1 ELSE written
Taken  == IF \E t \in Readers : pc[t] \in Moving THEN last - 1 ELSE last

(* The indices are the counts modulo the size of the ring, and what a call *)
(* has loaded of its own index is not stale.                               *)
IndexInv ==
    /\ Stored \in Nat /\ tail = Stored % RINGSIZE
    /\ \A t \in Writers : pc[t] = "store" => seen[t] = tail
    /\ \A t \in Readers :
          pc[t] \in Looping \cup {"move", "store"} => seen[t] = head

(* The bytes between head and tail are there in their order, and a reader  *)
(* past its loop has one to take.                                          *)
ContentInv ==
    /\ Taken \in Nat /\ head = Taken % RINGSIZE
    /\ Taken <= Stored /\ written - Taken < RINGSIZE
    /\ \A k \in Taken .. written - 1 : ring[k % RINGSIZE] = k + 1
    /\ \A t \in Readers : pc[t] \in Moving \cup {"move"} => Taken < Stored

(* A writer's prev is the place before an earlier head h, unless it is -1: *)
(* when tail is not there, there is room, and more of it by now.           *)
RoomInv ==
    \A t \in Writers : seen[t] # -1 =>
        /\ pc[t] \in Looping =>
              \E h \in 1 .. Taken : /\ seen[t] = (h - 1) % RINGSIZE
                                   /\ written - h < RINGSIZE
        /\ pc[t] = "move" => written - Taken < RINGSIZE - 1

RingInv == TypeOK /\ IndexInv /\ (~overrun => ContentInv /\ RoomInv)
=============================================================================
