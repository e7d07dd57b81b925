------------------------------ MODULE UsbChar ------------------------------
(***************************************************************************)
(* The USB character driver of src/USB/usbdrv4.c: a bulk device that one   *)
(* file at a time can have open.  test_usb1_open takes the mutex m of the  *)
(* device, test_usb1_close gives it back, and test_usb1_disconnect waits   *)
(* for it before it frees the buffers.                                     *)
(*                                                                         *)
(* Every task has a file of its own and makes one call at a time.  Input   *)
(* is a stream of bytes that the device numbers modulo Numbers; a packet   *)
(* fills in_buf from its start, and what a read has no room for stays in   *)
(* it.  usb_bulk_msg moves one packet of at most the endpoint's size, so   *)
(* it transfers all of it or nothing: it may also fail or time out, and    *)
(* fails when the device is gone.  usb_open runs test_usb1_open holding    *)
(* minor_rwsem, which usb_deregister_dev waits for.                        *)
(***************************************************************************)
EXTENDS Integers, Sequences

CONSTANTS
    Tasks,
    Core,           \* the USB core thread, as the owner of m
    NoOwner,        \* a mutex that is free
    IN_SIZE,        \* in_buf_size, wMaxPacketSize of the endpoint
    OUT_SIZE,       \* out_buf_size
    Counts,         \* the byte counts read() and write() are called with
    Numbers         \* the device numbers its bytes modulo this

ASSUME OwnersAssumption ==
    Core \notin Tasks /\ NoOwner \notin Tasks \cup {Core}

ASSUME BuffersAssumption ==
    /\ IN_SIZE \in Nat \ {0} /\ OUT_SIZE \in Nat \ {0}
    /\ Counts \subseteq Nat
    /\ Numbers \in Nat /\ Numbers > IN_SIZE

VARIABLES
    core,               \* where the USB core is in probe and disconnect
    attached,           \* the endpoints accept messages
    intfdata, minor,    \* usb_set_intfdata and usb_register_dev were called
    mem,                \* the structure and its buffers: "none", "live",
                        \* "freed"
    m,                  \* owner of the mutex
    in_buf,             \* its bytes, from index 1
    in_buf_left_over,
    pc,                 \* per task: the place in the current call
    cnt,                \* per task: the count of the call
    read_size,          \* per task: the local variable
    wrote_cnt,          \* per task: the local variable
    sent,               \* history: number of the byte the device sends next
    got                 \* history: number of the byte the reader gets next

vars == <<core, attached, intfdata, minor, mem, m, in_buf, in_buf_left_over,
          pc, cnt, read_size, wrote_cnt, sent, got>>

(* Groups of variables that actions leave alone together. *)
device == <<core, attached, intfdata, minor, mem>>
input  == <<in_buf, in_buf_left_over>>
locals == <<cnt, read_size, wrote_cnt>>
stream == <<sent, got>>

CorePc == {"unplugged", "p_in", "p_out", "p_register", "p_intfdata", "bound",
           "d_intfdata", "d_deregister", "d_lock", "d_free", "oops"}
Pc     == {"closed", "o_try", "user", "closing", "w_send", "r_left", "r_msg",
           "r_copy"}

Goto(t, p) == pc' = [pc EXCEPT ![t] = p]

(* The call returns to the user, whatever its result, and its local        *)
(* variables are gone.                                                     *)
Return(t) ==
    /\ Goto(t, "user")
    /\ cnt' = [cnt EXCEPT ![t] = 0]
    /\ read_size' = [read_size EXCEPT ![t] = 0]
    /\ wrote_cnt' = [wrote_cnt EXCEPT ![t] = 0]

Init ==
    /\ core = "unplugged" /\ attached = FALSE
    /\ intfdata = FALSE /\ minor = FALSE /\ mem = "none" /\ m = NoOwner
    /\ in_buf = <<>> /\ in_buf_left_over = 0
    /\ pc = [t \in Tasks |-> "closed"]
    /\ cnt = [t \in Tasks |-> 0]
    /\ read_size = [t \in Tasks |-> 0]
    /\ wrote_cnt = [t \in Tasks |-> 0]
    /\ sent = 0 /\ got = 0

-----------------------------------------------------------------------------
(* test_usb1_probe: the structure, in_buf, out_buf, the minor, the data    *)

(* kzalloc and mutex_init.  Without memory the error path reads the        *)
(* buffers of a NULL pointer.                                              *)
ProbeAlloc ==
    /\ core = "unplugged"
    /\ \/ core' = "p_in" /\ attached' = TRUE /\ mem' = "live" /\ m' = NoOwner
          /\ in_buf_left_over' = 0 /\ in_buf' = <<>>
       \/ core' = "oops" /\ UNCHANGED <<attached, mem, m, input>>
    /\ UNCHANGED <<intfdata, minor, pc, locals, stream>>

(* probe_err frees what there is; the device stays without a driver. *)
ProbeErr ==
    /\ mem' = "freed" /\ core' = "unplugged" /\ attached' = FALSE
    /\ UNCHANGED <<intfdata, minor>>

ProbeBuffers ==
    /\ \/ core = "p_in" /\ core' = "p_out"
             /\ UNCHANGED <<attached, intfdata, minor, mem>>
       \/ core = "p_out" /\ core' = "p_register"
             /\ UNCHANGED <<attached, intfdata, minor, mem>>
       \/ core \in {"p_in", "p_out"} /\ ProbeErr
    /\ UNCHANGED <<m, input, pc, locals, stream>>

(* From here on tasks can open the device, but find no data yet. *)
ProbeRegister ==
    /\ core = "p_register"
    /\ \/ minor' = TRUE /\ core' = "p_intfdata"
             /\ UNCHANGED <<attached, intfdata, mem>>
       \/ ProbeErr
    /\ UNCHANGED <<m, input, pc, locals, stream>>

ProbeIntfdata ==
    /\ core = "p_intfdata"
    /\ intfdata' = TRUE
    /\ core' = "bound"
    /\ UNCHANGED <<attached, minor, mem, m, input, pc, locals, stream>>

Probe == ProbeAlloc \/ ProbeBuffers \/ ProbeRegister \/ ProbeIntfdata

-----------------------------------------------------------------------------
(* test_usb1_disconnect *)

(* The device is pulled out: its endpoints are disabled, then the USB core *)
(* calls disconnect.                                                       *)
Unplug ==
    /\ core = "bound"
    /\ attached' = FALSE
    /\ core' = "d_intfdata"
    /\ UNCHANGED <<intfdata, minor, mem, m, input, pc, locals, stream>>

DisconnectIntfdata ==
    /\ core = "d_intfdata"
    /\ intfdata' = FALSE
    /\ core' = "d_deregister"
    /\ UNCHANGED <<attached, minor, mem, m, input, pc, locals, stream>>

DisconnectDeregister ==
    /\ core = "d_deregister"
    /\ \A t \in Tasks : pc[t] # "o_try"
    /\ minor' = FALSE
    /\ core' = "d_lock"
    /\ UNCHANGED <<attached, intfdata, mem, m, input, pc, locals, stream>>

(* A definition marked `Mutant' is a deliberate fault, put in the place of *)
(* the definition that follows it to see that a property can fail.         *)

(* Mutant: the mutex is not taken. *)
DisconnectUnlocked ==
    /\ core = "d_lock"
    /\ core' = "d_free"
    /\ UNCHANGED <<attached, intfdata, minor, mem, m, input, pc, locals,
                   stream>>

DisconnectLock ==
    /\ core = "d_lock"
    /\ m = NoOwner
    /\ m' = Core
    /\ core' = "d_free"
    /\ UNCHANGED <<attached, intfdata, minor, mem, input, pc, locals, stream>>

(* The buffers, mutex_unlock and the structure.  The device may come back. *)
DisconnectFree ==
    /\ core = "d_free"
    /\ m' = NoOwner
    /\ mem' = "freed"
    /\ core' = "unplugged"
    /\ UNCHANGED <<attached, intfdata, minor, input, pc, locals, stream>>

Disconnect ==
    \/ DisconnectIntfdata \/ DisconnectDeregister \/ DisconnectLock
    \/ DisconnectFree

-----------------------------------------------------------------------------
(* test_usb1_open and test_usb1_close *)

(* Without the minor or the data of the interface open fails (-ENODEV).    *)
OpenFind(t) ==
    /\ pc[t] = "closed"
    /\ minor /\ intfdata
    /\ Goto(t, "o_try")
    /\ UNCHANGED <<device, m, input, locals, stream>>

(* mutex_trylock, or -EBUSY.  What the last user left is dropped: the next *)
(* byte to read is the next the device sends.                              *)
OpenTry(t) ==
    /\ pc[t] = "o_try"
    /\ IF m = NoOwner
       THEN /\ m' = t
            /\ in_buf_left_over' = 0 /\ got' = sent
            /\ Goto(t, "user")
       ELSE Goto(t, "closed") /\ UNCHANGED <<m, in_buf_left_over, got>>
    /\ UNCHANGED <<device, in_buf, locals, sent>>

CloseCall(t) ==
    /\ pc[t] = "user"
    /\ Goto(t, "closing")
    /\ UNCHANGED <<device, m, input, locals, stream>>

Close(t) ==
    /\ pc[t] = "closing"
    /\ m' = NoOwner
    /\ Goto(t, "closed")
    /\ UNCHANGED <<device, input, locals, stream>>

-----------------------------------------------------------------------------
(* test_usb1_write *)

MIN(a, b) == IF a < b THEN a ELSE b

(* A count of 0 returns at once, and changes nothing. *)
WriteCall(t, c) ==
    /\ pc[t] = "user"
    /\ c > 0
    /\ cnt' = [cnt EXCEPT ![t] = c]
    /\ Goto(t, "w_send")
    /\ UNCHANGED <<device, m, input, read_size, wrote_cnt, stream>>

(* Mutant: a message that fails is sent again. *)
WriteSendRetries(t) ==
    /\ pc[t] = "w_send"
    /\ \/ LET wrote == wrote_cnt[t] + MIN(OUT_SIZE, cnt[t] - wrote_cnt[t])
          IN  /\ attached
              /\ IF wrote >= cnt[t]
                 THEN Return(t)
                 ELSE /\ wrote_cnt' = [wrote_cnt EXCEPT ![t] = wrote]
                      /\ UNCHANGED <<pc, cnt, read_size>>
       \/ UNCHANGED <<pc, locals>>
    /\ UNCHANGED <<device, m, input, stream>>

(* One round of the loop: copy_from_user and usb_bulk_msg, both of which   *)
(* may end the call with an error.                                         *)
WriteSend(t) ==
    /\ pc[t] = "w_send"
    /\ \/ LET wrote == wrote_cnt[t] + MIN(OUT_SIZE, cnt[t] - wrote_cnt[t])
          IN  /\ attached
              /\ IF wrote >= cnt[t]
                 THEN Return(t)
                 ELSE /\ wrote_cnt' = [wrote_cnt EXCEPT ![t] = wrote]
                      /\ UNCHANGED <<pc, cnt, read_size>>
       \/ Return(t)
    /\ UNCHANGED <<device, m, input, stream>>

-----------------------------------------------------------------------------
(* test_usb1_read *)

ReadCall(t, c) ==
    /\ pc[t] = "user"
    /\ cnt' = [cnt EXCEPT ![t] = c]
    /\ Goto(t, "r_left")
    /\ UNCHANGED <<device, m, input, read_size, wrote_cnt, stream>>

(* What was left over is taken first, and only then the next packet. *)
ReadLeftOver(t) ==
    /\ pc[t] = "r_left"
    /\ IF in_buf_left_over > 0
       THEN /\ read_size' = [read_size EXCEPT ![t] = in_buf_left_over]
            /\ in_buf_left_over' = 0
            /\ Goto(t, "r_copy")
       ELSE Goto(t, "r_msg") /\ UNCHANGED <<read_size, in_buf_left_over>>
    /\ UNCHANGED <<device, m, in_buf, cnt, wrote_cnt, stream>>

(* usb_bulk_msg: a packet, a timeout (no data), or an error that ends the  *)
(* call.                                                                   *)
ReadMsg(t) ==
    /\ pc[t] = "r_msg"
    /\ \/ \E n \in 0 .. IN_SIZE :
             /\ attached
             /\ in_buf' = [i \in 1 .. IN_SIZE |->
                             IF i <= n THEN (sent + i - 1) % Numbers
                             ELSE IF i \in DOMAIN in_buf THEN in_buf[i]
                             ELSE 0]
             /\ sent' = (sent + n) % Numbers
             /\ read_size' = [read_size EXCEPT ![t] = n]
             /\ Goto(t, "r_copy")
             /\ UNCHANGED <<cnt, wrote_cnt>>
       \/ /\ attached
          /\ read_size' = [read_size EXCEPT ![t] = 0]
          /\ Goto(t, "r_copy")
          /\ UNCHANGED <<in_buf, sent, cnt, wrote_cnt>>
       \/ Return(t) /\ UNCHANGED <<in_buf, sent>>
    /\ UNCHANGED <<device, m, in_buf_left_over, got>>

(* copy_to_user fails: everything stays for the next read. *)
ReadFault(t) ==
    /\ pc[t] = "r_copy"
    /\ in_buf_left_over' = read_size[t]
    /\ Return(t)
    /\ UNCHANGED <<device, m, in_buf, stream>>

(* The number that must follow the last byte handed out; the same number   *)
(* when nothing was.                                                       *)
After(n) == IF n = 0 THEN got ELSE (in_buf[n] + 1) % Numbers

(* Mutant: what is left is not moved to the start of in_buf. *)
ReadCopyUnmoved(t) ==
    /\ pc[t] = "r_copy"
    /\ in_buf_left_over' = read_size[t] - MIN(read_size[t], cnt[t])
    /\ got' = After(MIN(read_size[t], cnt[t]))
    /\ Return(t)
    /\ UNCHANGED <<device, m, in_buf, sent>>

(* The user gets the first bytes; the others move to the start of in_buf.  *)
ReadCopy(t) ==
    /\ pc[t] = "r_copy"
    /\ in_buf' = [i \in DOMAIN in_buf |->
                    IF i + cnt[t] <= read_size[t] THEN in_buf[i + cnt[t]]
                    ELSE in_buf[i]]
    /\ in_buf_left_over' = read_size[t] - MIN(read_size[t], cnt[t])
    /\ got' = After(MIN(read_size[t], cnt[t]))
    /\ Return(t)
    /\ UNCHANGED <<device, m, sent>>

-----------------------------------------------------------------------------
Call(t) ==
    \/ OpenFind(t) \/ CloseCall(t)
    \/ \E c \in Counts : WriteCall(t, c) \/ ReadCall(t, c)

CallStep(t) ==
    \/ OpenTry(t) \/ Close(t) \/ WriteSend(t)
    \/ ReadLeftOver(t) \/ ReadMsg(t) \/ ReadFault(t) \/ ReadCopy(t)

(* After an oops the USB core thread is dead. *)
Dead == core = "oops" /\ UNCHANGED vars

Next ==
    \/ Probe \/ Unplug \/ Disconnect \/ Dead
    \/ \E t \in Tasks : Call(t) \/ CallStep(t)

Spec == Init /\ [][Next]_vars

(* A call in progress goes on, every usb_bulk_msg has a timeout, and the   *)
(* USB core goes on with a disconnect.  Nobody has to close the file.      *)
Fairness ==
    /\ WF_vars(Disconnect)
    /\ \A t \in Tasks : WF_vars(CallStep(t))

FairSpec == Spec /\ Fairness

-----------------------------------------------------------------------------
(* Properties *)

TypeOK ==
    /\ core \in CorePc
    /\ attached \in BOOLEAN /\ intfdata \in BOOLEAN /\ minor \in BOOLEAN
    /\ mem \in {"none", "live", "freed"}
    /\ m \in Tasks \cup {Core, NoOwner}
    /\ \/ in_buf = <<>>
       \/ in_buf \in [1 .. IN_SIZE -> 0 .. Numbers - 1]
    /\ in_buf_left_over \in 0 .. IN_SIZE
    /\ pc \in [Tasks -> Pc]
    /\ cnt \in [Tasks -> Counts \cup {0}]
    /\ read_size \in [Tasks -> 0 .. IN_SIZE]
    /\ wrote_cnt \in [Tasks -> Nat]
    /\ \A t \in Tasks : wrote_cnt[t] <= cnt[t]
    /\ sent \in 0 .. Numbers - 1 /\ got \in 0 .. Numbers - 1

Using == {t \in Tasks : pc[t] \notin {"closed", "o_try"}}

(* "Prevent test_usb1_open() from racing test_usb1_disconnect()": the      *)
(* structure and its buffers are not freed under a task that has the       *)
(* device open, is inside a call, or is on its way into open.              *)
FreedOnlyUnused == mem # "live" => \A t \in Tasks : pc[t] = "closed"

(* One file has the device open at a time, so in_buf has one user.  *)
OneUser == \A s, t \in Using : s = t

(* What the device has sent since the open and the reader has not got yet  *)
(* is in in_buf, in order, whatever was read in pieces, timed out, failed  *)
(* or could not be copied: no byte is lost, repeated or swapped.           *)
StreamIntact ==
    \A t \in Using :
        LET n == IF pc[t] = "r_copy" THEN read_size[t] ELSE in_buf_left_over
        IN  /\ sent = (got + n) % Numbers
            /\ \A i \in 1 .. n : in_buf[i] = (got + i - 1) % Numbers

(* With fairness: a disconnect waits for a file that is left open and for  *)
(* nothing else.  Calls that were in progress come to their end although   *)
(* the device is gone, an open on its way in is answered, and once the     *)
(* file is closed the memory is freed.                                     *)
DisconnectEnds ==
    core \in {"d_intfdata", "d_deregister", "d_lock", "d_free"} ~>
        \/ core = "unplugged"
        \/ \E t \in Tasks : pc[t] = "user"

-----------------------------------------------------------------------------
(* The inductive invariant behind the theorem on StreamIntact. *)

(* in_buf is there as long as bytes of it are waiting, and a packet is     *)
(* asked for only when none are: it cannot overwrite what is left over.    *)
BufferInv ==
    \A t \in Using :
        /\ pc[t] = "r_msg" => in_buf_left_over = 0
        /\ pc[t] = "r_copy" /\ read_size[t] > 0 => in_buf # <<>>
        /\ in_buf_left_over > 0 => in_buf # <<>>

(* wrote_cnt counts within one call of write. *)
WroteInv == \A t \in Tasks : pc[t] # "w_send" => wrote_cnt[t] = 0

StreamInv == TypeOK /\ WroteInv /\ BufferInv /\ StreamIntact
=============================================================================
