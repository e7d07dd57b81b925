------------------------------ MODULE UsbSkel ------------------------------
(***************************************************************************)
(* The USB bulk driver of src/USB/usbdrv3.c: one device object (struct     *)
(* usb_skel), the user threads that open, read, write, flush and release   *)
(* it, the URB completion callbacks that run in interrupt context, and the *)
(* USB core, which probes, suspends, resets and disconnects the device.    *)
(*                                                                         *)
(* A thread owns one open file and makes one call at a time; pc[t] is the  *)
(* place in that call.  Every step between two places is one the code      *)
(* makes under a lock or that touches one shared field, so the steps of    *)
(* different threads, of the callbacks and of the core interleave wherever *)
(* the code lets them.                                                     *)
(*                                                                         *)
(* Payload bytes, return codes and log lines are left out.  errors keeps   *)
(* the class of the last failing URB status: "pipe" (-EPIPE), "unlink"     *)
(* (-ENOENT, -ECONNRESET, -ESHUTDOWN) or "other".                          *)
(***************************************************************************)
EXTENDS Integers, FiniteSets

CONSTANTS
    Threads,            \* user threads, each with a file of its own
    Core,               \* the USB core thread, as an owner of io_mutex
    NoOwner,            \* a lock that nobody holds
    WRITES_IN_FLIGHT,   \* initial value of limit_sem
    BULK_IN_SIZE,       \* bulk_in_size, the size of bulk_in_buffer
    Counts,             \* the byte counts read() is called with
    DeviceStatus        \* URB statuses the device itself produces

ASSUME ThreadsAssumption ==
    /\ IsFiniteSet(Threads)
    /\ Core \notin Threads
    /\ NoOwner \notin Threads \cup {Core}

ASSUME SizesAssumption ==
    /\ WRITES_IN_FLIGHT \in Nat \ {0}
    /\ BULK_IN_SIZE \in Nat \ {0}
    /\ Counts \subseteq Nat \ {0}

ASSUME StatusAssumption == DeviceStatus \subseteq {"ok", "pipe", "other"}

VARIABLES
    core,           \* where the USB core is in its calls into the driver
    attached,       \* the interface's endpoints accept URBs
    intfdata,       \* usb_get_intfdata(interface) is not NULL
    minor,          \* the minor number is registered
    mem,            \* the struct usb_skel: "none", "live" or "freed"
    kref,           \* its reference count
    limit_sem,
    inflight,       \* write URBs submitted and not yet given back
    rurb,           \* bulk_in_urb is submitted
    rlen,           \* the transfer length bulk_in_urb was filled with
    errors,
    ongoing_read,
    filled,         \* bulk_in_filled
    copied,         \* bulk_in_copied
    io_mutex,
    err_lock,
    disconnected,
    pc,             \* per thread: the place in the current call
    rv,             \* per thread: the error value it loaded from errors
    count           \* per thread: bytes its read() still asks for

vars == <<core, attached, intfdata, minor, mem, kref, limit_sem, inflight,
          rurb, rlen, errors, ongoing_read, filled, copied, io_mutex,
          err_lock, disconnected, pc, rv, count>>

(* Groups of variables that actions leave alone together. *)
bus      == <<attached, intfdata, minor>>
object   == <<mem, kref>>
writes   == <<limit_sem, inflight>>
reads    == <<rurb, rlen, ongoing_read, filled, copied>>
locks    == <<io_mutex, err_lock>>
locals   == <<rv, count>>

Status == {"ok", "pipe", "unlink", "other"}

FlushPc == {"f_lock", "f_wait", "f_kill", "f_killread", "f_errors", "flushed"}
ReadPc  == {"r_lock", "r_check", "r_retry", "r_wait", "r_errors", "r_clear",
            "r_data", "r_more", "r_submit", "r_submit_more", "r_exit"}
WritePc == {"w_down", "w_errors", "w_clear", "w_alloc", "w_lock", "w_submit",
            "w_unanchor", "w_error"}
Pc      == {"closed", "o_get", "user"} \cup FlushPc \cup ReadPc \cup WritePc

ProbePc      == {"p_setup", "p_register", "p_error"}
SuspendPc    == {"s_wait", "s_kill", "s_killread", "suspended"}
ResetPc      == {"x_wait", "x_kill", "x_killread", "x_reset"}
DisconnectPc == {"d_intfdata", "d_deregister", "d_lock", "d_mark",
                 "d_killread", "d_kill", "d_put"}
CorePc       == {"unplugged", "bound", "unbound"} \cup ProbePc \cup SuspendPc
                    \cup ResetPc \cup DisconnectPc

(* A definition marked `Mutant' is a deliberate fault, put in the place of *)
(* the definition that follows it to see that a property can fail.         *)

MinOf(a, b) == IF a <= b THEN a ELSE b

Goto(t, p) == pc' = [pc EXCEPT ![t] = p]

(* The anchor `submitted' holds the URBs in flight and the ones whose      *)
(* submission failed and that their writer has not unanchored yet.         *)
AnchorEmpty == inflight = 0 /\ \A t \in Threads : pc[t] # "w_unanchor"

(* usb_kill_anchored_urbs, usb_kill_urb or the disabling of the endpoints  *)
(* makes the host controller give URBs back with an unlink status.         *)
KillingWrites ==
    \/ ~attached
    \/ core \in {"s_kill", "x_kill", "d_kill"}
    \/ \E t \in Threads : pc[t] = "f_kill"

KillingRead ==
    \/ ~attached
    \/ core \in {"s_killread", "x_killread", "d_killread"}
    \/ \E t \in Threads : pc[t] = "f_killread"

(* Tasks are frozen before drivers are suspended, and an open that meets a *)
(* suspended device waits in usb_autopm_get_interface until it is resumed. *)
Frozen == core \in SuspendPc

(* kref_put(&dev->kref, skel_delete) *)
KrefPut ==
    /\ kref' = kref - 1
    /\ mem' = IF kref = 1 THEN "freed" ELSE mem

-----------------------------------------------------------------------------
(* skel_probe *)

Init ==
    /\ core = "unplugged" /\ attached = FALSE /\ intfdata = FALSE
    /\ minor = FALSE /\ mem = "none" /\ kref = 0
    /\ limit_sem = 0 /\ inflight = 0
    /\ rurb = FALSE /\ rlen = 0 /\ ongoing_read = FALSE
    /\ filled = 0 /\ copied = 0 /\ errors = "ok"
    /\ io_mutex = NoOwner /\ err_lock = NoOwner /\ disconnected = FALSE
    /\ pc = [t \in Threads |-> "closed"]
    /\ rv = [t \in Threads |-> "ok"]
    /\ count = [t \in Threads |-> 0]

(* kzalloc of the object and the initialisation of its fields. *)
ProbeAlloc ==
    /\ core = "unplugged"
    /\ attached' = TRUE
    /\ \/ core' = "unbound" /\ UNCHANGED <<mem, kref, limit_sem>>
       \/ /\ core' = "p_setup"
          /\ mem' = "live" /\ kref' = 1 /\ limit_sem' = WRITES_IN_FLIGHT
    /\ UNCHANGED <<intfdata, minor, inflight, reads, errors, locks,
                   disconnected, pc, locals>>

(* Endpoints, bulk_in_buffer and bulk_in_urb; then usb_set_intfdata. *)
ProbeSetup ==
    /\ core = "p_setup"
    /\ \/ core' = "p_error" /\ UNCHANGED intfdata
       \/ core' = "p_register" /\ intfdata' = TRUE
    /\ UNCHANGED <<attached, minor, object, writes, reads, errors, locks,
                   disconnected, pc, locals>>

ProbeRegister ==
    /\ core = "p_register"
    /\ \/ core' = "bound" /\ minor' = TRUE /\ UNCHANGED intfdata
       \/ core' = "p_error" /\ intfdata' = FALSE /\ UNCHANGED minor
    /\ UNCHANGED <<attached, object, writes, reads, errors, locks,
                   disconnected, pc, locals>>

ProbeError ==
    /\ core = "p_error"
    /\ KrefPut
    /\ core' = "unbound"
    /\ UNCHANGED <<bus, writes, reads, errors, locks, disconnected, pc,
                   locals>>

-----------------------------------------------------------------------------
(* skel_open and skel_release *)

(* usb_open holds minor_rwsem for reading from here until OpenGet. *)
OpenFind(t) ==
    /\ pc[t] = "closed" /\ ~Frozen
    /\ minor /\ intfdata
    /\ Goto(t, "o_get")
    /\ UNCHANGED <<core, bus, object, writes, reads, errors, locks,
                   disconnected, locals>>

(* Mutant: skel_open forgets its kref_get. *)
OpenWithoutGet(t) ==
    /\ pc[t] = "o_get"
    /\ Goto(t, "closed") \/ Goto(t, "user")
    /\ UNCHANGED <<core, bus, object, writes, reads, errors, locks,
                   disconnected, locals>>

OpenGet(t) ==
    /\ pc[t] = "o_get"
    /\ \/ Goto(t, "closed") /\ UNCHANGED kref   \* usb_autopm_get_interface
       \/ Goto(t, "user") /\ kref' = kref + 1
    /\ UNCHANGED <<core, bus, mem, writes, reads, errors, locks,
                   disconnected, locals>>

Release(t) ==
    /\ pc[t] = "flushed"
    /\ KrefPut
    /\ Goto(t, "closed")
    /\ UNCHANGED <<core, bus, writes, reads, errors, locks, disconnected,
                   locals>>

-----------------------------------------------------------------------------
(* skel_flush *)

FlushCall(t) ==
    /\ pc[t] = "user" /\ ~Frozen
    /\ Goto(t, "f_lock")
    /\ UNCHANGED <<core, bus, object, writes, reads, errors, locks,
                   disconnected, locals>>

FlushLock(t) ==
    /\ pc[t] = "f_lock"
    /\ io_mutex = NoOwner
    /\ io_mutex' = t
    /\ Goto(t, "f_wait")
    /\ UNCHANGED <<core, bus, object, writes, reads, errors, err_lock,
                   disconnected, locals>>

(* skel_draw_down: usb_wait_anchor_empty_timeout returns because the       *)
(* anchor is empty, or after a second, and then the URBs are killed.       *)
FlushWait(t) ==
    /\ pc[t] = "f_wait"
    /\ \/ AnchorEmpty /\ Goto(t, "f_killread")
       \/ ~AnchorEmpty /\ Goto(t, "f_kill")
    /\ UNCHANGED <<core, bus, object, writes, reads, errors, locks,
                   disconnected, locals>>

FlushKill(t) ==
    /\ pc[t] = "f_kill"
    /\ AnchorEmpty
    /\ Goto(t, "f_killread")
    /\ UNCHANGED <<core, bus, object, writes, reads, errors, locks,
                   disconnected, locals>>

FlushKillRead(t) ==
    /\ pc[t] = "f_killread"
    /\ ~rurb
    /\ Goto(t, "f_errors")
    /\ UNCHANGED <<core, bus, object, writes, reads, errors, locks,
                   disconnected, locals>>

(* The error is read out and cleared under err_lock; io_mutex is released. *)
(* The file survives the flush when another descriptor refers to it.       *)
FlushErrors(t) ==
    /\ pc[t] = "f_errors"
    /\ err_lock = NoOwner
    /\ errors' = "ok"
    /\ io_mutex' = NoOwner
    /\ Goto(t, "flushed") \/ Goto(t, "user")
    /\ UNCHANGED <<core, bus, object, writes, reads, err_lock, disconnected,
                   locals>>

-----------------------------------------------------------------------------
(* skel_read *)

ReadCall(t) ==
    /\ pc[t] = "user" /\ ~Frozen
    /\ \E c \in Counts : count' = [count EXCEPT ![t] = c]
    /\ Goto(t, "r_lock")
    /\ UNCHANGED <<core, bus, object, writes, reads, errors, locks,
                   disconnected, rv>>

(* mutex_lock_interruptible: a signal ends the wait for a mutex in use. *)
ReadLock(t) ==
    /\ pc[t] = "r_lock"
    /\ \/ /\ io_mutex = NoOwner
          /\ io_mutex' = t
          /\ Goto(t, "r_check")
          /\ UNCHANGED count
       \/ /\ io_mutex # NoOwner
          /\ Goto(t, "user")
          /\ count' = [count EXCEPT ![t] = 0]
          /\ UNCHANGED io_mutex
    /\ UNCHANGED <<core, bus, object, writes, reads, errors, err_lock,
                   disconnected, rv>>

ReadCheck(t) ==
    /\ pc[t] = "r_check"
    /\ Goto(t, IF disconnected THEN "r_exit" ELSE "r_retry")
    /\ UNCHANGED <<core, bus, object, writes, reads, errors, locks,
                   disconnected, locals>>

(* Mutant: skel_read does not look at ongoing_read. *)
ReadRetryBlind(t) ==
    /\ pc[t] = "r_retry"
    /\ Goto(t, "r_errors") \/ Goto(t, "r_exit") \/ Goto(t, "r_wait")
    /\ UNCHANGED <<core, bus, object, writes, reads, errors, locks,
                   disconnected, locals>>

(* While a read is going on, O_NONBLOCK returns and the others wait. *)
ReadRetry(t) ==
    /\ pc[t] = "r_retry"
    /\ err_lock = NoOwner
    /\ \/ ~ongoing_read /\ Goto(t, "r_errors")
       \/ ongoing_read /\ (Goto(t, "r_exit") \/ Goto(t, "r_wait"))
    /\ UNCHANGED <<core, bus, object, writes, reads, errors, locks,
                   disconnected, locals>>

(* wait_event_interruptible(bulk_in_wait, !ongoing_read) *)
ReadWait(t) ==
    /\ pc[t] = "r_wait"
    /\ \/ ~ongoing_read /\ Goto(t, "r_errors")
       \/ ongoing_read /\ Goto(t, "r_exit")
    /\ UNCHANGED <<core, bus, object, writes, reads, errors, locks,
                   disconnected, locals>>

(* rv = dev->errors, read without err_lock. *)
ReadErrors(t) ==
    /\ pc[t] = "r_errors"
    /\ rv' = [rv EXCEPT ![t] = errors]
    /\ Goto(t, IF errors = "ok" THEN "r_data" ELSE "r_clear")
    /\ UNCHANGED <<core, bus, object, writes, reads, errors, locks,
                   disconnected, count>>

(* dev->errors = 0, again without err_lock; the error is reported. *)
ReadClear(t) ==
    /\ pc[t] = "r_clear"
    /\ errors' = "ok"
    /\ Goto(t, "r_exit")
    /\ UNCHANGED <<core, bus, object, writes, reads, locks, disconnected,
                   locals>>

Available == filled - copied

(* Mutant: the test of available < count is the wrong way round. *)
ReadCopySwapped(t) ==
    /\ pc[t] = "r_data"
    /\ filled # 0 /\ Available # 0
    /\ LET chunk == MinOf(Available, count[t])
       IN  /\ copied' = copied + chunk
           /\ count' = [count EXCEPT ![t] = @ - chunk]
    /\ Goto(t, IF count[t] < Available THEN "r_more" ELSE "r_exit")
    /\ UNCHANGED <<core, bus, object, writes, rurb, rlen, ongoing_read,
                   filled, errors, locks, disconnected, rv>>

(* Copy to the user; a failed copy_to_user consumes the bytes as well. *)
ReadCopy(t) ==
    /\ pc[t] = "r_data"
    /\ filled # 0 /\ Available # 0
    /\ LET chunk == MinOf(Available, count[t])
       IN  /\ copied' = copied + chunk
           /\ count' = [count EXCEPT ![t] = @ - chunk]
    /\ Goto(t, IF Available < count[t] THEN "r_more" ELSE "r_exit")
    /\ UNCHANGED <<core, bus, object, writes, rurb, rlen, ongoing_read,
                   filled, errors, locks, disconnected, rv>>

(* skel_do_read_io up to usb_submit_urb: fill the URB, tell everybody to   *)
(* leave it alone, and forget the data of the previous transfer.           *)
StartReadIO(t, p) ==
    /\ err_lock = NoOwner
    /\ rlen' = MinOf(BULK_IN_SIZE, count[t])
    /\ ongoing_read' = TRUE
    /\ filled' = 0
    /\ copied' = 0
    /\ Goto(t, p)
    /\ UNCHANGED <<core, bus, object, writes, rurb, errors, locks,
                   disconnected, locals>>

ReadStart(t) ==
    /\ pc[t] = "r_data"
    /\ filled = 0 \/ Available = 0
    /\ StartReadIO(t, "r_submit")

(* More was asked for than there was: start IO but do not wait for it. *)
ReadMore(t) ==
    /\ pc[t] = "r_more"
    /\ StartReadIO(t, "r_submit_more")

(* usb_submit_urb of bulk_in_urb and its error path. *)
ReadSubmit(t) ==
    /\ pc[t] \in {"r_submit", "r_submit_more"}
    /\ \/ /\ attached
          /\ rurb' = TRUE
          /\ Goto(t, IF pc[t] = "r_submit" THEN "r_retry" ELSE "r_exit")
          /\ UNCHANGED ongoing_read
       \/ /\ err_lock = NoOwner
          /\ ongoing_read' = FALSE
          /\ Goto(t, "r_exit")
          /\ UNCHANGED rurb
    /\ UNCHANGED <<core, bus, object, writes, rlen, filled, copied, errors,
                   locks, disconnected, locals>>

(* Mutant: skel_read returns without mutex_unlock. *)
ReadExitLocked(t) ==
    /\ pc[t] = "r_exit"
    /\ rv' = [rv EXCEPT ![t] = "ok"]
    /\ count' = [count EXCEPT ![t] = 0]
    /\ Goto(t, "user")
    /\ UNCHANGED <<core, bus, object, writes, reads, errors, locks,
                   disconnected>>

ReadExit(t) ==
    /\ pc[t] = "r_exit"
    /\ io_mutex' = NoOwner
    /\ rv' = [rv EXCEPT ![t] = "ok"]
    /\ count' = [count EXCEPT ![t] = 0]
    /\ Goto(t, "user")
    /\ UNCHANGED <<core, bus, object, writes, reads, errors, err_lock,
                   disconnected>>

(* skel_read_bulk_callback, with the status the URB is given back with. *)
ReadCallback(s) ==
    /\ rurb
    /\ s \in DeviceStatus \/ (s = "unlink" /\ KillingRead)
    /\ err_lock = NoOwner
    /\ \/ /\ s = "ok"
          /\ \E actual_length \in 0 .. rlen : filled' = actual_length
          /\ UNCHANGED errors
       \/ s # "ok" /\ errors' = s /\ UNCHANGED filled
    /\ ongoing_read' = FALSE
    /\ rurb' = FALSE
    /\ UNCHANGED <<core, bus, object, writes, rlen, copied, locks,
                   disconnected, pc, locals>>

-----------------------------------------------------------------------------
(* skel_write *)

WriteCall(t) ==
    /\ pc[t] = "user" /\ ~Frozen
    /\ Goto(t, "w_down")
    /\ UNCHANGED <<core, bus, object, writes, reads, errors, locks,
                   disconnected, locals>>

(* down_interruptible or down_trylock of limit_sem; with no slot left a    *)
(* signal, or O_NONBLOCK, ends the call.                                   *)
WriteDown(t) ==
    /\ pc[t] = "w_down"
    /\ \/ limit_sem > 0 /\ limit_sem' = limit_sem - 1 /\ Goto(t, "w_errors")
       \/ limit_sem = 0 /\ Goto(t, "user") /\ UNCHANGED limit_sem
    /\ UNCHANGED <<core, bus, object, inflight, reads, errors, locks,
                   disconnected, locals>>

WriteErrors(t) ==
    /\ pc[t] = "w_errors"
    /\ err_lock = NoOwner
    /\ \/ errors = "ok" /\ Goto(t, "w_alloc") /\ UNCHANGED <<rv, err_lock>>
       \/ /\ errors # "ok"
          /\ rv' = [rv EXCEPT ![t] = errors]
          /\ err_lock' = t
          /\ Goto(t, "w_clear")
    /\ UNCHANGED <<core, bus, object, writes, reads, errors, io_mutex,
                   disconnected, count>>

WriteClear(t) ==
    /\ pc[t] = "w_clear"
    /\ errors' = "ok"
    /\ err_lock' = NoOwner
    /\ Goto(t, "w_error")
    /\ UNCHANGED <<core, bus, object, writes, reads, io_mutex, disconnected,
                   locals>>

(* usb_alloc_urb, usb_alloc_coherent and copy_from_user, any may fail. *)
WriteAlloc(t) ==
    /\ pc[t] = "w_alloc"
    /\ Goto(t, "w_lock") \/ Goto(t, "w_error")
    /\ UNCHANGED <<core, bus, object, writes, reads, errors, locks,
                   disconnected, locals>>

WriteLock(t) ==
    /\ pc[t] = "w_lock"
    /\ io_mutex = NoOwner
    /\ io_mutex' = t
    /\ Goto(t, "w_submit")
    /\ UNCHANGED <<core, bus, object, writes, reads, errors, err_lock,
                   disconnected, locals>>

(* Anchor and submit the URB unless disconnect() was called. *)
WriteSubmit(t) ==
    /\ pc[t] = "w_submit"
    /\ io_mutex' = NoOwner
    /\ \/ disconnected /\ Goto(t, "w_error") /\ UNCHANGED inflight
       \/ /\ ~disconnected /\ attached
          /\ inflight' = inflight + 1
          /\ Goto(t, "user")
       \/ ~disconnected /\ Goto(t, "w_unanchor") /\ UNCHANGED inflight
    /\ UNCHANGED <<core, bus, object, limit_sem, reads, errors, err_lock,
                   disconnected, locals>>

WriteUnanchor(t) ==
    /\ pc[t] = "w_unanchor"
    /\ Goto(t, "w_error")
    /\ UNCHANGED <<core, bus, object, writes, reads, errors, locks,
                   disconnected, locals>>

(* Mutant: the error path of skel_write forgets up(&dev->limit_sem). *)
WriteErrorWithoutUp(t) ==
    /\ pc[t] = "w_error"
    /\ rv' = [rv EXCEPT ![t] = "ok"]
    /\ Goto(t, "user")
    /\ UNCHANGED <<core, bus, object, writes, reads, errors, locks,
                   disconnected, count>>

(* The error label: free the URB and its buffer, give the slot back. *)
WriteError(t) ==
    /\ pc[t] = "w_error"
    /\ limit_sem' = limit_sem + 1
    /\ rv' = [rv EXCEPT ![t] = "ok"]
    /\ Goto(t, "user")
    /\ UNCHANGED <<core, bus, object, inflight, reads, errors, locks,
                   disconnected, count>>

(* skel_write_bulk_callback *)
WriteCallback(s) ==
    /\ inflight > 0
    /\ s \in DeviceStatus \/ (s = "unlink" /\ KillingWrites)
    /\ \/ s = "ok" /\ UNCHANGED errors
       \/ s # "ok" /\ err_lock = NoOwner /\ errors' = s
    /\ inflight' = inflight - 1
    /\ limit_sem' = limit_sem + 1
    /\ UNCHANGED <<core, bus, object, reads, locks, disconnected, pc, locals>>

-----------------------------------------------------------------------------
(* skel_suspend, skel_resume, skel_pre_reset and skel_post_reset *)

(* The tasks have been frozen outside the driver before it is suspended. *)
Suspend ==
    /\ core = "bound"
    /\ \A t \in Threads : pc[t] \in {"closed", "user"}
    /\ core' = "s_wait"
    /\ UNCHANGED <<bus, object, writes, reads, errors, locks, disconnected,
                   pc, locals>>

Resume ==
    /\ core = "suspended"
    /\ core' = "bound"
    /\ UNCHANGED <<bus, object, writes, reads, errors, locks, disconnected,
                   pc, locals>>

PreReset ==
    /\ core = "bound"
    /\ io_mutex = NoOwner
    /\ io_mutex' = Core
    /\ core' = "x_wait"
    /\ UNCHANGED <<bus, object, writes, reads, errors, err_lock,
                   disconnected, pc, locals>>

PostReset ==
    /\ core = "x_reset"
    /\ errors' = "pipe"
    /\ io_mutex' = NoOwner
    /\ core' = "bound"
    /\ UNCHANGED <<bus, object, writes, reads, err_lock, disconnected, pc,
                   locals>>

(* skel_draw_down as skel_suspend and skel_pre_reset call it. *)
DrawDown ==
    /\ \/ /\ core \in {"s_wait", "x_wait"}
          /\ \/ AnchorEmpty
                /\ core' = IF core = "s_wait" THEN "s_killread"
                           ELSE "x_killread"
             \/ ~AnchorEmpty
                /\ core' = IF core = "s_wait" THEN "s_kill" ELSE "x_kill"
       \/ /\ core \in {"s_kill", "x_kill"}
          /\ AnchorEmpty
          /\ core' = IF core = "s_kill" THEN "s_killread" ELSE "x_killread"
       \/ /\ core \in {"s_killread", "x_killread"}
          /\ ~rurb
          /\ core' = IF core = "s_killread" THEN "suspended" ELSE "x_reset"
    /\ UNCHANGED <<bus, object, writes, reads, errors, locks, disconnected,
                   pc, locals>>

-----------------------------------------------------------------------------
(* skel_disconnect *)

(* usb_unbind_interface disables the endpoints before it calls the driver. *)
Unplug ==
    /\ core = "bound"
    /\ core' = "d_intfdata"
    /\ attached' = FALSE
    /\ UNCHANGED <<intfdata, minor, object, writes, reads, errors, locks,
                   disconnected, pc, locals>>

DisconnectIntfdata ==
    /\ core = "d_intfdata"
    /\ intfdata' = FALSE
    /\ core' = "d_deregister"
    /\ UNCHANGED <<attached, minor, object, writes, reads, errors, locks,
                   disconnected, pc, locals>>

(* usb_deregister_dev takes minor_rwsem for writing. *)
DisconnectDeregister ==
    /\ core = "d_deregister"
    /\ \A t \in Threads : pc[t] # "o_get"
    /\ minor' = FALSE
    /\ core' = "d_lock"
    /\ UNCHANGED <<attached, intfdata, object, writes, reads, errors, locks,
                   disconnected, pc, locals>>

DisconnectLock ==
    /\ core = "d_lock"
    /\ io_mutex = NoOwner
    /\ io_mutex' = Core
    /\ core' = "d_mark"
    /\ UNCHANGED <<bus, object, writes, reads, errors, err_lock,
                   disconnected, pc, locals>>

DisconnectMark ==
    /\ core = "d_mark"
    /\ disconnected' = TRUE
    /\ io_mutex' = NoOwner
    /\ core' = "d_killread"
    /\ UNCHANGED <<bus, object, writes, reads, errors, err_lock, pc, locals>>

DisconnectKillRead ==
    /\ core = "d_killread"
    /\ ~rurb
    /\ core' = "d_kill"
    /\ UNCHANGED <<bus, object, writes, reads, errors, locks, disconnected,
                   pc, locals>>

(* Mutant: skel_disconnect does not kill the anchored URBs. *)
DisconnectWithoutKill ==
    /\ core = "d_kill"
    /\ core' = "d_put"
    /\ UNCHANGED <<bus, object, writes, reads, errors, locks, disconnected,
                   pc, locals>>

DisconnectKill ==
    /\ core = "d_kill"
    /\ AnchorEmpty
    /\ core' = "d_put"
    /\ UNCHANGED <<bus, object, writes, reads, errors, locks, disconnected,
                   pc, locals>>

(* Mutant: skel_disconnect forgets its kref_put. *)
DisconnectWithoutPut ==
    /\ core = "d_put"
    /\ core' = "unbound"
    /\ UNCHANGED <<bus, object, writes, reads, errors, locks, disconnected,
                   pc, locals>>

DisconnectPut ==
    /\ core = "d_put"
    /\ KrefPut
    /\ core' = "unbound"
    /\ UNCHANGED <<bus, writes, reads, errors, locks, disconnected, pc,
                   locals>>

-----------------------------------------------------------------------------
Probe == ProbeAlloc \/ ProbeSetup \/ ProbeRegister \/ ProbeError

PowerAndReset == Suspend \/ Resume \/ PreReset \/ DrawDown \/ PostReset

Disconnect ==
    \/ DisconnectIntfdata \/ DisconnectDeregister \/ DisconnectLock
    \/ DisconnectMark \/ DisconnectKillRead \/ DisconnectKill
    \/ DisconnectPut

FlushStep(t) ==
    \/ FlushLock(t) \/ FlushWait(t) \/ FlushKill(t) \/ FlushKillRead(t)
    \/ FlushErrors(t) \/ Release(t)

ReadStep(t) ==
    \/ ReadLock(t) \/ ReadCheck(t) \/ ReadRetry(t) \/ ReadWait(t)
    \/ ReadErrors(t) \/ ReadClear(t) \/ ReadCopy(t) \/ ReadStart(t)
    \/ ReadMore(t) \/ ReadSubmit(t) \/ ReadExit(t)

WriteStep(t) ==
    \/ WriteDown(t) \/ WriteErrors(t) \/ WriteClear(t) \/ WriteAlloc(t)
    \/ WriteLock(t) \/ WriteSubmit(t) \/ WriteUnanchor(t) \/ WriteError(t)

(* A thread inside a call goes on by itself; starting one is its choice. *)
CallStep(t) == OpenGet(t) \/ FlushStep(t) \/ ReadStep(t) \/ WriteStep(t)
CallStart(t) == OpenFind(t) \/ FlushCall(t) \/ ReadCall(t) \/ WriteCall(t)

(* Everything is over: the device is gone and every file is closed. *)
Terminated ==
    /\ core = "unbound"
    /\ \A t \in Threads : pc[t] = "closed"
    /\ UNCHANGED vars

Next ==
    \/ Probe \/ PowerAndReset \/ Unplug \/ Disconnect
    \/ \E t \in Threads : CallStart(t) \/ CallStep(t)
    \/ \E s \in Status : ReadCallback(s) \/ WriteCallback(s)
    \/ Terminated

Spec == Init /\ [][Next]_vars

(***************************************************************************)
(* Fairness.  A thread inside a driver call keeps running, and so does the *)
(* USB core inside disconnect: nothing in them waits for the user.  The    *)
(* mutex, the spinlock and minor_rwsem hand themselves over to a waiter    *)
(* that would otherwise starve, which makes fairness of the steps that     *)
(* wait for a lock strong.  The host controller gives back the URBs that   *)
(* were killed or whose endpoint was disabled; it promises nothing about a *)
(* device that is slow to answer, so no other callback is fair.            *)
(***************************************************************************)
Fairness ==
    /\ \A t \in Threads : WF_vars(CallStep(t))
    /\ SF_vars(KillingRead /\ ReadCallback("unlink"))
    /\ SF_vars(KillingWrites /\ WriteCallback("unlink"))
    /\ SF_vars(Disconnect)

FairSpec == Spec /\ Fairness

-----------------------------------------------------------------------------
(* Properties *)

FlagsOK ==
    /\ attached \in BOOLEAN /\ intfdata \in BOOLEAN /\ minor \in BOOLEAN
    /\ rurb \in BOOLEAN /\ ongoing_read \in BOOLEAN
    /\ disconnected \in BOOLEAN

TypeOK ==
    /\ FlagsOK
    /\ core \in CorePc
    /\ mem \in {"none", "live", "freed"}
    /\ kref \in Nat /\ limit_sem \in Nat /\ inflight \in Nat
    /\ rlen \in 0 .. BULK_IN_SIZE
    /\ errors \in Status
    /\ filled \in 0 .. BULK_IN_SIZE /\ copied \in 0 .. BULK_IN_SIZE
    /\ io_mutex \in Threads \cup {Core, NoOwner}
    /\ err_lock \in Threads \cup {NoOwner}
    /\ pc \in [Threads -> Pc]
    /\ rv \in [Threads -> Status]
    /\ count \in [Threads -> Nat]

(* Places at which a call holds io_mutex, err_lock or a slot of limit_sem. *)
HoldsMutex ==
    (ReadPc \ {"r_lock"}) \cup (FlushPc \ {"f_lock", "flushed"})
        \cup {"w_submit"}
CoreHoldsMutex == ResetPc \cup {"d_mark"}
HoldsSlot == WritePc \ {"w_down"}
SlotHolders == {t \in Threads : pc[t] \in HoldsSlot}

(* Threads with a reference from skel_open; the core's own, from probe,    *)
(* lasts until skel_disconnect or the error path of skel_probe drops it.   *)
Openers == {t \in Threads : pc[t] \notin {"closed", "o_get"}}
CoreHasRef == core \notin {"unplugged", "unbound"}

(* The object is freed (skel_delete) only when no file is open or being    *)
(* opened, the core is done with it and no URB, whose callback would       *)
(* dereference urb->context, is still with the host controller.            *)
NoUseAfterFree ==
    mem # "live" =>
        /\ \A t \in Threads : pc[t] = "closed"
        /\ ~CoreHasRef
        /\ inflight = 0 /\ ~rurb

(* Nothing leaks: once the device is gone and the last file is closed the  *)
(* object has been freed.                                                  *)
NoLeak ==
    (core = "unbound" /\ Openers = {}) => mem # "live"

(* Once skel_disconnect has killed the URBs, none is ever in flight again, *)
(* however many threads are still inside read and write.                   *)
NoIOAfterDisconnect ==
    /\ core \in {"d_kill", "d_put", "unbound"} => ~rurb
    /\ core \in {"d_put", "unbound"} => inflight = 0

(* "we are sure no URBs are active" in skel_post_reset: between the end of *)
(* skel_pre_reset and skel_post_reset, and while suspended, no URB is.     *)
QuietDuringReset ==
    core \in {"x_reset", "suspended"} => (inflight = 0 /\ ~rurb)

(* Both: no URB is in flight on a device that is gone, being reset or      *)
(* suspended.                                                              *)
NoIOWhenStopped == NoIOAfterDisconnect /\ QuietDuringReset

(* limit_sem counts exactly the free slots: each of the WRITES_IN_FLIGHT   *)
(* is free, held by a write in progress or by a URB in flight.  No error   *)
(* path of skel_write and no callback loses a slot or returns it twice.    *)
SlotsConserved ==
    limit_sem + inflight + Cardinality(SlotHolders)
        = IF mem = "none" THEN 0 ELSE WRITES_IN_FLIGHT

(* "if IO is under way, we must not touch things": while bulk_in_urb is    *)
(* with the host controller, ongoing_read says so, the buffer counters are *)
(* clear, and nobody is about to fill or submit the same URB again.        *)
ReadUrbLeftAlone ==
    rurb => /\ ongoing_read
            /\ filled = 0 /\ copied = 0
            /\ \A t \in Threads :
                  pc[t] \notin {"r_data", "r_more", "r_submit",
                                "r_submit_more"}

(* ongoing_read is never left set with nothing to clear it: there is a URB *)
(* whose callback will, or a reader between setting it and submitting.     *)
(* Otherwise the next blocking read would wait for ever.                   *)
OngoingReadHasAnEnd ==
    ongoing_read =>
        rurb \/ \E t \in Threads : pc[t] \in {"r_submit", "r_submit_more"}

(* Both: the one read URB and its buffer always have exactly one owner, the *)
(* host controller or the readers, and the flag says which.                *)
ReadUrbOwned == ReadUrbLeftAlone /\ OngoingReadHasAnEnd

(* Bytes the device delivered are not thrown away: the counters are reset  *)
(* by skel_do_read_io only when everything in the buffer has been copied.  *)
NoUnreadDataDropped ==
    [][ongoing_read' /\ ~ongoing_read => copied = filled]_vars

(* A pulled device is let go of: whatever the threads do, skel_disconnect  *)
(* is not kept waiting for ever by a reader that holds io_mutex, by a      *)
(* writer or by a URB.                                                     *)
DisconnectCompletes == (core = "d_intfdata") ~> (core = "unbound")

(* "any error is reported once": an error that a read is about to report   *)
(* has not already been reported, and cleared, by another call.            *)
ErrorReportedOnce ==
    \A t \in Threads : pc[t] = "r_clear" => errors # "ok"

-----------------------------------------------------------------------------
(* The inductive invariant behind the theorems of UsbSkelProofs. *)

(* A lock is held exactly by the one whose place in the code says so. *)
MutexInv ==
    /\ \A t \in Threads : (io_mutex = t) <=> (pc[t] \in HoldsMutex)
    /\ (io_mutex = Core) <=> (core \in CoreHoldsMutex)

SubmitPc == {"r_submit", "r_submit_more"}

(* Places of skel_read past the test of disconnected and before the exit. *)
PastCheck == ReadPc \ {"r_lock", "r_check", "r_exit"}

Idle == inflight = 0 /\ ~rurb

(* What each phase of the device's life excludes. *)
PhaseInv ==
    /\ core \in {"unplugged"} \cup ProbePc =>
          ~minor /\ Idle /\ \A t \in Threads : pc[t] = "closed"
    /\ core \in {"d_lock", "d_mark", "d_killread", "d_kill", "d_put",
                 "unbound"} =>
          ~minor /\ \A t \in Threads : pc[t] # "o_get"
    /\ core \in {"d_killread", "d_kill", "d_put"} => disconnected
    /\ disconnected =>
          /\ core \in {"d_killread", "d_kill", "d_put", "unbound"}
          /\ \A t \in Threads : pc[t] \notin PastCheck
    /\ core = "unbound" =>
          disconnected \/ \A t \in Threads : pc[t] = "closed"
    /\ core \in SuspendPc =>
          \A t \in Threads : pc[t] \in {"closed", "user"}
    /\ core \in {"s_killread", "x_killread"} => inflight = 0

(* kref counts the open files and the core; the object lives as long. *)
RefInv ==
    /\ kref = Cardinality(Openers) + (IF CoreHasRef THEN 1 ELSE 0)
    /\ mem = "live" <=> kref > 0
    /\ core = "unplugged" => mem = "none"

(* The read buffer, bulk_in_urb and the readers agree on who owns them. *)
ReadInv ==
    /\ copied <= filled
    /\ rurb => ongoing_read
    /\ ongoing_read => filled = 0
    /\ \A t \in Threads :
          /\ pc[t] \in SubmitPc => ongoing_read /\ ~rurb
          /\ pc[t] \in {"r_errors", "r_clear", "r_data", "r_more"} =>
                ~ongoing_read
          /\ pc[t] = "r_more" => copied = filled

IInv ==
    /\ TypeOK /\ MutexInv /\ PhaseInv /\ RefInv /\ ReadInv
    /\ NoIOAfterDisconnect /\ QuietDuringReset /\ OngoingReadHasAnEnd
    /\ SlotsConserved
=============================================================================
