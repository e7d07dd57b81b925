------------------------------ MODULE UsbMouse ------------------------------
(***************************************************************************)
(* The mouse driver of src/USB/usbdrv1.c.  A probed device becomes an      *)
(* input device, whose first user starts an interrupt URB and whose last   *)
(* user kills it, and the owner of the driver's character device number.   *)
(* The completion handler submits the URB again, so it is in flight for as *)
(* long as anybody reads the mouse.                                        *)
(*                                                                         *)
(* The input core calls open for the first and close for the last user,    *)
(* one at a time for each device.  The USB core probes and disconnects one *)
(* device at a time, but several devices at once; before it disconnects a  *)
(* driver it disables the endpoint, which unlinks the URB.                 *)
(***************************************************************************)
EXTENDS Integers, FiniteSets

CONSTANTS
    Devices,    \* the devices that are plugged in, each at most once
    MaxUsers    \* bound: users of one input device

ASSUME MouseAssumption == IsFiniteSet(Devices) /\ MaxUsers \in Nat \ {0}

VARIABLES
    modl,       \* the module: "loaded", "leaving" or "gone"
    port,       \* per device: "out", "in" or "pulled"
    bind,       \* per device: the place in dev_probe and dev_disconnect
    inp,        \* per device: its input device is registered
    ep,         \* per device: the endpoint accepts URBs
    users,      \* per device: users of the input device
    urb,        \* per device: mouse->irq is "idle" or "flying"
    irq,        \* per device: the place in usb_mouse_irq
    killing,    \* per device: usb_kill_urb is rejecting and waiting
    failed,     \* history, per device: a submission failed since the open
    major,      \* the device that has register_chrdev, or NoDevice
    registered,
    overlap     \* history: a device was probed while another was not done

vars == <<modl, port, bind, inp, ep, users, urb, irq, killing, failed,
          major, registered, overlap>>
life == <<modl, port, bind, inp, ep, major, registered, overlap>>
poll == <<users, urb, irq, killing, failed>>

(* A device is probed ("input", "major", "flag"), then bound or refused or *)
(* left with an error ("error", the input device stays), and disconnected  *)
(* ("test", "clear", "unbound").                                           *)
Bind == {"new", "input", "major", "flag", "bound", "refused", "error",
         "test", "clear", "unbound"}
Active == {"input", "major", "flag", "bound", "test", "clear"}

All(v) == [d \in Devices |-> v]
Set(f, d, v) == [f EXCEPT ![d] = v]

CONSTANT NoDevice
ASSUME NoDeviceAssumption == NoDevice \notin Devices

Init ==
    /\ modl = "loaded" /\ port = All("out") /\ bind = All("new")
    /\ inp = All(FALSE) /\ ep = All(FALSE)
    /\ users = All(0) /\ urb = All("idle") /\ irq = All("none")
    /\ killing = All(FALSE) /\ failed = All(FALSE)
    /\ major = NoDevice /\ registered = 0 /\ overlap = FALSE

-----------------------------------------------------------------------------
(* dev_probe *)

(* Not one interrupt-in endpoint, or an allocation fails (the ladder at    *)
(* the end frees what there is), or neither.                               *)
ProbeAlloc(d) ==
    /\ modl = "loaded" /\ port[d] = "out"
    /\ port' = Set(port, d, "in") /\ ep' = Set(ep, d, TRUE)
    /\ overlap' = (overlap \/ \E e \in Devices \ {d} : bind[e] \in Active)
    /\ \E b \in {"refused", "input"} : bind' = Set(bind, d, b)
    /\ UNCHANGED <<modl, inp, major, registered, poll>>

(* input_register_device: from here on the mouse can be opened. *)
ProbeInput(d) ==
    /\ bind[d] = "input"
    /\ \/ bind' = Set(bind, d, "major") /\ inp' = Set(inp, d, TRUE)
       \/ bind' = Set(bind, d, "refused") /\ UNCHANGED inp
    /\ UNCHANGED <<modl, port, ep, major, registered, overlap, poll>>

(* register_chrdev gives the number to one device at a time; it may fail   *)
(* for other reasons, too.                                                 *)
ProbeMajor(d) ==
    /\ bind[d] = "major"
    /\ \/ /\ major = NoDevice /\ major' = d
          /\ bind' = Set(bind, d, "flag")
          /\ UNCHANGED registered
       \/ /\ bind' = Set(bind, d, "error") /\ registered' = 0
          /\ UNCHANGED major
    /\ UNCHANGED <<modl, port, inp, ep, overlap, poll>>

ProbeFlag(d) ==
    /\ bind[d] = "flag"
    /\ registered' = 1 /\ bind' = Set(bind, d, "bound")
    /\ UNCHANGED <<modl, port, inp, ep, major, overlap, poll>>

-----------------------------------------------------------------------------
(* usb_mouse_open and usb_mouse_close, called by the input core.  The      *)
(* former reports success even if the URB was not submitted.               *)

(* usb_submit_urb may always fail, and does on a disabled endpoint or while *)
(* the URB is being killed.                                                *)
Submit(d) ==
    \/ /\ ep[d] /\ ~killing[d]
       /\ urb' = Set(urb, d, "flying") /\ failed' = Set(failed, d, FALSE)
    \/ UNCHANGED urb /\ failed' = Set(failed, d, TRUE)

usb_mouse_open(d) ==
    /\ inp[d] /\ modl # "gone" /\ ~killing[d] /\ users[d] < MaxUsers
    /\ users' = Set(users, d, users[d] + 1)
    /\ IF users[d] = 0 THEN Submit(d) ELSE UNCHANGED <<urb, failed>>
    /\ UNCHANGED <<irq, killing, life>>

(* Mutant: usb_unlink_urb, which neither rejects nor waits. *)
CloseUnlink(d) ==
    /\ users[d] > 0 /\ modl # "gone"
    /\ users' = Set(users, d, users[d] - 1)
    /\ IF users[d] = 1 /\ urb[d] = "flying"
         THEN urb' = Set(urb, d, "idle") /\ irq' = Set(irq, d, "unlinked")
         ELSE UNCHANGED <<urb, irq>>
    /\ UNCHANGED <<killing, failed, life>>

usb_mouse_close(d) ==
    /\ users[d] > 0 /\ ~killing[d] /\ modl # "gone"
    /\ users' = Set(users, d, users[d] - 1)
    /\ killing' = Set(killing, d, users[d] = 1)
    /\ UNCHANGED <<urb, irq, failed, life>>

(* usb_kill_urb returns when neither the URB nor its handler is around. *)
Killed(d) ==
    /\ killing[d] /\ urb[d] = "idle" /\ irq[d] = "none"
    /\ killing' = Set(killing, d, FALSE)
    /\ UNCHANGED <<users, urb, irq, failed, life>>

(* The device answers, with or without an error, or the URB is unlinked by *)
(* usb_kill_urb.  One handler of a URB runs at a time.                     *)
Complete(d) ==
    /\ urb[d] = "flying" /\ irq[d] = "none"
    /\ urb' = Set(urb, d, "idle")
    /\ \/ irq' = Set(irq, d, "again")
       \/ killing[d] /\ irq' = Set(irq, d, "unlinked")
    /\ UNCHANGED <<users, killing, failed, life>>

(* Mutant: the URB is not submitted again. *)
IrqOnce(d) ==
    /\ irq[d] \in {"again", "unlinked"}
    /\ irq' = Set(irq, d, IF irq[d] = "again" THEN "tail" ELSE "none")
    /\ UNCHANGED <<users, urb, killing, failed, life>>

(* Mutant: the handler does not give up when the URB is not accepted. *)
IrqRetry(d) ==
    /\ irq[d] \in {"again", "unlinked"}
    /\ IF irq[d] = "again"
         THEN Submit(d) /\ irq' = IF failed'[d] THEN irq
                                  ELSE Set(irq, d, "tail")
         ELSE irq' = Set(irq, d, "none") /\ UNCHANGED <<urb, failed>>
    /\ UNCHANGED <<users, killing, life>>

(* usb_mouse_irq: after an unlink it returns, otherwise it submits the URB *)
(* again and goes on to read the data buffer.                              *)
IrqSubmit(d) ==
    /\ irq[d] \in {"again", "unlinked"}
    /\ IF irq[d] = "again"
         THEN Submit(d) /\ irq' = Set(irq, d, "tail")
         ELSE irq' = Set(irq, d, "none") /\ UNCHANGED <<urb, failed>>
    /\ UNCHANGED <<users, killing, life>>

IrqTail(d) ==
    /\ irq[d] = "tail"
    /\ irq' = Set(irq, d, "none")
    /\ UNCHANGED <<users, urb, killing, failed, life>>

-----------------------------------------------------------------------------
(* Unplugging, rmmod, and dev_disconnect *)

(* The endpoint is disabled and its URB given back as unlinked; a handler  *)
(* that runs is not waited for (it would be called once more, to return).  *)
Flush(d) ==
    /\ urb' = Set(urb, d, "idle")
    /\ irq' = IF urb[d] = "flying" /\ irq[d] = "none"
              THEN Set(irq, d, "unlinked") ELSE irq
    /\ UNCHANGED <<users, killing, failed>>

Unplug(d) ==
    /\ port[d] = "in" /\ bind[d] \in {"bound", "refused", "error", "unbound"}
    /\ modl # "gone"
    /\ port' = Set(port, d, "pulled") /\ ep' = Set(ep, d, FALSE)
    /\ bind' = IF bind[d] = "bound" THEN Set(bind, d, "test") ELSE bind
    /\ Flush(d)
    /\ UNCHANGED <<modl, inp, major, registered, overlap>>

(* usb_deregister: every bound device is disconnected. *)
usb_exit ==
    /\ modl = "loaded" /\ modl' = "leaving"
    /\ UNCHANGED <<port, bind, inp, ep, major, registered, overlap,
                   poll>>

Unbind(d) ==
    /\ modl = "leaving" /\ bind[d] = "bound"
    /\ bind' = Set(bind, d, "test") /\ ep' = Set(ep, d, FALSE)
    /\ Flush(d)
    /\ UNCHANGED <<modl, port, inp, major, registered, overlap>>

Gone ==
    /\ modl = "leaving" /\ \A d \in Devices : bind[d] \notin Active
    /\ modl' = "gone"
    /\ UNCHANGED <<port, bind, inp, ep, major, registered, overlap,
                   poll>>

(* usb_deregister_dev finds no minor and does nothing. *)
DisconnectTest(d) ==
    /\ bind[d] = "test"
    /\ major' = IF registered = 1 THEN NoDevice ELSE major
    /\ bind' = Set(bind, d, "clear")
    /\ UNCHANGED <<modl, port, inp, ep, registered, overlap, poll>>

(* Mutant: `registered' is not reset. *)
DisconnectKeep(d) ==
    /\ bind[d] = "clear" /\ bind' = Set(bind, d, "unbound")
    /\ ep' = Set(ep, d, port[d] = "in")
    /\ UNCHANGED <<modl, port, inp, registered, major, overlap, poll>>

(* The input device stays.  The endpoint of a device that is still there   *)
(* is enabled again for the next driver.                                   *)
DisconnectClear(d) ==
    /\ bind[d] = "clear"
    /\ registered' = 0 /\ bind' = Set(bind, d, "unbound")
    /\ ep' = Set(ep, d, port[d] = "in")
    /\ UNCHANGED <<modl, port, inp, major, overlap, poll>>

-----------------------------------------------------------------------------
Core(d) ==
    \/ ProbeInput(d) \/ ProbeMajor(d) \/ ProbeFlag(d)
    \/ DisconnectTest(d) \/ DisconnectClear(d)
Irq(d) == Complete(d) \/ IrqSubmit(d) \/ IrqTail(d)

Stopped == modl = "gone" /\ UNCHANGED vars

Next ==
    \/ \E d \in Devices :
          \/ ProbeAlloc(d) \/ Core(d) \/ Irq(d) \/ Unplug(d) \/ Unbind(d)
          \/ usb_mouse_open(d) \/ usb_mouse_close(d) \/ Killed(d)
    \/ usb_exit \/ Gone \/ Stopped

Spec == Init /\ [][Next]_vars
FairSpec ==
    /\ Spec
    /\ \A d \in Devices :
          /\ WF_vars((killing[d] \/ irq[d] # "none") /\ Irq(d))
          /\ WF_vars(Killed(d))

-----------------------------------------------------------------------------
(* Properties *)

(* Once the last user's close has returned the URB is not in flight and    *)
(* its handler does not run, however close and completion meet; and it is  *)
(* never in flight on the endpoint of a device that was pulled.            *)
PollOnlyForUsers ==
    \A d \in Devices :
        /\ (users[d] = 0 /\ ~killing[d]) => urb[d] = "idle" /\ irq[d] = "none"
        /\ urb[d] = "flying" => ep[d]

(* An open mouse is polled without a gap, errors included, until a         *)
(* submission fails or the device goes; a device whose probe failed at     *)
(* register_chrdev after its input device was registered is no exception.  *)
PollContinues ==
    \A d \in Devices :
        (users[d] > 0 /\ bind[d] # "unbound" /\ ep[d] /\ ~failed[d]) =>
            urb[d] = "flying" \/ irq[d] = "again"

(* As long as no device is probed before another one is done with, the     *)
(* device number is taken while a device is bound and free otherwise.      *)
MajorTracked ==
    ~overlap =>
        /\ \A d \in Devices :
              bind[d] = "bound" => major = d /\ registered = 1
        /\ (\A d \in Devices : bind[d] \notin Active) =>
              major = NoDevice /\ registered = 0

(* usb_mouse_close returns: the handler that submits the URB again does    *)
(* not keep usb_kill_urb waiting for ever.                                 *)
CloseReturns == \A d \in Devices : killing[d] ~> ~killing[d]

-----------------------------------------------------------------------------
(* The inductive invariant behind the theorems of UsbMouseProofs. *)

TypeOK ==
    /\ modl \in {"loaded", "leaving", "gone"}
    /\ port \in [Devices -> {"out", "in", "pulled"}]
    /\ bind \in [Devices -> Bind]
    /\ inp \in [Devices -> BOOLEAN] /\ ep \in [Devices -> BOOLEAN]
    /\ users \in [Devices -> 0 .. MaxUsers]
    /\ urb \in [Devices -> {"idle", "flying"}]
    /\ irq \in [Devices -> {"none", "again", "unlinked", "tail"}]
    /\ killing \in [Devices -> BOOLEAN] /\ failed \in [Devices -> BOOLEAN]
    /\ major \in Devices \cup {NoDevice} /\ registered \in {0, 1}
    /\ overlap \in BOOLEAN

(* An endpoint needs its device, a user the input device, and usb_kill_urb *)
(* is called when the last user has gone.                                  *)
UserInv ==
    \A d \in Devices :
        /\ ep[d] => port[d] = "in"
        /\ port[d] = "out" => users[d] = 0 /\ bind[d] = "new" /\ ~inp[d]
        /\ bind[d] = "new" => port[d] = "out"
        /\ users[d] > 0 => inp[d]
        /\ killing[d] => users[d] = 0

(* One device at a time: where it is says what became of the number. *)
MajorInv ==
    /\ \A d, e \in Devices : bind[d] \in Active /\ bind[e] \in Active => d = e
    /\ (\A d \in Devices : bind[d] \notin Active) =>
          major = NoDevice /\ registered = 0
    /\ \A d \in Devices :
          /\ bind[d] \in {"input", "major"} =>
                major = NoDevice /\ registered = 0
          /\ bind[d] = "flag" => major = d
          /\ bind[d] \in {"bound", "test"} => major = d /\ registered = 1
          /\ bind[d] = "clear" => major = NoDevice

MouseInv ==
    /\ TypeOK /\ UserInv /\ PollOnlyForUsers /\ PollContinues
    /\ ~overlap => MajorInv
=============================================================================
