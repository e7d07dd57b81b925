--------------------------- MODULE UsbMouseProofs ---------------------------
(***************************************************************************)
(* Proofs about the mouse driver, for any number of devices and users.     *)
(*                                                                         *)
(* That an open mouse is polled and a closed one is not are proved         *)
(* together: the handler may submit the URB again only because a handler   *)
(* runs for a user or for a usb_kill_urb that rejects it, and it must only *)
(* because usb_kill_urb runs when there is no user (UserInv).  MajorInv    *)
(* follows the one device that is being probed, bound or disconnected.     *)
(***************************************************************************)
EXTENDS UsbMouse, TLAPS

(* The types are kept.                                                     *)
LEMMA TypeStep ==
    ASSUME TypeOK, [Next]_vars
    PROVE  TypeOK'
<1> USE MouseAssumption, NoDeviceAssumption DEF TypeOK, Bind, Set, life, poll
<1>1. ASSUME NEW d \in Devices, ProbeAlloc(d)
      PROVE  TypeOK'
  BY <1>1 DEF ProbeAlloc
<1>2. ASSUME NEW d \in Devices, ProbeInput(d)
      PROVE  TypeOK'
  BY <1>2 DEF ProbeInput
<1>3. ASSUME NEW d \in Devices, ProbeMajor(d) \/ ProbeFlag(d)
      PROVE  TypeOK'
  BY <1>3 DEF ProbeMajor, ProbeFlag
<1>4. ASSUME NEW d \in Devices, DisconnectTest(d)
      PROVE  TypeOK'
  BY <1>4 DEF DisconnectTest
<1>5. ASSUME NEW d \in Devices, DisconnectClear(d)
      PROVE  TypeOK'
  BY <1>5 DEF DisconnectClear
<1>6. ASSUME NEW d \in Devices, Complete(d)
      PROVE  TypeOK'
  BY <1>6 DEF Complete
<1>7. ASSUME NEW d \in Devices, IrqSubmit(d)
      PROVE  TypeOK'
  <2>1. CASE irq[d] = "again" /\ urb' = Set(urb, d, "flying")
    BY <1>7, <2>1 DEF IrqSubmit, Submit
  <2>2. CASE UNCHANGED urb
    BY <1>7, <2>2 DEF IrqSubmit, Submit
  <2> QED
    BY <1>7, <2>1, <2>2 DEF IrqSubmit, Submit
<1>8. ASSUME NEW d \in Devices, IrqTail(d)
      PROVE  TypeOK'
  BY <1>8 DEF IrqTail
<1>9. ASSUME NEW d \in Devices, Killed(d)
      PROVE  TypeOK'
  BY <1>9 DEF Killed
<1>10. ASSUME NEW d \in Devices, Unplug(d)
      PROVE  TypeOK'
  BY <1>10 DEF Unplug, Flush
<1>11. ASSUME NEW d \in Devices, Unbind(d)
      PROVE  TypeOK'
  BY <1>11 DEF Unbind, Flush
<1>12. ASSUME NEW d \in Devices, usb_mouse_open(d)
      PROVE  TypeOK'
  <2>1. users' \in [Devices -> 0 .. MaxUsers] /\ UNCHANGED <<irq, killing>>
    BY <1>12 DEF usb_mouse_open
  <2>2. UNCHANGED life
    BY <1>12, Zenon DEF usb_mouse_open
  <2>3. Submit(d) \/ UNCHANGED <<urb, failed>>
    BY <1>12, Zenon DEF usb_mouse_open
  <2>4. urb' \in [Devices -> {"idle", "flying"}]
    BY <2>3 DEF Submit
  <2>5. failed' \in [Devices -> BOOLEAN]
    BY <2>3 DEF Submit
  <2> QED
    BY <2>1, <2>2, <2>4, <2>5
<1>13. ASSUME NEW d \in Devices, usb_mouse_close(d)
      PROVE  TypeOK'
  BY <1>13 DEF usb_mouse_close
<1>14. CASE usb_exit \/ Gone \/ UNCHANGED vars
  BY <1>14 DEF usb_exit, Gone, vars
<1> QED
  BY <1>1, <1>2, <1>3, <1>4, <1>5, <1>6, <1>7, <1>8, <1>9, <1>10, <1>11,
     <1>12, <1>13, <1>14
     DEF Next, Core, Irq, Stopped

(* Every step keeps what the URB, its handler and the users know of each   *)
(* other.                                                                  *)
LEMMA UserStep ==
    ASSUME TypeOK, UserInv, PollOnlyForUsers, PollContinues, [Next]_vars
    PROVE  UserInv' /\ PollOnlyForUsers' /\ PollContinues'
<1> USE MouseAssumption, NoDeviceAssumption DEF TypeOK, UserInv,
        PollOnlyForUsers, PollContinues, Bind, Set, life, poll
<1>1. ASSUME NEW d \in Devices, ProbeAlloc(d)
      PROVE  UserInv' /\ PollOnlyForUsers' /\ PollContinues'
  BY <1>1 DEF ProbeAlloc
<1>2. ASSUME NEW d \in Devices, ProbeInput(d)
      PROVE  UserInv' /\ PollOnlyForUsers' /\ PollContinues'
  BY <1>2 DEF ProbeInput
<1>3. ASSUME NEW d \in Devices, ProbeMajor(d) \/ ProbeFlag(d)
      PROVE  UserInv' /\ PollOnlyForUsers' /\ PollContinues'
  BY <1>3 DEF ProbeMajor, ProbeFlag
<1>4. ASSUME NEW d \in Devices, DisconnectTest(d)
      PROVE  UserInv' /\ PollOnlyForUsers' /\ PollContinues'
  BY <1>4 DEF DisconnectTest
<1>5. ASSUME NEW d \in Devices, DisconnectClear(d)
      PROVE  UserInv' /\ PollOnlyForUsers' /\ PollContinues'
  BY <1>5 DEF DisconnectClear
<1>6. ASSUME NEW d \in Devices, Complete(d)
      PROVE  UserInv' /\ PollOnlyForUsers' /\ PollContinues'
  BY <1>6 DEF Complete
<1>7. ASSUME NEW d \in Devices, IrqSubmit(d)
      PROVE  UserInv' /\ PollOnlyForUsers' /\ PollContinues'
  BY <1>7 DEF IrqSubmit, Submit
<1>8. ASSUME NEW d \in Devices, IrqTail(d)
      PROVE  UserInv' /\ PollOnlyForUsers' /\ PollContinues'
  BY <1>8 DEF IrqTail
<1>9. ASSUME NEW d \in Devices, Killed(d)
      PROVE  UserInv' /\ PollOnlyForUsers' /\ PollContinues'
  BY <1>9 DEF Killed
<1>10. ASSUME NEW d \in Devices, Unplug(d)
      PROVE  UserInv' /\ PollOnlyForUsers' /\ PollContinues'
  BY <1>10 DEF Unplug, Flush
<1>11. ASSUME NEW d \in Devices, Unbind(d)
      PROVE  UserInv' /\ PollOnlyForUsers' /\ PollContinues'
  BY <1>11 DEF Unbind, Flush
<1>12. ASSUME NEW d \in Devices, usb_mouse_open(d)
      PROVE  UserInv' /\ PollOnlyForUsers' /\ PollContinues'
  BY <1>12 DEF usb_mouse_open, Submit
<1>13. ASSUME NEW d \in Devices, usb_mouse_close(d)
      PROVE  UserInv' /\ PollOnlyForUsers' /\ PollContinues'
  BY <1>13 DEF usb_mouse_close
<1>14. CASE usb_exit \/ Gone \/ UNCHANGED vars
  BY <1>14 DEF usb_exit, Gone, vars
<1> QED
  BY <1>1, <1>2, <1>3, <1>4, <1>5, <1>6, <1>7, <1>8, <1>9, <1>10, <1>11,
     <1>12, <1>13, <1>14
     DEF Next, Core, Irq, Stopped

(* So does, for the device number, every step that does not let a second   *)
(* device in.                                                              *)
LEMMA MajorStep ==
    ASSUME TypeOK, UserInv, ~overlap => MajorInv, ~overlap', [Next]_vars
    PROVE  MajorInv'
<1> USE MouseAssumption, NoDeviceAssumption DEF TypeOK, UserInv, MajorInv,
        Active, Bind, Set, life, poll
<1>1. ASSUME NEW d \in Devices, ProbeAlloc(d)
      PROVE  MajorInv'
  <2>1. ~overlap /\ \A e \in Devices \ {d} : bind[e] \notin Active
    BY <1>1, Zenon DEF ProbeAlloc
  <2>2. bind[d] \notin Active
    BY <1>1 DEF ProbeAlloc
  <2> QED
    BY <1>1, <2>1, <2>2 DEF ProbeAlloc
<1>2. ASSUME NEW d \in Devices, ProbeInput(d)
      PROVE  MajorInv'
  BY <1>2 DEF ProbeInput
<1>3. ASSUME NEW d \in Devices, ProbeMajor(d) \/ ProbeFlag(d)
      PROVE  MajorInv'
  BY <1>3 DEF ProbeMajor, ProbeFlag
<1>4. ASSUME NEW d \in Devices, DisconnectTest(d)
      PROVE  MajorInv'
  BY <1>4 DEF DisconnectTest
<1>5. ASSUME NEW d \in Devices, DisconnectClear(d)
      PROVE  MajorInv'
  BY <1>5 DEF DisconnectClear
<1>6. ASSUME NEW d \in Devices, Unplug(d) \/ Unbind(d)
      PROVE  MajorInv'
  BY <1>6 DEF Unplug, Unbind
<1>7. CASE UNCHANGED life \/ usb_exit \/ Gone \/ UNCHANGED vars
  BY <1>7 DEF usb_exit, Gone, vars
<1> QED
  BY <1>1, <1>2, <1>3, <1>4, <1>5, <1>6, <1>7
     DEF Next, Core, Irq, Stopped, Complete, IrqSubmit, IrqTail, Killed,
         usb_mouse_open, usb_mouse_close

(* The inductive invariant of the driver.                                  *)
THEOREM MouseInvariance == Spec => []MouseInv
<1>1. Init => MouseInv
  <2> SUFFICES ASSUME Init PROVE MouseInv
    OBVIOUS
  <2> USE MouseAssumption, NoDeviceAssumption DEF Init, All
  <2>1. TypeOK
    <3>1. overlap \in BOOLEAN
      BY Zenon
    <3>2. /\ inp \in [Devices -> BOOLEAN] /\ ep \in [Devices -> BOOLEAN]
          /\ killing \in [Devices -> BOOLEAN]
          /\ failed \in [Devices -> BOOLEAN]
      BY Zenon
    <3>3. /\ port \in [Devices -> {"out", "in", "pulled"}]
          /\ bind \in [Devices -> Bind]
          /\ urb \in [Devices -> {"idle", "flying"}]
          /\ irq \in [Devices -> {"none", "again", "unlinked", "tail"}]
      BY DEF Bind
    <3>4. users \in [Devices -> 0 .. MaxUsers] /\ registered \in {0, 1}
      OBVIOUS
    <3> QED
      BY <3>1, <3>2, <3>3, <3>4 DEF TypeOK
  <2>2. UserInv /\ PollOnlyForUsers /\ PollContinues
    BY DEF UserInv, PollOnlyForUsers, PollContinues
  <2>3. MajorInv
    BY DEF MajorInv, Active
  <2> QED
    BY <2>1, <2>2, <2>3, Zenon DEF MouseInv
<1>2. MouseInv /\ [Next]_vars => MouseInv'
  BY TypeStep, UserStep, MajorStep DEF MouseInv
<1> QED
  BY <1>1, <1>2, PTL DEF Spec

(* A closed mouse is not polled: after usb_mouse_close neither the URB nor *)
(* its handler is around, for any number of devices.                       *)
THEOREM ClosedIsQuiet == Spec => []PollOnlyForUsers
<1>1. MouseInv => PollOnlyForUsers
  BY DEF MouseInv
<1> QED
  BY <1>1, MouseInvariance, PTL

(* An open mouse is polled until a submission fails or the device goes.    *)
THEOREM OpenIsPolled == Spec => []PollContinues
<1>1. MouseInv => PollContinues
  BY DEF MouseInv
<1> QED
  BY <1>1, MouseInvariance, PTL

(* Devices that come one after the other find the number free and give it  *)
(* back, whatever their probes ran into.                                   *)
THEOREM NumberGivenBack == Spec => []MajorTracked
<1>1. MouseInv => MajorTracked
  BY DEF MouseInv, MajorInv, MajorTracked
<1> QED
  BY <1>1, MouseInvariance, PTL
=============================================================================
