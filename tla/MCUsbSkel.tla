----------------------------- MODULE MCUsbSkel -----------------------------
(* Instances of UsbSkel for TLC: see the .cfg files for the constants. *)
EXTENDS UsbSkel, TLC

ThreadSymmetry == Permutations(Threads)
=============================================================================
