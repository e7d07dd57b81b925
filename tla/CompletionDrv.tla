--------------------------- MODULE CompletionDrv ---------------------------
(***************************************************************************)
(* The driver of src/Completion/comp1.c: every read of the device signals  *)
(* a completion, a kernel thread waits for it and reports where the event  *)
(* came from, and the module's exit signals it once more so that the       *)
(* thread ends.  completion_flag says who signalled; nothing protects it.  *)
(*                                                                         *)
(* wait_for_completion takes one from the count `done' of the completion,  *)
(* complete adds one, completion_done looks whether it is zero.            *)
(***************************************************************************)
EXTENDS Integers, FiniteSets

CONSTANTS
    Readers,    \* tasks that have the device open and read it
    MaxReads    \* bound: calls of test_read in a behaviour

ASSUME ReadersAssumption == IsFiniteSet(Readers) /\ MaxReads \in Nat

VARIABLES
    mod,                \* where test_driver_init and test_driver_exit are
    device,             \* what class_create and device_create have made
    done,               \* data_read_done
    completion_flag,
    read_count,         \* events the thread has reported as reads
    thread,             \* where wait_function is
    pc,                 \* per task: the place in test_read
    calls,              \* history: calls of test_read so far
    noticed             \* history: per task, the thread saw its last read

vars == <<mod, device, done, completion_flag, read_count, thread, pc, calls,
          noticed>>

ThreadPc == {"none", "wait", "woken", "report", "clear", "returned"}
ModPc    == {"unloaded", "create", "loaded", "x_flag", "x_complete",
             "x_destroy", "gone", "failed", "oops"}
Devices  == {"none", "file", "no_class"}
Pc       == {"user", "check", "complete"}

Init ==
    /\ mod = "unloaded" /\ thread = "none" /\ device = "none"
    /\ done = 0 /\ completion_flag = 0 /\ read_count = 0
    /\ pc = [r \in Readers |-> "user"]
    /\ calls = 0 /\ noticed = [r \in Readers |-> TRUE]

(* test_driver_init, up to the thread.  A failure that is noticed ends it; *)
(* class_create and device_create fail by an error pointer, which the test *)
(* for NULL lets through: then there is no device file, or no class either.*)
Load ==
    /\ mod = "unloaded"
    /\ \/ mod' = "create" /\ device' \in Devices
       \/ mod' = "failed" /\ device' = device
    /\ UNCHANGED <<done, completion_flag, read_count, thread, pc, calls,
                   noticed>>

(* kthread_create: NULL leaves the module without its thread, an error     *)
(* pointer is handed to wake_up_process.                                   *)
CreateThread ==
    /\ mod = "create"
    /\ \/ mod' = "loaded" /\ thread' \in {"none", "wait"}
       \/ mod' = "oops" /\ thread' = thread
    /\ UNCHANGED <<device, done, completion_flag, read_count, pc, calls,
                   noticed>>

-----------------------------------------------------------------------------
(* wait_function *)

(* A definition marked `Mutant' is a deliberate fault, put in the place of *)
(* the definition that follows it to see that a property can fail.         *)

WaitForCompletion ==
    /\ thread = "wait"
    /\ done > 0
    /\ done' = done - 1
    /\ thread' = "woken"
    /\ noticed' = [r \in Readers |-> noticed[r] \/ pc[r] = "user"]
    /\ UNCHANGED <<mod, device, completion_flag, read_count, pc, calls>>

(* "Event Came From Exit Function", or from the read function. *)
TestFlag ==
    /\ thread = "woken"
    /\ thread' = IF completion_flag = 2 THEN "returned" ELSE "report"
    /\ UNCHANGED <<mod, device, done, completion_flag, read_count, pc, calls,
                   noticed>>

Report ==
    /\ thread = "report"
    /\ read_count' = read_count + 1
    /\ thread' = "clear"
    /\ UNCHANGED <<mod, device, done, completion_flag, pc, calls, noticed>>

ClearFlag ==
    /\ thread = "clear"
    /\ completion_flag' = 0
    /\ thread' = "wait"
    /\ UNCHANGED <<mod, device, done, read_count, pc, calls, noticed>>

-----------------------------------------------------------------------------
(* test_read *)

ReadCall(r) ==
    /\ mod \in {"create", "loaded"} /\ device = "file"
    /\ pc[r] = "user" /\ calls < MaxReads
    /\ completion_flag' = 1
    /\ calls' = calls + 1
    /\ noticed' = [noticed EXCEPT ![r] = FALSE]
    /\ pc' = [pc EXCEPT ![r] = "check"]
    /\ UNCHANGED <<mod, device, done, read_count, thread>>

(* Mutant: the test of completion_done is the wrong way round. *)
ReadCheckSwapped(r) ==
    /\ pc[r] = "check"
    /\ pc' = [pc EXCEPT ![r] = IF done # 0 THEN "complete" ELSE "user"]
    /\ UNCHANGED <<mod, device, done, completion_flag, read_count, thread,
                   calls, noticed>>

(* completion_done: a completion that is already pending is left at that. *)
ReadCheck(r) ==
    /\ pc[r] = "check"
    /\ pc' = [pc EXCEPT ![r] = IF done = 0 THEN "complete" ELSE "user"]
    /\ UNCHANGED <<mod, device, done, completion_flag, read_count, thread,
                   calls, noticed>>

(* Mutant: complete is called twice. *)
ReadCompleteTwice(r) ==
    /\ pc[r] = "complete"
    /\ done' = done + 2
    /\ pc' = [pc EXCEPT ![r] = "user"]
    /\ UNCHANGED <<mod, device, completion_flag, read_count, thread, calls,
                   noticed>>

ReadComplete(r) ==
    /\ pc[r] = "complete"
    /\ done' = done + 1
    /\ pc' = [pc EXCEPT ![r] = "user"]
    /\ UNCHANGED <<mod, device, completion_flag, read_count, thread, calls,
                   noticed>>

-----------------------------------------------------------------------------
(* test_driver_exit: not before every file is closed. *)

ExitFlag ==
    /\ mod = "loaded"
    /\ \A r \in Readers : pc[r] = "user"
    /\ completion_flag' = 2
    /\ mod' = "x_flag"
    /\ UNCHANGED <<device, done, read_count, thread, pc, calls, noticed>>

ExitCheck ==
    /\ mod = "x_flag"
    /\ mod' = IF done = 0 THEN "x_complete" ELSE "x_destroy"
    /\ UNCHANGED <<device, done, completion_flag, read_count, thread, pc,
                   calls, noticed>>

(* Mutant: exit does not signal the completion. *)
ExitSilent ==
    /\ mod = "x_complete"
    /\ mod' = "x_destroy"
    /\ UNCHANGED <<device, done, completion_flag, read_count, thread, pc,
                   calls, noticed>>

ExitComplete ==
    /\ mod = "x_complete"
    /\ done' = done + 1
    /\ mod' = "x_destroy"
    /\ UNCHANGED <<device, completion_flag, read_count, thread, pc, calls,
                   noticed>>

(* Device, class, cdev and region are given back; the thread is not waited *)
(* for, and the module's memory goes when this returns.  device_destroy    *)
(* follows the class pointer, be it an error or not.                       *)
ExitDestroy ==
    /\ mod = "x_destroy"
    /\ mod' = IF device = "no_class" THEN "oops" ELSE "gone"
    /\ UNCHANGED <<device, done, completion_flag, read_count, thread, pc,
                   calls, noticed>>

-----------------------------------------------------------------------------
Thread == WaitForCompletion \/ TestFlag \/ Report \/ ClearFlag
ReadStep(r) == ReadCheck(r) \/ ReadComplete(r)
ExitStep == ExitCheck \/ ExitComplete \/ ExitDestroy

(* Nothing is left to do once the module is gone and the thread is idle.   *)
Terminated ==
    /\ mod \in {"gone", "failed", "oops"}
    /\ thread \in {"none", "returned"} \/ (thread = "wait" /\ done = 0)
    /\ UNCHANGED vars

Next ==
    \/ Load \/ CreateThread \/ Thread \/ ExitFlag \/ ExitStep
    \/ \E r \in Readers : ReadCall(r) \/ ReadStep(r)
    \/ Terminated

Spec == Init /\ [][Next]_vars

(* The thread, a read in progress and the exit in progress keep running.   *)
Fairness ==
    /\ WF_vars(Thread) /\ WF_vars(ExitStep)
    /\ \A r \in Readers : WF_vars(ReadStep(r))

FairSpec == Spec /\ Fairness

-----------------------------------------------------------------------------
(* Properties *)

TypeOK ==
    /\ mod \in ModPc /\ thread \in ThreadPc /\ device \in Devices
    /\ done \in 0 .. MaxReads + 1
    /\ completion_flag \in {0, 1, 2}
    /\ read_count \in 0 .. MaxReads + 1
    /\ pc \in [Readers -> Pc]
    /\ calls \in 0 .. MaxReads
    /\ noticed \in [Readers -> BOOLEAN]

Committed == {r \in Readers : pc[r] # "user"}
Pending   == IF thread \in {"woken", "report"} THEN 1 ELSE 0
Reporting == IF thread = "report" THEN 1 ELSE 0
Signalled == mod \in {"x_destroy", "gone", "oops"}

(* The thread reports no more reads than there were.  Each event it has    *)
(* reported, is about to report or will still be woken for is a call of    *)
(* test_read of its own, or the one event of the exit; and the exit's      *)
(* event is not reported as a read unless the thread has cleared           *)
(* completion_flag after the exit had set it.                              *)
ReportsAreReads ==
    /\ read_count + Pending + done + Cardinality(Committed) <=
          calls + (IF Signalled THEN 1 ELSE 0)
    /\ completion_flag = 2 => read_count + Reporting <= calls

(* Coalesced or not, a read is never missed: when test_read has returned   *)
(* the thread has been woken since, or will be.                            *)
ReadNotLost ==
    \A r \in Readers :
        (pc[r] = "user" /\ ~noticed[r]) => done > 0

ReadNoticed ==
    \A r \in Readers :
        (pc[r] = "check" /\ thread # "none") ~>
            (noticed[r] \/ thread = "returned")

IdleThreadEnds ==
    (mod = "x_flag" /\ thread = "wait" /\ completion_flag = 2) ~>
        (thread = "returned")

(* With fairness every event reaches the thread: it wakes up after every   *)
(* read, and if it sits in wait_for_completion when the module's exit sets *)
(* the flag it ends, whether a read's completion is still pending or not.  *)
EventsArrive == ReadNoticed /\ IdleThreadEnds

-----------------------------------------------------------------------------
(* The inductive invariant behind the theorems of CompletionProofs: who    *)
(* can still be in test_read, and when the flag can be the exit's.         *)

CompInv ==
    /\ TypeOK
    /\ mod \in {"unloaded", "x_flag", "x_complete", "x_destroy", "gone"} =>
          \A r \in Readers : pc[r] = "user"
    /\ mod \in {"unloaded", "create", "loaded", "failed"} =>
          completion_flag # 2
    /\ mod \in {"unloaded", "create"} => thread = "none"
    /\ ReportsAreReads /\ ReadNotLost
=============================================================================
