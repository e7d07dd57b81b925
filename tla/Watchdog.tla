------------------------------ MODULE Watchdog ------------------------------
(***************************************************************************)
(* The watchdog test program src/Watchdog/watchdog.c and the device it     *)
(* talks to.  Opening the device starts the watchdog; it resets the        *)
(* machine unless it is pinged within its timeout.  Closing it stops it    *)
(* only if the last write was a 'V', and never where the driver was loaded *)
(* with nowayout.  The program may be run again and again; the watchdog    *)
(* goes on in between.                                                     *)
(*                                                                         *)
(* Time passes in ticks, while the program sleeps or is not running: what  *)
(* it does between two sleeps takes less than a tick.                      *)
(***************************************************************************)
EXTENDS Integers

CONSTANTS
    DEFAULT_PING_RATE,
    Rates,          \* arguments of -p
    Timeouts,       \* arguments of -t the device accepts
    MaxOptions      \* bound: options of one command line

ASSUME WatchdogAssumption ==
    /\ DEFAULT_PING_RATE \in Nat \ {0} /\ Rates \subseteq Nat
    /\ Timeouts \subseteq Nat \ {0} /\ MaxOptions \in Nat

VARIABLES
    pc,         \* where main is: "out", "opts", "ping", "sleep" or "end"
    options,    \* how many options were parsed
    ping_rate,
    oneshot,
    asleep,     \* ticks left of sleep(ping_rate)
    running,    \* device: the watchdog is counting
    timeout,    \* device: its timeout
    left,       \* device: ticks until it resets the machine
    pings,      \* device: it supports WDIOC_KEEPALIVE
    nowayout,   \* device: once started it cannot be stopped
    reset,      \* the machine was reset
    how         \* history: how the last run ended

vars == <<pc, options, ping_rate, oneshot, asleep, running, timeout, left,
          pings, nowayout, reset, how>>
fixed  == <<pings, nowayout>>
device == <<running, timeout, left, fixed, reset>>

Init ==
    /\ pc = "out" /\ options = 0 /\ ping_rate = DEFAULT_PING_RATE
    /\ oneshot = FALSE /\ asleep = 0 /\ how = "none"
    /\ running = FALSE /\ timeout \in Timeouts /\ left = timeout
    /\ pings \in BOOLEAN /\ nowayout \in BOOLEAN /\ reset = FALSE

-----------------------------------------------------------------------------
(* The device *)

Start   == running' = TRUE /\ left' = timeout   \* open, WDIOS_ENABLECARD
Restart == left' = timeout                      \* a ping

(* WDIOS_DISABLECARD *)
Stop == ~nowayout /\ running' = FALSE /\ UNCHANGED left

(* close stops the watchdog if the last write was a 'V' and it may stop. *)
Close(magic) ==
    /\ running' = (running /\ (nowayout \/ ~magic))
    /\ UNCHANGED left

Tick ==
    /\ ~reset
    /\ \/ pc = "sleep" /\ asleep > 0 /\ asleep' = asleep - 1
       \/ pc = "out" /\ running /\ UNCHANGED asleep
    /\ left' = IF running THEN left - 1 ELSE left
    /\ reset' = (running /\ left = 1)
    /\ UNCHANGED <<pc, options, ping_rate, oneshot, running, timeout, fixed,
                   how>>

-----------------------------------------------------------------------------
(* main, up to its second loop over the options *)

(* A file that is no watchdog is closed again after WDIOC_GETSUPPORT; so   *)
(* is a watchdog that does not answer, and then it runs on.                *)
Open ==
    /\ pc = "out" /\ ~reset
    /\ ping_rate' = DEFAULT_PING_RATE /\ oneshot' = FALSE
    /\ options' = 0 /\ asleep' = 0
    /\ Start
    /\ \/ pc' = "opts" /\ how' = "none"
       \/ pc' = "out" /\ how' = "unsupported"
    /\ UNCHANGED <<timeout, fixed, reset>>

Option ==
    /\ pc = "opts" /\ options < MaxOptions
    /\ options' = options + 1
    /\ UNCHANGED <<asleep, fixed, reset, how>>

(* Every query ends the program after the last option. *)
Query ==
    /\ Option
    /\ oneshot' = TRUE
    /\ UNCHANGED <<pc, ping_rate, running, timeout, left>>

GetBootStatus == Query
GetTimeout    == Query
GetPretimeout == Query
GetTimeLeft   == Query
Info          == Query

(* A setting that the device refuses does so too. *)
Refused ==
    oneshot' = TRUE /\ UNCHANGED <<running, timeout, left>>

Disable ==
    /\ Option
    /\ (Stop /\ UNCHANGED <<oneshot, timeout>>) \/ Refused
    /\ UNCHANGED <<pc, ping_rate>>

Enable ==
    /\ Option
    /\ (Start /\ UNCHANGED <<oneshot, timeout>>) \/ Refused
    /\ UNCHANGED <<pc, ping_rate>>

PingRate(r) ==
    /\ Option
    /\ ping_rate' = IF r = 0 THEN DEFAULT_PING_RATE ELSE r
    /\ UNCHANGED <<pc, oneshot, running, timeout, left>>

(* The new timeout counts from now. *)
SetTimeout(t) ==
    /\ Option
    /\ (timeout' = t /\ left' = t /\ UNCHANGED <<oneshot, running>>) \/ Refused
    /\ UNCHANGED <<pc, ping_rate>>

SetPretimeout ==
    /\ Option
    /\ UNCHANGED <<oneshot, running, timeout, left>> \/ Refused
    /\ UNCHANGED <<pc, ping_rate>>

Usage ==
    /\ Option
    /\ pc' = "end"
    /\ UNCHANGED <<ping_rate, oneshot, running, timeout, left>>

(* Past the last option; from "ping" on SIGINT is handled. *)
Decide ==
    /\ pc = "opts"
    /\ pc' = IF oneshot THEN "end" ELSE "ping"
    /\ UNCHANGED <<options, ping_rate, oneshot, asleep, how, device>>

-----------------------------------------------------------------------------
(* The loop, and the ways out *)

(* Mutant: the ioctl is left out. *)
KeepAliveNot ==
    /\ pc = "ping" /\ pc' = "sleep" /\ asleep' = ping_rate
    /\ UNCHANGED <<options, ping_rate, oneshot, how, device>>

(* keep_alive, then sleep(ping_rate). *)
keep_alive ==
    /\ pc = "ping"
    /\ IF pings THEN Restart ELSE UNCHANGED left
    /\ pc' = "sleep" /\ asleep' = ping_rate
    /\ UNCHANGED <<options, ping_rate, oneshot, how, running, timeout, fixed,
                   reset>>

WakeUp ==
    /\ pc = "sleep" /\ asleep = 0 /\ ~reset
    /\ pc' = "ping"
    /\ UNCHANGED <<options, ping_rate, oneshot, asleep, how, device>>

(* The write of 'V' may fail; the device is closed all the same. *)
WriteAndClose ==
    /\ pc' = "out" /\ asleep' = 0
    /\ \/ Close(TRUE) /\ how' = "stopped"
       \/ Close(FALSE) /\ how' = "failed"
    /\ UNCHANGED <<options, ping_rate, oneshot, timeout, fixed, reset>>

End == pc = "end" /\ WriteAndClose

(* SIGINT *)
term == pc \in {"ping", "sleep"} /\ ~reset /\ WriteAndClose

(* SIGINT where its handler is not installed, and SIGTERM, SIGHUP or       *)
(* SIGKILL anywhere, end the program without a 'V'.                        *)
Interrupted ==
    /\ pc # "out" /\ ~reset
    /\ pc' = "out" /\ asleep' = 0 /\ how' = "killed" /\ Close(FALSE)
    /\ UNCHANGED <<options, ping_rate, oneshot, timeout, fixed, reset>>

Rebooted == reset /\ UNCHANGED vars

Next ==
    \/ Open \/ GetBootStatus \/ GetTimeout \/ GetPretimeout \/ GetTimeLeft
    \/ Info \/ Disable \/ Enable \/ SetPretimeout \/ Usage \/ Decide
    \/ \E r \in Rates : PingRate(r)
    \/ \E t \in Timeouts : SetTimeout(t)
    \/ keep_alive \/ WakeUp \/ End \/ term \/ Interrupted \/ Tick \/ Rebooted

Spec == Init /\ [][Next]_vars

-----------------------------------------------------------------------------
(* Properties *)

(* The last run could not stop the watchdog: it was killed, its write of   *)
(* 'V' or its GETSUPPORT failed, or the device cannot be stopped.          *)
LeftCounting ==
    \/ how \in {"killed", "failed", "unsupported"}
    \/ how = "stopped" /\ nowayout

(* The machine is reset only if the program was told to ping too seldom,   *)
(* the device knows no ping, or the last run ended and could not stop it:  *)
(* neither the options, nor the loop of keep_alive and sleep, nor a run    *)
(* that wrote its 'V' to a device that may stop lets the countdown end.    *)
ResetExplained ==
    reset => \/ pc = "sleep" /\ (ping_rate >= timeout \/ ~pings)
             \/ pc = "out" /\ LeftCounting

(* The inductive invariant behind the theorems of ProgramProofs: a sleep   *)
(* ends before the watchdog does, and a watchdog that runs while the       *)
(* program does not was left running by a run that says so.                *)
WatchdogInv ==
    /\ options \in Nat /\ ping_rate \in Nat \ {0} /\ asleep \in Nat
    /\ timeout \in Nat \ {0} /\ left \in Nat
    /\ how \in {"none", "stopped", "killed", "failed", "unsupported"}
    /\ reset <=> (left = 0)
    /\ (pc = "sleep" /\ pings /\ ping_rate < timeout /\ running) =>
          asleep < left
    /\ pc \in {"opts", "end", "ping"} => ~reset
    /\ (pc = "out" /\ running) => LeftCounting
    /\ ResetExplained
=============================================================================
