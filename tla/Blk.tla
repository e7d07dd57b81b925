-------------------------------- MODULE Blk --------------------------------
(***************************************************************************)
(* The RAM disk as a whole: the disk of BlkDisk, whose content is now the  *)
(* data array, and the requests of BlkIO on it.  A request needs a task    *)
(* that has the disk open; the last close waits for the requests, so that  *)
(* neither the timer nor the exit meets one.                               *)
(***************************************************************************)
EXTENDS BlkDisk, Sequences

CONSTANTS nsectors, hardsect_size, KERNEL_SECTOR_SIZE, Tags, Segmentations,
          Payloads, Content, MaxRequests

ASSUME BlkIOAssumption ==
    /\ MaxRequests \in Nat
    /\ nsectors \in Nat /\ hardsect_size \in Nat
    /\ KERNEL_SECTOR_SIZE \in Nat \ {0}
    /\ hardsect_size % KERNEL_SECTOR_SIZE = 0
    /\ Segmentations \subseteq Seq(Nat)
    /\ Payloads \subseteq Nat \ {0}

VARIABLES req, seg, pos_sector, copied, buffer, begun, want, old, may

IO == INSTANCE BlkIO

(* What BlkDisk calls the content of the disk are the sectors. *)
ASSUME ContentAssumption ==
    /\ {0, IO!Junk} \subseteq Content
    /\ \A v \in Payloads, s \in IO!Sectors : v + s \in Content
    /\ Zero = [s \in IO!Sectors |-> 0]
    /\ Values = [IO!Sectors -> Content] \ {Zero}

disk == <<mod, queue, gd, mem, users, media_change, timer, lock, bd_mutex, pc>>
blkvars == <<disk, data, IO!iovars>>

BlkInit == Init /\ IO!Idle

(* A disk step that changes the data (vmalloc, memset, vfree) starts the   *)
(* reference anew.                                                         *)
Follow ==
    /\ IF data' = data THEN UNCHANGED <<begun, want, old>>
       ELSE /\ want' = [s \in IO!Sectors |-> {data'[s]}]
            /\ old' = [s \in IO!Sectors |-> {}]
            /\ begun' = 0
    /\ UNCHANGED <<req, seg, pos_sector, copied, buffer, may>>

InUse == \E t \in Tasks : pc[t] = "open"

(* The block layer's last close waits for the requests. *)
Close(t) ==
    /\ ReleaseCall(t)
    /\ \/ \A g \in Tags : req[g] = IO!NoReq
       \/ \E u \in Tasks \ {t} : pc[u] = "open"

DiskStep ==
    /\ \/ Load \/ Unload \/ Timer
       \/ \E t \in Tasks :
             \/ OpenCall(t) \/ Revalidate(t) \/ Close(t)
             \/ OpenStep(t) \/ ReleaseStep(t)
    /\ Follow

Request ==
    /\ (InUse /\ IO!Begin) \/ IO!Continue
    /\ UNCHANGED disk

BlkNext == DiskStep \/ Request

BlkSpec     == BlkInit /\ [][BlkNext]_blkvars
BlkFairSpec == BlkSpec /\ Fairness

-----------------------------------------------------------------------------
(* Properties *)

(* Every write ends up in the sectors it names and stays there until the   *)
(* medium is changed: no other request and no erasing gets in its way.     *)
WritesLand == IO!WritesLand

(* Every read returns what the sectors held, not what another request or   *)
(* an erasing put into its memory.                                         *)
ReadsReturn == IO!ReadsReturn

-----------------------------------------------------------------------------
(* The inductive invariant of the requests, for the theorems of BlkProofs. *)

AllRequests == IO!Requests \cup {IO!Passthrough}

IOTypes ==
    /\ data \in [IO!Sectors -> Content]
    /\ want \in [IO!Sectors -> SUBSET Content]
    /\ old \in [IO!Sectors -> SUBSET Content]
    /\ req \in [Tags -> AllRequests \cup {IO!NoReq}]
    /\ seg \in [Tags -> Nat] /\ pos_sector \in [Tags -> Nat]
    /\ copied \in [Tags -> Nat]
    /\ DOMAIN buffer = Tags /\ DOMAIN may = Tags

(* As long as a request is under way a task has the disk open. *)
Attended == (\E g \in Tags : req[g] # IO!NoReq) => InUse

(* Where the iterator of tag g stands; with segments of one length         *)
(* pos_sector keeps up with it.                                            *)
InStep(g) ==
    LET r == req[g]
    IN  /\ IO!InCapacity(r)
        /\ seg[g] \in 1 .. Len(r.segs) + 1
        /\ r.pos <= pos_sector[g]
        /\ copied[g] <= IF seg[g] > Len(r.segs) THEN 0 ELSE r.segs[1]
        /\ IO!Even(r) => pos_sector[g] = r.pos + IO!Start(r.segs, seg[g])

(* A write wants its sectors to hold its payload, and the ones it is       *)
(* through with hold what they are wanted to hold.                         *)
Passed(g) ==
    IF IO!Even(req[g]) THEN req[g].pos .. pos_sector[g] + copied[g] - 1
    ELSE IO!Field(req[g])
Landing(g) ==
    /\ \A s \in IO!Field(req[g]) : IO!Gives(req[g], s) \subseteq want[s]
    /\ \A s \in Passed(g) : data[s] \in want[s]

(* A read may find what its sectors are allowed to hold, and the part of   *)
(* its memory it is through with holds such a thing.                       *)
Returning(g) ==
    LET r == req[g]
    IN  /\ DOMAIN buffer[g] = 0 .. IO!Total(r.segs) - 1
        /\ DOMAIN may[g] = 0 .. IO!Total(r.segs) - 1
        /\ \A o \in DOMAIN may[g] : IO!Allowed(r.pos + o) \subseteq may[g][o]
        /\ IO!Even(r) =>
              \A o \in 0 .. IO!Start(r.segs, seg[g]) + copied[g] - 1 :
                  buffer[g][o] \in may[g][o]

Served(g) ==
    IF req[g] = IO!NoReq THEN copied[g] = 0 /\ may[g] = <<>>
    ELSE /\ InStep(g)
         /\ IF req[g].write THEN Landing(g) /\ may[g] = <<>> ELSE Returning(g)

IOInv ==
    IOTypes /\ Attended /\ IO!WritesLand /\ \A g \in Tags : Served(g)
=============================================================================
