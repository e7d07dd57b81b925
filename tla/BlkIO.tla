------------------------------- MODULE BlkIO -------------------------------
(***************************************************************************)
(* I/O on the RAM disk of src/BlockDriver/blk1.c: blk1_request walks over  *)
(* the segments of a request and blk1_transfer copies each one between its *)
(* buffer and the data array.                                              *)
(*                                                                         *)
(* blk1_request takes no lock and the queue has 128 tags, so requests are  *)
(* served side by side and their copies interleave.  The unit is a sector, *)
(* and one step of a memcpy copies one.  Every byte of a sector is treated *)
(* alike and by itself: with a sector read as its byte j, for any fixed j, *)
(* this is a memcpy byte by byte, torn sectors included.                   *)
(*                                                                         *)
(* A request is a start sector, the lengths of its segments (the pieces of *)
(* memory it is scattered over) and a direction; the block layer only      *)
(* sends requests that lie within the capacity.  The content of a sector   *)
(* is a number; Junk stands for whatever lies in memory beyond the end of  *)
(* a segment.  Who may send a request, and what else changes the data, is  *)
(* said in Blk.                                                            *)
(***************************************************************************)
EXTENDS Integers, Sequences

CONSTANTS
    nsectors, hardsect_size, KERNEL_SECTOR_SIZE,    \* as in the source
    Tags,               \* the requests that are served side by side
    Segmentations,      \* the segment lists requests come with
    Payloads,           \* what a write request writes, from this number on
    Content,            \* what a sector may hold
    MaxRequests         \* bound: requests begun on one medium

Junk == -1
NoReq == <<>>

VARIABLES
    data,       \* the data array, by sector
    req,        \* per tag: the request being handled, or NoReq
    seg,        \* per tag: the segment the iterator is at
    pos_sector, \* per tag
    copied,     \* per tag: the sectors of this segment memcpy has copied
    buffer,     \* per tag: a read's memory, by offset within the request
    want,       \* reference: what the last writes to a sector gave
    begun,      \* requests begun since something else set the data
    old,        \* reference: what it held before the writes in progress
    may         \* reference, per tag: what a read may find, by offset

iovars == <<req, seg, pos_sector, copied, buffer, begun, want, old,
            may>>

(* The fields setup_device fills in: dev->size, and the disk's capacity. *)
size     == nsectors * hardsect_size
Capacity == nsectors * (hardsect_size \div KERNEL_SECTOR_SIZE)

Sectors  == 0 .. Capacity - 1

(* The sectors before segment i of a list, and of the list as a whole. *)
Start(segs, i) ==
    LET before[k \in 1 .. Len(segs) + 1] ==
          IF k = 1 THEN 0 ELSE before[k - 1] + segs[k - 1]
    IN  before[i]
Total(segs) == Start(segs, Len(segs) + 1)

Requests ==
    {[pos |-> p, segs |-> s, write |-> w, value |-> v] :
        p \in Sectors, s \in Segmentations, w \in BOOLEAN, v \in Payloads}

InCapacity(r) == r.pos + Total(r.segs) <= Capacity

(* A passthrough request ends with BLK_STS_IOERR before the iterator has   *)
(* looked at a segment.                                                    *)
Passthrough == [pos |-> 0, segs |-> <<>>, write |-> FALSE, value |-> 0]

-----------------------------------------------------------------------------
(* The reference: what sectors and reads should hold.  A write with        *)
(* segments of several lengths may put anything anywhere behind its start, *)
(* any other one puts its payload into the sectors it names.               *)

Even(r) == \A i \in DOMAIN r.segs : r.segs[i] = r.segs[1]

Field(r) ==
    IF Even(r) THEN r.pos .. r.pos + Total(r.segs) - 1
    ELSE r.pos .. Capacity - 1

Gives(r, s) == IF Even(r) THEN {r.value + (s - r.pos)} ELSE Content

(* The writes in progress that name a sector. *)
Writers(s) ==
    {g \in Tags : req[g] # NoReq /\ req[g].write /\ s \in Field(req[g])}

(* Writes in progress side by side may end up in any order, and until they *)
(* end the sector may hold what it held before.                            *)
Allowed(s) == IF Writers(s) = {} THEN want[s] ELSE want[s] \cup old[s]

(* A write r that begins: the first to name a sector replaces what it is   *)
(* wanted to hold, one that meets others adds to it; reads in progress may *)
(* already see it.                                                         *)
NoteWrite(r) ==
    /\ want' = [s \in Sectors |->
                  IF s \notin Field(r) THEN want[s]
                  ELSE IF Writers(s) = {} THEN Gives(r, s)
                  ELSE want[s] \cup Gives(r, s)]
    /\ old' = [s \in Sectors |->
                 IF s \in Field(r) /\ Writers(s) = {} THEN want[s]
                 ELSE old[s]]
    /\ may' = [g \in Tags |-> [o \in DOMAIN may[g] |->
                 IF req[g].pos + o \in Field(r)
                 THEN may[g][o] \cup Gives(r, req[g].pos + o)
                 ELSE may[g][o]]]

(* A read r that begins with tag g. *)
NoteRead(g, r) ==
    /\ may' = [may EXCEPT ![g] =
                 [o \in 0 .. Total(r.segs) - 1 |-> Allowed(r.pos + o)]]
    /\ UNCHANGED <<want, old>>

(* The request of tag g ends. *)
NoteEnd(g) ==
    /\ old' = [s \in Sectors |-> IF Writers(s) \subseteq {g} THEN {}
                                 ELSE old[s]]
    /\ may' = [may EXCEPT ![g] = <<>>]
    /\ UNCHANGED want

(* Nothing was requested, and the data is what it should be. *)
Idle ==
    /\ want = [s \in Sectors |-> {data[s]}]
    /\ old = [s \in Sectors |-> {}]
    /\ req = [g \in Tags |-> NoReq]
    /\ seg = [g \in Tags |-> 0] /\ pos_sector = [g \in Tags |-> 0]
    /\ copied = [g \in Tags |-> 0] /\ begun = 0
    /\ buffer = [g \in Tags |-> <<>>] /\ may = [g \in Tags |-> <<>>]

-----------------------------------------------------------------------------
(* blk1_request and blk1_transfer *)

(* blk_mq_start_request and the iterator's start. *)
RequestStart(g, r) ==
    /\ req[g] = NoReq
    /\ InCapacity(r)
    /\ begun < MaxRequests /\ begun' = begun + 1
    /\ req' = [req EXCEPT ![g] = r]
    /\ seg' = [seg EXCEPT ![g] = 1]
    /\ pos_sector' = [pos_sector EXCEPT ![g] = r.pos]
    /\ buffer' = [buffer EXCEPT ![g] =
                    IF r.write THEN <<>>
                    ELSE [o \in 0 .. Total(r.segs) - 1 |-> Junk]]
    /\ IF r.write THEN NoteWrite(r) ELSE NoteRead(g, r)
    /\ UNCHANGED <<data, copied>>

RequestPassthrough(g) == RequestStart(g, Passthrough)

(* A definition marked `Mutant' is a deliberate fault, put in the place of *)
(* the definition that follows it to see that a property can fail.         *)

(* Mutant: the test for the end of the device is off by one. *)
BeyondEndByOne(sector, nsect) == sector + nsect >= Capacity

(* offset + nbytes > dev->size *)
BeyondEnd(sector, nsect) ==
    (sector + nsect) * KERNEL_SECTOR_SIZE > size

(* blk_rq_cur_sectors(req): the iterator does not advance the request, so  *)
(* this is the length of the first segment for every segment.              *)
CurSectors(g) == req[g].segs[1]

(* What the memory of segment i of a write holds at offset o of it. *)
Memory(r, i, o) ==
    IF o < r.segs[i] THEN r.value + (Start(r.segs, i) + o) ELSE Junk

(* One step of the memcpy in blk1_transfer.  What a read copies beyond the *)
(* end of its segment goes to memory of somebody else.                     *)
Transfer(g) ==
    LET r == req[g]
        s == pos_sector[g] + copied[g]
        o == Start(r.segs, seg[g]) + copied[g]
    IN  IF r.write
        THEN /\ data' = [data EXCEPT ![s] = Memory(r, seg[g], copied[g])]
             /\ UNCHANGED buffer
        ELSE /\ buffer' = IF copied[g] < r.segs[seg[g]]
                          THEN [buffer EXCEPT ![g][o] = data[s]] ELSE buffer
             /\ UNCHANGED data

InSegment(g) == req[g] # NoReq /\ seg[g] <= Len(req[g].segs)

CopySector(g) ==
    /\ InSegment(g)
    /\ ~BeyondEnd(pos_sector[g], CurSectors(g))
    /\ copied[g] < CurSectors(g)
    /\ Transfer(g)
    /\ copied' = [copied EXCEPT ![g] = @ + 1]
    /\ UNCHANGED <<req, seg, pos_sector, begun, want, old, may>>

(* Mutant: pos_sector is one variable for all requests. *)
NextSegmentShared(g) ==
    /\ InSegment(g)
    /\ \/ BeyondEnd(pos_sector[g], CurSectors(g))
       \/ copied[g] = CurSectors(g)
    /\ pos_sector' = [h \in Tags |-> pos_sector[h] + CurSectors(g)]
    /\ seg' = [seg EXCEPT ![g] = @ + 1]
    /\ copied' = [copied EXCEPT ![g] = 0]
    /\ UNCHANGED <<data, req, buffer, begun, want, old, may>>

(* blk1_transfer returns, silently if the segment lies beyond the end. *)
NextSegment(g) ==
    /\ InSegment(g)
    /\ \/ BeyondEnd(pos_sector[g], CurSectors(g))
       \/ copied[g] = CurSectors(g)
    /\ pos_sector' = [pos_sector EXCEPT ![g] = @ + CurSectors(g)]
    /\ seg' = [seg EXCEPT ![g] = @ + 1]
    /\ copied' = [copied EXCEPT ![g] = 0]
    /\ UNCHANGED <<data, req, buffer, begun, want, old, may>>

(* blk_mq_end_request, whatever was transferred. *)
RequestEnd(g) ==
    /\ req[g] # NoReq /\ seg[g] > Len(req[g].segs)
    /\ req' = [req EXCEPT ![g] = NoReq]
    /\ seg' = [seg EXCEPT ![g] = 0]
    /\ pos_sector' = [pos_sector EXCEPT ![g] = 0]
    /\ buffer' = [buffer EXCEPT ![g] = <<>>]
    /\ NoteEnd(g)
    /\ UNCHANGED <<data, copied, begun>>

(* What a task with the disk open starts, and what follows by itself. *)
Begin ==
    \E g \in Tags :
        (\E r \in Requests : RequestStart(g, r)) \/ RequestPassthrough(g)
Continue ==
    \E g \in Tags : CopySector(g) \/ NextSegment(g) \/ RequestEnd(g)

-----------------------------------------------------------------------------
(* Properties *)

(* "Handle an I/O request", for writes served side by side: when the last  *)
(* of the writes to a sector has ended it holds what one of those that     *)
(* overlapped gave, and no earlier value; while they are in progress it    *)
(* holds one of these or what it held before.  A write with segments of    *)
(* several lengths is excused, but not the writes next to it.              *)
WritesLand == \A s \in Sectors : data[s] \in Allowed(s)

(* The same for a read, with segments of one length: after its last        *)
(* segment its memory holds, sector by sector, what that sector was        *)
(* allowed to hold at some moment since the read began.                    *)
ReadsReturn ==
    \A g \in Tags :
        (/\ req[g] # NoReq /\ seg[g] > Len(req[g].segs)
         /\ ~req[g].write /\ Even(req[g])) =>
            \A o \in DOMAIN buffer[g] : buffer[g][o] \in may[g][o]
=============================================================================
