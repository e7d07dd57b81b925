------------------------------- MODULE MCBlk -------------------------------
(* An instance of Blk for TLC: three sectors, two requests side by side,   *)
(* segments of one length and of two, and fresh memory with something in   *)
(* every sector.                                                           *)
EXTENDS Blk

Sectors  == 0 .. 2
Numbers  == -1 .. 4
NoData   == [s \in Sectors |-> 0]
Contents == [Sectors -> Numbers] \ {NoData}
Garbage  == {[s \in Sectors |-> 4]}

Segments == {<<1, 1>>, <<2>>, <<2, 1>>, <<1, 2>>}
=============================================================================
