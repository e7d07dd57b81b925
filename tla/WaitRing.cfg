SPECIFICATION RingSpec
CONSTANTS
    Writers = {w1}
    Readers = {r1}
    RINGSIZE = 3
    MaxWrites = 7
PROPERTY Fifo
