--------------------------- MODULE BoundedStream ----------------------------
(***************************************************************************)
(* What a FIFO promises the readout and the data writer: the events put    *)
(* into it form one stream of words, the words leave it in their order,    *)
(* and never more than Size words are inside.                              *)
(***************************************************************************)
EXTENDS Naturals

CONSTANTS Size,      \* words the FIFO holds
          MaxEvent,  \* longest event, in words
          Chunk      \* most words saved at once

VARIABLES written,   \* words of the stream so far
          consumed   \* words of the stream that have left

Init == written = 0 /\ consumed = 0

Put(d) == /\ written + d <= consumed + Size
          /\ written' = written + d
          /\ UNCHANGED consumed

Get(n) == /\ consumed + n <= written
          /\ consumed' = consumed + n
          /\ UNCHANGED written

Next == \/ \E d \in 1..MaxEvent : Put(d)
        \/ \E n \in 1..Chunk : Get(n)

Spec == Init /\ [][Next]_<<written, consumed>>

=============================================================================
