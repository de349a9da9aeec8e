------------------------------ MODULE ByteFifo ------------------------------
(***************************************************************************)
(* What the capture ring promises: a FIFO of at most Capacity bytes.  A    *)
(* byte is named by its number in the accepted stream, from 1.  A call may *)
(* move fewer bytes than it was asked for, and then counts those it did    *)
(* not move; when the ring has one thread (exact) it moves as many as fit  *)
(* or are there.                                                           *)
(***************************************************************************)
EXTENDS Naturals, Sequences

CONSTANTS
    Capacity,   \* the number of bytes the ring holds
    MaxCall     \* the largest length a caller passes

VARIABLES
    queue,      \* the bytes in the ring, oldest first
    written,    \* the number of bytes accepted since the ring was opened
    got,        \* the bytes the last read handed out
    overflow,   \* the bytes writes refused
    underflow,  \* the bytes reads did not get
    exact       \* TRUE: a call never moves fewer bytes than it could

vars == <<queue, written, got, overflow, underflow, exact>>

Init == /\ queue = <<>> /\ written = 0 /\ got = <<>> /\ overflow = 0 /\ underflow = 0
        /\ exact \in BOOLEAN

\* A call for length bytes moves n of them when limit is the most it could.
Moves(n, length, limit) ==
    /\ n <= length
    /\ n <= limit
    /\ exact => n = length \/ n = limit

Write(length) ==
    \E n \in 0 .. length :
        /\ Moves(n, length, Capacity - Len(queue))
        /\ queue' = queue \o [k \in 1 .. n |-> written + k]
        /\ written' = written + n
        /\ overflow' = overflow + (length - n)
        /\ UNCHANGED <<got, underflow>>

Read(length) ==
    \E n \in 0 .. length :
        /\ Moves(n, length, Len(queue))
        /\ got' = SubSeq(queue, 1, n)
        /\ queue' = SubSeq(queue, n + 1, Len(queue))
        /\ underflow' = underflow + (length - n)
        /\ UNCHANGED <<written, overflow>>

Free == queue' = <<>> /\ written' = 0 /\ got' = <<>> /\ overflow' = 0 /\ underflow' = 0

Next ==
    /\ Free \/ \E length \in 1 .. MaxCall : Write(length) \/ Read(length)
    /\ UNCHANGED exact

Spec == Init /\ [][Next]_vars
=============================================================================
