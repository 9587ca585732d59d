----------------------------- MODULE ScratchBuffer -----------------------------
(***************************************************************************)
(* A byte buffer that a function of the middleware carves into regions.    *)
(* What matters about the bytes is whose they are: the content is a set of *)
(* pieces, each saying that the bytes [lo, hi) hold the part of a value    *)
(* `what' that was written from address `base' on.  A write takes the      *)
(* bytes it covers from the pieces that held them.                         *)
(***************************************************************************)
EXTENDS Integers

CONSTANT Garbage        \* what a region holds that no single value fills

Piece(base, lo, hi, what) == [base |-> base, lo |-> lo, hi |-> hi, what |-> what]

\* What is left of a piece when the bytes [lo, hi) are taken from it.
Remains(p, lo, hi) ==
    {q \in { [p EXCEPT !.hi = IF p.hi < lo THEN p.hi ELSE lo],
             [p EXCEPT !.lo = IF p.lo > hi THEN p.lo ELSE hi] } : q.lo < q.hi}

\* The content after `what' is written to [lo, hi).
Write(buffer, lo, hi, what) ==
    {Piece(lo, lo, hi, what)} \cup UNION {Remains(p, lo, hi) : p \in buffer}

\* The first bytes of `what', up to hi, are where they were written, at lo.
Holds(buffer, lo, hi, what) ==
    \E p \in buffer : p.base = lo /\ p.what = what /\ p.lo <= lo /\ hi <= p.hi

\* The piece that fills [lo, hi) from its own first byte on.  No bytes are filled by none.
Fills(p, lo, hi) == p.base = lo /\ p.lo <= lo /\ lo < hi /\ hi <= p.hi

\* What a reader of [lo, hi) finds.
Content(buffer, lo, hi) ==
    IF \E p \in buffer : Fills(p, lo, hi)
    THEN (CHOOSE p \in buffer : Fills(p, lo, hi)).what
    ELSE Garbage

\* The pieces that lie within the first `size' bytes.
Within(buffer, size) == \A p \in buffer : 0 <= p.lo /\ p.hi <= size
================================================================================
