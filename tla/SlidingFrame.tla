---------------------------- MODULE SlidingFrame ----------------------------
(***************************************************************************)
(* What either program may rely on in window.c: a frame of Size numbers    *)
(* that only moves up, and the numbers of the packets held in it.  Nothing *)
(* is said of rings, cells or the width of a number.                       *)
(***************************************************************************)
EXTENDS Integers

CONSTANT Size

VARIABLES base, held

Init == base = 0 /\ held = {}

Frame == base .. base + Size - 1

\* A number of the frame is taken up; it stays until the frame has passed it.
Add(n) ==
    /\ n \in Frame \ held
    /\ held' = held \cup {n}
    /\ UNCHANGED base

\* The very first packet moves the frame to itself.
First(n) ==
    /\ base = 0 /\ held = {}
    /\ n \in Frame
    /\ base' = n /\ held' = {n}

Advance(m) ==
    /\ base' = m
    /\ held' = held \ (base .. m - 1)

Next ==
    \/ \E n \in Frame : Add(n) \/ First(n)
    \/ \E m \in base + 1 .. base + Size : Advance(m)

Spec == Init /\ [][Next]_<<base, held>>
=============================================================================
