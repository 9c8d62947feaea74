------------------------------- MODULE Window -------------------------------
(***************************************************************************)
(* The sliding window of window.c: a ring of WindowSize cells that both    *)
(* the server (packets sent and not yet acknowledged) and rcopy (packets   *)
(* received and not yet written) keep in the file-scope struct `win`.      *)
(*                                                                         *)
(* The module is constant-level: a window is a record and every function   *)
(* of window.c that changes the struct is an operator from the old record  *)
(* to the new one.  A cell is EmptyCell exactly when its pdu_sizes entry   *)
(* is 0; the bytes that stay in buffers[i] after that are never read again *)
(* by code that matters (win_RR clears cells whose size is already 0).     *)
(***************************************************************************)
EXTENDS Integers

CONSTANT WindowSize     \* win.size, the window-size argument of rcopy

\* check_args of rcopy.c accepts 1 .. 2^30.
ASSUME WindowSizeAssumption == WindowSize \in Nat \ {0}

\* A packet: header flag and sequence number, and what its payload says
\* (the block of the file for DATA, the requested number for RR and SREJ).
Packet(flag, seq, data) == [flag |-> flag, seq |-> seq, data |-> data]

EmptyCell == Packet("EMPTY", 0, 0)

\* The negative results of win_add; any other result is win.current.
TOO_LOW   == -1
TOO_HIGH  == -2
FULL_CELL == -3

Cells == 0 .. WindowSize - 1

win_init == [lower   |-> 0,
             current |-> -1,
             upper   |-> WindowSize,
             cells   |-> [i \in Cells |-> EmptyCell]]

win_index(seq) == seq % WindowSize

win_get(w, seq) == w.cells[win_index(seq)]

win_cellEmpty(w, seq) == win_get(w, seq) = EmptyCell

win_lowest_cell_isFull(w) == ~win_cellEmpty(w, w.lower)

win_set_lower(w, val) == [w EXCEPT !.lower = val, !.upper = val + WindowSize]

\* Mutated form of win_isFull, used by the mutation checks only.
win_isFull_one_late(w) == w.current >= w.upper

win_isFull(w) == w.current + 1 >= w.upper

-----------------------------------------------------------------------------
\* Mutated forms of win_RR, used by the mutation checks only.
win_RR_no_guard(w, rr) ==
    win_set_lower([w EXCEPT !.cells = [i \in Cells |->
        IF w.cells[i].seq < rr THEN EmptyCell ELSE w.cells[i]]], rr)

win_RR_clears_rr(w, rr) ==
    IF rr > w.lower
    THEN win_set_lower([w EXCEPT !.cells = [i \in Cells |->
             IF w.cells[i].seq <= rr THEN EmptyCell ELSE w.cells[i]]], rr)
    ELSE w

win_RR_keeps_lower(w, rr) ==
    [w EXCEPT !.cells = [i \in Cells |->
        IF w.cells[i].seq < rr THEN EmptyCell ELSE w.cells[i]]]

-----------------------------------------------------------------------------
(***************************************************************************)
(* win_RR moves the window up to rr and frees the cells below it; a        *)
(* receive-ready at or below the lower edge changes nothing.               *)
(***************************************************************************)
win_RR(w, rr) ==
    IF rr > w.lower
    THEN win_set_lower([w EXCEPT !.cells = [i \in Cells |->
             IF w.cells[i].seq < rr THEN EmptyCell ELSE w.cells[i]]], rr)
    ELSE w

(***************************************************************************)
(* win_add, the accepting path: the first packet ever added moves the      *)
(* lower edge to its own number, and current follows the highest number    *)
(* seen.                                                                   *)
(***************************************************************************)
Store(w, pdu) ==
    LET v == IF w.current = -1
             THEN [win_set_lower(w, pdu.seq) EXCEPT !.current = pdu.seq]
             ELSE w
    IN  [v EXCEPT !.current = IF pdu.seq >= v.current THEN pdu.seq ELSE @,
                  !.cells[win_index(pdu.seq)] = pdu]

\* Mutated form of win_add, used by the mutation checks only.
win_add_takes_low(w, pdu) ==
    CASE pdu.seq >= w.upper -> [win |-> [w EXCEPT !.current = w.upper - 1], ret |-> TOO_HIGH]
      [] pdu.seq < w.upper /\ ~win_cellEmpty(w, pdu.seq) -> [win |-> w, ret |-> FULL_CELL]
      [] OTHER -> LET v == Store(w, pdu) IN [win |-> v, ret |-> v.current]

\* win_add returns both the window and the number its caller compares with
\* the expected sequence number.
win_add(w, pdu) ==
    CASE pdu.seq < w.lower -> [win |-> w, ret |-> TOO_LOW]
      [] pdu.seq >= w.lower /\ pdu.seq >= w.upper ->
             [win |-> [w EXCEPT !.current = w.upper - 1], ret |-> TOO_HIGH]
      [] pdu.seq >= w.lower /\ pdu.seq < w.upper /\ ~win_cellEmpty(w, pdu.seq) ->
             [win |-> w, ret |-> FULL_CELL]
      [] OTHER -> LET v == Store(w, pdu) IN [win |-> v, ret |-> v.current]

\* Mutated form of win_deQueue, used by the mutation checks only.
win_deQueue_stays(w) == win_RR(w, w.lower)

\* Called only when win_lowest_cell_isFull(w); the packet is win_get(w, w.lower).
win_deQueue(w) == win_RR(w, w.lower + 1)
=============================================================================
