----------------------------- MODULE WindowWidth ----------------------------
(***************************************************************************)
(* window.c once more, with the width and the sign of its numbers: lower,  *)
(* current and upper are int32_t, the numbers of packets are uint32_t, and *)
(* C compares an int32_t with a uint32_t as unsigned.  The largest signed  *)
(* number is a constant, so that a transfer can come to where they wrap.   *)
(*                                                                         *)
(* A server sends without end, with a window of its own; a client with its *)
(* own takes the packets in any order, and its RRs come late or not at     *)
(* all.  Packets have no contents: the cell of a packet holds its number.  *)
(***************************************************************************)
EXTENDS Integers

CONSTANTS
    IntMax,         \* INT_MAX: 2^31 - 1 in the code
    WindowSize

ASSUME WindowWidthAssumption ==
    /\ IntMax \in Nat
    /\ WindowSize \in Nat \ {0, 1}
    /\ 2 * WindowSize <= IntMax + 1         \* check_args: up to 2^30

VARIABLES
    swin,       \* the server's struct win
    sseq,       \* its seq_num, a uint32_t
    cwin        \* the client's struct win

vars == <<swin, sseq, cwin>>

-----------------------------------------------------------------------------
\* The conversions of C, between the int32_t and the Modulus many of uint32_t.
Modulus == 2 * (IntMax + 1)
Unsigned(x) == x % Modulus
Signed(x) == LET u == Unsigned(x) IN IF u <= IntMax THEN u ELSE u - Modulus

Cells == 0 .. WindowSize - 1
Empty == -1

win_init == [lower |-> 0, current |-> -1, upper |-> WindowSize,
             cells |-> [i \in Cells |-> Empty]]

win_index(seq) == Unsigned(seq) % WindowSize
win_cellEmpty(w, seq) == w.cells[win_index(seq)] = Empty
win_lowest_cell_isFull(w) == ~win_cellEmpty(w, w.lower)

\* val is unsigned, and so is the sum.
win_set_lower(w, val) ==
    [w EXCEPT !.lower = Signed(val), !.upper = Signed(Unsigned(val) + WindowSize)]

\* Mutated form of win_isFull, used by the mutation checks only: by distance.
win_isFull_by_distance(w) == Signed(w.current + 1 - w.lower) >= WindowSize

win_isFull(w) == w.current + 1 >= w.upper

\* Mutated forms of win_RR, used by the mutation checks only: it leaves the
\* edges alone; it takes any rr that is not the lower edge.
win_RR_keeps_lower(w, rr) ==
    [w EXCEPT !.cells = [i \in Cells |->
        IF w.cells[i] < Unsigned(rr) THEN Empty ELSE w.cells[i]]]

win_RR_unequal(w, rr) ==
    IF Unsigned(rr) # Unsigned(w.lower)
    THEN win_set_lower([w EXCEPT !.cells = [i \in Cells |->
             IF w.cells[i] < Unsigned(rr) THEN Empty ELSE w.cells[i]]], rr)
    ELSE w

win_RR(w, rr) ==
    IF Unsigned(rr) > Unsigned(w.lower)
    THEN win_set_lower([w EXCEPT !.cells = [i \in Cells |->
             IF w.cells[i] < Unsigned(rr) THEN Empty ELSE w.cells[i]]], rr)
    ELSE w

Store(w, seq) ==
    LET v == IF w.current = -1
             THEN [win_set_lower(w, seq) EXCEPT !.current = Signed(seq)]
             ELSE w
    IN  [v EXCEPT !.current = IF Signed(seq) >= v.current THEN Signed(seq) ELSE @,
                  !.cells[win_index(seq)] = seq]

\* Mutated form of win_add, used by the mutation checks only: without the
\* test against lower.
win_add_takes_low(w, seq) ==
    CASE seq >= Unsigned(w.upper) -> [w EXCEPT !.current = Signed(w.upper - 1)]
      [] seq < Unsigned(w.upper) /\ ~win_cellEmpty(w, seq) -> w
      [] OTHER -> Store(w, seq)

\* The window after win_add; seq is unsigned.
win_add(w, seq) ==
    CASE seq < Unsigned(w.lower) -> w
      [] seq >= Unsigned(w.lower) /\ seq >= Unsigned(w.upper) ->
             [w EXCEPT !.current = Signed(w.upper - 1)]
      [] seq >= Unsigned(w.lower) /\ seq < Unsigned(w.upper) /\ ~win_cellEmpty(w, seq) -> w
      [] OTHER -> Store(w, seq)

win_deQueue(w) == win_RR(w, w.lower + 1)

-----------------------------------------------------------------------------
Init ==
    /\ swin = win_init
    /\ sseq = 1
    /\ cwin = win_init

\* file_ok: a packet of the client's own, number 0, goes through its window.
FileOk ==
    /\ cwin = win_init
    /\ cwin' = win_deQueue(win_add(win_init, 0))
    /\ UNCHANGED <<swin, sseq>>

\* new_send_data
Send ==
    /\ ~win_isFull(swin)
    /\ swin' = win_add(swin, sseq)
    /\ sseq' = Unsigned(sseq + 1)
    /\ UNCHANGED cwin

\* recv_data: any packet that has been sent less than two windows ago.
Receive ==
    /\ cwin # win_init
    /\ \E n \in 1 .. 2 * WindowSize :
         /\ sseq - n >= 1
         /\ cwin' = win_add(cwin, sseq - n)
    /\ UNCHANGED <<swin, sseq>>

\* dequeue_data
Dequeue ==
    /\ win_lowest_cell_isFull(cwin)
    /\ cwin' = win_deQueue(cwin)
    /\ UNCHANGED <<swin, sseq>>

\* handle_response: an RR the client sent with one of its last packets.
Acknowledge(n) ==
    /\ cwin.lower - n >= 1
    /\ swin' = win_RR(swin, cwin.lower - n)
    /\ UNCHANGED <<sseq, cwin>>

Next ==
    \/ FileOk \/ Send \/ Receive \/ Dequeue
    \/ \E n \in 1 .. WindowSize : Acknowledge(n)

\* The client gets the packet at its lower edge in the end, and the server
\* its newest RR: what resending is for.
ReceiveLowest == Receive /\ win_lowest_cell_isFull(cwin)'

Spec ==
    /\ Init /\ [][Next]_vars
    /\ WF_vars(FileOk) /\ WF_vars(Send) /\ WF_vars(ReceiveLowest) /\ WF_vars(Dequeue)
    /\ WF_vars(Acknowledge(1))

-----------------------------------------------------------------------------
Window == [lower : -IntMax - 1 .. IntMax, current : -IntMax - 1 .. IntMax,
           upper : -IntMax - 1 .. IntMax, cells : [Cells -> Empty .. Unsigned(-1)]]

\* With it: the one sum of signed numbers, current + 1, does not overflow,
\* which would be undefined (win_isFull, window.c:130).
TypeOK ==
    /\ swin \in Window /\ cwin \in Window
    /\ sseq \in 0 .. Unsigned(-1)
    /\ swin.current < IntMax

(***************************************************************************)
(* Neither window ever wraps: each is a sliding frame over plain numbers,  *)
(* which never moves back and loses or misplaces no packet, although its   *)
(* numbers are compared as unsigned in win_add and win_RR and as signed in *)
(* win_isFull.                                                             *)
(***************************************************************************)
Held(w) == {w.cells[i] : i \in Cells} \ {Empty}

Server == INSTANCE SlidingFrame WITH
    Size <- WindowSize, base <- swin.lower, held <- Held(swin)
Client == INSTANCE SlidingFrame WITH
    Size <- WindowSize, base <- cwin.lower, held <- Held(cwin)

ServerFrame == Server!Spec
ClientFrame == Client!Spec

(***************************************************************************)
(* The price: once upper has become negative the server's window is full   *)
(* for ever.  Every transfer of more packets than IntMax - 1 ends up       *)
(* there, having sent no fewer than IntMax - WindowSize of them            *)
(* (win_set_lower, win_isFull).                                            *)
(***************************************************************************)
StallsAtTheEnd == <>[](win_isFull(swin) /\ sseq - 1 >= IntMax - WindowSize)
=============================================================================
