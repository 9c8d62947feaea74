----------------------------- MODULE SessionInv -----------------------------
(***************************************************************************)
(* An inductive invariant of Transfer about both programs together: how    *)
(* the server's window, the client's window, the numbers on their way and  *)
(* the states of the two machines fit.  It implies NeverTooHigh,           *)
(* EofAckMeansComplete, NoUnexpectedFlag, RequestsOnlyGaps and, if the     *)
(* window has room for two packets, ServerRetains and LowestIsHeld.  It    *)
(* stands on IInv of TransferInv.                                          *)
(*                                                                         *)
(* Flow, at the end, is weaker: it is what remains of flow control when    *)
(* rcopy also answers another child.                                       *)
(***************************************************************************)
EXTENDS TransferInv

\* rcopy has no packet of the file yet.
Early == cstate \in {"START_STATE", "FILENAME", "FILE_OK"}

\* The child is past its last block, or has ended.
Late == sstate \in EofStates \cup {"DONE", "EXIT"}

\* The EOF packet has been sent: the window had room for it, and has still.
EofSent == Late /\ offset = NumBlocks /\ ~win_isFull(swin)

\* What the present child may have sent.
Sent ==
    {Corrupted, Packet("FNAME_OK", 0, 0), Packet("FNAME_BAD", 0, 0)}
    \cup {Data(s, File[s]) : s \in 1 .. sseq - 1}
    \cup (IF EofSent THEN {Eof(NumBlocks + 1)} ELSE {})

\* The EOF_ACK has been sent: rcopy has ended with the whole file.
AckSent == cstate = "DONE" /\ cwin.lower = NumBlocks + 2 /\ EofSent

\* What rcopy may have sent to the present child: RRs only for packets it has
\* written and the child has sent.
Requested ==
    {Corrupted}
    \cup {Packet("RR", 0, k) : k \in {j \in 1 .. sseq - 1 : j < cwin.lower}}
    \cup [flag : {"SREJ"}, seq : {0}, data : Int]
    \cup (IF AckSent THEN {Packet("EOF_ACK", 0, 0)} ELSE {})

QueuesFit == net["client"] \in Seq(Sent) /\ net["server"] \in Seq(Requested)

-----------------------------------------------------------------------------
(***************************************************************************)
(* Who can hear whom.  A request is on its way only while nothing else is, *)
(* so that a new child never meets the packets of an older one.            *)
(***************************************************************************)
SessionOK ==
    /\ net["main"] # << >> =>
         /\ Len(net["main"]) = 1
         /\ cstate \in {"START_STATE", "FILENAME"}
         /\ "client" \notin sockets /\ net["client"] = << >>
    /\ Early => net["server"] = << >>
    /\ ServerEnded => net["server"] = << >> /\ "server" \notin sockets

\* The lower edge that the child's first packet makes: its own number, unless
\* the window is too small to take it.
FirstLower == IF WindowSize = 1 THEN 0 ELSE 1

(***************************************************************************)
(* The window w of a child that will send the packet number next covers    *)
(* the packets sent and not yet freed.  A window of one packet refuses     *)
(* every packet it is given, and current stays one behind.                 *)
(***************************************************************************)
Covers(w, next) ==
    /\ w.upper = w.lower + WindowSize
    /\ IF next = 1
       THEN w = win_init
       ELSE /\ w.lower \in FirstLower .. next - 1
            /\ w.current = next - 2 + FirstLower
            /\ next <= w.upper + 1 - FirstLower
    /\ \A i \in Cells :
         \/ w.cells[i] = EmptyCell
         \/ /\ win_index(w.cells[i].seq) = i
            /\ w.lower <= w.cells[i].seq /\ w.cells[i].seq < next

\* Every packet sent and not yet freed is in its cell.
Retains(w, next) ==
    WindowSize > 1 =>
        \A s \in 1 .. next - 1 : s >= w.lower => win_get(w, s) = Data(s, File[s])

ChildOK == Covers(swin, sseq) /\ Retains(swin, sseq)

\* Where the two machines stand.
PhasesOK ==
    /\ sstate \in {"NONE", "FILENAME"} => sseq = 1
    /\ sstate \in {"CHECK_FOR_RESPONSE", "WAIT_ON_RESPONSE", "TIMEOUT_ON_RESPONSE",
                   "POLL_RESPONSE"} => sseq > 1
    /\ sstate \in EofStates => ~win_isFull(swin)

\* The server's window lags the client's by a packet at least, the one whose
\* number the last RR carried.
Lagging == swin.lower <= FirstLower \/ swin.lower < cwin.lower

\* rcopy expects the number after the highest it has seen, and while it
\* requests skipped packets, the rest of the gap is empty.
ClientLoop ==
    /\ Early => expected = 1
    /\ \A i \in Cells : cwin.cells[i] \in Sent \cup {EmptyCell}
    /\ Receiving =>
         /\ expected = cwin.current + 1
         /\ cwin.lower <= expected /\ expected <= cwin.upper
         /\ \A i \in Cells : cwin.cells[i] = EmptyCell \/ cwin.cells[i].seq < expected
    /\ cstate = "SREJ" =>
         /\ cwin.lower <= srej /\ srej < expected - 1
         /\ \A s \in srej .. expected - 2 : win_cellEmpty(cwin, s)

Session == QueuesFit /\ SessionOK /\ ChildOK /\ PhasesOK /\ Lagging /\ ClientLoop

-----------------------------------------------------------------------------
(***************************************************************************)
(* Flow control of one child alone.  Unlike Session it does not need       *)
(* rcopy to hear this child only: the RRs may be for packets that another  *)
(* child has sent, so that the window can overtake the number of the next  *)
(* packet, and win_add then refuses what the child sends.                  *)
(***************************************************************************)

\* No packet with this number or a higher one is on its way to rcopy.
Horizon == (IF cwin.lower = 0 THEN 1 ELSE cwin.lower) + WindowSize

\* A cell holds a packet the child has sent, inside the window.
CellsSent(w, next) ==
    \A i \in Cells :
        \/ w.cells[i] = EmptyCell
        \/ /\ win_index(w.cells[i].seq) = i
           /\ w.lower <= w.cells[i].seq /\ w.cells[i].seq < next

\* current has followed the packets sent, those that the window has not
\* overtaken.
Follows(w, next) ==
    /\ w.current >= 0
    /\ next <= w.lower \/ next <= w.current + 2 - FirstLower

WithinHorizon ==
    /\ swin.upper = swin.lower + WindowSize
    /\ CellsSent(swin, sseq)
    /\ IF sseq = 1 THEN Late \/ swin = win_init ELSE Follows(swin, sseq)
    /\ sstate \in {"NONE", "FILENAME"} => sseq = 1
    /\ sstate \in {"CHECK_FOR_RESPONSE", "WAIT_ON_RESPONSE", "TIMEOUT_ON_RESPONSE",
                   "POLL_RESPONSE"} => sseq > 1
    /\ Lagging
    /\ sseq <= Horizon /\ (sstate \in EofStates => sseq < Horizon)

\* What the child may send, and what it may be told: RRs only for packets that
\* rcopy has written.
Below == {m \in PDU : m.seq < Horizon}
Told == {m \in PDU : m.flag = "RR" => m.data < cwin.lower}

QueuesWithinHorizon == net["client"] \in Seq(Below) /\ net["server"] \in Seq(Told)

Flow == WithinHorizon /\ QueuesWithinHorizon
=============================================================================
