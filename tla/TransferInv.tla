---------------------------- MODULE TransferInv ----------------------------
(***************************************************************************)
(* An inductive invariant of Transfer that implies OutputIsPrefix: what    *)
(* the server's window and the packets to the client can hold, what the    *)
(* client's window can hold, and how far the output has come.              *)
(***************************************************************************)
EXTENDS Transfer

\* What the proofs assume of the output file.
ASSUME WritesSucceed == ~WriteMayFail

\* The packets of the file: block s under number s.
FileData == {Data(s, File[s]) : s \in 1 .. NumBlocks}

\* What the child may put into the client's queue.
Answers == FileData \cup {Corrupted, Packet("FNAME_OK", 0, 0),
                          Packet("FNAME_BAD", 0, 0), Eof(NumBlocks + 1)}

QueuesOK(n) == n \in [Endpoints -> Seq(PDU)] /\ n["client"] \in Seq(Answers)

NetInv == NetworkTypeOK /\ QueuesOK(net)

\* The child's window holds nothing but packets of the file.
HoldsFile(w) == w \in WindowType /\ w.cells \in [Cells -> FileData \cup {EmptyCell}]

EofStates == {"WAIT_ON_EOF_ACK", "TIMEOUT_ON_EOF_ACK", "RECV_EOF_ACK"}

\* The child numbers the blocks as it reads them, and announces the end of the
\* file when it has read all of it.
ServerInv ==
    /\ ServerTypeOK
    /\ HoldsFile(swin)
    /\ sseq = offset + 1
    /\ sstate \in EofStates => offset = NumBlocks

-----------------------------------------------------------------------------
\* A full cell of the client's window holds a packet of the file, or the EOF
\* packet, that belongs to this cell and to no other number of the frame.
InFrame(w, i) ==
    /\ w.cells[i] \in FileData \cup {Eof(NumBlocks + 1)}
    /\ w.cells[i].seq % WindowSize = i
    /\ w.lower <= w.cells[i].seq /\ w.cells[i].seq < w.lower + WindowSize

Frame(w) ==
    /\ w \in WindowType
    /\ w.upper = w.lower + WindowSize
    /\ \A i \in Cells : w.cells[i] = EmptyCell \/ InFrame(w, i)

\* Before file_ok the window is as win_init left it; while rcopy receives, its
\* lower edge is the number of the next block to write; it passes the number
\* of the EOF packet as rcopy ends.
LowerOK ==
    /\ cstate \in {"START_STATE", "FILENAME", "FILE_OK"} => cwin = win_init
    /\ Receiving => cwin.lower \in 1 .. NumBlocks + 1 /\ cwin.current >= 0
    /\ cstate = "DEQUEUE" => ~win_cellEmpty(cwin, cwin.lower)
    /\ cwin.lower <= NumBlocks + 2

\* What has been written is what the lower edge has passed.
WrittenOK ==
    /\ cwin.lower = 0 => Len(out) = 0
    /\ cwin.lower \in 1 .. NumBlocks + 1 => Len(out) = cwin.lower - 1
    /\ cwin.lower = NumBlocks + 2 => Len(out) = NumBlocks /\ cstate = "DONE"
    /\ \A i \in 1 .. Len(out) : out[i] = File[i]

ClientInv == ClientTypeOK /\ Frame(cwin) /\ LowerOK /\ WrittenOK

IInv == NetInv /\ ServerInv /\ ClientInv
=============================================================================
