-------------------------------- MODULE Wire --------------------------------
(***************************************************************************)
(* One exchange, byte by byte: the server sends a packet, the error        *)
(* library may invert a byte of it, rcopy reads it, puts it together again *)
(* for its window (recv_data) and answers with an RR for it, if it is      *)
(* DATA, or with an SREJ; the answer may be damaged too; the server reads  *)
(* the number in it.  Drops are left to Network.                           *)
(***************************************************************************)
EXTENDS Packets

CONSTANTS
    SeqNums,        \* sequence numbers to try
    PayloadBytes,   \* bytes a payload may consist of
    MaxPayload      \* and its greatest length

ASSUME WireAssumption ==
    /\ \A seq \in SeqNums : seq \in Nat /\ seq \div 16777216 \in Byte   \* a uint32_t
    /\ PayloadBytes \subseteq Byte
    /\ MaxPayload \in 1 .. 1400             \* win_init

VARIABLES
    phase,      \* whose turn it is
    sent,       \* the fields last given to send_buf
    wire,       \* the bytes on their way
    flipped,    \* the error library has damaged them
    read,       \* what recv_buf returned last
    cell,       \* the packet put together for rcopy's window
    meant,      \* the number rcopy acknowledges or requests
    number      \* the number process_rr or process_srej has read

vars == <<phase, sent, wire, flipped, read, cell, meant, number>>

Payloads == UNION {[1 .. n -> PayloadBytes] : n \in 1 .. MaxPayload}

Init ==
    /\ phase = "send" /\ sent = CRC_ERROR /\ wire = << >> /\ flipped = FALSE
    /\ read = CRC_ERROR /\ cell = << >> /\ meant = 0 /\ number = 0

\* send_buf, and what sendto_Err may do with the bytes.
SendBuf(flag, seq, payload) ==
    LET p == createHeader(flag, seq, payload)
    IN  /\ sent' = [flag |-> flag, seq |-> seq, payload |-> payload]
        /\ \/ wire' = p /\ flipped' = FALSE
           \/ flipped' = TRUE /\ \E i \in 1 .. Len(p) : wire' = FlipByte(p, i)

\* new_send_data.  The payload of an END_OF_FILE is a byte of an uninitialised
\* buffer.
ServerSends ==
    /\ phase = "send"
    /\ \E seq \in SeqNums :
         \/ \E data \in Payloads : SendBuf(DATA, seq, data)
         \/ \E b \in PayloadBytes : SendBuf(END_OF_FILE, seq, <<b>>)
    /\ phase' = "client"
    /\ UNCHANGED <<read, cell, meant, number>>

\* recv_data: recv_buf, then createHeader on what it returned.
ClientReads ==
    /\ phase = "client"
    /\ read' = retrieveHeader(wire)
    /\ IF read' = CRC_ERROR
       THEN phase' = "done" /\ UNCHANGED cell
       ELSE /\ phase' = "answer"
            /\ cell' = createHeader(read'.flag, read'.seq, read'.payload)
    /\ UNCHANGED <<sent, wire, flipped, meant, number>>

\* dequeue_data's RR for the packet in the cell.
ClientSendsRR ==
    /\ phase = "answer"
    /\ cell[7] = DATA
    /\ SendBuf(RR, 0, RRPayload(cell)) /\ meant' = read.seq
    /\ phase' = "server"
    /\ UNCHANGED <<read, cell, number>>

\* recv_data's SREJ for some number.
ClientSendsSrej ==
    /\ phase = "answer"
    /\ \E seq \in SeqNums : SendBuf(SREJ, 0, SREJPayload(seq)) /\ meant' = seq
    /\ phase' = "server"
    /\ UNCHANGED <<read, cell, number>>

\* process_rr and process_srej.
ServerReads ==
    /\ phase = "server"
    /\ read' = retrieveHeader(wire)
    /\ number' = IF read' = CRC_ERROR THEN number ELSE RequestedNumber(read'.payload)
    /\ phase' = "done"
    /\ UNCHANGED <<sent, wire, flipped, cell, meant>>

Done == phase = "done" /\ UNCHANGED vars

Next ==
    \/ ServerSends \/ ClientReads \/ ClientSendsRR \/ ClientSendsSrej
    \/ ServerReads \/ Done

Spec == Init /\ [][Next]_vars

-----------------------------------------------------------------------------
\* recv_buf has just returned the packet in `sent`.
JustRead == phase \in {"answer", "done"}

(***************************************************************************)
(* The checksum does its work: recv_buf rejects a packet exactly if a byte *)
(* of it was inverted, wherever that byte lies, the checksum itself and    *)
(* the odd byte at the end included.  What it accepts is what was sent     *)
(* (in_cksum, createHeader, retrieveHeader, errorFlipBits).                *)
(***************************************************************************)
ReadAsSentOrRejected == JustRead => read = IF flipped THEN CRC_ERROR ELSE sent

(***************************************************************************)
(* The number the server reads out of an RR or SREJ is the one the client  *)
(* meant, although one is copied as it lies in the window and the other    *)
(* converted (dequeue_data, recv_data, process_rr, process_srej).          *)
(***************************************************************************)
AnswersNameTheirPacket ==
    phase = "done" /\ read.flag \in {RR, SREJ} => number = meant
=============================================================================
