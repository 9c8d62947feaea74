------------------------------- MODULE Server -------------------------------
(***************************************************************************)
(* server.c: the parent (process_server), which forks a child for every    *)
(* file name it receives, and the child (process_client), a state machine  *)
(* that sends the file through the window and serves the client's RR and   *)
(* SREJ.  Only the child that serves the client's present socket is        *)
(* modelled: a child left behind by a client that opened a new socket      *)
(* sends to a closed port and hears nothing.                               *)
(*                                                                         *)
(* sstate holds the value of `state` in process_client, and                *)
(*   "NONE"          no child yet,                                         *)
(*   "POLL_RESPONSE" timeout_on_response has resent and is in              *)
(*                   processSelect,                                        *)
(*   "RECV_EOF_ACK"  new_wait_on_eof_ack is blocked in recv_buf after      *)
(*                   processSelect gave up,                                *)
(*   "EXIT"          exit(1) in the error library, on a send of no bytes.  *)
(* An action is one step of the loop in process_client, cut where the      *)
(* child blocks.  A timeout is an action of its own.                       *)
(***************************************************************************)
EXTENDS Network

CONSTANT NumBlocks      \* the file is this many reads of buf_size bytes long

ASSUME ServerAssumption == NumBlocks \in Nat

\* The contents of the file, block by block.  No two blocks are equal, so
\* that a block in the wrong place shows.
File == [b \in 1 .. NumBlocks |-> b]

START_SEQ_NUM == 1

VARIABLES
    sstate,     \* state
    swin,       \* the server's window
    sseq,       \* seq_num, the number of the next packet
    offset,     \* blocks read from data_file
    rretry,     \* retryCount of timeout_on_response
    eretry      \* retryCount of new_wait_on_eof_ack

serverVars == <<sstate, swin, sseq, offset, rretry, eretry>>

ServerStates == {"NONE", "FILENAME", "NEW_SEND_DATA", "CHECK_FOR_RESPONSE",
    "WAIT_ON_RESPONSE", "TIMEOUT_ON_RESPONSE", "POLL_RESPONSE",
    "WAIT_ON_EOF_ACK", "TIMEOUT_ON_EOF_ACK", "RECV_EOF_ACK", "DONE", "EXIT"}

\* The child process has ended.
ServerEnded == sstate \in {"DONE", "EXIT"}

\* The child sits in a poll that can time out.
ServerPolls == sstate \in {"WAIT_ON_RESPONSE", "POLL_RESPONSE", "WAIT_ON_EOF_ACK"}

Data(seq, block) == Packet("DATA", seq, block)

\* Mutated form of Eof, used by the mutation checks only.
Eof_last_seq(seq) == Packet("END_OF_FILE", seq - 1, 0)

Eof(seq) == Packet("END_OF_FILE", seq, 0)

ServerInit ==
    /\ sstate = "NONE"
    /\ swin = win_init
    /\ sseq = START_SEQ_NUM
    /\ offset = 0
    /\ rretry = 0
    /\ eretry = 0

\* Go to state st, sockets following: a process that ends closes its socket.
GoTo(st) ==
    /\ sstate' = st
    /\ sockets' = IF st \in {"DONE", "EXIT"} THEN sockets \ {"server"} ELSE sockets

-----------------------------------------------------------------------------
(***************************************************************************)
(* process_server: a file name whose checksum verifies forks a child.      *)
(***************************************************************************)
ServerFork ==
    /\ net["main"] # << >>
    /\ Head(net["main"]).flag = "FNAME"
    /\ sstate' = "FILENAME"
    /\ sockets' = {"server", "client"}
    /\ swin' = win_init /\ sseq' = START_SEQ_NUM /\ offset' = 0
    /\ rretry' = 0 /\ eretry' = 0
    /\ NoSend([Take("main", 1) EXCEPT !["server"] = << >>])

ServerIgnoreCorrupted ==
    /\ net["main"] # << >>
    /\ Head(net["main"]).flag = "CRC_ERROR"
    /\ NoSend(Take("main", 1))
    /\ UNCHANGED <<sockets, serverVars>>

(***************************************************************************)
(* filename.  win_init with the sizes of the request, then open.           *)
(***************************************************************************)
ServerFilename ==
    /\ sstate = "FILENAME"
    /\ swin' = win_init
    /\ \/ GoTo("NEW_SEND_DATA") /\ Sendto(net, "client", Packet("FNAME_OK", 0, 0))
       \/ /\ IoMayFail
          /\ GoTo("DONE")
          /\ Sendto(Discard(net, "server"), "client", Packet("FNAME_BAD", 0, 0))
    /\ UNCHANGED <<sseq, offset, rretry, eretry>>

-----------------------------------------------------------------------------
(***************************************************************************)
(* new_send_data                                                           *)
(***************************************************************************)
ServerWindowFull ==
    /\ sstate = "NEW_SEND_DATA"
    /\ win_isFull(swin)
    /\ GoTo("WAIT_ON_RESPONSE")
    /\ NoSend(net)
    /\ UNCHANGED <<swin, sseq, offset, rretry, eretry>>

ServerSendData ==
    /\ sstate = "NEW_SEND_DATA"
    /\ ~win_isFull(swin)
    /\ offset < NumBlocks
    /\ LET pdu == Data(sseq, File[offset + 1])
       IN  /\ Sendto(net, "client", pdu)
           /\ swin' = win_add(swin, pdu).win
    /\ sseq' = sseq + 1
    /\ offset' = offset + 1
    /\ GoTo("CHECK_FOR_RESPONSE")
    /\ UNCHANGED <<rretry, eretry>>

ServerSendEof ==
    /\ sstate = "NEW_SEND_DATA"
    /\ ~win_isFull(swin)
    /\ offset = NumBlocks
    /\ Sendto(net, "client", Eof(sseq))
    /\ GoTo("WAIT_ON_EOF_ACK")
    /\ UNCHANGED <<swin, sseq, offset, rretry, eretry>>

ServerReadError ==
    /\ sstate = "NEW_SEND_DATA"
    /\ ~win_isFull(swin)
    /\ IoMayFail
    /\ GoTo("DONE")
    /\ NoSend(Discard(net, "server"))
    /\ UNCHANGED <<swin, sseq, offset, rretry, eretry>>

-----------------------------------------------------------------------------
\* Mutated form of process_srej, used by the mutation checks only.
process_srej_unchecked(n, srej, next) ==
    GoTo(next) /\ Sendto(n, "client", win_get(swin, srej))

(***************************************************************************)
(* process_srej answers with whatever the cell of the requested number     *)
(* holds.  An empty cell has size 0, and the error library exits on that.  *)
(***************************************************************************)
process_srej(n, srej, next) ==
    LET pdu == win_get(swin, srej)
    IN  IF pdu = EmptyCell
        THEN GoTo("EXIT") /\ NoSend(Discard(n, "server"))
        ELSE GoTo(next) /\ Sendto(n, "client", pdu)

(***************************************************************************)
(* What check_for_response, wait_on_response and new_wait_on_eof_ack do    *)
(* with the packet recv_buf has returned: onCrc and next are the states    *)
(* they return, and eofAcked whether EOF_ACK is looked for.  RR and ACK    *)
(* are the same flag.  Any other flag ends the child.                      *)
(***************************************************************************)
HandleResponse(onCrc, next) ==
    \E i \in Receivable("server") :
        LET m == net["server"][i]
            n == Take("server", i)
        IN  \/ /\ m.flag = "CRC_ERROR"
               /\ GoTo(onCrc) /\ NoSend(n) /\ UNCHANGED swin
            \/ /\ m.flag = "RR"
               /\ swin' = win_RR(swin, m.data)
               /\ GoTo(next) /\ NoSend(n)
            \/ /\ m.flag = "SREJ"
               /\ process_srej(n, m.data, next) /\ UNCHANGED swin
            \/ /\ m.flag \notin {"CRC_ERROR", "RR", "SREJ"}
               /\ GoTo("DONE") /\ NoSend(Discard(n, "server")) /\ UNCHANGED swin

ServerCheckForResponse ==
    /\ sstate = "CHECK_FOR_RESPONSE"
    /\ HandleResponse("NEW_SEND_DATA", "NEW_SEND_DATA")
    /\ UNCHANGED <<sseq, offset, rretry, eretry>>

\* pollCall(0) finds nothing: what is in the queue has not arrived yet.
ServerNoResponseYet ==
    /\ sstate = "CHECK_FOR_RESPONSE"
    /\ GoTo("NEW_SEND_DATA") /\ NoSend(net)
    /\ UNCHANGED <<swin, sseq, offset, rretry, eretry>>

ServerWaitOnResponse ==
    /\ sstate = "WAIT_ON_RESPONSE"
    /\ HandleResponse("TIMEOUT_ON_RESPONSE", "NEW_SEND_DATA")
    /\ UNCHANGED <<sseq, offset, rretry, eretry>>

ServerWaitTimeout ==
    /\ sstate = "WAIT_ON_RESPONSE"
    /\ GoTo("TIMEOUT_ON_RESPONSE") /\ NoSend(net)
    /\ UNCHANGED <<swin, sseq, offset, rretry, eretry>>

-----------------------------------------------------------------------------
(***************************************************************************)
(* timeout_on_response: resend the packet at the lower edge, then          *)
(* processSelect, which either gives up at once or polls.                  *)
(***************************************************************************)
ServerResendLowest ==
    /\ sstate = "TIMEOUT_ON_RESPONSE"
    /\ LET pdu == win_get(swin, swin.lower)
       IN  IF pdu = EmptyCell
           THEN /\ GoTo("EXIT") /\ NoSend(Discard(net, "server"))
                /\ UNCHANGED rretry
           ELSE /\ rretry' = rretry + 1
                /\ IF TriesExceeded(rretry)
                   THEN /\ GoTo("DONE")
                        /\ Sendto(Discard(net, "server"), "client", pdu)
                   ELSE GoTo("POLL_RESPONSE") /\ Sendto(net, "client", pdu)
    /\ UNCHANGED <<swin, sseq, offset, eretry>>

ServerResponseReady ==
    /\ sstate = "POLL_RESPONSE"
    /\ net["server"] # << >>
    /\ rretry' = 0
    /\ GoTo("CHECK_FOR_RESPONSE") /\ NoSend(net)
    /\ UNCHANGED <<swin, sseq, offset, eretry>>

ServerResponseTimeout ==
    /\ sstate = "POLL_RESPONSE"
    /\ GoTo("TIMEOUT_ON_RESPONSE") /\ NoSend(net)
    /\ UNCHANGED <<swin, sseq, offset, rretry, eretry>>

-----------------------------------------------------------------------------
(***************************************************************************)
(* new_wait_on_eof_ack.  The EOF packet is not in the window.  Its         *)
(* dataReadyState and its doneState are the same, DONE, so that giving up  *)
(* leads to recv_buf as a readable socket does.                            *)
(***************************************************************************)
ServerEofAckReady ==
    /\ sstate = "WAIT_ON_EOF_ACK"
    /\ ~TriesExceeded(eretry)
    /\ eretry' = 0
    /\ HandleResponse("WAIT_ON_EOF_ACK", "WAIT_ON_EOF_ACK")
    /\ UNCHANGED <<sseq, offset, rretry>>

\* Mutated form of ServerEofAckTimeout, used by the mutation checks only.
ServerEofAckTimeout_wrong_state ==
    /\ sstate = "WAIT_ON_EOF_ACK"
    /\ ~TriesExceeded(eretry)
    /\ eretry' = eretry + 1
    /\ GoTo("TIMEOUT_ON_RESPONSE") /\ NoSend(net)
    /\ UNCHANGED <<swin, sseq, offset, rretry>>

ServerEofAckTimeout ==
    /\ sstate = "WAIT_ON_EOF_ACK"
    /\ ~TriesExceeded(eretry)
    /\ eretry' = eretry + 1
    /\ GoTo("TIMEOUT_ON_EOF_ACK") /\ NoSend(net)
    /\ UNCHANGED <<swin, sseq, offset, rretry>>

\* The count stays at its first value past MAX_TRIES: it is only compared.
ServerEofAckGiveUp ==
    /\ sstate = "WAIT_ON_EOF_ACK"
    /\ TriesExceeded(eretry)
    /\ eretry' = MaxTries + 1
    /\ GoTo("RECV_EOF_ACK") /\ NoSend(net)
    /\ UNCHANGED <<swin, sseq, offset, rretry>>

ServerRecvAfterGiveUp ==
    /\ sstate = "RECV_EOF_ACK"
    /\ HandleResponse("WAIT_ON_EOF_ACK", "WAIT_ON_EOF_ACK")
    /\ UNCHANGED <<sseq, offset, rretry, eretry>>

\* timeout_on_eof_ack resends `packet`, which still holds the EOF packet:
\* new_send_data put it there and nothing the EOF states do writes it.
ServerResendEof ==
    /\ sstate = "TIMEOUT_ON_EOF_ACK"
    /\ Sendto(net, "client", Eof(sseq))
    /\ GoTo("WAIT_ON_EOF_ACK")
    /\ UNCHANGED <<swin, sseq, offset, rretry, eretry>>

-----------------------------------------------------------------------------
ServerTimeout == ServerWaitTimeout \/ ServerResponseTimeout \/ ServerEofAckTimeout

ServerStep ==
    \/ ServerFork \/ ServerIgnoreCorrupted \/ ServerFilename
    \/ ServerWindowFull \/ ServerSendData \/ ServerSendEof \/ ServerReadError
    \/ ServerCheckForResponse \/ ServerNoResponseYet \/ ServerWaitOnResponse
    \/ ServerResendLowest \/ ServerResponseReady
    \/ ServerEofAckReady \/ ServerEofAckGiveUp \/ ServerRecvAfterGiveUp
    \/ ServerResendEof
=============================================================================
