------------------------------- MODULE Rcopy --------------------------------
(***************************************************************************)
(* rcopy.c: the client.  processFile is a state machine over `state`;      *)
(* cstate holds its value, and                                             *)
(*   "SREJ"     recv_data is in the loop that requests skipped packets,    *)
(*   "DEQUEUE"  dequeue_data is in its loop.                               *)
(* Both loops send a packet per turn, and the server may act between two   *)
(* of them, so that a turn is an action.  A timeout is an action of its    *)
(* own.  clientSeqNum, which the headers of RR and SREJ carry and nobody   *)
(* reads, is left out.                                                     *)
(***************************************************************************)
EXTENDS Network

CONSTANT WriteMayFail   \* write to the output file may fail

ASSUME RcopyAssumption == WriteMayFail \in BOOLEAN

VARIABLES
    cstate,     \* state
    cwin,       \* the client's window
    cretry,     \* retryCount of filename
    expected,   \* expected_seq_num
    srej,       \* i, the loop variable of recv_data
    out         \* the blocks written to the output file

clientVars == <<cstate, cwin, cretry, expected, srej, out>>

ClientStates == {"START_STATE", "FILENAME", "FILE_OK", "RECV_DATA", "SREJ",
                 "DEQUEUE", "DONE"}

\* rcopy sits in a poll that can time out.
ClientPolls == cstate \in {"FILENAME", "RECV_DATA"}

ClientInit ==
    /\ cstate = "START_STATE"
    /\ cwin = win_init
    /\ cretry = 0
    /\ expected = 1
    /\ srej = 0
    /\ out = << >>

\* The socket that closes loses what is queued for it; a request it has sent
\* that is still on its way makes a child that serves nobody.
Close(n) == Discard(Discard(n, "client"), "main")

ToDone(n) ==
    /\ cstate' = "DONE"
    /\ sockets' = sockets \ {"client"}
    /\ NoSend(Close(n))

-----------------------------------------------------------------------------
(***************************************************************************)
(* start_state: a new socket, and the request.                             *)
(***************************************************************************)
ClientStart ==
    /\ cstate = "START_STATE"
    /\ cstate' = "FILENAME"
    /\ sockets' = sockets \ {"client"}
    /\ Sendto(Close(net), "main", Packet("FNAME", 0, 0))
    /\ UNCHANGED <<cwin, cretry, expected, srej, out>>

ClientNoHost ==
    /\ cstate = "START_STATE"
    /\ IoMayFail
    /\ ToDone(net)
    /\ UNCHANGED <<cwin, cretry, expected, srej, out>>

-----------------------------------------------------------------------------
(***************************************************************************)
(* filename                                                                *)
(***************************************************************************)
ClientFilenameGiveUp ==
    /\ cstate = "FILENAME"
    /\ TriesExceeded(cretry)
    /\ cretry' = cretry + 1
    /\ ToDone(net)
    /\ UNCHANGED <<cwin, expected, srej, out>>

ClientFilenameTimeout ==
    /\ cstate = "FILENAME"
    /\ ~TriesExceeded(cretry)
    /\ cretry' = cretry + 1
    /\ cstate' = "START_STATE"
    /\ NoSend(net)
    /\ UNCHANGED <<sockets, cwin, expected, srej, out>>

ClientFilename ==
    /\ cstate = "FILENAME"
    /\ ~TriesExceeded(cretry)
    /\ cretry' = 0
    /\ \E i \in Receivable("client") :
         LET m == net["client"][i]
             n == Take("client", i)
         IN  \/ /\ m.flag = "FNAME_BAD"
                /\ ToDone(n)
             \/ /\ m.flag # "FNAME_BAD"
                /\ cstate' = CASE m.flag = "CRC_ERROR" -> "START_STATE"
                               [] m.flag = "DATA"      -> "FILENAME"
                               [] OTHER                -> "FILE_OK"
                /\ NoSend(n) /\ UNCHANGED sockets
    /\ UNCHANGED <<cwin, expected, srej, out>>

(***************************************************************************)
(* file_ok: a packet numbered START_SEQ_NUM - 1 goes through the window,   *)
(* which leaves its lower edge at START_SEQ_NUM; then the file is opened.  *)
(***************************************************************************)
ClientFileOk ==
    /\ cstate = "FILE_OK"
    /\ cwin' = win_deQueue(win_add(cwin, Packet("FNAME_OK", 0, 0)).win)
    /\ \/ cstate' = "RECV_DATA" /\ NoSend(net) /\ UNCHANGED sockets
       \/ IoMayFail /\ ToDone(net)
    /\ UNCHANGED <<cretry, expected, srej, out>>

-----------------------------------------------------------------------------
\* The comparison seq_num < expected_seq_num in recv_data converts expected
\* to uint32_t: a negative one is above every sequence number.
BelowExpected(seq) == expected < 0 \/ seq < expected

\* Mutated form of NotNext, used by the mutation checks only.
NotNext_any_old(w, seq) == BelowExpected(seq)

\* recv_data does not go on to dequeue_data with a packet it has passed,
\* unless it is the one at the lower edge.
NotNext(w, seq) == BelowExpected(seq) /\ seq # w.lower

\* recv_data goes on to dequeue_data, whose loop may have nothing to do.
NextDequeue(w) == IF win_lowest_cell_isFull(w) THEN "DEQUEUE" ELSE "RECV_DATA"

ClientRecvTimeout ==
    /\ cstate = "RECV_DATA"
    /\ ToDone(net)
    /\ UNCHANGED <<cwin, cretry, expected, srej, out>>

ClientRecvCorrupted ==
    /\ cstate = "RECV_DATA"
    /\ \E i \in Receivable("client") :
         /\ net["client"][i].flag = "CRC_ERROR"
         /\ NoSend(Take("client", i))
    /\ UNCHANGED <<sockets, clientVars>>

(***************************************************************************)
(* recv_data, up to its loop: the packet goes into the window.  An old one *)
(* is answered with an SREJ for the lower edge; otherwise the numbers from *)
(* expected up to win_add's result are the ones to request.                *)
(***************************************************************************)
ClientRecvData ==
    /\ cstate = "RECV_DATA"
    /\ \E i \in Receivable("client") :
         LET m     == net["client"][i]
             n     == Take("client", i)
             added == win_add(cwin, m)
         IN  /\ m.flag # "CRC_ERROR"
             /\ cwin' = added.win
             /\ IF NotNext(cwin', m.seq)
                THEN /\ Sendto(n, "server", Packet("SREJ", 0, cwin'.lower))
                     /\ UNCHANGED <<cstate, expected, srej>>
                ELSE /\ NoSend(n)
                     /\ expected' = added.ret + 1
                     /\ IF expected < added.ret
                        THEN cstate' = "SREJ" /\ srej' = expected
                        ELSE cstate' = NextDequeue(cwin') /\ UNCHANGED srej
    /\ UNCHANGED <<sockets, cretry, out>>

\* Mutated form of ClientSendSrej, used by the mutation checks only: the loop
\* runs up to current itself.
ClientSendSrej_through_current ==
    /\ cstate = "SREJ"
    /\ Sendto(net, "server", Packet("SREJ", 0, srej))
    /\ IF srej + 1 < expected
       THEN srej' = srej + 1 /\ UNCHANGED cstate
       ELSE srej' = 0 /\ cstate' = NextDequeue(cwin)
    /\ UNCHANGED <<sockets, cwin, cretry, expected, out>>

\* One turn of the loop `for (i = expected; i < current; ++i)`; current is
\* expected - 1 by now.
ClientSendSrej ==
    /\ cstate = "SREJ"
    /\ Sendto(net, "server", Packet("SREJ", 0, srej))
    /\ IF srej + 1 < expected - 1
       THEN srej' = srej + 1 /\ UNCHANGED cstate
       ELSE srej' = 0 /\ cstate' = NextDequeue(cwin)
    /\ UNCHANGED <<sockets, cwin, cretry, expected, out>>

\* What write may leave in the output file; its result is ignored.
Written(file, block) == {Append(file, block)} \cup (IF WriteMayFail THEN {file} ELSE {})

(***************************************************************************)
(* One turn of dequeue_data: the packet at the lower edge leaves the       *)
(* window.  The RR carries the number of the packet written, which is the  *)
(* new lower edge less one.                                                *)
(***************************************************************************)
ClientDequeue ==
    /\ cstate = "DEQUEUE"
    /\ LET pdu == win_get(cwin, cwin.lower)
       IN  /\ cwin' = win_deQueue(cwin)
           /\ \/ /\ pdu.flag = "DATA"
                 /\ out' \in Written(out, pdu.data)
                 /\ Sendto(net, "server", Packet("RR", 0, pdu.seq))
                 /\ cstate' = NextDequeue(cwin')
                 /\ UNCHANGED sockets
              \/ /\ pdu.flag = "END_OF_FILE"
                 /\ Sendto(Close(net), "server", Packet("EOF_ACK", 0, 0))
                 /\ cstate' = "DONE"
                 /\ sockets' = sockets \ {"client"}
                 /\ UNCHANGED out
              \/ /\ pdu.flag \notin {"DATA", "END_OF_FILE"}
                 /\ NoSend(net)
                 /\ cstate' = NextDequeue(cwin')
                 /\ UNCHANGED <<sockets, out>>
    /\ UNCHANGED <<cretry, expected, srej>>

-----------------------------------------------------------------------------
ClientStep ==
    \/ ClientStart \/ ClientNoHost
    \/ ClientFilenameGiveUp \/ ClientFilename \/ ClientFileOk
    \/ ClientRecvCorrupted \/ ClientRecvData \/ ClientSendSrej \/ ClientDequeue
=============================================================================
