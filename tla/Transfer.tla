------------------------------ MODULE Transfer ------------------------------
(***************************************************************************)
(* One transfer: rcopy, the server's parent and the child that serves      *)
(* rcopy's present socket, over a network that loses, corrupts, delays and *)
(* (if Reordering) reorders packets.                                       *)
(*                                                                         *)
(* Time enters only through timeouts.  With Prompt FALSE a poll may time   *)
(* out whatever is on its way.  With Prompt TRUE a packet and its answer   *)
(* need much less than SHORT_TIME, so that a poll times out only in        *)
(* silence, and rcopy's LONG_TIME, which is ten times SHORT_TIME, only     *)
(* when the server will not send again.                                    *)
(***************************************************************************)
EXTENDS Server, Rcopy

CONSTANT Prompt

ASSUME TransferAssumption == Prompt \in BOOLEAN

vars == <<netVars, serverVars, clientVars>>

Init == NetworkInit /\ ServerInit /\ ClientInit

\* The server is not going to send anything more on its own.
ServerSilent == sstate \in {"DONE", "EXIT", "RECV_EOF_ACK"}

\* Nothing is on its way and both sides sit in a poll, have ended or, the
\* server, have not been reached.
Silence ==
    /\ \A e \in Endpoints : net[e] = << >>
    /\ sstate = "NONE" \/ ServerPolls \/ ServerSilent
    /\ ClientPolls \/ cstate = "DONE"

ServerTimesOut == (Prompt => Silence) /\ ServerTimeout /\ UNCHANGED clientVars

ClientTimesOut ==
    /\ \/ (Prompt => Silence) /\ ClientFilenameTimeout
       \/ (Prompt => Silence /\ ServerSilent) /\ ClientRecvTimeout
    /\ UNCHANGED serverVars

\* Both programs have ended, or nobody was ever served: nothing happens any
\* more.
Terminated == cstate = "DONE" /\ sstate \in {"NONE", "DONE", "EXIT"} /\ UNCHANGED vars

ServerNext == (ServerStep /\ UNCHANGED clientVars) \/ ServerTimesOut
ClientNext == (ClientStep /\ UNCHANGED serverVars) \/ ClientTimesOut

Next == ServerNext \/ ClientNext \/ Terminated

Spec == Init /\ [][Next]_vars

\* Neither process stops for good while it can run.
FairSpec == Spec /\ WF_vars(ServerNext) /\ WF_vars(ClientNext)

-----------------------------------------------------------------------------
(***************************************************************************)
(* The run of rcopy as FileCopy sees it.  The lower edge passes the number *)
(* of the EOF packet only when dequeue_data has taken it out.              *)
(***************************************************************************)
outcome == IF cstate # "DONE" THEN "copying"
           ELSE IF cwin.lower = NumBlocks + 2 THEN "complete" ELSE "aborted"

Copy == INSTANCE FileCopy WITH Source <- File, written <- out, outcome <- outcome

\* Every step of the two programs is a step of FileCopy or leaves the output
\* and the outcome alone (dequeue_data and the ways out of processFile).
ImplementsFileCopy == Copy!Spec

-----------------------------------------------------------------------------
WireFlags == {"CRC_ERROR", "FNAME", "FNAME_OK", "FNAME_BAD", "DATA",
              "END_OF_FILE", "RR", "SREJ", "EOF_ACK"}

PDU == [flag : WireFlags, seq : Nat, data : Int]

WindowType == [lower : Nat, current : Nat \cup {-1}, upper : Nat,
               cells : [Cells -> PDU \cup {EmptyCell}]]

NetworkTypeOK ==
    /\ net \in [Endpoints -> Seq(PDU)]
    /\ sockets \subseteq {"server", "client"}
    /\ faults \in Nat

ServerTypeOK ==
    /\ sstate \in ServerStates
    /\ swin \in WindowType
    /\ sseq \in Nat /\ offset \in 0 .. NumBlocks
    /\ rretry \in Nat /\ eretry \in Nat

ClientTypeOK ==
    /\ cstate \in ClientStates
    /\ cwin \in WindowType
    /\ cretry \in Nat
    /\ expected \in Int /\ srej \in Int
    /\ out \in Seq(1 .. NumBlocks)

\* Every variable has the type its declaration in the code gives it, and no
\* datagram without a header is ever on its way (the error library ends the
\* process that tries to send one).
TypeOK == NetworkTypeOK /\ ServerTypeOK /\ ClientTypeOK

\* Everything on its way to e.
Queued(e) == ToSet(net[e])

\* rcopy is past file_ok and still copying.
Receiving == cstate \in {"RECV_DATA", "SREJ", "DEQUEUE"}

(***************************************************************************)
(* The output file is at all times a prefix of the source, whatever was    *)
(* lost, resent, delayed or reordered, and through reconnections           *)
(* (recv_data, win_add, dequeue_data).                                     *)
(***************************************************************************)
OutputIsPrefix == IsPrefix(out, File)

(***************************************************************************)
(* The server always holds what the client may still ask for: every packet *)
(* sent and not yet written by the client sits in its own cell of the      *)
(* server's window (new_send_data, win_add, process_rr against             *)
(* dequeue_data's RR).                                                     *)
(***************************************************************************)
ServerRetains ==
    \A s \in 1 .. sseq - 1 :
        (s >= cwin.lower /\ ~ServerEnded) => win_get(swin, s) = Data(s, File[s])

(***************************************************************************)
(* "Resend lowest packet" (server.c:223): when timeout_on_response runs,   *)
(* the cell at the lower edge holds a packet, the last one acknowledged if *)
(* any was.  An empty one would be sent with size 0, and end the child.    *)
(***************************************************************************)
LowestIsHeld ==
    sstate = "TIMEOUT_ON_RESPONSE" => ~win_cellEmpty(swin, swin.lower)

(***************************************************************************)
(* Flow control: no packet on its way to the client is above the client's  *)
(* window, where win_add would refuse it and push current to the end of    *)
(* the frame.  The server's window lags the client's by one packet, the    *)
(* one whose number the last RR carried.                                   *)
(***************************************************************************)
NeverTooHigh ==
    Receiving => \A m \in Queued("client") : m.seq < cwin.upper

(***************************************************************************)
(* An EOF_ACK is on its way only if the whole file has been written: the   *)
(* server's "File transfer completed successfully" is never premature      *)
(* (dequeue_data, new_wait_on_eof_ack).                                    *)
(***************************************************************************)
EofAckMeansComplete ==
    Packet("EOF_ACK", 0, 0) \in Queued("server") => out = File

(***************************************************************************)
(* "this should never happen" (server.c:184, 214 and 271): no packet that  *)
(* would end the child as unexpected reaches it.  An EOF_ACK in particular *)
(* meets only a child that waits for it.                                   *)
(***************************************************************************)
NoUnexpectedFlag ==
    \A m \in Queued("server") :
        \/ m.flag \in {"CRC_ERROR", "RR", "SREJ"}
        \/ /\ m.flag = "EOF_ACK"
           /\ sstate \in {"WAIT_ON_EOF_ACK", "TIMEOUT_ON_EOF_ACK", "RECV_EOF_ACK"}

(***************************************************************************)
(* The loop of recv_data requests nothing it has: the number it is about   *)
(* to request lies in the window and its cell is empty, although win_add   *)
(* reports errors through the same value as sequence numbers.              *)
(***************************************************************************)
RequestsOnlyGaps ==
    cstate = "SREJ" =>
        /\ srej >= cwin.lower /\ srej < cwin.upper
        /\ win_cellEmpty(cwin, srej)

(***************************************************************************)
(* Nothing deliverable waits: when rcopy blocks for the next packet, the   *)
(* one at the lower edge is missing.  (recv_data returns before            *)
(* dequeue_data on an old packet; the packet that fills the oldest gap is  *)
(* old too.)                                                               *)
(***************************************************************************)
DeliversAtOnce ==
    cstate = "RECV_DATA" => win_cellEmpty(cwin, cwin.lower)

(***************************************************************************)
(* Neither window moves back, whatever old RR arrives (process_rr,         *)
(* win_deQueue); only a new child starts over.                             *)
(***************************************************************************)
WindowsAdvance ==
    [][/\ sstate' # "FILENAME" => swin'.lower >= swin.lower
       /\ cwin'.lower >= cwin.lower]_vars

-----------------------------------------------------------------------------
(***************************************************************************)
(* With prompt delivery, and if no packet is ever dropped or flipped, both *)
(* programs end and the copy is complete.                                  *)
(***************************************************************************)
BothFinish == [](faults = 0) => <>[](outcome = "complete" /\ sstate = "DONE")

(***************************************************************************)
(* One dropped or flipped packet, whichever it is, does not keep rcopy     *)
(* from completing the copy, if the window has room for a second RR        *)
(* (recv_data's SREJ, timeout_on_response, timeout_on_eof_ack, filename).  *)
(***************************************************************************)
CompletesDespiteFault == <>(outcome = "complete")

(***************************************************************************)
(* "Send Lowest packet, to break stall" (server.c:333): after the resend   *)
(* the window opens or the child gives up.                                 *)
(***************************************************************************)
BreaksStall ==
    sstate = "TIMEOUT_ON_RESPONSE" ~> (~win_isFull(swin) \/ ServerEnded)

(***************************************************************************)
(* "doneState if calling this function exceeds MAX_TRIES" (srej.c:104) and *)
(* "terminating connection" (srej.c:112): a child whose EOF goes           *)
(* unanswered MAX_TRIES times ends.                                        *)
(***************************************************************************)
GivesUp == eretry > MaxTries ~> ServerEnded

(***************************************************************************)
(* "Send packet with requested sequence number" (server.c:155): the cell   *)
(* process_srej is about to send from holds the packet that was asked for. *)
(***************************************************************************)
RequestsAreAnswerable ==
    \A i \in Receivable("server") :
        LET m == net["server"][i]
        IN  m.flag = "SREJ" /\ sstate \in {"CHECK_FOR_RESPONSE", "WAIT_ON_RESPONSE",
                                            "WAIT_ON_EOF_ACK", "RECV_EOF_ACK"}
              => win_get(swin, m.data).seq = m.data
=============================================================================
