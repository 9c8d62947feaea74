---------------------------- MODULE TwoChildren -----------------------------
(***************************************************************************)
(* One rcopy served by two children: the network has delivered its request *)
(* twice, and process_server forks a child for every request.  Both        *)
(* children send the file to rcopy's socket.  recvfrom overwrites          *)
(* server->remote with every packet, so that rcopy answers whichever child *)
(* it heard last.                                                          *)
(*                                                                         *)
(* The children are two instances of Server, and rcopy is an instance of   *)
(* Rcopy towards each: an action of R1 reads packets of child 1 and sends  *)
(* to it.  net1 and net2 are the queues between rcopy and either child.    *)
(* Packets are delayed, and the children's polls time out, as long as they *)
(* like; a timeout of rcopy is in Transfer only.                           *)
(***************************************************************************)
EXTENDS Integers

CONSTANTS WindowSize, NumBlocks, ChannelCap, FaultLimit, MaxTries

\* What the modules instantiated below assume of them.
ASSUME TwoChildrenAssumption ==
    /\ WindowSize \in Nat \ {0}
    /\ NumBlocks \in Nat
    /\ ChannelCap \in Nat \ {0}
    /\ FaultLimit \in Nat
    /\ MaxTries \in Nat \ {0}

VARIABLES
    net1, sockets1, sstate1, swin1, sseq1, offset1, rretry1, eretry1,
    net2, sockets2, sstate2, swin2, sseq2, offset2, rretry2, eretry2,
    faults,                                             \* of both
    cstate, cwin, cretry, expected, srej, out,          \* rcopy's
    peer        \* the child whose address is in server->remote

S1 == INSTANCE Server WITH
    net <- net1, sockets <- sockets1, sstate <- sstate1, swin <- swin1,
    sseq <- sseq1, offset <- offset1, rretry <- rretry1, eretry <- eretry1,
    Unlimited <- FALSE, Reordering <- FALSE,
    Duplicating <- FALSE, IoMayFail <- FALSE

S2 == INSTANCE Server WITH
    net <- net2, sockets <- sockets2, sstate <- sstate2, swin <- swin2,
    sseq <- sseq2, offset <- offset2, rretry <- rretry2, eretry <- eretry2,
    Unlimited <- FALSE, Reordering <- FALSE,
    Duplicating <- FALSE, IoMayFail <- FALSE

R1 == INSTANCE Rcopy WITH
    net <- net1, sockets <- sockets1, Unlimited <- FALSE,
    Reordering <- FALSE, Duplicating <- FALSE, IoMayFail <- FALSE,
    WriteMayFail <- FALSE

R2 == INSTANCE Rcopy WITH
    net <- net2, sockets <- sockets2, Unlimited <- FALSE,
    Reordering <- FALSE, Duplicating <- FALSE, IoMayFail <- FALSE,
    WriteMayFail <- FALSE

server1 == <<sstate1, swin1, sseq1, offset1, rretry1, eretry1>>
server2 == <<sstate2, swin2, sseq2, offset2, rretry2, eretry2>>
side1 == <<net1, sockets1, server1>>
side2 == <<net2, sockets2, server2>>
client == <<cstate, cwin, cretry, expected, srej, out>>
vars == <<side1, side2, faults, client, peer>>

Init ==
    /\ S1!NetworkInit /\ S2!NetworkInit
    /\ S1!ServerInit /\ S2!ServerInit
    /\ R1!ClientInit
    /\ peer = 1

-----------------------------------------------------------------------------
\* Either child takes a step of its own.
Child1 == (S1!ServerStep \/ S1!ServerTimeout) /\ UNCHANGED <<side2, client, peer>>
Child2 == (S2!ServerStep \/ S2!ServerTimeout) /\ UNCHANGED <<side1, client, peer>>

\* The one request reaches the server's port twice.
Start ==
    /\ R1!ClientStart /\ R2!ClientStart
    /\ UNCHANGED <<server1, server2, peer>>

\* When rcopy ends, its socket closes for both children.
Close1 == IF cstate' = "DONE" THEN sockets1' = sockets1 \ {"client"} /\ net1' = R1!Close(net1)
                              ELSE UNCHANGED <<sockets1, net1>>
Close2 == IF cstate' = "DONE" THEN sockets2' = sockets2 \ {"client"} /\ net2' = R2!Close(net2)
                              ELSE UNCHANGED <<sockets2, net2>>

\* recvfrom: the packet's sender becomes the address rcopy answers to.
Heard(k) == peer' = k

Receive1 ==
    /\ R1!ClientFilename \/ R1!ClientRecvData \/ R1!ClientRecvCorrupted
    /\ Heard(1) /\ Close2 /\ UNCHANGED <<server1, server2>>

Receive2 ==
    /\ R2!ClientFilename \/ R2!ClientRecvData \/ R2!ClientRecvCorrupted
    /\ Heard(2) /\ Close1 /\ UNCHANGED <<server1, server2>>

FileOk ==
    /\ R1!ClientFileOk
    /\ UNCHANGED <<side2, server1, peer>>

\* The turns of the loops that send.
Answer1 ==
    /\ peer = 1
    /\ R1!ClientSendSrej \/ R1!ClientDequeue
    /\ Close2 /\ UNCHANGED <<server1, server2, peer>>

Answer2 ==
    /\ peer = 2
    /\ R2!ClientSendSrej \/ R2!ClientDequeue
    /\ Close1 /\ UNCHANGED <<server1, server2, peer>>

Next ==
    \/ Child1 \/ Child2
    \/ Start \/ Receive1 \/ Receive2 \/ FileOk \/ Answer1 \/ Answer2

Spec == Init /\ [][Next]_vars

-----------------------------------------------------------------------------
outcome == IF cstate # "DONE" THEN "copying"
           ELSE IF cwin.lower = NumBlocks + 2 THEN "complete" ELSE "aborted"

Copy == INSTANCE FileCopy WITH Source <- S1!File, written <- out, outcome <- outcome

(***************************************************************************)
(* Two children that know nothing of each other do not harm the copy:      *)
(* rcopy still writes every block once and in order, and ends as complete  *)
(* only when it has them all (recv_data, dequeue_data), although either    *)
(* child is told of blocks it has not sent yet.                            *)
(***************************************************************************)
ImplementsFileCopy == Copy!Spec

(***************************************************************************)
(* Flow control towards both: no child is ahead of rcopy's window, though  *)
(* the RRs it gets may be for packets of the other (win_RR beyond current).*)
(***************************************************************************)
NeverTooHigh ==
    cstate \in {"RECV_DATA", "SREJ", "DEQUEUE"} =>
        \A q \in {net1["client"], net2["client"]} :
            \A i \in DOMAIN q : q[i].seq < cwin.upper

(***************************************************************************)
(* "this should never happen" (server.c:184, 214 and 271): a child that    *)
(* still sends data gets no EOF_ACK.                                       *)
(***************************************************************************)
NoEofAckWhileSending ==
    /\ sstate1 \in {"CHECK_FOR_RESPONSE", "WAIT_ON_RESPONSE"} =>
           \A i \in DOMAIN net1["server"] : net1["server"][i].flag # "EOF_ACK"
    /\ sstate2 \in {"CHECK_FOR_RESPONSE", "WAIT_ON_RESPONSE"} =>
           \A i \in DOMAIN net2["server"] : net2["server"][i].flag # "EOF_ACK"
=============================================================================
