------------------------------ MODULE Network -------------------------------
(***************************************************************************)
(* The datagram sockets between rcopy and the server, seen through         *)
(* send_buf / recv_buf (srej.c), safeSendto / safeRecvfrom (networks.c)    *)
(* and the error library that sendto is redefined to.                      *)
(*                                                                         *)
(* net[e] is the queue of packets on their way to endpoint e, or arrived   *)
(* there and not yet read: "main" is the server's well-known port,         *)
(* "server" the socket of the child that serves the client's present       *)
(* socket, "client" that socket.  A packet sent to an endpoint that is not *)
(* in `sockets` finds a closed port and vanishes.                          *)
(***************************************************************************)
EXTENDS Integers, Sequences, SequencesExt, Window

CONSTANTS
    ChannelCap,     \* packets a receive buffer holds; the next one is dropped
    FaultLimit,     \* packets the error library may drop or flip ...
    Unlimited,      \* ... unless this is TRUE: then as many as it likes
    Reordering,     \* TRUE: the network may deliver out of order
    Duplicating,    \* TRUE: the network may deliver twice
    MaxTries,       \* MAX_TRIES of srej.h
    IoMayFail       \* system calls on files and names may fail

ASSUME NetworkAssumption ==
    /\ ChannelCap \in Nat \ {0}
    /\ FaultLimit \in Nat
    /\ Unlimited \in BOOLEAN
    /\ Reordering \in BOOLEAN
    /\ Duplicating \in BOOLEAN
    /\ MaxTries \in Nat \ {0}
    /\ IoMayFail \in BOOLEAN

VARIABLES
    net,        \* the three queues
    sockets,    \* the sockets that a packet can reach, besides "main"
    faults      \* packets dropped or flipped so far, when FaultLimit counts

netVars == <<net, sockets, faults>>

Endpoints == {"main", "server", "client"}

\* What recv_buf makes of a packet whose checksum does not verify.
Corrupted == Packet("CRC_ERROR", 0, 0)

NetworkInit ==
    /\ net = [e \in Endpoints |-> << >>]
    /\ sockets = {}
    /\ faults = 0

-----------------------------------------------------------------------------
Enqueue(n, dest, pdu) ==
    IF (dest = "main" \/ dest \in sockets) /\ Len(n[dest]) < ChannelCap
    THEN [n EXCEPT ![dest] = Append(@, pdu)]
    ELSE n

\* The two random events: errorDrop sends nothing, errorFlipBits inverts one
\* byte, which the checksum at the other end never misses.
Dropped(n, dest) == n
Flipped(n, dest) == Enqueue(n, dest, Corrupted)

\* One of the events happens to this packet.
RandomEvent(n, dest) ==
    /\ Unlimited \/ faults < FaultLimit
    /\ faults' = IF Unlimited THEN faults ELSE faults + 1
    /\ net' \in {Dropped(n, dest), Flipped(n, dest)}

\* The network delivers the packet twice.  (What a request that arrives twice
\* leads to is the subject of module TwoChildren.)
Duplicate(n, dest, pdu) ==
    /\ Duplicating /\ dest # "main"
    /\ net' = Enqueue(Enqueue(n, dest, pdu), dest, pdu)
    /\ UNCHANGED faults

(***************************************************************************)
(* safeSendto through sendto_Err, which rolls the dice on every packet:    *)
(* sent as it is, dropped, or sent with one byte flipped.  The argument n  *)
(* is the state of the queues after whatever the same step has read.       *)
(***************************************************************************)
Sendto(n, dest, pdu) ==
    \/ net' = Enqueue(n, dest, pdu) /\ UNCHANGED faults
    \/ RandomEvent(n, dest)
    \/ Duplicate(n, dest, pdu)

\* A step that only reads, or that reads nothing.
NoSend(n) == net' = n /\ UNCHANGED faults

\* The positions of the queue of e from which the next packet may be read.
Receivable(e) == {i \in DOMAIN net[e] : Reordering \/ i = 1}

Take(e, i) == [net EXCEPT ![e] = RemoveAt(@, i)]

\* Closing the socket of e loses what its queue holds.
Discard(n, e) == [n EXCEPT ![e] = << >>]

\* processSelect counts a try before it polls, and does not poll once the
\* count has passed MAX_TRIES.
TriesExceeded(retryCount) == retryCount + 1 > MaxTries
=============================================================================
