------------------------------ MODULE PollSet -------------------------------
(***************************************************************************)
(* pollLib.c, and the descriptors of the process that uses it: rcopy,      *)
(* which may close its socket and open a new one, or a server child, which *)
(* opens one socket and one file.  A process reads from its present socket *)
(* after a pollCall that did not time out, whatever slot pollCall named.   *)
(*                                                                         *)
(* The poll table maps a slot to the descriptor watched there; a slot that *)
(* was never set holds descriptor 0 and no events, which to poll(2) means  *)
(* standard input, errors and hang-ups only.                               *)
(***************************************************************************)
EXTENDS Integers, FiniteSets, FiniteSetsExt

CONSTANTS
    POLL_SET_SIZE,  \* slots added at a time
    MaxFd           \* highest descriptor of the model

ASSUME PollSetAssumption ==
    /\ POLL_SET_SIZE \in Nat \ {0}
    /\ MaxFd \in Nat

VARIABLES
    table,          \* pollFileDescriptors
    maxFileDescriptor,
    openFds,        \* open descriptors
    fileOpen,       \* the data file, or the output file, is open
    sk,             \* sk_num of the Connection, 0 if there is none
    queued,         \* descriptors of sockets with a packet to read
    hungUp,         \* standard input has lost its other end
    ready           \* what the last pollCall returned, TIMEOUT if used up

vars == <<table, maxFileDescriptor, openFds, fileOpen, sk, queued, hungUp, ready>>

TIMEOUT == -1

Fds == 0 .. MaxFd

Slot(fd, events) == [fd |-> fd, events |-> events]

\* calloc, and the loop of growPollSet.
EmptySlot == Slot(0, {})

\* The process may inherit any descriptors, but standard input is open.
Init ==
    /\ table = [s \in 0 .. POLL_SET_SIZE - 1 |-> EmptySlot]
    /\ maxFileDescriptor = 0
    /\ openFds \in {S \cup {0} : S \in SUBSET Fds} /\ fileOpen = FALSE
    /\ sk = 0 /\ queued = {} /\ hungUp = FALSE /\ ready = TIMEOUT

-----------------------------------------------------------------------------
\* Mutated form of growPollSet, used by the mutation checks only.
growPollSet_by_size(t, newSetSize) ==
    [s \in 0 .. newSetSize - 1 - POLL_SET_SIZE |->
        IF s \in DOMAIN t THEN t[s] ELSE EmptySlot]

growPollSet(t, newSetSize) ==
    [s \in 0 .. newSetSize - 1 |-> IF s \in DOMAIN t THEN t[s] ELSE EmptySlot]

addToPollSet(t, fd) ==
    LET grown == IF fd >= Cardinality(DOMAIN t)     \* currentPollSetSize
                 THEN growPollSet(t, fd + POLL_SET_SIZE) ELSE t
    IN  [s \in DOMAIN grown |-> IF s = fd THEN Slot(fd, {"POLLIN"}) ELSE grown[s]]

\* What poll(2) reports for a slot: what was asked for, and errors and
\* hang-ups in any case.
Revents(slot) ==
    (IF slot.fd \in queued THEN slot.events ELSE {})
    \cup (IF slot.fd \notin openFds THEN {"POLLNVAL"} ELSE {})
    \cup (IF slot.fd = 0 /\ hungUp THEN {"POLLHUP"} ELSE {})

\* Mutated form of ReadySlots, used by the mutation checks only.
ReadySlots_short ==
    {s \in 0 .. maxFileDescriptor - 2 : s \in DOMAIN table /\ Revents(table[s]) # {}}

\* pollCall returns the lowest slot with any event.
ReadySlots ==
    {s \in 0 .. maxFileDescriptor - 1 : s \in DOMAIN table /\ Revents(table[s]) # {}}

pollCall == IF ReadySlots = {} THEN TIMEOUT ELSE Min(ReadySlots)

-----------------------------------------------------------------------------
LowestFree(used) == Min(Fds \ used)

\* Mutated form of Closed, used by the mutation checks only: a new connection
\* leaves the old socket open.
Closed_forgotten == {}

\* start_state closes the socket it had.
Closed == IF sk > 0 THEN {sk} ELSE {}

\* start_state (rcopy), filename (server): a new socket joins the set.
Connect ==
    /\ ~fileOpen
    /\ Fds \ (openFds \ Closed) # {}
    /\ sk' = LowestFree(openFds \ Closed)
    /\ openFds' = (openFds \ Closed) \cup {sk'}
    /\ queued' = queued \ Closed
    /\ table' = addToPollSet(table, sk')
    /\ maxFileDescriptor' = IF sk' + 1 >= maxFileDescriptor
                            THEN sk' + 1 ELSE maxFileDescriptor
    /\ ready' = TIMEOUT
    /\ UNCHANGED <<fileOpen, hungUp>>

\* file_ok (rcopy), filename (server): the file is opened after the socket,
\* and there is no new socket after that.
OpenFile ==
    /\ sk > 0 /\ ~fileOpen
    /\ Fds \ openFds # {}
    /\ fileOpen' = TRUE
    /\ openFds' = openFds \cup {LowestFree(openFds)}
    /\ ready' = TIMEOUT
    /\ UNCHANGED <<table, maxFileDescriptor, sk, queued, hungUp>>

\* A packet reaches a socket the process has opened and not closed.
Arrive ==
    /\ \E s \in DOMAIN table :
         /\ table[s].events # {} /\ s \in openFds
         /\ queued' = queued \cup {s}
    /\ UNCHANGED <<table, maxFileDescriptor, openFds, fileOpen, sk, hungUp, ready>>

HangUp ==
    /\ ~hungUp
    /\ hungUp' = TRUE
    /\ UNCHANGED <<table, maxFileDescriptor, openFds, fileOpen, sk, queued, ready>>

Poll ==
    /\ sk > 0
    /\ ready' = pollCall
    /\ UNCHANGED <<table, maxFileDescriptor, openFds, fileOpen, sk, queued, hungUp>>

\* recv_buf on the present socket after a pollCall that found something.
Recv ==
    /\ ready # TIMEOUT
    /\ sk \in queued
    /\ queued' \in {queued, queued \ {sk}}
    /\ ready' = TIMEOUT
    /\ UNCHANGED <<table, maxFileDescriptor, openFds, fileOpen, sk, hungUp>>

Next == Connect \/ OpenFile \/ Arrive \/ HangUp \/ Poll \/ Recv

Spec == Init /\ [][Next]_vars

-----------------------------------------------------------------------------
(***************************************************************************)
(* "returns the socket number if one is ready for read" (pollLib.c:57): a  *)
(* pollCall that does not time out is followed by a recv_buf on the        *)
(* present socket, and that must not block, or the wait has no end.        *)
(***************************************************************************)
PollNamesReadySocket == ready # TIMEOUT => ready = sk /\ sk \in queued

(***************************************************************************)
(* So it is as long as standard input keeps its other end, through         *)
(* reconnections and whatever descriptors the process has inherited.       *)
(***************************************************************************)
ReadyMeansReadable == hungUp \/ PollNamesReadySocket

(***************************************************************************)
(* The loops of addToPollSet and pollCall stay inside the table, however   *)
(* high the descriptor (growPollSet).                                      *)
(***************************************************************************)
SlotsInTable ==
    /\ maxFileDescriptor <= Cardinality(DOMAIN table)
    /\ sk > 0 => sk \in DOMAIN table /\ table[sk].fd = sk

(***************************************************************************)
(* A packet that waits at the present socket is seen: a pollCall now would *)
(* not time out over it.                                                   *)
(***************************************************************************)
PacketsAreSeen == sk \in queued => pollCall # TIMEOUT
=============================================================================
