---------------------------- MODULE PollSetProofs ----------------------------
(***************************************************************************)
(* For every size of the poll table, every set of inherited descriptors    *)
(* and any number of reconnections, a process polls exactly its present    *)
(* socket.  The reason is that open and socket return the lowest free      *)
(* descriptor: a socket that is closed before the next one is opened gives *)
(* its number, and with it its slot, to that one.                          *)
(***************************************************************************)
EXTENDS PollSet, FiniteSetTheorems, Arithmetic, TLAPS

USE PollSetAssumption

Watched(fd) == Slot(fd, {"POLLIN"})

\* A table of n slots.
IsTable(t, n) == n \in Nat /\ t = [s \in 0 .. n - 1 |-> t[s]]

\* The table is an array; only the present socket is watched in it.
TableOK ==
    /\ IsTable(table, Cardinality(DOMAIN table))
    /\ maxFileDescriptor \in 0 .. Cardinality(DOMAIN table)
    /\ \A s \in DOMAIN table : s # sk => table[s] = EmptySlot
    /\ sk = 0 => \A s \in DOMAIN table : table[s] = EmptySlot
    /\ sk > 0 => /\ sk \in DOMAIN table /\ table[sk] = Watched(sk)
                 /\ sk < maxFileDescriptor

\* The present socket is the lowest descriptor that was free when the process
\* started, and the only one that packets reach.
DescriptorsOK ==
    /\ openFds \subseteq Fds /\ 0 \in openFds
    /\ sk \in Fds
    /\ sk > 0 => sk \in openFds /\ \A fd \in Fds : fd < sk => fd \in openFds
    /\ queued \subseteq {sk} \ {0}

\* What pollCall has returned stays true until it is used.
ReadyOK == ready # TIMEOUT => hungUp \/ (ready = sk /\ sk \in queued)

PollInv == TableOK /\ DescriptorsOK /\ ReadyOK

-----------------------------------------------------------------------------
(***************************************************************************)
(* Min of a set of numbers is its least element.                           *)
(***************************************************************************)
LEMMA MinNat ==
    ASSUME NEW S, S \subseteq Nat, S # {}
    PROVE  Min(S) \in S /\ \A y \in S : Min(S) <= y
BY LeastNumber DEF Min

-----------------------------------------------------------------------------
(***************************************************************************)
(* addToPollSet                                                            *)
(***************************************************************************)
LEMMA TableSize ==
    ASSUME NEW t, NEW n, IsTable(t, n)
    PROVE  DOMAIN t = 0 .. n - 1 /\ Cardinality(DOMAIN t) = n
<1>1. DOMAIN t = 0 .. n - 1 /\ n \in Nat
  BY DEF IsTable
<1>2. Cardinality(0 .. n - 1) = n
  BY <1>1, FS_Interval
<1> QED BY <1>1, <1>2

LEMMA AddGrows ==
    ASSUME NEW t, NEW n, IsTable(t, n), NEW fd \in Nat
    PROVE  LET u == addToPollSet(t, fd)
           IN  \E k \in Nat :
                 /\ IsTable(u, k) /\ n <= k /\ fd < k
                 /\ u[fd] = Watched(fd)
                 /\ \A s \in DOMAIN u :
                      s # fd => u[s] = IF s \in DOMAIN t THEN t[s] ELSE EmptySlot
<1> DEFINE u == addToPollSet(t, fd)
           g == growPollSet(t, fd + POLL_SET_SIZE)
<1>1. DOMAIN t = 0 .. n - 1 /\ Cardinality(DOMAIN t) = n /\ n \in Nat
  BY TableSize DEF IsTable
<1>2. CASE fd >= n
  <2> DEFINE k == fd + POLL_SET_SIZE
  <2>1. k \in Nat /\ n <= k /\ fd < k /\ fd \in 0 .. k - 1
    BY <1>1, <1>2
  <2> HIDE DEF k
  <2>2. /\ DOMAIN g = 0 .. k - 1
        /\ \A s \in 0 .. k - 1 : g[s] = IF s \in DOMAIN t THEN t[s] ELSE EmptySlot
    BY DEF growPollSet, k
  <2>3. u = [s \in DOMAIN g |-> IF s = fd THEN Slot(fd, {"POLLIN"}) ELSE g[s]]
    BY <1>1, <1>2 DEF addToPollSet
  <2> HIDE DEF u, g
  <2>4. /\ IsTable(u, k) /\ u[fd] = Watched(fd) /\ DOMAIN u = 0 .. k - 1
        /\ \A s \in DOMAIN u : s # fd => u[s] = g[s]
    BY <2>1, <2>2, <2>3 DEF IsTable, Watched
  <2> QED BY <2>1, <2>2, <2>4 DEF u
<1>3. CASE fd < n
  <2>1. u = [s \in DOMAIN t |-> IF s = fd THEN Slot(fd, {"POLLIN"}) ELSE t[s]]
    BY <1>1, <1>3 DEF addToPollSet
  <2> HIDE DEF u
  <2>2. /\ IsTable(u, n) /\ u[fd] = Watched(fd) /\ DOMAIN u = DOMAIN t
        /\ \A s \in DOMAIN u : s # fd => u[s] = t[s]
    BY <1>1, <1>3, <2>1 DEF IsTable, Watched
  <2> QED BY <1>1, <1>3, <2>2 DEF u
<1> QED BY <1>1, <1>2, <1>3

-----------------------------------------------------------------------------
(***************************************************************************)
(* Polling: only the slot of the present socket can be ready, and it is    *)
(* ready when a packet waits there.                                        *)
(***************************************************************************)
LEMMA Polled ==
    ASSUME TableOK, DescriptorsOK
    PROVE  /\ sk \in queued => pollCall # TIMEOUT
           /\ pollCall # TIMEOUT => hungUp \/ (pollCall = sk /\ sk \in queued)
<1>1. /\ maxFileDescriptor \in Nat /\ ReadySlots \subseteq Nat
      /\ DOMAIN table = 0 .. Cardinality(DOMAIN table) - 1
  <2>1. Cardinality(DOMAIN table) \in Nat
    BY DEF TableOK, IsTable
  <2> QED BY <2>1, TableSize DEF TableOK, ReadySlots
<1>2. ReadySlots # {} => pollCall \in ReadySlots
  BY <1>1, MinNat DEF pollCall
<1>3. ASSUME sk \in queued PROVE pollCall # TIMEOUT
  <2>1. sk > 0 /\ sk \in Nat
    BY <1>3 DEF DescriptorsOK, Fds
  <2>2. "POLLIN" \in Revents(table[sk]) /\ sk \in DOMAIN table
    BY <1>3, <2>1 DEF TableOK, Watched, Slot, Revents
  <2>3. sk \in ReadySlots
    BY <1>1, <2>1, <2>2 DEF TableOK, ReadySlots
  <2> QED BY <1>1, <1>2, <2>3 DEF TIMEOUT
<1>4. ASSUME ~hungUp, NEW s \in ReadySlots PROVE s = sk /\ sk \in queued
  <2>1. s \in DOMAIN table /\ Revents(table[s]) # {}
    BY DEF ReadySlots
  <2>2. Revents(EmptySlot) = {}
    BY <1>4 DEF Revents, EmptySlot, Slot, DescriptorsOK
  <2>3. s = sk /\ sk > 0
    BY <2>1, <2>2 DEF TableOK, DescriptorsOK, Fds
  <2>4. table[sk].fd = sk /\ sk \in openFds /\ sk # 0
    BY <2>3 DEF TableOK, DescriptorsOK, Watched, Slot
  <2> QED BY <2>1, <2>3, <2>4 DEF Revents
<1> QED BY <1>2, <1>3, <1>4 DEF pollCall

-----------------------------------------------------------------------------
(***************************************************************************)
(* A new socket takes the place of the old one.                            *)
(***************************************************************************)
LEMMA LowestFreeIs ==
    ASSUME NEW used, Fds \ used # {}
    PROVE  /\ LowestFree(used) \in Fds \ used
           /\ \A fd \in Fds : fd < LowestFree(used) => fd \in used
<1> DEFINE low == LowestFree(used)
<1>1. Fds \subseteq Nat /\ Fds \ used \subseteq Nat
  BY DEF Fds
<1>2. low \in Fds \ used /\ \A y \in Fds \ used : low <= y
  BY <1>1, MinNat DEF LowestFree
<1> HIDE DEF low
<1>3. \A fd \in Fds : fd < low => fd \in used
  <2>1. SUFFICES ASSUME NEW fd \in Fds, fd < low, fd \notin used PROVE FALSE
    OBVIOUS
  <2>2. low <= fd /\ low \in Nat /\ fd \in Nat
    BY <1>1, <1>2, <2>1
  <2> QED BY <2>1, <2>2
<1> QED BY <1>2, <1>3 DEF low

LEMMA ConnectReuses ==
    ASSUME DescriptorsOK, Connect
    PROVE  /\ sk' \in Fds /\ sk' > 0 /\ (sk > 0 => sk' = sk)
           /\ openFds' \subseteq Fds /\ 0 \in openFds' /\ sk' \in openFds'
           /\ \A fd \in Fds : fd < sk' => fd \in openFds'
           /\ queued' = {}
<1> DEFINE rest == openFds \ Closed
<1>1. /\ sk \in Nat /\ openFds \subseteq Fds /\ 0 \in rest /\ rest \subseteq Fds
      /\ Fds \subseteq Nat
  BY DEF DescriptorsOK, Fds, Closed
<1>2. sk' = LowestFree(rest) /\ openFds' = rest \cup {sk'} /\ Fds \ rest # {}
      /\ queued' = queued \ Closed
  BY DEF Connect
<1> HIDE DEF rest
<1>3. sk' \in Fds \ rest /\ \A fd \in Fds : fd < sk' => fd \in rest
  BY <1>2, LowestFreeIs
<1>4. sk' \in Nat /\ sk' > 0
  BY <1>1, <1>3
<1>5. ASSUME sk > 0 PROVE sk' = sk
  <2>1. sk \in Fds /\ sk \notin rest /\ \A fd \in Fds : fd < sk => fd \in rest
    BY <1>1, <1>5 DEF DescriptorsOK, rest, Closed
  <2>2. ~(sk < sk') /\ ~(sk' < sk)
    BY <1>3, <2>1
  <2> QED BY <1>1, <1>4, <2>2
<1>6. queued' = {}
  BY <1>1, <1>2 DEF DescriptorsOK, Closed
<1> QED BY <1>1, <1>2, <1>3, <1>4, <1>5, <1>6

LEMMA Edges ==
    ASSUME NEW k \in Nat, NEW n \in Nat, n <= k, NEW old \in 0 .. n, NEW fd \in Nat, fd < k
    PROVE  LET new == IF fd + 1 >= old THEN fd + 1 ELSE old
           IN  new \in 0 .. k /\ fd < new
OBVIOUS

LEMMA ConnectKeeps ==
    ASSUME PollInv, Connect
    PROVE  PollInv'
<1> DEFINE n == Cardinality(DOMAIN table)
<1>1. /\ sk' \in Fds /\ sk' > 0 /\ (sk > 0 => sk' = sk)
      /\ openFds' \subseteq Fds /\ 0 \in openFds' /\ sk' \in openFds'
      /\ \A fd \in Fds : fd < sk' => fd \in openFds'
      /\ queued' = {}
  BY ConnectReuses DEF PollInv
<1>2. /\ IsTable(table, n) /\ n \in Nat /\ maxFileDescriptor \in 0 .. n
      /\ \A s \in DOMAIN table : s # sk => table[s] = EmptySlot
      /\ sk = 0 => \A s \in DOMAIN table : table[s] = EmptySlot
      /\ sk \in Nat /\ sk' \in Nat
  BY <1>1 DEF PollInv, TableOK, IsTable, DescriptorsOK, Fds
<1>3. /\ table' = addToPollSet(table, sk') /\ ready' = TIMEOUT
      /\ maxFileDescriptor' = IF sk' + 1 >= maxFileDescriptor
                              THEN sk' + 1 ELSE maxFileDescriptor
  BY DEF Connect
<1> HIDE DEF n
<1>4. PICK k \in Nat :
        /\ IsTable(table', k) /\ n <= k /\ sk' < k
        /\ table'[sk'] = Watched(sk')
        /\ \A s \in DOMAIN table' :
             s # sk' => table'[s] = IF s \in DOMAIN table THEN table[s] ELSE EmptySlot
  <2> DEFINE u == addToPollSet(table, sk')
  <2>1. \E k \in Nat :
          /\ IsTable(u, k) /\ n <= k /\ sk' < k
          /\ u[sk'] = Watched(sk')
          /\ \A s \in DOMAIN u :
               s # sk' => u[s] = IF s \in DOMAIN table THEN table[s] ELSE EmptySlot
    BY ONLY <1>2, AddGrows, PollSetAssumption
  <2> HIDE DEF u
  <2>2. table' = u
    BY <1>3 DEF u
  <2> QED BY <2>1, <2>2
<1>5. DOMAIN table' = 0 .. k - 1 /\ Cardinality(DOMAIN table') = k
  BY <1>4, TableSize
<1>6. \A s \in DOMAIN table' : s # sk' => table'[s] = EmptySlot
  BY <1>1, <1>2, <1>4
<1>7. TableOK'
  <2>1. IsTable(table', Cardinality(DOMAIN table'))
    BY <1>4, <1>5
  <2>2. maxFileDescriptor' \in 0 .. Cardinality(DOMAIN table') /\ sk' < maxFileDescriptor'
    <3>1. maxFileDescriptor' \in 0 .. k /\ sk' < maxFileDescriptor'
      BY <1>2, <1>3, <1>4, Edges
    <3> QED BY <1>5, <3>1
  <2>3. sk' \in DOMAIN table'
    BY <1>2, <1>4, <1>5
  <2> QED BY <1>1, <1>2, <1>4, <1>6, <2>1, <2>2, <2>3 DEF TableOK
<1>8. DescriptorsOK' /\ ReadyOK'
  BY <1>1, <1>3 DEF DescriptorsOK, ReadyOK
<1> QED BY <1>7, <1>8 DEF PollInv

LEMMA NextPollInv == PollInv /\ [Next]_vars => PollInv'
<1>1. SUFFICES ASSUME PollInv, [Next]_vars PROVE PollInv'
  OBVIOUS
<1>2. TableOK /\ DescriptorsOK /\ ReadyOK
  BY <1>1 DEF PollInv
<1>3. ASSUME UNCHANGED <<table, maxFileDescriptor, sk>> PROVE TableOK'
  BY <1>2, <1>3 DEF TableOK
<1>4. CASE Connect
  BY <1>1, <1>4, ConnectKeeps
<1>5. CASE OpenFile
  <2>1. LowestFree(openFds) \in Fds
    BY <1>5, LowestFreeIs DEF OpenFile
  <2>2. DescriptorsOK'
    BY <1>2, <1>5, <2>1 DEF OpenFile, DescriptorsOK
  <2> QED BY <1>3, <1>5, <2>2 DEF OpenFile, ReadyOK, PollInv
<1>6. CASE Arrive
  <2>1. PICK s \in DOMAIN table : table[s].events # {} /\ queued' = queued \cup {s}
    BY <1>6 DEF Arrive
  <2>2. s = sk /\ sk # 0
    BY <1>2, <2>1 DEF TableOK, EmptySlot, Slot
  <2>3. DescriptorsOK' /\ ReadyOK'
    BY <1>2, <1>6, <2>1, <2>2 DEF Arrive, DescriptorsOK, ReadyOK
  <2> QED BY <1>3, <1>6, <2>3 DEF Arrive, PollInv
<1>7. CASE HangUp
  BY <1>2, <1>3, <1>7 DEF HangUp, DescriptorsOK, ReadyOK, PollInv
<1>8. CASE Poll
  <2>1. ReadyOK'
    BY <1>2, <1>8, Polled DEF Poll, ReadyOK
  <2> QED BY <1>2, <1>3, <1>8, <2>1 DEF Poll, DescriptorsOK, PollInv
<1>9. CASE Recv
  BY <1>2, <1>3, <1>9 DEF Recv, DescriptorsOK, ReadyOK, PollInv
<1>10. CASE UNCHANGED vars
  BY <1>2, <1>3, <1>10 DEF vars, DescriptorsOK, ReadyOK, PollInv
<1> QED BY <1>1, <1>4, <1>5, <1>6, <1>7, <1>8, <1>9, <1>10 DEF Next

LEMMA InitPollInv == Init => PollInv
<1>1. SUFFICES ASSUME Init PROVE PollInv
  OBVIOUS
<1>2. IsTable(table, POLL_SET_SIZE)
  BY <1>1 DEF Init, IsTable
<1>3. TableOK
  BY <1>1, <1>2, TableSize DEF Init, TableOK
<1>4. DescriptorsOK /\ ReadyOK
  <2>1. openFds \subseteq Fds /\ 0 \in openFds /\ 0 \in Fds
    <3>1. PICK S \in SUBSET Fds : openFds = S \cup {0}
      BY <1>1 DEF Init
    <3>2. 0 \in Fds
      BY DEF Fds
    <3> QED BY <3>1, <3>2
  <2> QED BY <1>1, <2>1 DEF Init, DescriptorsOK, ReadyOK
<1> QED BY <1>3, <1>4 DEF PollInv

(***************************************************************************)
(* The joint invariant of the table, the descriptors and what pollCall has *)
(* returned.                                                               *)
(***************************************************************************)
THEOREM PollInvariance == Spec => []PollInv
BY InitPollInv, NextPollInv, PTL DEF Spec

(***************************************************************************)
(* As long as standard input keeps its other end, a pollCall that does not *)
(* time out means a packet at the present socket, so that the recv_buf     *)
(* that follows does not block: whatever descriptors were inherited, and   *)
(* through every reconnection (pollCall, start_state).                     *)
(***************************************************************************)
THEOREM ReadableWhenReady == Spec => []ReadyMeansReadable
<1>1. PollInv => ReadyMeansReadable
  BY DEF PollInv, ReadyOK, ReadyMeansReadable, PollNamesReadySocket
<1> QED BY <1>1, PollInvariance, PTL

(***************************************************************************)
(* The loop of pollCall ends within the table, and the present socket has  *)
(* its slot there, for every descriptor and table size (growPollSet).      *)
(***************************************************************************)
THEOREM InsideTheTable == Spec => []SlotsInTable
<1>1. PollInv => SlotsInTable
  <2>1. SUFFICES ASSUME PollInv PROVE SlotsInTable
    OBVIOUS
  <2>2. Cardinality(DOMAIN table) \in Nat
    BY <2>1 DEF PollInv, TableOK, IsTable
  <2> QED BY <2>1, <2>2 DEF PollInv, TableOK, SlotsInTable, Watched, Slot
<1> QED BY <1>1, PollInvariance, PTL

(***************************************************************************)
(* No packet that waits at the present socket is overlooked (pollCall,     *)
(* addToPollSet).                                                          *)
(***************************************************************************)
THEOREM NothingOverlooked == Spec => []PacketsAreSeen
<1>1. PollInv => PacketsAreSeen
  BY Polled DEF PollInv, PacketsAreSeen
<1> QED BY <1>1, PollInvariance, PTL
=============================================================================
