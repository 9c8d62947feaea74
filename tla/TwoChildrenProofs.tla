------------------------- MODULE TwoChildrenProofs --------------------------
(***************************************************************************)
(* Proofs about TwoChildren, for every file, window size and error rate.   *)
(*                                                                         *)
(* rcopy and either child are a Transfer each, on that child's queues: P1  *)
(* and P2.  What TransferProofs shows of a step of rcopy or of the child   *)
(* holds of that step here.  Of its invariants, IInv and Flow speak of one *)
(* child without assuming that rcopy hears no other.                       *)
(***************************************************************************)
EXTENDS TwoChildren, TLAPS

P1 == INSTANCE TransferProofs WITH
    net <- net1, sockets <- sockets1, sstate <- sstate1, swin <- swin1,
    sseq <- sseq1, offset <- offset1, rretry <- rretry1, eretry <- eretry1,
    Unlimited <- FALSE, Reordering <- FALSE, Duplicating <- FALSE,
    IoMayFail <- FALSE, WriteMayFail <- FALSE, Prompt <- FALSE

P2 == INSTANCE TransferProofs WITH
    net <- net2, sockets <- sockets2, sstate <- sstate2, swin <- swin2,
    sseq <- sseq2, offset <- offset2, rretry <- rretry2, eretry <- eretry2,
    Unlimited <- FALSE, Reordering <- FALSE, Duplicating <- FALSE,
    IoMayFail <- FALSE, WriteMayFail <- FALSE, Prompt <- FALSE

USE TwoChildrenAssumption

-----------------------------------------------------------------------------
(***************************************************************************)
(* The programs that TwoChildren instantiates are those of P1 and P2.      *)
(***************************************************************************)
LEMMA SameChild1 ==
    /\ S1!ServerStep <=> P1!ServerStep
    /\ S1!ServerTimeout <=> P1!ServerTimeout
BY DEF
       S1!File, P1!File, S1!START_SEQ_NUM, P1!START_SEQ_NUM, S1!Data, P1!Data,
       S1!Eof, P1!Eof, S1!GoTo, P1!GoTo, S1!ServerFork, P1!ServerFork,
       S1!ServerIgnoreCorrupted, P1!ServerIgnoreCorrupted, S1!ServerFilename,
       P1!ServerFilename, S1!ServerWindowFull, P1!ServerWindowFull,
       S1!ServerSendData, P1!ServerSendData, S1!ServerSendEof,
       P1!ServerSendEof, S1!ServerReadError, P1!ServerReadError,
       S1!process_srej, P1!process_srej, S1!HandleResponse, P1!HandleResponse,
       S1!ServerCheckForResponse, P1!ServerCheckForResponse,
       S1!ServerNoResponseYet, P1!ServerNoResponseYet, S1!ServerWaitOnResponse,
       P1!ServerWaitOnResponse, S1!ServerWaitTimeout, P1!ServerWaitTimeout,
       S1!ServerResendLowest, P1!ServerResendLowest, S1!ServerResponseReady,
       P1!ServerResponseReady, S1!ServerResponseTimeout,
       P1!ServerResponseTimeout, S1!ServerEofAckReady, P1!ServerEofAckReady,
       S1!ServerEofAckTimeout, P1!ServerEofAckTimeout, S1!ServerEofAckGiveUp,
       P1!ServerEofAckGiveUp, S1!ServerRecvAfterGiveUp,
       P1!ServerRecvAfterGiveUp, S1!ServerResendEof, P1!ServerResendEof,
       S1!ServerTimeout, P1!ServerTimeout, S1!ServerStep, P1!ServerStep,
       S1!Packet, P1!Packet, S1!EmptyCell, P1!EmptyCell, S1!TOO_LOW,
       P1!TOO_LOW, S1!TOO_HIGH, P1!TOO_HIGH, S1!FULL_CELL, P1!FULL_CELL,
       S1!win_init, P1!win_init, S1!win_index, P1!win_index, S1!win_get,
       P1!win_get, S1!win_cellEmpty, P1!win_cellEmpty,
       S1!win_lowest_cell_isFull, P1!win_lowest_cell_isFull, S1!win_set_lower,
       P1!win_set_lower, S1!win_isFull, P1!win_isFull, S1!win_RR, P1!win_RR,
       S1!Store, P1!Store, S1!win_add, P1!win_add, S1!win_deQueue,
       P1!win_deQueue, S1!Cells, P1!Cells, S1!Corrupted, P1!Corrupted,
       S1!Enqueue, P1!Enqueue, S1!Dropped, P1!Dropped, S1!Flipped, P1!Flipped,
       S1!RandomEvent, P1!RandomEvent, S1!Duplicate, P1!Duplicate, S1!Sendto,
       P1!Sendto, S1!NoSend, P1!NoSend, S1!Receivable, P1!Receivable, S1!Take,
       P1!Take, S1!Discard, P1!Discard, S1!TriesExceeded, P1!TriesExceeded,
       S1!serverVars, P1!serverVars, S1!RemoveAt, P1!RemoveAt

LEMMA SameChild2 ==
    /\ S2!ServerStep <=> P2!ServerStep
    /\ S2!ServerTimeout <=> P2!ServerTimeout
BY DEF
       S2!File, P2!File, S2!START_SEQ_NUM, P2!START_SEQ_NUM, S2!Data, P2!Data,
       S2!Eof, P2!Eof, S2!GoTo, P2!GoTo, S2!ServerFork, P2!ServerFork,
       S2!ServerIgnoreCorrupted, P2!ServerIgnoreCorrupted, S2!ServerFilename,
       P2!ServerFilename, S2!ServerWindowFull, P2!ServerWindowFull,
       S2!ServerSendData, P2!ServerSendData, S2!ServerSendEof,
       P2!ServerSendEof, S2!ServerReadError, P2!ServerReadError,
       S2!process_srej, P2!process_srej, S2!HandleResponse, P2!HandleResponse,
       S2!ServerCheckForResponse, P2!ServerCheckForResponse,
       S2!ServerNoResponseYet, P2!ServerNoResponseYet, S2!ServerWaitOnResponse,
       P2!ServerWaitOnResponse, S2!ServerWaitTimeout, P2!ServerWaitTimeout,
       S2!ServerResendLowest, P2!ServerResendLowest, S2!ServerResponseReady,
       P2!ServerResponseReady, S2!ServerResponseTimeout,
       P2!ServerResponseTimeout, S2!ServerEofAckReady, P2!ServerEofAckReady,
       S2!ServerEofAckTimeout, P2!ServerEofAckTimeout, S2!ServerEofAckGiveUp,
       P2!ServerEofAckGiveUp, S2!ServerRecvAfterGiveUp,
       P2!ServerRecvAfterGiveUp, S2!ServerResendEof, P2!ServerResendEof,
       S2!ServerTimeout, P2!ServerTimeout, S2!ServerStep, P2!ServerStep,
       S2!Packet, P2!Packet, S2!EmptyCell, P2!EmptyCell, S2!TOO_LOW,
       P2!TOO_LOW, S2!TOO_HIGH, P2!TOO_HIGH, S2!FULL_CELL, P2!FULL_CELL,
       S2!win_init, P2!win_init, S2!win_index, P2!win_index, S2!win_get,
       P2!win_get, S2!win_cellEmpty, P2!win_cellEmpty,
       S2!win_lowest_cell_isFull, P2!win_lowest_cell_isFull, S2!win_set_lower,
       P2!win_set_lower, S2!win_isFull, P2!win_isFull, S2!win_RR, P2!win_RR,
       S2!Store, P2!Store, S2!win_add, P2!win_add, S2!win_deQueue,
       P2!win_deQueue, S2!Cells, P2!Cells, S2!Corrupted, P2!Corrupted,
       S2!Enqueue, P2!Enqueue, S2!Dropped, P2!Dropped, S2!Flipped, P2!Flipped,
       S2!RandomEvent, P2!RandomEvent, S2!Duplicate, P2!Duplicate, S2!Sendto,
       P2!Sendto, S2!NoSend, P2!NoSend, S2!Receivable, P2!Receivable, S2!Take,
       P2!Take, S2!Discard, P2!Discard, S2!TriesExceeded, P2!TriesExceeded,
       S2!serverVars, P2!serverVars, S2!RemoveAt, P2!RemoveAt

LEMMA SameRcopy1 ==
    /\ R1!ClientStart <=> P1!ClientStart
    /\ R1!ClientFilename <=> P1!ClientFilename
    /\ R1!ClientRecvData <=> P1!ClientRecvData
    /\ R1!ClientRecvCorrupted <=> P1!ClientRecvCorrupted
    /\ R1!ClientFileOk <=> P1!ClientFileOk
    /\ R1!ClientSendSrej <=> P1!ClientSendSrej
    /\ R1!ClientDequeue <=> P1!ClientDequeue
    /\ R1!Close(net1) = P1!Close(net1)
BY DEF
       R1!clientVars, P1!clientVars, R1!Close, P1!Close, R1!ToDone, P1!ToDone,
       R1!ClientStart, P1!ClientStart, R1!ClientFilename, P1!ClientFilename,
       R1!ClientFileOk, P1!ClientFileOk, R1!BelowExpected, P1!BelowExpected,
       R1!NotNext, P1!NotNext, R1!NextDequeue, P1!NextDequeue,
       R1!ClientRecvCorrupted, P1!ClientRecvCorrupted, R1!ClientRecvData,
       P1!ClientRecvData, R1!ClientSendSrej, P1!ClientSendSrej, R1!Written,
       P1!Written, R1!ClientDequeue, P1!ClientDequeue, R1!Packet, P1!Packet,
       R1!EmptyCell, P1!EmptyCell, R1!TOO_LOW, P1!TOO_LOW, R1!TOO_HIGH,
       P1!TOO_HIGH, R1!FULL_CELL, P1!FULL_CELL, R1!win_init, P1!win_init,
       R1!win_index, P1!win_index, R1!win_get, P1!win_get, R1!win_cellEmpty,
       P1!win_cellEmpty, R1!win_lowest_cell_isFull, P1!win_lowest_cell_isFull,
       R1!win_set_lower, P1!win_set_lower, R1!win_isFull, P1!win_isFull,
       R1!win_RR, P1!win_RR, R1!Store, P1!Store, R1!win_add, P1!win_add,
       R1!win_deQueue, P1!win_deQueue, R1!Cells, P1!Cells, R1!Corrupted,
       P1!Corrupted, R1!Enqueue, P1!Enqueue, R1!Dropped, P1!Dropped,
       R1!Flipped, P1!Flipped, R1!RandomEvent, P1!RandomEvent, R1!Duplicate,
       P1!Duplicate, R1!Sendto, P1!Sendto, R1!NoSend, P1!NoSend, R1!Receivable,
       P1!Receivable, R1!Take, P1!Take, R1!Discard, P1!Discard,
       R1!TriesExceeded, P1!TriesExceeded, R1!RemoveAt, P1!RemoveAt

LEMMA SameRcopy2 ==
    /\ R2!ClientStart <=> P2!ClientStart
    /\ R2!ClientFilename <=> P2!ClientFilename
    /\ R2!ClientRecvData <=> P2!ClientRecvData
    /\ R2!ClientRecvCorrupted <=> P2!ClientRecvCorrupted
    /\ R2!ClientFileOk <=> P2!ClientFileOk
    /\ R2!ClientSendSrej <=> P2!ClientSendSrej
    /\ R2!ClientDequeue <=> P2!ClientDequeue
    /\ R2!Close(net2) = P2!Close(net2)
BY DEF
       R2!clientVars, P2!clientVars, R2!Close, P2!Close, R2!ToDone, P2!ToDone,
       R2!ClientStart, P2!ClientStart, R2!ClientFilename, P2!ClientFilename,
       R2!ClientFileOk, P2!ClientFileOk, R2!BelowExpected, P2!BelowExpected,
       R2!NotNext, P2!NotNext, R2!NextDequeue, P2!NextDequeue,
       R2!ClientRecvCorrupted, P2!ClientRecvCorrupted, R2!ClientRecvData,
       P2!ClientRecvData, R2!ClientSendSrej, P2!ClientSendSrej, R2!Written,
       P2!Written, R2!ClientDequeue, P2!ClientDequeue, R2!Packet, P2!Packet,
       R2!EmptyCell, P2!EmptyCell, R2!TOO_LOW, P2!TOO_LOW, R2!TOO_HIGH,
       P2!TOO_HIGH, R2!FULL_CELL, P2!FULL_CELL, R2!win_init, P2!win_init,
       R2!win_index, P2!win_index, R2!win_get, P2!win_get, R2!win_cellEmpty,
       P2!win_cellEmpty, R2!win_lowest_cell_isFull, P2!win_lowest_cell_isFull,
       R2!win_set_lower, P2!win_set_lower, R2!win_isFull, P2!win_isFull,
       R2!win_RR, P2!win_RR, R2!Store, P2!Store, R2!win_add, P2!win_add,
       R2!win_deQueue, P2!win_deQueue, R2!Cells, P2!Cells, R2!Corrupted,
       P2!Corrupted, R2!Enqueue, P2!Enqueue, R2!Dropped, P2!Dropped,
       R2!Flipped, P2!Flipped, R2!RandomEvent, P2!RandomEvent, R2!Duplicate,
       P2!Duplicate, R2!Sendto, P2!Sendto, R2!NoSend, P2!NoSend, R2!Receivable,
       P2!Receivable, R2!Take, P2!Take, R2!Discard, P2!Discard,
       R2!TriesExceeded, P2!TriesExceeded, R2!RemoveAt, P2!RemoveAt

LEMMA SameClient == P1!ClientInv <=> P2!ClientInv
BY DEF P1!ClientInv, P2!ClientInv, P1!ClientTypeOK, P2!ClientTypeOK, P1!ClientStates,
       P2!ClientStates, P1!Frame, P2!Frame, P1!InFrame, P2!InFrame, P1!LowerOK, P2!LowerOK,
       P1!WrittenOK, P2!WrittenOK, P1!Receiving, P2!Receiving, P1!WindowType, P2!WindowType,
       P1!PDU, P2!PDU, P1!WireFlags, P2!WireFlags, P1!FileData, P2!FileData, P1!Data, P2!Data,
       P1!Eof, P2!Eof, P1!File, P2!File, P1!Packet, P2!Packet, P1!EmptyCell, P2!EmptyCell,
       P1!Cells, P2!Cells, P1!win_init, P2!win_init, P1!win_cellEmpty, P2!win_cellEmpty,
       P1!win_get, P2!win_get, P1!win_index, P2!win_index

-----------------------------------------------------------------------------
\* What TransferProofs knows of a child: its queues, its window and how far it
\* may be ahead of rcopy.
Side1 == P1!NetInv /\ P1!ServerInv /\ P1!Flow
Side2 == P2!NetInv /\ P2!ServerInv /\ P2!Flow

Both == Side1 /\ Side2 /\ P1!ClientInv

\* The steps of rcopy, towards child 1 and towards child 2.
Client1 == P1!ClientStep \/ P1!ClientFilenameTimeout \/ P1!ClientRecvTimeout
Client2 == P2!ClientStep \/ P2!ClientFilenameTimeout \/ P2!ClientRecvTimeout

LEMMA ChildKeeps1 ==
    ASSUME Both, P1!ServerStep \/ P1!ServerTimeout, UNCHANGED <<side2, client>>
    PROVE  Both'
<1>1. P1!NetInv' /\ P1!ServerInv' /\ P1!Flow'
  BY P1!ServerKeeps, P1!ServerKeepsFlow DEF Both, Side1, client
<1>2. P1!ClientInv'
  BY DEF Both, client, P1!ClientInv, P1!ClientTypeOK, P1!Frame, P1!InFrame, P1!LowerOK,
         P1!WrittenOK, P1!Receiving
<1>3. faults' \in Nat /\ cwin'.lower = cwin.lower /\ cwin.lower \in Nat
  BY <1>1, P1!FlowType DEF P1!NetInv, P1!NetworkTypeOK, Both, Side1, client
<1>4. P2!NetInv' /\ P2!ServerInv' /\ P2!Flow'
  BY <1>3, SameClient, P2!ElsewhereKeeps DEF Both, Side2, side2, server2, P2!serverVars
<1> QED BY <1>1, <1>2, <1>4 DEF Both, Side1, Side2

LEMMA ChildKeeps2 ==
    ASSUME Both, P2!ServerStep \/ P2!ServerTimeout, UNCHANGED <<side1, client>>
    PROVE  Both'
<1>1. P2!NetInv' /\ P2!ServerInv' /\ P2!Flow'
  BY SameClient, P2!ServerKeeps, P2!ServerKeepsFlow DEF Both, Side2, client
<1>2. P1!ClientInv'
  BY DEF Both, client, P1!ClientInv, P1!ClientTypeOK, P1!Frame, P1!InFrame, P1!LowerOK,
         P1!WrittenOK, P1!Receiving
<1>3. faults' \in Nat /\ cwin'.lower = cwin.lower /\ cwin.lower \in Nat
  BY <1>1, P1!FlowType DEF P2!NetInv, P2!NetworkTypeOK, Both, Side1, client
<1>4. P1!NetInv' /\ P1!ServerInv' /\ P1!Flow'
  BY <1>3, P1!ElsewhereKeeps DEF Both, Side1, side1, server1, P1!serverVars
<1> QED BY <1>1, <1>2, <1>4 DEF Both, Side1, Side2

\* rcopy acts towards child 1; to child 2 it at most closes its socket.
LEMMA ClientKeeps1 ==
    ASSUME Both, Client1, UNCHANGED <<server1, server2>>,
           net2' \in {net2, P2!Close(net2)}, sockets2' \subseteq sockets2
    PROVE  Both'
<1>1. P1!NetInv' /\ P1!ClientInv' /\ cwin'.lower >= cwin.lower
  BY P1!ClientKeeps, P1!ClientAdvances DEF Both, Side1, Client1
<1>2. P1!ServerInv'
  BY DEF Both, Side1, server1, P1!ServerInv, P1!ServerTypeOK, P1!HoldsFile
<1>3. P1!Flow'
  BY <1>1, P1!ClientKeepsFlow DEF Both, Side1, Client1, server1, P1!serverVars
<1>4. faults' \in Nat /\ cwin'.lower \in Nat
  BY <1>1 DEF P1!NetInv, P1!NetworkTypeOK, P1!ClientInv, P1!Frame, P1!WindowType
<1>5. P2!NetInv' /\ P2!ServerInv' /\ P2!Flow'
  BY <1>1, <1>4, SameClient, P2!ElsewhereKeeps DEF Both, Side2, server2, P2!serverVars
<1> QED BY <1>1, <1>2, <1>3, <1>5 DEF Both, Side1, Side2

LEMMA ClientKeeps2 ==
    ASSUME Both, Client2, UNCHANGED <<server1, server2>>,
           net1' \in {net1, P1!Close(net1)}, sockets1' \subseteq sockets1
    PROVE  Both'
<1>1. P2!NetInv' /\ P2!ClientInv' /\ cwin'.lower >= cwin.lower
  BY SameClient, P2!ClientKeeps, P2!ClientAdvances DEF Both, Side2, Client2
<1>2. P2!ServerInv'
  BY DEF Both, Side2, server2, P2!ServerInv, P2!ServerTypeOK, P2!HoldsFile
<1>3. P2!Flow'
  BY <1>1, SameClient, P2!ClientKeepsFlow DEF Both, Side2, Client2, server2, P2!serverVars
<1>4. faults' \in Nat /\ cwin'.lower \in Nat
  BY <1>1 DEF P2!NetInv, P2!NetworkTypeOK, P2!ClientInv, P2!Frame, P2!WindowType
<1>5. P1!NetInv' /\ P1!ServerInv' /\ P1!Flow'
  BY <1>1, <1>4, P1!ElsewhereKeeps DEF Both, Side1, server1, P1!serverVars
<1>6. P1!ClientInv'
  <2>1. (P1!ClientInv <=> P2!ClientInv)'
    BY SameClient, PTL
  <2> QED BY <1>1, <2>1
<1> QED BY <1>1, <1>2, <1>3, <1>5, <1>6 DEF Both, Side1, Side2

\* The request that rcopy sends reaches both queues.
LEMMA StartKeeps == ASSUME Both, Start PROVE Both'
<1>1. /\ UNCHANGED <<server1, server2>>
      /\ P1!ClientStep /\ P2!ClientStep
  BY SameRcopy1, SameRcopy2 DEF Start, P1!ClientStep, P2!ClientStep
<1>2. P1!NetInv' /\ P1!ClientInv' /\ P2!NetInv' /\ P2!ClientInv'
  BY <1>1, SameClient, P1!ClientKeeps, P2!ClientKeeps DEF Both, Side1, Side2
<1>3. P1!ServerInv'
  BY <1>1 DEF Both, Side1, server1, P1!ServerInv, P1!ServerTypeOK, P1!HoldsFile
<1>4. P2!ServerInv'
  BY <1>1 DEF Both, Side2, server2, P2!ServerInv, P2!ServerTypeOK, P2!HoldsFile
<1>5. P1!Flow'
  BY <1>1, <1>2, P1!ClientKeepsFlow DEF Both, Side1, server1, P1!serverVars
<1>6. P2!Flow'
  BY <1>1, <1>2, SameClient, P2!ClientKeepsFlow DEF Both, Side2, server2, P2!serverVars
<1> QED BY <1>2, <1>3, <1>4, <1>5, <1>6 DEF Both, Side1, Side2

\* Every step of rcopy but the first is one towards child 1 or towards child 2.
LEMMA RcopySteps1 ==
    ASSUME FileOk \/ Answer1 \/ Receive1, Both
    PROVE  /\ Client1 /\ UNCHANGED <<server1, server2>>
           /\ net2' \in {net2, P2!Close(net2)} /\ sockets2' \subseteq sockets2
<1>1. CASE FileOk
  <2>1. UNCHANGED <<server1, server2, net2, sockets2>>
    BY <1>1, Zenon DEF FileOk, side2
  <2> QED BY <1>1, <2>1, SameRcopy1 DEF FileOk, Client1, P1!ClientStep
<1>2. CASE Answer1
  BY <1>2, SameRcopy1, SameRcopy2 DEF Answer1, Close2, Client1, P1!ClientStep
<1>3. CASE Receive1
  BY <1>3, SameRcopy1, SameRcopy2 DEF Receive1, Close2, Client1, P1!ClientStep
<1> QED BY <1>1, <1>2, <1>3

LEMMA RcopySteps2 ==
    ASSUME Answer2 \/ Receive2, Both
    PROVE  /\ Client2 /\ UNCHANGED <<server1, server2>>
           /\ net1' \in {net1, P1!Close(net1)} /\ sockets1' \subseteq sockets1
<1>1. CASE Answer2
  BY <1>1, SameRcopy1, SameRcopy2 DEF Answer2, Close1, Client2, P2!ClientStep
<1>2. CASE Receive2
  BY <1>2, SameRcopy1, SameRcopy2 DEF Receive2, Close1, Client2, P2!ClientStep
<1> QED BY <1>1, <1>2

-----------------------------------------------------------------------------
LEMMA InitBoth == Init => Both
<1>1. SUFFICES ASSUME Init PROVE Both
  OBVIOUS
<1>2. P1!Init
  BY <1>1 DEF Init, S1!NetworkInit, S1!Endpoints, S1!ServerInit, S1!win_init, S1!Cells,
              S1!EmptyCell, S1!Packet, S1!START_SEQ_NUM, R1!ClientInit, R1!win_init, R1!Cells,
              R1!EmptyCell, R1!Packet, P1!Init, P1!NetworkInit, P1!Endpoints, P1!ServerInit,
              P1!ClientInit, P1!win_init, P1!Cells, P1!EmptyCell, P1!Packet,
              P1!START_SEQ_NUM
<1>3. P2!Init
  BY <1>1 DEF Init, S2!NetworkInit, S2!Endpoints, S2!ServerInit, S2!win_init, S2!Cells,
              S2!EmptyCell, S2!Packet, S2!START_SEQ_NUM, R1!ClientInit, R1!win_init, R1!Cells,
              R1!EmptyCell, R1!Packet, P2!Init, P2!NetworkInit, P2!Endpoints, P2!ServerInit,
              P2!ClientInit, P2!win_init, P2!Cells, P2!EmptyCell, P2!Packet,
              P2!START_SEQ_NUM
<1>4. P1!IInv /\ P1!Flow /\ P2!IInv /\ P2!Flow
  BY <1>2, <1>3, P1!InitIInv, P1!InitFlow, P2!InitIInv, P2!InitFlow
<1> QED BY <1>4 DEF Both, Side1, Side2, P1!IInv, P2!IInv

LEMMA StutterBoth == ASSUME Both, UNCHANGED vars PROVE Both'
<1>1. UNCHANGED <<side1, side2, client>> /\ faults' = faults
  BY DEF vars
<1>2. P1!ClientInv'
  BY <1>1 DEF Both, client, P1!ClientInv, P1!ClientTypeOK, P1!Frame, P1!InFrame, P1!LowerOK,
              P1!WrittenOK, P1!Receiving
<1>3. faults' \in Nat /\ cwin'.lower = cwin.lower /\ cwin.lower \in Nat
  BY <1>1, P1!FlowType DEF P1!NetInv, P1!NetworkTypeOK, Both, Side1, client
<1>4. P1!NetInv' /\ P1!ServerInv' /\ P1!Flow'
  BY <1>1, <1>3, P1!ElsewhereKeeps DEF Both, Side1, side1, server1, P1!serverVars
<1>5. P2!NetInv' /\ P2!ServerInv' /\ P2!Flow'
  BY <1>1, <1>3, SameClient, P2!ElsewhereKeeps DEF Both, Side2, side2, server2, P2!serverVars
<1> QED BY <1>2, <1>4, <1>5 DEF Both, Side1, Side2

LEMMA NextBoth == Both /\ [Next]_vars => Both'
<1>1. SUFFICES ASSUME Both, [Next]_vars PROVE Both'
  OBVIOUS
<1>2. CASE Child1
  BY <1>1, <1>2, SameChild1, ChildKeeps1 DEF Child1
<1>3. CASE Child2
  BY <1>1, <1>3, SameChild2, ChildKeeps2 DEF Child2
<1>4. CASE Start
  BY <1>1, <1>4, StartKeeps
<1>5. CASE FileOk \/ Answer1 \/ Receive1
  BY <1>1, <1>5, RcopySteps1, ClientKeeps1
<1>6. CASE Answer2 \/ Receive2
  BY <1>1, <1>6, RcopySteps2, ClientKeeps2
<1>7. CASE UNCHANGED vars
  BY <1>1, <1>7, StutterBoth
<1> QED BY <1>1, <1>2, <1>3, <1>4, <1>5, <1>6, <1>7 DEF Next

(***************************************************************************)
(* rcopy's window and output fit the file, each child's window holds what  *)
(* it sent, and no child is ahead of rcopy's window or is told of a packet *)
(* rcopy has not written (win_add, win_RR, dequeue_data), whichever child  *)
(* rcopy hears and answers.                                                *)
(***************************************************************************)
THEOREM BothInvariance == Spec => []Both
<1>1. Init => Both
  BY InitBoth
<1>2. Both /\ [Next]_vars => Both'
  BY NextBoth
<1> QED BY <1>1, <1>2, PTL DEF Spec

(***************************************************************************)
(* Flow control towards both children: what either has on its way to rcopy *)
(* is below the upper edge of rcopy's window (new_send_data, win_RR), so   *)
(* that win_add of recv_data refuses nothing as too high.                  *)
(***************************************************************************)
THEOREM FlowControl == Spec => []NeverTooHigh
<1>1. Both => NeverTooHigh
  <2>1. SUFFICES ASSUME Both, cstate \in {"RECV_DATA", "SREJ", "DEQUEUE"}
                 PROVE  /\ \A i \in DOMAIN net1["client"] :
                             net1["client"][i].seq < cwin.upper
                        /\ \A i \in DOMAIN net2["client"] :
                             net2["client"][i].seq < cwin.upper
    BY DEF NeverTooHigh
  <2>2. P1!ClientInv /\ P1!Flow /\ P1!Receiving
    BY <2>1 DEF Both, Side1, P1!Receiving
  <2>3. P2!ClientInv /\ P2!Flow /\ P2!Receiving
    BY <2>1, SameClient DEF Both, Side2, P2!Receiving
  <2> QED BY <2>2, <2>3, P1!FlowBound, P2!FlowBound
<1> QED BY <1>1, BothInvariance, PTL

-----------------------------------------------------------------------------
LEMMA SameCopy ==
    /\ P1!outcome = outcome /\ P2!outcome = outcome
    /\ P1!Copy!Next <=> Copy!Next
    /\ P2!Copy!Next <=> Copy!Next
BY DEF outcome, P1!outcome, P2!outcome, S1!File, P1!File, P2!File,
       Copy!Next, Copy!CopyBlock, Copy!Complete, Copy!Abort,
       P1!Copy!Next, P1!Copy!CopyBlock, P1!Copy!Complete, P1!Copy!Abort,
       P2!Copy!Next, P2!Copy!CopyBlock, P2!Copy!Complete, P2!Copy!Abort

LEMMA StepImplements == Both /\ Both' /\ [Next]_vars => [Copy!Next]_<<out, outcome>>
<1>1. SUFFICES ASSUME Both, Both', [Next]_vars
               PROVE  Copy!Next \/ UNCHANGED <<out, outcome>>
  OBVIOUS
<1>2. CASE UNCHANGED client
  BY <1>2 DEF client, outcome
<1>3. CASE Client1
  <2>1. P1!Copy!Next \/ UNCHANGED <<out, P1!outcome>>
    BY <1>1, <1>3, P1!ClientImplements DEF Both, Client1
  <2>2. (P1!outcome = outcome)'
    BY SameCopy, PTL
  <2> QED BY <2>1, <2>2, SameCopy
<1>4. CASE Client2
  <2>1. P2!ClientInv /\ P2!ClientInv'
    <3>1. (P1!ClientInv <=> P2!ClientInv)'
      BY SameClient, PTL
    <3> QED BY <1>1, <3>1, SameClient DEF Both
  <2>2. P2!Copy!Next \/ UNCHANGED <<out, P2!outcome>>
    BY <1>4, <2>1, P2!ClientImplements DEF Client2
  <2>3. (P2!outcome = outcome)'
    BY SameCopy, PTL
  <2> QED BY <2>2, <2>3, SameCopy
<1>5. CASE Start
  BY <1>3, <1>5, SameRcopy1 DEF Start, Client1, P1!ClientStep
<1>6. CASE FileOk \/ Answer1 \/ Receive1
  BY <1>1, <1>3, <1>6, RcopySteps1
<1>7. CASE Answer2 \/ Receive2
  BY <1>1, <1>4, <1>7, RcopySteps2
<1> QED BY <1>1, <1>2, <1>5, <1>6, <1>7 DEF Next, Child1, Child2, vars

(***************************************************************************)
(* TwoChildren implements FileCopy: rcopy writes every block once and in   *)
(* order and ends as complete only with all of them (recv_data,            *)
(* dequeue_data), though two children send it the file.                    *)
(***************************************************************************)
THEOREM Refinement == Spec => ImplementsFileCopy
<1>1. Init => Copy!Init
  BY DEF Init, R1!ClientInit, Copy!Init, outcome
<1>2. Both /\ Both' /\ [Next]_vars => [Copy!Next]_<<out, outcome>>
  BY StepImplements
<1> QED BY <1>1, <1>2, BothInvariance, PTL
        DEF Spec, ImplementsFileCopy, Copy!Spec, Copy!copyVars
=============================================================================
