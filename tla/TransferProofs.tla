--------------------------- MODULE TransferProofs ---------------------------
(***************************************************************************)
(* Proofs about Transfer, for every file, window size, network and error   *)
(* rate: first what follows from IInv of TransferInv, then what follows    *)
(* from Session of SessionInv, then the lemmas on Flow.                    *)
(***************************************************************************)
EXTENDS SessionInv, SequenceTheorems, Arithmetic, TLAPS

USE WindowSizeAssumption, NetworkAssumption, ServerAssumption, TransferAssumption

(***************************************************************************)
(* Sequences: taking an element out of a queue leaves a queue of the same  *)
(* kind (RemoveAt is what a read does to it).                              *)
(***************************************************************************)
LEMMA RemoveAtType ==
    ASSUME NEW S, NEW s \in Seq(S), NEW i \in 1 .. Len(s)
    PROVE  RemoveAt(s, i) \in Seq(S)
<1>1. SubSeq(s, 1, i - 1) \in Seq(S)
  BY SubSeqProperties, ElementOfSeq
<1>2. SubSeq(s, i + 1, Len(s)) \in Seq(S)
  BY SubSeqProperties, ElementOfSeq
<1> QED BY <1>1, <1>2, ConcatProperties DEF RemoveAt

LEMMA IndexType == \A k \in Int : win_index(k) \in Cells
BY DEF win_index, Cells

(***************************************************************************)
(* Two numbers of one frame that share a cell are equal.                   *)
(***************************************************************************)
LEMMA SameCell ==
    ASSUME NEW a \in Nat, NEW b \in Nat, a <= b, b < a + WindowSize,
           win_index(a) = win_index(b)
    PROVE  a = b
BY SameResidue DEF win_index

-----------------------------------------------------------------------------
(***************************************************************************)
(* window.c keeps a window a window.                                       *)
(***************************************************************************)
LEMMA EmptyCellType == EmptyCell \notin PDU /\ EmptyCell \in [flag : {"EMPTY"}, seq : Nat, data : Int]
BY DEF EmptyCell, Packet, PDU, WireFlags

LEMMA InitType == win_init \in WindowType
BY DEF win_init, WindowType

LEMMA SetLowerType ==
    ASSUME NEW w \in WindowType, NEW val \in Nat
    PROVE  /\ win_set_lower(w, val) \in WindowType
           /\ win_set_lower(w, val) = [lower |-> val, current |-> w.current,
                                       upper |-> val + WindowSize, cells |-> w.cells]
<1> DEFINE v == [w EXCEPT !.lower = val]
<1>1. /\ v \in WindowType
      /\ v = [lower |-> val, current |-> w.current, upper |-> w.upper, cells |-> w.cells]
  BY DEF WindowType
<1>2. win_set_lower(w, val) = [v EXCEPT !.upper = val + WindowSize]
  BY DEF win_set_lower
<1>3. val + WindowSize \in Nat
  OBVIOUS
<1> HIDE DEF v
<1> QED BY <1>1, <1>2, <1>3 DEF WindowType

LEMMA CellsType ==
    ASSUME NEW w \in WindowType, NEW c \in [Cells -> PDU \cup {EmptyCell}]
    PROVE  /\ [w EXCEPT !.cells = c] \in WindowType
           /\ [w EXCEPT !.cells = c] = [lower |-> w.lower, current |-> w.current,
                                        upper |-> w.upper, cells |-> c]
BY DEF WindowType

LEMMA CurrentType ==
    ASSUME NEW w \in WindowType, NEW k \in Nat \cup {-1}
    PROVE  /\ [w EXCEPT !.current = k] \in WindowType
           /\ [w EXCEPT !.current = k] = [lower |-> w.lower, current |-> k,
                                          upper |-> w.upper, cells |-> w.cells]
BY DEF WindowType

\* What win_RR leaves in the cells.
Kept(w, rr) == [i \in Cells |-> IF w.cells[i].seq < rr THEN EmptyCell ELSE w.cells[i]]

LEMMA KeptType ==
    ASSUME NEW w \in WindowType, NEW rr \in Int
    PROVE  Kept(w, rr) \in [Cells -> PDU \cup {EmptyCell}]
BY DEF Kept, WindowType

LEMMA RRType ==
    ASSUME NEW w \in WindowType, NEW rr \in Int
    PROVE  /\ win_RR(w, rr) \in WindowType
           /\ win_RR(w, rr) = IF rr > w.lower
                              THEN [lower |-> rr, current |-> w.current,
                                    upper |-> rr + WindowSize, cells |-> Kept(w, rr)]
                              ELSE w
<1>1. CASE ~(rr > w.lower)
  BY <1>1 DEF win_RR
<1>2. CASE rr > w.lower
  <2> DEFINE v == [w EXCEPT !.cells = Kept(w, rr)]
  <2>1. /\ v \in WindowType
        /\ v = [lower |-> w.lower, current |-> w.current,
                upper |-> w.upper, cells |-> Kept(w, rr)]
    BY KeptType, CellsType
  <2>2. rr \in Nat
    BY <1>2 DEF WindowType
  <2>3. win_RR(w, rr) = win_set_lower(v, rr)
    BY <1>2 DEF win_RR, Kept
  <2> HIDE DEF v
  <2> QED BY <1>2, <2>1, <2>2, <2>3, SetLowerType
<1> QED BY <1>1, <1>2

LEMMA StoreType ==
    ASSUME NEW w \in WindowType, NEW m \in PDU
    PROVE  /\ Store(w, m) \in WindowType
           /\ Store(w, m).cells = [w.cells EXCEPT ![win_index(m.seq)] = m]
           /\ w.current # -1 => /\ Store(w, m).lower = w.lower
                                /\ Store(w, m).upper = w.upper
                                /\ Store(w, m).current >= w.current
                                /\ Store(w, m).current \in {w.current, m.seq}
                                /\ Store(w, m).current >= m.seq
           /\ w.current = -1 => Store(w, m) =
                  [lower |-> m.seq, current |-> m.seq, upper |-> m.seq + WindowSize,
                   cells |-> [w.cells EXCEPT ![win_index(m.seq)] = m]]
<1> DEFINE v == IF w.current = -1
                THEN [win_set_lower(w, m.seq) EXCEPT !.current = m.seq]
                ELSE w
           k == IF m.seq >= v.current THEN m.seq ELSE v.current
           c == [w.cells EXCEPT ![win_index(m.seq)] = m]
<1>1. m.seq \in Nat
  BY DEF PDU
<1>2. /\ v \in WindowType /\ v.cells = w.cells
      /\ w.current = -1 => v.lower = m.seq /\ v.upper = m.seq + WindowSize /\ v.current = m.seq
  <2> DEFINE u == win_set_lower(w, m.seq)
  <2>1. /\ u \in WindowType
        /\ u = [lower |-> m.seq, current |-> w.current,
                upper |-> m.seq + WindowSize, cells |-> w.cells]
    BY <1>1, SetLowerType
  <2> HIDE DEF u
  <2>2. /\ [u EXCEPT !.current = m.seq] \in WindowType
        /\ [u EXCEPT !.current = m.seq] = [lower |-> m.seq, current |-> m.seq,
               upper |-> m.seq + WindowSize, cells |-> w.cells]
    BY <1>1, <2>1, CurrentType
  <2> QED BY <2>2 DEF u
<1>3. c \in [Cells -> PDU \cup {EmptyCell}]
  BY DEF WindowType
<1>4. Store(w, m) = [[v EXCEPT !.current = k] EXCEPT !.cells = c]
  BY <1>2 DEF Store, WindowType
<1>5. k \in Nat \cup {-1} /\ k >= v.current /\ k >= m.seq /\ k \in {v.current, m.seq}
  BY <1>1, <1>2 DEF WindowType
<1>6. w.current # -1 => v = w
  OBVIOUS
<1>7. w.current = -1 => k = m.seq
  BY <1>1, <1>2
<1> HIDE DEF v, k, c
<1>8. /\ Store(w, m) \in WindowType
      /\ Store(w, m) = [lower |-> v.lower, current |-> k, upper |-> v.upper, cells |-> c]
  <2> DEFINE u == [v EXCEPT !.current = k]
  <2>1. /\ u \in WindowType
        /\ u = [lower |-> v.lower, current |-> k, upper |-> v.upper, cells |-> v.cells]
    BY <1>2, <1>5, CurrentType
  <2> HIDE DEF u
  <2>2. /\ [u EXCEPT !.cells = c] \in WindowType
        /\ [u EXCEPT !.cells = c] = [lower |-> u.lower, current |-> u.current,
                                     upper |-> u.upper, cells |-> c]
    BY <2>1, <1>3, CellsType
  <2> QED BY <2>1, <2>2, <1>4 DEF u
<1> QED BY <1>2, <1>5, <1>6, <1>7, <1>8 DEF c

LEMMA AddType ==
    ASSUME NEW w \in WindowType, NEW m \in PDU
    PROVE  win_add(w, m).win \in WindowType /\ win_add(w, m).ret \in Int
<1>1. m.seq \in Nat /\ w.lower \in Nat /\ w.upper \in Nat
  BY DEF PDU, WindowType
<1>2. CASE m.seq < w.lower
  BY <1>1, <1>2 DEF win_add, TOO_LOW
<1>3. CASE m.seq >= w.lower /\ m.seq >= w.upper
  <2>1. win_add(w, m) = [win |-> [w EXCEPT !.current = w.upper - 1], ret |-> TOO_HIGH]
    BY <1>1, <1>3 DEF win_add
  <2>2. w.upper - 1 \in Nat \cup {-1}
    BY <1>1
  <2>3. [w EXCEPT !.current = w.upper - 1] \in WindowType
    BY <2>2, CurrentType
  <2> QED BY <2>1, <2>3 DEF TOO_HIGH
<1>4. CASE m.seq >= w.lower /\ m.seq < w.upper /\ ~win_cellEmpty(w, m.seq)
  BY <1>1, <1>4 DEF win_add, FULL_CELL
<1>5. CASE m.seq >= w.lower /\ m.seq < w.upper /\ win_cellEmpty(w, m.seq)
  <2>1. win_add(w, m) = [win |-> Store(w, m), ret |-> Store(w, m).current]
    BY <1>1, <1>5 DEF win_add
  <2>2. Store(w, m) \in WindowType
    BY StoreType
  <2> QED BY <2>1, <2>2 DEF WindowType
<1> QED BY <1>1, <1>2, <1>3, <1>4, <1>5
-----------------------------------------------------------------------------
(***************************************************************************)
(* The client's window keeps every packet in its own cell and frame: when  *)
(* a packet from the server is added, and when the lowest one is taken.    *)
(***************************************************************************)
LEMMA AnswersType ==
    /\ Answers \subseteq PDU
    /\ FileData \cup {Eof(NumBlocks + 1)} \subseteq PDU
    /\ \A m \in FileData : m.flag = "DATA" /\ m.seq \in 1 .. NumBlocks /\ m.data = m.seq
    /\ Eof(NumBlocks + 1).flag = "END_OF_FILE" /\ Eof(NumBlocks + 1).seq = NumBlocks + 1
BY DEF Answers, FileData, Data, Eof, Packet, Corrupted, PDU, WireFlags, File

LEMMA FrameAdd ==
    ASSUME NEW w, Frame(w), w.current # -1, w.current >= 0, w.lower >= 1,
           NEW m \in Answers, m # Corrupted
    PROVE  /\ Frame(win_add(w, m).win)
           /\ win_add(w, m).win.lower = w.lower
           /\ win_add(w, m).win.current >= 0
<1>1. /\ m \in PDU /\ m.seq \in Nat
      /\ w \in WindowType /\ w.lower \in Nat /\ w.upper \in Nat /\ w.current \in Nat
  BY AnswersType DEF Frame, PDU, WindowType
<1>2. w.upper = w.lower + WindowSize
  BY DEF Frame
<1>3. CASE m.seq < w.lower
  BY <1>1, <1>3 DEF win_add
<1>4. CASE m.seq >= w.lower /\ m.seq >= w.upper
  <2> DEFINE v == [w EXCEPT !.current = w.upper - 1]
  <2>1. win_add(w, m).win = v
    BY <1>1, <1>4 DEF win_add
  <2>2. w.upper - 1 \in Nat
    BY <1>1, <1>2
  <2>3. /\ v \in WindowType
        /\ v = [lower |-> w.lower, current |-> w.upper - 1,
                upper |-> w.upper, cells |-> w.cells]
    BY <1>1, <2>2, CurrentType
  <2> HIDE DEF v
  <2>4. Frame(v)
    BY <2>3 DEF Frame, InFrame
  <2> QED BY <2>1, <2>2, <2>3, <2>4
<1>5. CASE m.seq >= w.lower /\ m.seq < w.upper /\ ~win_cellEmpty(w, m.seq)
  BY <1>1, <1>5 DEF win_add
<1>6. CASE m.seq >= w.lower /\ m.seq < w.upper /\ win_cellEmpty(w, m.seq)
  <2> DEFINE v == Store(w, m)
             j == win_index(m.seq)
  <2>1. win_add(w, m).win = v
    BY <1>1, <1>6 DEF win_add
  <2>2. /\ v \in WindowType
        /\ v.cells = [w.cells EXCEPT ![j] = m]
        /\ v.lower = w.lower /\ v.upper = w.upper /\ v.current >= w.current
    BY <1>1, StoreType
  <2>3. j \in Cells /\ m.seq % WindowSize = j
    BY <1>1, IndexType DEF win_index
  <2>4. m \in FileData \cup {Eof(NumBlocks + 1)}
    BY <1>1, <1>6 DEF Answers, Packet
  <2> HIDE DEF v, j
  <2>5. v.cells[j] = m /\ \A i \in Cells : i # j => v.cells[i] = w.cells[i]
    BY <1>1, <2>2, <2>3 DEF WindowType
  <2>6. InFrame(v, j)
    BY <1>2, <1>6, <2>2, <2>3, <2>4, <2>5 DEF InFrame
  <2>7. \A i \in Cells : i # j => v.cells[i] = EmptyCell \/ InFrame(v, i)
    BY <2>2, <2>5 DEF Frame, InFrame
  <2>8. Frame(v)
    BY <1>2, <2>2, <2>6, <2>7 DEF Frame
  <2>9. v.current >= 0
    BY <1>1, <2>2 DEF WindowType
  <2> QED BY <2>1, <2>2, <2>8, <2>9
<1> QED BY <1>1, <1>3, <1>4, <1>5, <1>6

LEMMA FrameDequeue ==
    ASSUME NEW w, Frame(w), w.lower >= 1, win_lowest_cell_isFull(w)
    PROVE  /\ Frame(win_deQueue(w))
           /\ win_deQueue(w).lower = w.lower + 1
           /\ win_deQueue(w).current = w.current
           /\ win_get(w, w.lower) \in FileData \cup {Eof(NumBlocks + 1)}
           /\ win_get(w, w.lower).seq = w.lower
<1> DEFINE v == win_deQueue(w)
           pdu == win_get(w, w.lower)
           j == win_index(w.lower)
<1>1. w \in WindowType /\ w.lower \in Nat /\ j \in Cells
  BY IndexType DEF Frame, WindowType
<1>2. InFrame(w, j) /\ pdu = w.cells[j]
  BY <1>1 DEF Frame, win_lowest_cell_isFull, win_cellEmpty, win_get
<1>3. pdu \in FileData \cup {Eof(NumBlocks + 1)}
  BY <1>2 DEF InFrame
<1>4. pdu.seq = w.lower
  <2>1. pdu.seq \in Nat
    BY <1>3, AnswersType
  <2>2. win_index(w.lower) = win_index(pdu.seq)
    BY <1>2 DEF InFrame, win_index
  <2>3. w.lower <= pdu.seq /\ pdu.seq < w.lower + WindowSize
    BY <1>2 DEF InFrame
  <2> HIDE DEF pdu
  <2> QED BY <1>1, <2>1, <2>2, <2>3, SameCell
<1>5. /\ v \in WindowType
      /\ v = [lower |-> w.lower + 1, current |-> w.current,
              upper |-> w.lower + 1 + WindowSize, cells |-> Kept(w, w.lower + 1)]
  <2>1. w.lower + 1 \in Int /\ w.lower + 1 > w.lower
    BY <1>1
  <2> QED BY <1>1, <2>1, RRType DEF win_deQueue
<1>6. ASSUME NEW i \in Cells, v.cells[i] # EmptyCell
      PROVE  InFrame(v, i)
  <2>1. v.cells[i] = w.cells[i] /\ ~(w.cells[i].seq < w.lower + 1)
    BY <1>5, <1>6 DEF Kept
  <2>2. InFrame(w, i)
    BY <1>6, <2>1 DEF Frame
  <2>3. w.cells[i].seq \in Nat
    BY <2>2, AnswersType DEF InFrame
  <2>4. v.lower = w.lower + 1
    BY <1>5
  <2>5. /\ w.cells[i] \in FileData \cup {Eof(NumBlocks + 1)}
        /\ w.cells[i].seq % WindowSize = i
        /\ w.cells[i].seq < w.lower + WindowSize
    BY <2>2 DEF InFrame
  <2>6. w.lower + 1 <= w.cells[i].seq /\ w.cells[i].seq < w.lower + 1 + WindowSize
    BY <1>1, <2>1, <2>3, <2>5
  <2> HIDE DEF v
  <2> QED BY <2>1, <2>4, <2>5, <2>6 DEF InFrame
<1>7. Frame(v)
  <2> HIDE DEF v
  <2>1. v.upper = v.lower + WindowSize
    BY <1>5
  <2> QED BY <1>5, <1>6, <2>1 DEF Frame
<1>8. v.lower = w.lower + 1 /\ v.current = w.current
  <2> HIDE DEF v
  <2> QED BY <1>5
<1> QED BY <1>3, <1>4, <1>7, <1>8

\* The window as file_ok leaves it.
LEMMA FileOkWindow ==
    LET w == win_deQueue(win_add(win_init, Packet("FNAME_OK", 0, 0)).win)
    IN  Frame(w) /\ w.lower = 1 /\ w.current = 0 /\ \A i \in Cells : w.cells[i] = EmptyCell
<1> DEFINE m == Packet("FNAME_OK", 0, 0)
           v == Store(win_init, m)
           w == win_deQueue(win_add(win_init, m).win)
<1>1. m \in PDU /\ m.seq = 0
  BY DEF Packet, PDU, WireFlags
<1>2. /\ win_init \in WindowType /\ win_init.lower = 0 /\ win_init.current = -1
      /\ win_init.upper = WindowSize
      /\ \A i \in Cells : win_init.cells[i] = EmptyCell
  BY InitType DEF win_init
<1> HIDE DEF m
<1>3. win_cellEmpty(win_init, 0)
  <2>1. win_index(0) \in Cells
    BY IndexType
  <2> QED BY <1>2, <2>1 DEF win_cellEmpty, win_get
<1>4. win_add(win_init, m).win = v
  BY <1>1, <1>2, <1>3 DEF win_add
<1>5. /\ v \in WindowType
      /\ v = [lower |-> 0, current |-> 0, upper |-> 0 + WindowSize,
              cells |-> [win_init.cells EXCEPT ![win_index(0)] = m]]
  <2>1. v \in WindowType
    BY <1>1, <1>2, StoreType
  <2>2. v = [lower |-> 0, current |-> 0, upper |-> 0 + WindowSize,
             cells |-> [win_init.cells EXCEPT ![win_index(0)] = m]]
    <3>1. v = [win_set_lower(win_init, 0) EXCEPT
                 !.current = 0, !.cells[win_index(0)] = m]
      BY <1>1, <1>2 DEF Store, win_set_lower
    <3> QED BY <1>2, <3>1 DEF win_set_lower, win_init
  <2> QED BY <2>1, <2>2
<1> HIDE DEF v
<1>6. \A i \in Cells : v.cells[i] \in {m, EmptyCell}
  BY <1>2, <1>5 DEF win_init
<1>7. w = win_RR(v, 1)
  BY <1>4, <1>5 DEF win_deQueue
<1>8. /\ w \in WindowType
      /\ w = [lower |-> 1, current |-> 0, upper |-> 1 + WindowSize, cells |-> Kept(v, 1)]
  <2>1. v \in WindowType /\ v.lower = 0 /\ v.current = 0 /\ 1 \in Int /\ 1 > 0
    BY <1>5
  <2> HIDE DEF w
  <2>2. /\ win_RR(v, 1) \in WindowType
        /\ win_RR(v, 1) = [lower |-> 1, current |-> v.current,
                           upper |-> 1 + WindowSize, cells |-> Kept(v, 1)]
    BY <2>1, RRType
  <2> QED BY <1>7, <2>1, <2>2
<1> HIDE DEF w
<1>9. \A i \in Cells : w.cells[i] = EmptyCell
  BY <1>1, <1>6, <1>8 DEF Kept, EmptyCell, Packet
<1>10. Frame(w)
  BY <1>8, <1>9 DEF Frame
<1> QED BY <1>8, <1>9, <1>10 DEF w, m

-----------------------------------------------------------------------------
(***************************************************************************)
(* Whatever the network and the error library do, the queues hold what the *)
(* programs have sent, and what recv_buf rejects.                          *)
(***************************************************************************)
LEMMA EnqueueOK ==
    ASSUME NEW n, QueuesOK(n), NEW dest \in Endpoints, NEW pdu \in PDU,
           dest = "client" => pdu \in Answers
    PROVE  QueuesOK(Enqueue(n, dest, pdu))
<1>1. Append(n[dest], pdu) \in Seq(PDU)
  BY AppendProperties DEF QueuesOK
<1>2. dest = "client" => Append(n[dest], pdu) \in Seq(Answers)
  BY AppendProperties DEF QueuesOK
<1> QED BY <1>1, <1>2 DEF QueuesOK, Enqueue, Endpoints

LEMMA SendtoOK ==
    ASSUME NEW n, QueuesOK(n), NEW dest \in Endpoints, NEW pdu \in PDU,
           dest = "client" => pdu \in Answers,
           faults \in Nat, Sendto(n, dest, pdu)
    PROVE  QueuesOK(net') /\ faults' \in Nat
<1>1. Corrupted \in PDU /\ Corrupted \in Answers
  BY AnswersType DEF Answers
<1>2. QueuesOK(Enqueue(n, dest, pdu)) /\ QueuesOK(Enqueue(n, dest, Corrupted))
  BY <1>1, EnqueueOK
<1>3. QueuesOK(Enqueue(Enqueue(n, dest, pdu), dest, pdu))
  BY <1>2, EnqueueOK
<1>4. /\ net' \in {n, Enqueue(n, dest, pdu), Enqueue(n, dest, Corrupted),
                   Enqueue(Enqueue(n, dest, pdu), dest, pdu)}
      /\ faults' \in Nat
  BY DEF Sendto, RandomEvent, Duplicate, Dropped, Flipped
<1> QED BY <1>2, <1>3, <1>4

LEMMA TakeOK ==
    ASSUME NetInv, NEW e \in Endpoints, NEW i \in Receivable(e)
    PROVE  /\ QueuesOK(Take(e, i))
           /\ net[e][i] \in PDU
           /\ e = "client" => net[e][i] \in Answers
<1>1. net[e] \in Seq(PDU) /\ i \in 1 .. Len(net[e])
  BY DEF NetInv, QueuesOK, Receivable
<1>2. e = "client" => net[e] \in Seq(Answers)
  BY DEF NetInv, QueuesOK
<1>3. /\ RemoveAt(net[e], i) \in Seq(PDU)
      /\ e = "client" => RemoveAt(net[e], i) \in Seq(Answers)
  BY <1>1, <1>2, RemoveAtType
<1> QED BY <1>1, <1>2, <1>3, ElementOfSeq DEF NetInv, QueuesOK, Take, Endpoints

LEMMA DiscardOK ==
    ASSUME NEW n, QueuesOK(n), NEW e \in Endpoints
    PROVE  QueuesOK(Discard(n, e))
<1>1. << >> \in Seq(PDU) /\ << >> \in Seq(Answers)
  OBVIOUS
<1> QED BY <1>1 DEF QueuesOK, Discard, Endpoints

-----------------------------------------------------------------------------
(***************************************************************************)
(* The child's window: win_RR and win_add leave packets of the file.       *)
(***************************************************************************)
LEMMA HoldsFileInit == HoldsFile(win_init)
BY InitType DEF HoldsFile, win_init

LEMMA HoldsFileRR ==
    ASSUME NEW w, HoldsFile(w), NEW rr \in Int
    PROVE  HoldsFile(win_RR(w, rr))
<1>1. w \in WindowType
  BY DEF HoldsFile
<1>2. Kept(w, rr) \in [Cells -> FileData \cup {EmptyCell}]
  BY DEF HoldsFile, Kept
<1>3. /\ win_RR(w, rr) \in WindowType
      /\ win_RR(w, rr).cells \in {w.cells, Kept(w, rr)}
  <2>1. CASE rr > w.lower
    <3>1. /\ win_RR(w, rr) \in WindowType
          /\ win_RR(w, rr) = [lower |-> rr, current |-> w.current,
                              upper |-> rr + WindowSize, cells |-> Kept(w, rr)]
      BY <1>1, <2>1, RRType
    <3> QED BY <3>1
  <2>2. CASE ~(rr > w.lower)
    BY <1>1, <2>2, RRType
  <2> QED BY <2>1, <2>2
<1> QED BY <1>2, <1>3 DEF HoldsFile

LEMMA HoldsFileAdd ==
    ASSUME NEW w, HoldsFile(w), NEW m \in FileData
    PROVE  HoldsFile(win_add(w, m).win)
<1> DEFINE v == win_add(w, m).win
           c == [w.cells EXCEPT ![win_index(m.seq)] = m]
<1>1. w \in WindowType /\ m \in PDU
  BY AnswersType DEF HoldsFile
<1>2. v \in WindowType
  BY <1>1, AddType
<1>3. v.cells \in {w.cells, c}
  <2>1. v \in {w, [w EXCEPT !.current = w.upper - 1], Store(w, m)}
    BY DEF win_add
  <2>2. Store(w, m).cells = [w.cells EXCEPT ![win_index(m.seq)] = m]
    BY <1>1, StoreType
  <2>3. [w EXCEPT !.current = w.upper - 1].cells = w.cells
    BY <1>1 DEF WindowType
  <2> QED BY <2>1, <2>2, <2>3
<1>4. /\ c \in [Cells -> FileData \cup {EmptyCell}]
      /\ w.cells \in [Cells -> FileData \cup {EmptyCell}]
  BY DEF HoldsFile
<1> HIDE DEF v, c
<1>5. HoldsFile(v)
  BY <1>2, <1>3, <1>4 DEF HoldsFile
<1> QED BY <1>5 DEF v

LEMMA GoToOK ==
    ASSUME sockets \subseteq {"server", "client"}, NEW st \in ServerStates, GoTo(st)
    PROVE  sstate' = st /\ sockets' \subseteq {"server", "client"}
BY DEF GoTo

LEMMA NoSendOK ==
    ASSUME NEW n, QueuesOK(n), faults \in Nat, NoSend(n)
    PROVE  QueuesOK(net') /\ faults' \in Nat
BY DEF NoSend

(***************************************************************************)
(* What the child does with a packet it receives.                          *)
(***************************************************************************)
LEMMA SrejOK ==
    ASSUME NetworkTypeOK, ServerInv, NEW n, QueuesOK(n), NEW k \in Int,
           NEW next \in ServerStates, process_srej(n, k, next)
    PROVE  /\ QueuesOK(net') /\ faults' \in Nat
           /\ sstate' \in {next, "EXIT"} /\ sockets' \subseteq {"server", "client"}
<1> DEFINE pdu == win_get(swin, k)
<1>1. pdu \in FileData \cup {EmptyCell}
  BY IndexType DEF ServerInv, HoldsFile, win_get
<1>2. faults \in Nat /\ sockets \subseteq {"server", "client"}
  BY DEF NetworkTypeOK
<1>3. CASE pdu = EmptyCell
  <2>1. GoTo("EXIT") /\ NoSend(Discard(n, "server"))
    BY <1>3 DEF process_srej
  <2>2. QueuesOK(Discard(n, "server")) /\ "EXIT" \in ServerStates
    BY DiscardOK DEF Endpoints, ServerStates
  <2> QED BY <1>2, <2>1, <2>2, GoToOK, NoSendOK
<1>4. CASE pdu # EmptyCell
  <2>1. GoTo(next) /\ Sendto(n, "client", pdu)
    BY <1>4 DEF process_srej
  <2>2. pdu \in Answers /\ pdu \in PDU /\ "client" \in Endpoints
    BY <1>1, <1>4, AnswersType DEF Answers, Endpoints
  <2> HIDE DEF pdu
  <2> QED BY <1>2, <2>1, <2>2, GoToOK, SendtoOK
<1> QED BY <1>3, <1>4

LEMMA HandleResponseOK ==
    ASSUME NetInv, ServerInv, NEW onCrc \in ServerStates, NEW next \in ServerStates,
           HandleResponse(onCrc, next)
    PROVE  /\ QueuesOK(net') /\ faults' \in Nat
           /\ sstate' \in {onCrc, next, "DONE", "EXIT"}
           /\ sockets' \subseteq {"server", "client"}
           /\ HoldsFile(swin')
<1>1. PICK i \in Receivable("server") :
        LET m == net["server"][i]
            n == Take("server", i)
        IN  \/ m.flag = "CRC_ERROR" /\ GoTo(onCrc) /\ NoSend(n) /\ UNCHANGED swin
            \/ m.flag = "RR" /\ swin' = win_RR(swin, m.data) /\ GoTo(next) /\ NoSend(n)
            \/ m.flag = "SREJ" /\ process_srej(n, m.data, next) /\ UNCHANGED swin
            \/ GoTo("DONE") /\ NoSend(Discard(n, "server")) /\ UNCHANGED swin
  BY DEF HandleResponse
<1> DEFINE m == net["server"][i]
           n == Take("server", i)
<1>2. QueuesOK(n) /\ m.data \in Int /\ QueuesOK(Discard(n, "server"))
  BY TakeOK, DiscardOK DEF Endpoints, PDU
<1>3. /\ faults \in Nat /\ sockets \subseteq {"server", "client"} /\ HoldsFile(swin)
      /\ "DONE" \in ServerStates
  BY DEF NetInv, NetworkTypeOK, ServerInv, ServerStates
<1> HIDE DEF m, n
<1>4. CASE GoTo(onCrc) /\ NoSend(n) /\ UNCHANGED swin
  BY <1>2, <1>3, <1>4, GoToOK, NoSendOK
<1>5. CASE swin' = win_RR(swin, m.data) /\ GoTo(next) /\ NoSend(n)
  BY <1>2, <1>3, <1>5, GoToOK, NoSendOK, HoldsFileRR
<1>6. CASE process_srej(n, m.data, next) /\ UNCHANGED swin
  BY <1>2, <1>3, <1>6, SrejOK DEF NetInv
<1>7. CASE GoTo("DONE") /\ NoSend(Discard(n, "server")) /\ UNCHANGED swin
  BY <1>2, <1>3, <1>7, GoToOK, NoSendOK
<1> QED BY <1>1, <1>4, <1>5, <1>6, <1>7 DEF m, n

-----------------------------------------------------------------------------
(***************************************************************************)
(* Every step of the server keeps NetInv and ServerInv.                    *)
(***************************************************************************)
LEMMA ServerKeeps ==
    ASSUME NetInv, ServerInv, ServerStep \/ ServerTimeout
    PROVE  NetInv' /\ ServerInv'
<1>1. SUFFICES /\ QueuesOK(net') /\ faults' \in Nat /\ sockets' \subseteq {"server", "client"}
               /\ sstate' \in ServerStates /\ HoldsFile(swin')
               /\ offset' \in 0 .. NumBlocks /\ sseq' = offset' + 1
               /\ sstate' \in EofStates => offset' = NumBlocks
               /\ rretry' \in Nat /\ eretry' \in Nat
  <2>1. NetInv'
    BY DEF NetInv, NetworkTypeOK, QueuesOK
  <2>2. swin' \in WindowType
    BY DEF HoldsFile
  <2>3. \A k \in 0 .. NumBlocks : k + 1 \in Nat
    OBVIOUS
  <2>4. ServerInv'
    BY <2>2, <2>3 DEF ServerInv, ServerTypeOK
  <2> QED BY <2>1, <2>4
<1>2. /\ QueuesOK(net) /\ faults \in Nat /\ sockets \subseteq {"server", "client"}
      /\ sstate \in ServerStates /\ HoldsFile(swin)
      /\ offset \in 0 .. NumBlocks /\ sseq = offset + 1
      /\ sstate \in EofStates => offset = NumBlocks
      /\ rretry \in Nat /\ eretry \in Nat
  BY DEF NetInv, NetworkTypeOK, ServerInv, ServerTypeOK
<1>3. /\ {"FILENAME", "NEW_SEND_DATA", "CHECK_FOR_RESPONSE", "WAIT_ON_RESPONSE",
          "TIMEOUT_ON_RESPONSE", "POLL_RESPONSE", "WAIT_ON_EOF_ACK",
          "TIMEOUT_ON_EOF_ACK", "RECV_EOF_ACK", "DONE", "EXIT"} \subseteq ServerStates
      /\ {"main", "server", "client"} = Endpoints
      /\ EofStates = {"WAIT_ON_EOF_ACK", "TIMEOUT_ON_EOF_ACK", "RECV_EOF_ACK"}
      /\ MaxTries + 1 \in Nat
  BY DEF ServerStates, EofStates, Endpoints
<1>4. QueuesOK(Discard(net, "server"))
  BY <1>2, <1>3, DiscardOK
<1>5. \A k \in Nat : Eof(k) \in PDU
  BY DEF Eof, Packet, PDU, WireFlags
<1>6. CASE ServerFork
  <2>1. 1 \in Receivable("main")
    BY <1>2, <1>3, <1>6 DEF ServerFork, Receivable, QueuesOK
  <2>2. QueuesOK(Take("main", 1))
    BY <1>3, <2>1, TakeOK
  <2>3. QueuesOK(Discard(Take("main", 1), "server"))
    BY <1>3, <2>2, DiscardOK
  <2>4. net' = Discard(Take("main", 1), "server") /\ faults' = faults
    BY <1>6 DEF ServerFork, NoSend, Discard
  <2> QED BY <1>2, <1>3, <1>6, <2>3, <2>4, HoldsFileInit DEF ServerFork, START_SEQ_NUM
<1>7. CASE ServerIgnoreCorrupted
  <2>1. 1 \in Receivable("main")
    BY <1>2, <1>3, <1>7 DEF ServerIgnoreCorrupted, Receivable, QueuesOK
  <2>2. QueuesOK(Take("main", 1))
    BY <1>3, <2>1, TakeOK
  <2> QED BY <1>2, <1>7, <2>2, NoSendOK DEF ServerIgnoreCorrupted, serverVars
<1>8. CASE ServerFilename
  <2>1. /\ Packet("FNAME_OK", 0, 0) \in Answers /\ Packet("FNAME_BAD", 0, 0) \in Answers
        /\ Answers \subseteq PDU
    BY AnswersType DEF Answers
  <2>2. CASE GoTo("NEW_SEND_DATA") /\ Sendto(net, "client", Packet("FNAME_OK", 0, 0))
    BY <1>2, <1>3, <1>8, <2>1, <2>2, GoToOK, SendtoOK, HoldsFileInit DEF ServerFilename
  <2>3. CASE /\ GoTo("DONE")
             /\ Sendto(Discard(net, "server"), "client", Packet("FNAME_BAD", 0, 0))
    BY <1>2, <1>3, <1>4, <1>8, <2>1, <2>3, GoToOK, SendtoOK, HoldsFileInit DEF ServerFilename
  <2> QED BY <1>8, <2>2, <2>3 DEF ServerFilename
<1>9. CASE ServerWindowFull
  BY <1>2, <1>3, <1>9, GoToOK, NoSendOK DEF ServerWindowFull
<1>10. CASE ServerSendData
  <2> DEFINE pdu == Data(sseq, File[offset + 1])
  <2>1. pdu \in FileData
    BY <1>2, <1>10 DEF ServerSendData, FileData
  <2>2. pdu \in Answers /\ pdu \in PDU
    BY <2>1, AnswersType DEF Answers
  <2>3. /\ Sendto(net, "client", pdu) /\ swin' = win_add(swin, pdu).win
        /\ GoTo("CHECK_FOR_RESPONSE")
        /\ sseq' = sseq + 1 /\ offset' = offset + 1 /\ offset < NumBlocks
        /\ UNCHANGED <<rretry, eretry>>
    BY <1>10 DEF ServerSendData
  <2> HIDE DEF pdu
  <2>4. QueuesOK(net') /\ faults' \in Nat
    BY <1>2, <1>3, <2>2, <2>3, SendtoOK
  <2>5. HoldsFile(swin')
    BY <1>2, <2>1, <2>3, HoldsFileAdd
  <2>6. sstate' = "CHECK_FOR_RESPONSE" /\ sockets' \subseteq {"server", "client"}
    BY <1>2, <1>3, <2>3, GoToOK
  <2> QED BY <1>2, <1>3, <2>3, <2>4, <2>5, <2>6
<1>11. CASE ServerSendEof
  <2>1. Eof(sseq) \in Answers /\ Eof(sseq) \in PDU
    BY <1>2, <1>5, <1>11 DEF ServerSendEof, Answers
  <2> QED BY <1>2, <1>3, <1>11, <2>1, GoToOK, SendtoOK DEF ServerSendEof
<1>12. CASE ServerReadError
  BY <1>2, <1>3, <1>4, <1>12, GoToOK, NoSendOK DEF ServerReadError
<1>13. CASE ServerCheckForResponse
  BY <1>2, <1>3, <1>13, HandleResponseOK DEF ServerCheckForResponse
<1>14. CASE ServerNoResponseYet
  BY <1>2, <1>3, <1>14, GoToOK, NoSendOK DEF ServerNoResponseYet
<1>15. CASE ServerWaitOnResponse
  BY <1>2, <1>3, <1>15, HandleResponseOK DEF ServerWaitOnResponse
<1>16. CASE ServerResendLowest
  <2> DEFINE pdu == win_get(swin, swin.lower)
  <2>1. pdu \in FileData \cup {EmptyCell}
    BY <1>2, IndexType DEF HoldsFile, WindowType, win_get
  <2>2. CASE pdu = EmptyCell
    BY <1>2, <1>3, <1>4, <1>16, <2>2, GoToOK, NoSendOK DEF ServerResendLowest
  <2>3. CASE pdu # EmptyCell
    <3>1. pdu \in Answers /\ pdu \in PDU
      BY <2>1, <2>3, AnswersType DEF Answers
    <3>2. /\ \/ GoTo("DONE") /\ Sendto(Discard(net, "server"), "client", pdu)
             \/ GoTo("POLL_RESPONSE") /\ Sendto(net, "client", pdu)
          /\ rretry' = rretry + 1
          /\ UNCHANGED <<swin, sseq, offset, eretry>>
      BY <1>16, <2>3 DEF ServerResendLowest
    <3> HIDE DEF pdu
    <3>3. QueuesOK(net') /\ faults' \in Nat
      BY <1>2, <1>3, <1>4, <3>1, <3>2, SendtoOK
    <3>4. /\ sstate' \in {"DONE", "POLL_RESPONSE"}
          /\ sockets' \subseteq {"server", "client"}
      BY <1>2, <1>3, <3>2, GoToOK
    <3> QED BY <1>2, <1>3, <3>2, <3>3, <3>4
  <2> QED BY <2>2, <2>3
<1>17. CASE ServerResponseReady
  BY <1>2, <1>3, <1>17, GoToOK, NoSendOK DEF ServerResponseReady
<1>18. CASE ServerEofAckReady
  BY <1>2, <1>3, <1>18, HandleResponseOK DEF ServerEofAckReady
<1>19. CASE ServerEofAckGiveUp
  BY <1>2, <1>3, <1>19, GoToOK, NoSendOK DEF ServerEofAckGiveUp
<1>20. CASE ServerRecvAfterGiveUp
  BY <1>2, <1>3, <1>20, HandleResponseOK DEF ServerRecvAfterGiveUp
<1>21. CASE ServerResendEof
  <2>1. Eof(sseq) \in PDU
    BY <1>2, <1>5
  <2>2. Eof(sseq) \in Answers
    BY <1>2, <1>3, <1>21 DEF ServerResendEof, Answers
  <2> QED BY <1>2, <1>3, <1>21, <2>1, <2>2, GoToOK, SendtoOK DEF ServerResendEof
<1>22. CASE ServerTimeout
  <2>1. CASE ServerWaitTimeout
    BY <1>2, <1>3, <2>1, GoToOK, NoSendOK DEF ServerWaitTimeout
  <2>2. CASE ServerResponseTimeout
    BY <1>2, <1>3, <2>2, GoToOK, NoSendOK DEF ServerResponseTimeout
  <2>3. CASE ServerEofAckTimeout
    BY <1>2, <1>3, <2>3, GoToOK, NoSendOK DEF ServerEofAckTimeout
  <2> QED BY <1>22, <2>1, <2>2, <2>3 DEF ServerTimeout
<1> QED BY <1>6, <1>7, <1>8, <1>9, <1>10, <1>11, <1>12, <1>13, <1>14, <1>15, <1>16,
           <1>17, <1>18, <1>19, <1>20, <1>21, <1>22 DEF ServerStep

-----------------------------------------------------------------------------
(***************************************************************************)
(* Every step of rcopy keeps NetInv and ClientInv.                         *)
(***************************************************************************)
LEMMA CloseOK ==
    ASSUME NEW n, QueuesOK(n)
    PROVE  QueuesOK(Close(n))
<1>1. QueuesOK(Discard(n, "client"))
  BY DiscardOK DEF Endpoints
<1> QED BY <1>1, DiscardOK DEF Close, Endpoints

LEMMA ToDoneOK ==
    ASSUME NetworkTypeOK, NEW n, QueuesOK(n), ToDone(n)
    PROVE  /\ QueuesOK(net') /\ faults' \in Nat
           /\ sockets' \subseteq {"server", "client"} /\ cstate' = "DONE"
BY CloseOK, NoSendOK DEF ToDone, NetworkTypeOK

\* A step that touches neither the window nor the output.
LEMMA ClientStays ==
    ASSUME ClientInv, UNCHANGED <<cwin, out>>,
           cstate' \in ClientStates, cretry' \in Nat, expected' \in Int, srej' \in Int,
           \/ cstate' = "DONE"
           \/ /\ cstate \in {"START_STATE", "FILENAME", "FILE_OK"}
              /\ cstate' \in {"START_STATE", "FILENAME", "FILE_OK"}
           \/ Receiving /\ cstate' \in {"RECV_DATA", "SREJ"}
           \/ Receiving /\ cstate' = NextDequeue(cwin)
    PROVE  ClientInv'
<1>1. cstate \notin {"START_STATE", "FILENAME", "FILE_OK"} \/ ~Receiving
  BY DEF Receiving
<1>2. ClientTypeOK' /\ Frame(cwin)'
  BY DEF ClientInv, ClientTypeOK, Frame, InFrame
<1>3. cstate = "DONE" => cstate' = "DONE"
  BY DEF Receiving
<1>4. LowerOK'
  BY <1>1, <1>3 DEF ClientInv, LowerOK, Receiving, NextDequeue, win_lowest_cell_isFull
<1>5. WrittenOK'
  BY <1>3 DEF ClientInv, WrittenOK
<1> QED BY <1>2, <1>4, <1>5 DEF ClientInv

LEMMA FileOkKeeps ==
    ASSUME NetInv, ClientInv, ClientFileOk
    PROVE  /\ QueuesOK(net') /\ faults' \in Nat
           /\ sockets' \subseteq {"server", "client"} /\ ClientInv'
<1>1. /\ Frame(cwin') /\ cwin'.lower = 1 /\ cwin'.current = 0
      /\ \A i \in Cells : cwin'.cells[i] = EmptyCell
  <2>1. cwin = win_init
    BY DEF ClientFileOk, ClientInv, LowerOK
  <2> QED BY <2>1, FileOkWindow DEF ClientFileOk
<1>2. cwin.lower = 0 /\ Len(out) = 0
  BY DEF ClientFileOk, ClientInv, LowerOK, WrittenOK, win_init
<1>3. /\ QueuesOK(net') /\ faults' \in Nat
      /\ sockets' \subseteq {"server", "client"} /\ cstate' \in {"RECV_DATA", "DONE"}
  BY ToDoneOK, NoSendOK DEF ClientFileOk, NetInv, NetworkTypeOK
<1>4. UNCHANGED <<cretry, expected, srej, out>>
  BY DEF ClientFileOk
<1>5. ClientTypeOK'
  BY <1>1, <1>3, <1>4 DEF ClientInv, ClientTypeOK, ClientStates, Frame
<1>6. LowerOK'
  BY <1>1, <1>3 DEF LowerOK, Receiving
<1>7. WrittenOK'
  BY <1>1, <1>2, <1>4 DEF WrittenOK
<1>8. Frame(cwin)'
  BY <1>1
<1> QED BY <1>3, <1>5, <1>6, <1>7, <1>8 DEF ClientInv

LEMMA RecvDataKeeps ==
    ASSUME NetInv, ClientInv, ClientRecvData
    PROVE  /\ QueuesOK(net') /\ faults' \in Nat
           /\ sockets' \subseteq {"server", "client"} /\ ClientInv'
<1>1. PICK i \in Receivable("client") :
        LET m == net["client"][i]
            n == Take("client", i)
            added == win_add(cwin, m)
        IN  /\ m.flag # "CRC_ERROR"
            /\ cwin' = added.win
            /\ \/ /\ Sendto(n, "server", Packet("SREJ", 0, cwin'.lower))
                  /\ UNCHANGED <<cstate, expected, srej>>
               \/ /\ NoSend(n)
                  /\ expected' = added.ret + 1
                  /\ \/ cstate' = "SREJ" /\ srej' = expected
                     \/ cstate' = NextDequeue(cwin') /\ UNCHANGED srej
  BY DEF ClientRecvData
<1> DEFINE m == net["client"][i]
           n == Take("client", i)
           added == win_add(cwin, m)
<1>2. /\ QueuesOK(n) /\ m \in PDU /\ m \in Answers /\ m # Corrupted
      /\ cwin' = added.win
  BY <1>1, TakeOK DEF Endpoints, Corrupted, Packet
<1>3. /\ cstate = "RECV_DATA" /\ UNCHANGED <<sockets, cretry, out>>
      /\ cwin.lower \in 1 .. NumBlocks + 1 /\ cwin.current >= 0 /\ Frame(cwin)
      /\ cwin \in WindowType
  BY DEF ClientRecvData, ClientInv, LowerOK, Receiving, Frame
<1>4. /\ Frame(cwin') /\ cwin'.lower = cwin.lower /\ cwin'.current >= 0
      /\ added.ret \in Int
  <2>1. cwin.current # -1 /\ cwin.lower >= 1
    BY <1>3
  <2> HIDE DEF m
  <2> QED BY <1>2, <1>3, <2>1, FrameAdd, AddType
<1>5. Packet("SREJ", 0, cwin'.lower) \in PDU /\ "server" \in Endpoints
  BY <1>3, <1>4 DEF Packet, PDU, WireFlags, Endpoints
<1> HIDE DEF m, n, added
<1>6. /\ QueuesOK(net') /\ faults' \in Nat
      /\ cstate' \in {"RECV_DATA", "SREJ", NextDequeue(cwin')}
      /\ expected' \in Int /\ srej' \in Int
  <2>1. /\ \/ /\ Sendto(n, "server", Packet("SREJ", 0, cwin'.lower))
              /\ UNCHANGED <<cstate, expected, srej>>
           \/ /\ NoSend(n)
              /\ expected' = added.ret + 1
              /\ \/ cstate' = "SREJ" /\ srej' = expected
                 \/ cstate' = NextDequeue(cwin') /\ UNCHANGED srej
    BY <1>1 DEF m, n, added
  <2>2. faults \in Nat /\ expected \in Int /\ srej \in Int
    BY DEF NetInv, NetworkTypeOK, ClientInv, ClientTypeOK
  <2>3. QueuesOK(net') /\ faults' \in Nat
    BY <1>2, <1>5, <2>1, <2>2, SendtoOK, NoSendOK
  <2> QED BY <1>3, <1>4, <2>1, <2>2, <2>3
<1>7. cstate' \in {"RECV_DATA", "SREJ", "DEQUEUE"}
  BY <1>6 DEF NextDequeue
<1>8. ClientTypeOK'
  BY <1>3, <1>4, <1>6, <1>7 DEF ClientInv, ClientTypeOK, ClientStates, Frame
<1>9. LowerOK'
  BY <1>3, <1>4, <1>6, <1>7 DEF LowerOK, Receiving, NextDequeue, win_lowest_cell_isFull
<1>10. WrittenOK'
  BY <1>3, <1>4 DEF ClientInv, WrittenOK
<1>11. Frame(cwin)'
  BY <1>4
<1> QED BY <1>3, <1>6, <1>8, <1>9, <1>10, <1>11 DEF ClientInv, NetInv, NetworkTypeOK

LEMMA DequeueKeeps ==
    ASSUME NetInv, ClientInv, ClientDequeue
    PROVE  /\ QueuesOK(net') /\ faults' \in Nat
           /\ sockets' \subseteq {"server", "client"} /\ ClientInv'
<1> DEFINE pdu == win_get(cwin, cwin.lower)
           L == cwin.lower
<1>1. /\ Frame(cwin) /\ L \in 1 .. NumBlocks + 1 /\ cwin.current >= 0
      /\ win_lowest_cell_isFull(cwin)
      /\ Len(out) = L - 1 /\ out \in Seq(1 .. NumBlocks)
      /\ \A i \in 1 .. Len(out) : out[i] = File[i]
  BY DEF ClientDequeue, ClientInv, ClientTypeOK, LowerOK, WrittenOK, Receiving,
         win_lowest_cell_isFull
<1>2. /\ Frame(cwin') /\ cwin'.lower = L + 1 /\ cwin'.current = cwin.current
      /\ pdu \in FileData \cup {Eof(NumBlocks + 1)} /\ pdu.seq = L
  BY <1>1, FrameDequeue DEF ClientDequeue
<1>3. QueuesOK(net) /\ faults \in Nat /\ sockets \subseteq {"server", "client"}
  BY DEF NetInv, NetworkTypeOK
<1>4. UNCHANGED <<cretry, expected, srej>> /\ cwin' \in WindowType
  BY <1>2 DEF ClientDequeue, Frame
<1>5. QueuesOK(Close(net)) /\ "server" \in Endpoints
  BY <1>3, CloseOK DEF Endpoints
<1>6. ASSUME NEW k \in Nat
      PROVE  Packet("RR", 0, k) \in PDU /\ Packet("EOF_ACK", 0, 0) \in PDU
  BY DEF Packet, PDU, WireFlags
<1>7. CASE pdu \in FileData
  <2>1. pdu.flag = "DATA" /\ L \in 1 .. NumBlocks /\ pdu.data = L
    BY <1>2, <1>7, AnswersType
  <2>2. /\ out' = Append(out, L) /\ cstate' = NextDequeue(cwin') /\ UNCHANGED sockets
        /\ Sendto(net, "server", Packet("RR", 0, L))
    BY <1>2, <2>1, WritesSucceed DEF ClientDequeue, Written
  <2>3. QueuesOK(net') /\ faults' \in Nat
    BY <1>3, <1>5, <1>6, <2>1, <2>2, SendtoOK
  <2>4. /\ out' \in Seq(1 .. NumBlocks) /\ Len(out') = L
        /\ \A i \in 1 .. Len(out') : out'[i] = File[i]
    <3> DEFINE o == Append(out, L)
    <3>1. /\ o \in Seq(1 .. NumBlocks) /\ Len(o) = Len(out) + 1
          /\ \A i \in 1 .. Len(out) : o[i] = out[i]
          /\ o[Len(out) + 1] = L
      BY <1>1, <2>1, AppendProperties
    <3>2. Len(out) + 1 = L /\ Len(out) \in Nat
      BY <1>1, <2>1
    <3> HIDE DEF o
    <3>3. ASSUME NEW i \in 1 .. Len(o) PROVE o[i] = File[i]
      <4>1. i \in 1 .. Len(out) \/ i = L
        BY <3>1, <3>2
      <4>2. o[L] = L /\ File[L] = L
        BY <2>1, <3>1, <3>2 DEF File
      <4> QED BY <1>1, <3>1, <4>1, <4>2
    <3> QED BY <2>2, <3>1, <3>2, <3>3 DEF o
  <2>5. cstate' \in {"RECV_DATA", "DEQUEUE"}
    BY <2>2 DEF NextDequeue
  <2> HIDE DEF pdu
  <2>6. ClientTypeOK'
    BY <1>4, <2>4, <2>5 DEF ClientInv, ClientTypeOK, ClientStates
  <2>7. LowerOK'
    BY <1>1, <1>2, <2>1, <2>2, <2>5
       DEF LowerOK, Receiving, NextDequeue, win_lowest_cell_isFull
  <2>8. WrittenOK'
    BY <1>1, <1>2, <2>1, <2>4 DEF WrittenOK
  <2>9. Frame(cwin)'
    BY <1>2
  <2> QED BY <1>3, <2>2, <2>3, <2>6, <2>7, <2>8, <2>9 DEF ClientInv
<1>8. CASE pdu = Eof(NumBlocks + 1)
  <2>1. pdu.flag = "END_OF_FILE" /\ L = NumBlocks + 1
    BY <1>2, <1>8, AnswersType
  <2>2. /\ cstate' = "DONE" /\ sockets' = sockets \ {"client"} /\ UNCHANGED out
        /\ Sendto(Close(net), "server", Packet("EOF_ACK", 0, 0))
    BY <2>1 DEF ClientDequeue
  <2>3. QueuesOK(net') /\ faults' \in Nat
    BY <1>3, <1>5, <1>6, <2>2, SendtoOK
  <2> HIDE DEF pdu
  <2>4. ClientTypeOK'
    BY <1>1, <1>4, <2>2 DEF ClientInv, ClientTypeOK, ClientStates
  <2>5. LowerOK'
    BY <1>2, <2>1, <2>2 DEF LowerOK, Receiving
  <2>6. WrittenOK'
    BY <1>1, <1>2, <2>1, <2>2 DEF WrittenOK
  <2>7. Frame(cwin)'
    BY <1>2
  <2> QED BY <1>3, <2>2, <2>3, <2>4, <2>5, <2>6, <2>7 DEF ClientInv
<1> QED BY <1>2, <1>7, <1>8

LEMMA ClientKeeps ==
    ASSUME NetInv, ClientInv,
           ClientStep \/ ClientFilenameTimeout \/ ClientRecvTimeout
    PROVE  NetInv' /\ ClientInv'
<1>1. SUFFICES /\ QueuesOK(net') /\ faults' \in Nat
               /\ sockets' \subseteq {"server", "client"} /\ ClientInv'
  BY DEF NetInv, NetworkTypeOK, QueuesOK
<1>2. /\ QueuesOK(net) /\ faults \in Nat /\ sockets \subseteq {"server", "client"}
      /\ NetworkTypeOK
      /\ cretry \in Nat /\ expected \in Int /\ srej \in Int
  BY DEF NetInv, NetworkTypeOK, ClientInv, ClientTypeOK
<1>3. /\ QueuesOK(Close(net))
      /\ {"main", "server", "client"} = Endpoints
      /\ ClientStates = {"START_STATE", "FILENAME", "FILE_OK", "RECV_DATA", "SREJ",
                         "DEQUEUE", "DONE"}
  BY <1>2, CloseOK DEF Endpoints, ClientStates
<1>4. \A k \in Int : Packet("SREJ", 0, k) \in PDU /\ Packet("FNAME", 0, 0) \in PDU
  BY DEF Packet, PDU, WireFlags
<1>5. CASE ClientStart
  <2>1. QueuesOK(net') /\ faults' \in Nat
    BY <1>2, <1>3, <1>4, <1>5, SendtoOK DEF ClientStart
  <2>2. ClientInv'
    BY <1>2, <1>3, <1>5, ClientStays DEF ClientStart
  <2> QED BY <1>2, <1>5, <2>1, <2>2 DEF ClientStart
<1>6. CASE ClientNoHost
  <2>1. ToDone(net) /\ UNCHANGED <<cwin, cretry, expected, srej, out>>
    BY <1>6 DEF ClientNoHost
  <2> QED BY <1>2, <1>3, <2>1, ToDoneOK, ClientStays
<1>7. CASE ClientFilenameGiveUp
  <2>1. ToDone(net) /\ cretry' = cretry + 1 /\ UNCHANGED <<cwin, expected, srej, out>>
    BY <1>7 DEF ClientFilenameGiveUp
  <2> QED BY <1>2, <1>3, <2>1, ToDoneOK, ClientStays
<1>8. CASE ClientFilename
  <2>1. PICK i \in Receivable("client") :
          \/ ToDone(Take("client", i))
          \/ /\ cstate' \in {"START_STATE", "FILENAME", "FILE_OK"}
             /\ NoSend(Take("client", i)) /\ UNCHANGED sockets
    BY <1>8 DEF ClientFilename
  <2>2. QueuesOK(Take("client", i))
    BY <1>3, TakeOK
  <2>3. /\ QueuesOK(net') /\ faults' \in Nat /\ sockets' \subseteq {"server", "client"}
        /\ cstate' \in {"START_STATE", "FILENAME", "FILE_OK", "DONE"}
    BY <1>2, <2>1, <2>2, ToDoneOK, NoSendOK
  <2>4. cstate = "FILENAME" /\ cretry' = 0 /\ UNCHANGED <<cwin, expected, srej, out>>
    BY <1>8 DEF ClientFilename
  <2> QED BY <1>2, <1>3, <2>3, <2>4, ClientStays
<1>9. CASE ClientFileOk
  BY <1>9, FileOkKeeps
<1>10. CASE ClientRecvCorrupted
  <2>1. PICK i \in Receivable("client") : NoSend(Take("client", i))
    BY <1>10 DEF ClientRecvCorrupted
  <2>2. QueuesOK(Take("client", i))
    BY <1>3, TakeOK
  <2>3. QueuesOK(net') /\ faults' \in Nat
    BY <1>2, <2>1, <2>2, NoSendOK
  <2>4. cstate = "RECV_DATA" /\ UNCHANGED <<sockets, clientVars>>
    BY <1>10 DEF ClientRecvCorrupted
  <2>5. ClientInv'
    BY <1>2, <1>3, <2>4, ClientStays DEF clientVars, Receiving
  <2> QED BY <1>2, <2>3, <2>4, <2>5
<1>11. CASE ClientRecvData
  BY <1>11, RecvDataKeeps
<1>12. CASE ClientSendSrej
  <2>1. QueuesOK(net') /\ faults' \in Nat
    BY <1>2, <1>3, <1>4, <1>12, SendtoOK DEF ClientSendSrej
  <2>2. /\ cstate = "SREJ" /\ cstate' \in {"SREJ", NextDequeue(cwin)} /\ srej' \in Int
        /\ UNCHANGED <<sockets, cwin, cretry, expected, out>>
    BY <1>2, <1>12 DEF ClientSendSrej
  <2>3. cstate' \in ClientStates
    BY <1>3, <2>2 DEF NextDequeue
  <2>4. ClientInv'
    BY <1>2, <2>2, <2>3, ClientStays DEF Receiving
  <2> QED BY <1>2, <2>1, <2>2, <2>4
<1>13. CASE ClientDequeue
  BY <1>13, DequeueKeeps
<1>14. CASE ClientFilenameTimeout
  <2>1. QueuesOK(net') /\ faults' \in Nat
    BY <1>2, <1>14, NoSendOK DEF ClientFilenameTimeout
  <2>2. ClientInv'
    BY <1>2, <1>3, <1>14, ClientStays DEF ClientFilenameTimeout
  <2> QED BY <1>2, <1>14, <2>1, <2>2 DEF ClientFilenameTimeout
<1>15. CASE ClientRecvTimeout
  <2>1. ToDone(net) /\ UNCHANGED <<cwin, cretry, expected, srej, out>>
    BY <1>15 DEF ClientRecvTimeout
  <2> QED BY <1>2, <1>3, <2>1, ToDoneOK, ClientStays
<1> QED BY <1>5, <1>6, <1>7, <1>8, <1>9, <1>10, <1>11, <1>12, <1>13, <1>14, <1>15
        DEF ClientStep

-----------------------------------------------------------------------------
(***************************************************************************)
(* The inductive invariant.                                                *)
(***************************************************************************)
LEMMA InitIInv == Init => IInv
<1>1. SUFFICES ASSUME Init PROVE IInv
  OBVIOUS
<1>2. NetInv
  BY <1>1 DEF Init, NetworkInit, NetInv, NetworkTypeOK, QueuesOK, Endpoints
<1>3. ServerInv
  BY <1>1, InitType, HoldsFileInit
     DEF Init, ServerInit, ServerInv, ServerTypeOK, ServerStates, EofStates, START_SEQ_NUM
<1>4. /\ Frame(win_init) /\ win_init.lower = 0
  BY InitType DEF Frame, win_init
<1>5. /\ cstate = "START_STATE" /\ cwin = win_init /\ cretry = 0
      /\ expected = 1 /\ srej = 0 /\ out = << >>
  BY <1>1 DEF Init, ClientInit
<1>6. ClientTypeOK
  BY <1>5, InitType DEF ClientTypeOK, ClientStates
<1>7. LowerOK /\ WrittenOK
  BY <1>4, <1>5 DEF LowerOK, WrittenOK, Receiving
<1> QED BY <1>2, <1>3, <1>4, <1>5, <1>6, <1>7 DEF IInv, ClientInv

LEMMA StutterKeeps == IInv /\ UNCHANGED vars => IInv'
BY DEF IInv, NetInv, NetworkTypeOK, QueuesOK, ServerInv, ServerTypeOK, HoldsFile,
       ClientInv, ClientTypeOK, Frame, InFrame, LowerOK, WrittenOK, Receiving,
       vars, netVars, serverVars, clientVars

LEMMA NextIInv == IInv /\ [Next]_vars => IInv'
<1>1. SUFFICES ASSUME IInv, [Next]_vars PROVE IInv'
  OBVIOUS
<1>2. CASE UNCHANGED vars
  BY <1>1, <1>2, StutterKeeps
<1>3. CASE ServerNext
  <2>1. /\ ServerStep \/ ServerTimeout
        /\ UNCHANGED clientVars
    BY <1>3 DEF ServerNext, ServerTimesOut
  <2>2. NetInv' /\ ServerInv'
    BY <1>1, <2>1, ServerKeeps DEF IInv
  <2>3. ClientInv'
    BY <1>1, <2>1 DEF IInv, clientVars, ClientInv, ClientTypeOK, Frame, InFrame,
                      LowerOK, WrittenOK, Receiving
  <2> QED BY <2>2, <2>3 DEF IInv
<1>4. CASE ClientNext
  <2>1. /\ ClientStep \/ ClientFilenameTimeout \/ ClientRecvTimeout
        /\ UNCHANGED serverVars
    BY <1>4 DEF ClientNext, ClientTimesOut
  <2>2. NetInv' /\ ClientInv'
    BY <1>1, <2>1, ClientKeeps DEF IInv
  <2>3. ServerInv'
    BY <1>1, <2>1 DEF IInv, serverVars, ServerInv, ServerTypeOK, HoldsFile
  <2> QED BY <2>2, <2>3 DEF IInv
<1> QED BY <1>1, <1>2, <1>3, <1>4 DEF Next, Terminated

THEOREM Invariance == Spec => []IInv
BY InitIInv, NextIInv, PTL DEF Spec

(***************************************************************************)
(* Every variable keeps its type: in particular every sequence number that *)
(* is ever put into a header is a natural number, and no process sends a   *)
(* datagram without a header.                                              *)
(***************************************************************************)
THEOREM TypeCorrectness == Spec => []TypeOK
<1>1. IInv => TypeOK
  BY DEF IInv, NetInv, ServerInv, ClientInv, TypeOK
<1> QED BY <1>1, Invariance, PTL

(***************************************************************************)
(* For every file, window size, network and pattern of errors, what rcopy  *)
(* has written is a prefix of the server's file.                           *)
(***************************************************************************)
THEOREM PrefixSafety == Spec => []OutputIsPrefix
<1>1. IInv => OutputIsPrefix
  <2>1. SUFFICES ASSUME IInv PROVE IsPrefix(out, File)
    BY DEF OutputIsPrefix
  <2>2. /\ out \in Seq(1 .. NumBlocks) /\ Len(out) <= NumBlocks
        /\ \A i \in 1 .. Len(out) : out[i] = File[i]
    <3>1. cwin.lower \in Nat /\ cwin.lower <= NumBlocks + 2 /\ WrittenOK
      BY <2>1 DEF IInv, ClientInv, LowerOK, Frame, WindowType
    <3>2. \/ cwin.lower = 0
          \/ cwin.lower \in 1 .. NumBlocks + 1
          \/ cwin.lower = NumBlocks + 2
      BY <3>1
    <3>3. Len(out) <= NumBlocks
      BY <3>1, <3>2 DEF WrittenOK
    <3> QED BY <2>1, <3>1, <3>3 DEF IInv, ClientInv, ClientTypeOK, WrittenOK
  <2>3. File \in Seq(1 .. NumBlocks) /\ Len(File) = NumBlocks
    BY DEF File
  <2>4. SubSeq(out, 1, Len(out)) = SubSeq(File, 1, Len(out))
    <3> DEFINE p == SubSeq(out, 1, Len(out))
               q == SubSeq(File, 1, Len(out))
    <3>1. /\ p \in Seq(1 .. NumBlocks) /\ Len(p) = Len(out)
          /\ \A i \in 1 .. Len(out) : p[i] = out[i]
      BY <2>2, SubSeqProperties, ElementOfSeq
    <3>2. /\ q \in Seq(1 .. NumBlocks) /\ Len(q) = Len(out)
          /\ \A i \in 1 .. Len(out) : q[i] = File[i]
      BY <2>2, <2>3, SubSeqProperties, ElementOfSeq
    <3> HIDE DEF p, q
    <3> QED BY <2>2, <3>1, <3>2, SeqEqual DEF p, q
  <2> QED BY <2>2, <2>3, <2>4 DEF IsPrefix
<1> QED BY <1>1, Invariance, PTL

-----------------------------------------------------------------------------
(***************************************************************************)
(* Transfer implements FileCopy.                                           *)
(***************************************************************************)
LEMMA CompleteIsFile == ClientInv /\ outcome = "complete" => out = File
<1>1. SUFFICES ASSUME ClientInv, outcome = "complete" PROVE out = File
  OBVIOUS
<1>2. cwin.lower = NumBlocks + 2
  BY <1>1 DEF outcome
<1>3. /\ out \in Seq(1 .. NumBlocks) /\ Len(out) = NumBlocks
      /\ \A i \in 1 .. Len(out) : out[i] = File[i]
  BY <1>1, <1>2 DEF ClientInv, ClientTypeOK, WrittenOK
<1>4. File \in Seq(1 .. NumBlocks) /\ Len(File) = NumBlocks
  BY DEF File
<1> QED BY <1>3, <1>4, SeqEqual

\* What a step of rcopy does to the output: nothing, or the next block.
LEMMA ClientWrites ==
    ASSUME ClientInv, ClientStep \/ ClientFilenameTimeout \/ ClientRecvTimeout
    PROVE  /\ cstate # "DONE"
           /\ \/ UNCHANGED out
              \/ /\ Len(out) < Len(File)
                 /\ out' = Append(out, File[Len(out) + 1])
                 /\ cstate' # "DONE"
<1>1. CASE ClientDequeue
  <2> DEFINE pdu == win_get(cwin, cwin.lower)
             L == cwin.lower
  <2>1. /\ Frame(cwin) /\ L \in 1 .. NumBlocks + 1 /\ win_lowest_cell_isFull(cwin)
        /\ Len(out) = L - 1 /\ cstate = "DEQUEUE"
    BY <1>1 DEF ClientDequeue, ClientInv, LowerOK, WrittenOK, Receiving,
                win_lowest_cell_isFull
  <2>2. pdu \in FileData \cup {Eof(NumBlocks + 1)} /\ pdu.seq = L
    BY <2>1, FrameDequeue
  <2>3. CASE pdu \in FileData
    <3>1. pdu.flag = "DATA" /\ L \in 1 .. NumBlocks /\ pdu.data = L
      BY <2>2, <2>3, AnswersType
    <3>2. out' = Append(out, L) /\ cstate' = NextDequeue(cwin')
      BY <1>1, <3>1, WritesSucceed DEF ClientDequeue, Written
    <3>3. Len(out) + 1 = L /\ File[L] = L /\ Len(File) = NumBlocks /\ Len(out) < NumBlocks
      BY <2>1, <3>1 DEF File
    <3> QED BY <2>1, <3>2, <3>3 DEF NextDequeue
  <2>4. CASE pdu = Eof(NumBlocks + 1)
    <3>1. pdu.flag = "END_OF_FILE"
      BY <2>4, AnswersType
    <3> QED BY <1>1, <2>1, <3>1 DEF ClientDequeue
  <2> QED BY <2>2, <2>3, <2>4
<1>2. CASE ClientRecvCorrupted
  BY <1>2 DEF ClientRecvCorrupted, clientVars
<1>3. CASE ClientRecvData
  BY <1>3 DEF ClientRecvData
<1>4. CASE ~ClientDequeue /\ ~ClientRecvCorrupted /\ ~ClientRecvData
  BY <1>4 DEF ClientStep, ClientStart, ClientNoHost, ClientFilenameGiveUp, ClientFilename,
              ClientFileOk, ClientSendSrej, ClientFilenameTimeout, ClientRecvTimeout
<1> QED BY <1>1, <1>2, <1>3, <1>4

LEMMA ClientImplements ==
    ClientInv /\ ClientInv' /\ (ClientStep \/ ClientFilenameTimeout \/ ClientRecvTimeout)
      => Copy!Next \/ UNCHANGED <<out, outcome>>
<1>0. (ClientInv /\ outcome = "complete" => out = File)'
  BY CompleteIsFile, PTL
<1>1. SUFFICES ASSUME ClientInv, ClientInv',
                      ClientStep \/ ClientFilenameTimeout \/ ClientRecvTimeout
               PROVE  Copy!Next \/ UNCHANGED <<out, outcome>>
  OBVIOUS
<1>2. /\ cstate # "DONE"
      /\ \/ UNCHANGED out
         \/ /\ Len(out) < Len(File)
            /\ out' = Append(out, File[Len(out) + 1])
            /\ cstate' # "DONE"
  BY <1>1, ClientWrites
<1>3. outcome = "copying"
  BY <1>2 DEF outcome
<1>4. CASE cstate' # "DONE"
  <2>1. outcome' = "copying"
    BY <1>4 DEF outcome
  <2> QED BY <1>2, <1>3, <2>1 DEF Copy!Next, Copy!CopyBlock
<1>5. CASE cstate' = "DONE"
  <2>1. out' = out /\ outcome' \in {"complete", "aborted"}
    BY <1>2, <1>5 DEF outcome
  <2>2. CASE outcome' = "complete"
    <3>1. out' = File
      BY <1>0, <1>1, <2>2 DEF File
    <3> QED BY <1>3, <2>1, <2>2, <3>1 DEF Copy!Next, Copy!Complete
  <2>3. CASE outcome' = "aborted"
    BY <1>3, <2>1, <2>3 DEF Copy!Next, Copy!Abort
  <2> QED BY <2>1, <2>2, <2>3
<1> QED BY <1>4, <1>5

LEMMA StepImplements == IInv /\ IInv' /\ [Next]_vars => [Copy!Next]_<<out, outcome>>
<1>1. SUFFICES ASSUME IInv, IInv', [Next]_vars
               PROVE  Copy!Next \/ UNCHANGED <<out, outcome>>
  OBVIOUS
<1>2. CASE UNCHANGED clientVars
  BY <1>2 DEF clientVars, outcome
<1>3. CASE ClientNext
  <2>1. ClientStep \/ ClientFilenameTimeout \/ ClientRecvTimeout
    BY <1>3 DEF ClientNext, ClientTimesOut
  <2> QED BY <1>1, <2>1, ClientImplements DEF IInv
<1> QED BY <1>1, <1>2, <1>3 DEF Next, ServerNext, ServerTimesOut, Terminated, vars

(***************************************************************************)
(* For every file, window size, network and pattern of errors, a run of    *)
(* rcopy writes the file block by block, and ends as complete only when    *)
(* all of it is written.                                                   *)
(***************************************************************************)
THEOREM Refinement == Spec => ImplementsFileCopy
<1>1. Init => Copy!Init
  BY DEF Init, ClientInit, Copy!Init, outcome
<1>2. IInv /\ IInv' /\ [Next]_vars => [Copy!Next]_<<out, outcome>>
  BY StepImplements
<1> QED BY <1>1, <1>2, Invariance, PTL DEF Spec, ImplementsFileCopy, Copy!Spec, Copy!copyVars

-----------------------------------------------------------------------------
(***************************************************************************)
(* Each operation of window.c leaves the lower edge or raises it.          *)
(***************************************************************************)
LEMMA RRAdvances ==
    ASSUME NEW w \in WindowType, NEW rr \in Int
    PROVE  win_RR(w, rr).lower >= w.lower
<1> DEFINE u == rr + WindowSize
           k == Kept(w, rr)
<1>1. w.lower \in Nat
  BY DEF WindowType
<1>2. win_RR(w, rr) = IF rr > w.lower
                      THEN [lower |-> rr, current |-> w.current, upper |-> u, cells |-> k]
                      ELSE w
  BY RRType, Zenon
<1> HIDE DEF u, k
<1> QED BY <1>1, <1>2

LEMMA AddAdvances ==
    ASSUME NEW w \in WindowType, NEW m \in PDU
    PROVE  win_add(w, m).win.lower >= w.lower
<1>1. w.lower \in Nat /\ m.seq \in Nat /\ w.upper \in Nat
  BY DEF WindowType, PDU
<1>2. CASE m.seq < w.lower
  BY <1>1, <1>2 DEF win_add
<1>3. CASE m.seq >= w.lower /\ m.seq >= w.upper
  <2>1. win_add(w, m).win = [w EXCEPT !.current = w.upper - 1]
    BY <1>1, <1>3 DEF win_add
  <2> QED BY <1>1, <2>1 DEF WindowType
<1>4. CASE m.seq >= w.lower /\ m.seq < w.upper /\ ~win_cellEmpty(w, m.seq)
  BY <1>1, <1>4 DEF win_add
<1>5. CASE m.seq >= w.lower /\ m.seq < w.upper /\ win_cellEmpty(w, m.seq)
  <2>1. win_add(w, m).win = Store(w, m)
    BY <1>1, <1>5 DEF win_add
  <2>2. Store(w, m).lower = IF w.current = -1 THEN m.seq ELSE w.lower
    <3> DEFINE v == IF w.current = -1
                    THEN [win_set_lower(w, m.seq) EXCEPT !.current = m.seq]
                    ELSE w
    <3>1. /\ v \in [lower : Nat, current : Nat \cup {-1}, upper : Nat,
                    cells : [Cells -> PDU \cup {EmptyCell}]]
          /\ v.lower = IF w.current = -1 THEN m.seq ELSE w.lower
      BY <1>1, SetLowerType DEF WindowType
    <3> HIDE DEF v
    <3>2. Store(w, m) = [v EXCEPT !.current = IF m.seq >= v.current THEN m.seq ELSE @,
                                  !.cells[win_index(m.seq)] = m]
      BY DEF Store, v
    <3> QED BY <3>1, <3>2
  <2> QED BY <1>1, <1>5, <2>1, <2>2
<1> QED BY <1>1, <1>2, <1>3, <1>4, <1>5

LEMMA DequeueAdvances ==
    ASSUME NEW w \in WindowType
    PROVE  win_deQueue(w).lower >= w.lower
<1>1. w.lower + 1 \in Int
  BY DEF WindowType
<1> QED BY <1>1, RRAdvances DEF win_deQueue

-----------------------------------------------------------------------------
(***************************************************************************)
(* A child that has not yet called filename has an unused window, so that  *)
(* win_init does not move it back.                                         *)
(***************************************************************************)
Fresh == sstate = "FILENAME" => swin = win_init

LEMMA ResponseAdvances ==
    ASSUME NetInv, ServerInv, NEW onCrc, NEW next, HandleResponse(onCrc, next)
    PROVE  swin'.lower >= swin.lower /\ sstate' \in {onCrc, next, "DONE", "EXIT"}
<1>1. PICK i \in Receivable("server") :
        LET m == net["server"][i]
            n == Take("server", i)
        IN  \/ GoTo(onCrc) /\ UNCHANGED swin
            \/ swin' = win_RR(swin, m.data) /\ GoTo(next)
            \/ process_srej(n, m.data, next) /\ UNCHANGED swin
            \/ GoTo("DONE") /\ UNCHANGED swin
  BY DEF HandleResponse
<1>2. net["server"][i].data \in Int
  BY TakeOK DEF PDU, Endpoints
<1>3. swin \in WindowType /\ swin.lower \in Nat
  BY DEF ServerInv, HoldsFile, WindowType
<1>4. swin'.lower >= swin.lower
  BY <1>1, <1>2, <1>3, RRAdvances
<1> QED BY <1>1, <1>4 DEF GoTo, process_srej

LEMMA ServerAdvances ==
    ASSUME NetInv, ServerInv, Fresh, ServerStep \/ ServerTimeout
    PROVE  Fresh' /\ (sstate' # "FILENAME" => swin'.lower >= swin.lower)
<1>1. swin \in WindowType /\ swin.lower \in Nat
  BY DEF ServerInv, HoldsFile, WindowType
<1>2. CASE ServerFork
  BY <1>2 DEF ServerFork, Fresh
<1>3. CASE ServerFilename
  BY <1>1, <1>3 DEF ServerFilename, Fresh, GoTo
<1>4. CASE ServerSendData
  <2>1. Data(sseq, File[offset + 1]) \in PDU
    <3>1. offset + 1 \in 1 .. NumBlocks /\ sseq = offset + 1
      BY <1>4, ServerAssumption DEF ServerSendData, ServerInv, ServerTypeOK
    <3>2. Data(sseq, File[offset + 1]) \in FileData
      BY <3>1 DEF FileData
    <3> QED BY <3>2, AnswersType
  <2>2. swin' = win_add(swin, Data(sseq, File[offset + 1])).win
        /\ sstate' = "CHECK_FOR_RESPONSE"
    BY <1>4 DEF ServerSendData, GoTo
  <2> QED BY <1>1, <2>1, <2>2, AddAdvances DEF Fresh
<1>5. CASE ServerCheckForResponse
  <2>1. HandleResponse("NEW_SEND_DATA", "NEW_SEND_DATA")
    BY <1>5 DEF ServerCheckForResponse
  <2> QED BY <2>1, ResponseAdvances DEF Fresh
<1>6. CASE ServerWaitOnResponse
  <2>1. HandleResponse("TIMEOUT_ON_RESPONSE", "NEW_SEND_DATA")
    BY <1>6 DEF ServerWaitOnResponse
  <2> QED BY <2>1, ResponseAdvances DEF Fresh
<1>7. CASE ServerEofAckReady \/ ServerRecvAfterGiveUp
  <2>1. HandleResponse("WAIT_ON_EOF_ACK", "WAIT_ON_EOF_ACK")
    BY <1>7 DEF ServerEofAckReady, ServerRecvAfterGiveUp
  <2> QED BY <2>1, ResponseAdvances DEF Fresh
<1>8. CASE ServerIgnoreCorrupted
  BY <1>1, <1>8 DEF ServerIgnoreCorrupted, serverVars, Fresh
<1>9. CASE \/ ServerWindowFull \/ ServerSendEof \/ ServerReadError
           \/ ServerNoResponseYet \/ ServerResendLowest \/ ServerResponseReady
           \/ ServerEofAckGiveUp \/ ServerResendEof \/ ServerTimeout
  <2>1. swin' = swin /\ sstate' # "FILENAME"
    BY <1>9 DEF ServerWindowFull, ServerSendEof, ServerReadError, ServerNoResponseYet,
                ServerResendLowest, ServerResponseReady, ServerEofAckGiveUp,
                ServerResendEof, ServerTimeout, ServerWaitTimeout,
                ServerResponseTimeout, ServerEofAckTimeout, GoTo
  <2> QED BY <1>1, <2>1 DEF Fresh
<1> QED BY <1>2, <1>3, <1>4, <1>5, <1>6, <1>7, <1>8, <1>9 DEF ServerStep

LEMMA ClientAdvances ==
    ASSUME NetInv, ClientInv, ClientStep \/ ClientFilenameTimeout \/ ClientRecvTimeout
    PROVE  cwin'.lower >= cwin.lower
<1>1. cwin \in WindowType /\ cwin.lower \in Nat
  BY DEF ClientInv, Frame, WindowType
<1>2. CASE ClientFileOk
  <2>1. cwin.lower = 0
    BY <1>2 DEF ClientFileOk, ClientInv, LowerOK, win_init
  <2>2. cwin'.lower = 1
    BY <1>2, FileOkWindow DEF ClientFileOk, ClientInv, LowerOK
  <2> QED BY <2>1, <2>2
<1>3. CASE ClientRecvData
  <2>1. PICK i \in Receivable("client") : cwin' = win_add(cwin, net["client"][i]).win
    BY <1>3 DEF ClientRecvData
  <2>2. net["client"][i] \in PDU
    BY TakeOK DEF Endpoints
  <2> QED BY <1>1, <2>1, <2>2, AddAdvances
<1>4. CASE ClientDequeue
  BY <1>1, <1>4, DequeueAdvances DEF ClientDequeue
<1>5. CASE ~ClientFileOk /\ ~ClientRecvData /\ ~ClientDequeue
  <2>1. cwin' = cwin
    BY <1>5 DEF ClientStep, ClientStart, ClientNoHost, ClientFilenameGiveUp, ClientFilename,
                ClientRecvCorrupted, ClientSendSrej, ClientFilenameTimeout,
                ClientRecvTimeout, clientVars
  <2> QED BY <1>1, <2>1
<1> QED BY <1>2, <1>3, <1>4, <1>5

-----------------------------------------------------------------------------
Advance == /\ sstate' # "FILENAME" => swin'.lower >= swin.lower
           /\ cwin'.lower >= cwin.lower

LEMMA NextAdvances == IInv /\ Fresh /\ [Next]_vars => Fresh' /\ Advance
<1>1. SUFFICES ASSUME IInv, Fresh, [Next]_vars PROVE Fresh' /\ Advance
  OBVIOUS
<1>2. /\ NetInv /\ ServerInv /\ ClientInv
      /\ swin.lower \in Nat /\ cwin.lower \in Nat
  BY <1>1 DEF IInv, ServerInv, HoldsFile, ClientInv, Frame, WindowType
<1>3. CASE UNCHANGED vars
  BY <1>1, <1>2, <1>3 DEF vars, serverVars, clientVars, Fresh, Advance
<1>4. CASE ServerNext
  <2>1. (ServerStep \/ ServerTimeout) /\ UNCHANGED clientVars
    BY <1>4 DEF ServerNext, ServerTimesOut
  <2>2. Fresh' /\ (sstate' # "FILENAME" => swin'.lower >= swin.lower)
    BY <1>1, <1>2, <2>1, ServerAdvances
  <2> QED BY <1>2, <2>1, <2>2 DEF clientVars, Advance
<1>5. CASE ClientNext
  <2>1. /\ ClientStep \/ ClientFilenameTimeout \/ ClientRecvTimeout
        /\ UNCHANGED serverVars
    BY <1>5 DEF ClientNext, ClientTimesOut
  <2>2. cwin'.lower >= cwin.lower
    BY <1>2, <2>1, ClientAdvances
  <2> QED BY <1>1, <1>2, <2>1, <2>2 DEF serverVars, Advance, Fresh
<1> QED BY <1>1, <1>3, <1>4, <1>5 DEF Next, Terminated

(***************************************************************************)
(* Neither window ever moves back while its owner lives, whatever old RR   *)
(* or packet arrives (process_rr, win_add, win_deQueue).                   *)
(***************************************************************************)
THEOREM NeverBack == Spec => WindowsAdvance
<1>1. Init => Fresh
  BY DEF Init, ServerInit, Fresh
<1>2. IInv /\ Fresh /\ [Next]_vars => Fresh'
  BY NextAdvances
<1>3. Spec => []Fresh
  BY <1>1, <1>2, Invariance, PTL DEF Spec
<1>4. IInv /\ Fresh /\ [Next]_vars
        => [/\ sstate' # "FILENAME" => swin'.lower >= swin.lower
            /\ cwin'.lower >= cwin.lower]_vars
  BY NextAdvances DEF Advance
<1> QED BY <1>3, <1>4, Invariance, PTL DEF Spec, WindowsAdvance

-----------------------------------------------------------------------------
(***************************************************************************)
(* A packet with another number than the lower edge leaves the cell of the *)
(* lower edge as it is.                                                    *)
(***************************************************************************)
LEMMA AddElsewhere ==
    ASSUME NEW w, Frame(w), w.current >= 0, w.lower >= 1,
           NEW m \in Answers, m # Corrupted, m.seq # w.lower,
           win_cellEmpty(w, w.lower)
    PROVE  LET v == win_add(w, m).win IN win_cellEmpty(v, v.lower)
<1> DEFINE v == win_add(w, m).win
<1>1. /\ w \in WindowType /\ w.upper = w.lower + WindowSize
      /\ w.lower \in Nat /\ w.upper \in Nat /\ w.current # -1
  BY DEF Frame, WindowType
<1>2. m \in PDU /\ m.seq \in Nat
  BY AnswersType DEF PDU
<1>3. v.lower = w.lower
  BY <1>1, FrameAdd
<1>4. v.cells[win_index(w.lower)] = w.cells[win_index(w.lower)]
  <2>1. CASE m.seq < w.lower
    BY <1>1, <1>2, <2>1 DEF win_add
  <2>2. CASE m.seq >= w.lower /\ m.seq >= w.upper
    <3>1. v = [w EXCEPT !.current = w.upper - 1]
      BY <1>1, <1>2, <2>2 DEF win_add
    <3> QED BY <1>1, <3>1 DEF WindowType
  <2>3. CASE m.seq >= w.lower /\ m.seq < w.upper /\ ~win_cellEmpty(w, m.seq)
    BY <1>1, <1>2, <2>3 DEF win_add
  <2>4. CASE m.seq >= w.lower /\ m.seq < w.upper /\ win_cellEmpty(w, m.seq)
    <3>1. v = Store(w, m)
      BY <1>1, <1>2, <2>4 DEF win_add
    <3>2. v.cells = [w.cells EXCEPT ![win_index(m.seq)] = m]
      BY <1>1, <1>2, <3>1, StoreType
    <3>3. win_index(m.seq) # win_index(w.lower)
      BY <1>1, <1>2, <2>4, SameCell
    <3>4. win_index(m.seq) \in Cells /\ win_index(w.lower) \in Cells
      BY <1>1, <1>2, IndexType
    <3> QED BY <1>1, <3>2, <3>3, <3>4 DEF WindowType
  <2> QED BY <1>1, <1>2, <2>1, <2>2, <2>3, <2>4 DEF WindowType
<1> QED BY <1>3, <1>4 DEF win_cellEmpty, win_get

LEMMA ClientDelivers ==
    ASSUME NetInv, ClientInv, DeliversAtOnce,
           ClientStep \/ ClientFilenameTimeout \/ ClientRecvTimeout
    PROVE  DeliversAtOnce'
<1>1. SUFFICES ASSUME cstate' = "RECV_DATA"
               PROVE  win_cellEmpty(cwin', cwin'.lower)
  BY DEF DeliversAtOnce, win_cellEmpty, win_get
<1>2. ASSUME cstate' = NextDequeue(cwin')
      PROVE  win_cellEmpty(cwin', cwin'.lower)
  BY <1>1, <1>2 DEF NextDequeue, win_lowest_cell_isFull
<1>3. CASE ClientFileOk
  <2>1. /\ \A i \in Cells : cwin'.cells[i] = EmptyCell
        /\ cwin'.lower = 1
    BY <1>3, FileOkWindow DEF ClientFileOk, ClientInv, LowerOK
  <2> QED BY <2>1, IndexType DEF win_cellEmpty, win_get
<1>4. CASE ClientRecvCorrupted
  BY <1>1, <1>4 DEF ClientRecvCorrupted, clientVars, DeliversAtOnce
<1>5. CASE ClientRecvData
  <2>1. PICK i \in Receivable("client") :
          LET m == net["client"][i]
          IN  /\ m.flag # "CRC_ERROR"
              /\ cwin' = win_add(cwin, m).win
              /\ \/ NotNext(cwin', m.seq)
                 \/ cstate' = "SREJ"
                 \/ cstate' = NextDequeue(cwin')
    BY <1>5 DEF ClientRecvData
  <2> DEFINE m == net["client"][i]
  <2>2. CASE NotNext(cwin', m.seq)
    <3>1. /\ Frame(cwin) /\ cwin.current >= 0 /\ cwin.lower >= 1
          /\ win_cellEmpty(cwin, cwin.lower)
      BY <1>5 DEF ClientRecvData, ClientInv, LowerOK, Receiving, DeliversAtOnce
    <3>2. m \in Answers /\ m # Corrupted
      BY <2>1, TakeOK DEF Corrupted, Packet, Endpoints
    <3>3. cwin'.lower = cwin.lower
      BY <2>1, <3>1, <3>2, FrameAdd DEF Frame, WindowType
    <3>4. m.seq # cwin.lower
      BY <2>2, <3>3 DEF NotNext
    <3> QED BY <2>1, <3>1, <3>2, <3>4, AddElsewhere
  <2> QED BY <1>1, <1>2, <2>1, <2>2
<1>6. CASE ClientSendSrej
  <2>1. cstate' = NextDequeue(cwin')
    BY <1>1, <1>6 DEF ClientSendSrej
  <2> QED BY <1>2, <2>1
<1>7. CASE ClientDequeue
  <2>1. cstate' = NextDequeue(cwin')
    BY <1>1, <1>7 DEF ClientDequeue
  <2> QED BY <1>2, <2>1
<1>8. CASE ~ClientFileOk /\ ~ClientRecvCorrupted /\ ~ClientRecvData /\ ~ClientSendSrej
           /\ ~ClientDequeue
  BY <1>1, <1>8 DEF ClientStep, ClientStart, ClientNoHost, ClientFilenameGiveUp,
                    ClientFilename, ClientFilenameTimeout, ClientRecvTimeout, ToDone
<1> QED BY <1>3, <1>4, <1>5, <1>6, <1>7, <1>8

(***************************************************************************)
(* Whenever rcopy waits for the next packet, the one at its lower edge is  *)
(* missing: nothing that could be written stays in the window (recv_data,  *)
(* dequeue_data).                                                          *)
(***************************************************************************)
THEOREM NothingHeldBack == Spec => []DeliversAtOnce
<1>1. Init => DeliversAtOnce
  BY DEF Init, ClientInit, DeliversAtOnce
<1>2. IInv /\ DeliversAtOnce /\ [Next]_vars => DeliversAtOnce'
  <2>1. SUFFICES ASSUME IInv, DeliversAtOnce, [Next]_vars PROVE DeliversAtOnce'
    OBVIOUS
  <2>2. CASE UNCHANGED clientVars
    BY <2>1, <2>2 DEF clientVars, DeliversAtOnce
  <2>3. CASE ClientNext
    <3>1. ClientStep \/ ClientFilenameTimeout \/ ClientRecvTimeout
      BY <2>3 DEF ClientNext, ClientTimesOut
    <3> QED BY <2>1, <3>1, ClientDelivers DEF IInv
  <2> QED BY <2>1, <2>2, <2>3 DEF Next, ServerNext, ServerTimesOut, Terminated, vars
<1> QED BY <1>1, <1>2, Invariance, PTL DEF Spec

-----------------------------------------------------------------------------
(***************************************************************************)
(* Queues: what reading and sending does to the contents of a queue, and   *)
(* to the others.                                                          *)
(***************************************************************************)
LEMMA SeqMonotone ==
    ASSUME NEW S, NEW T, S \subseteq T, NEW s \in Seq(S)
    PROVE  s \in Seq(T)
OBVIOUS

\* Sending elements of S to dest has made the queues q out of n.
Delivered(n, q, dest, S) ==
    /\ q[dest] \in Seq(S)
    /\ \A e \in Endpoints \ {dest} : q[e] = n[e]
    /\ dest # "main" /\ dest \notin sockets => q = n

LEMMA EnqueueFits ==
    ASSUME NEW n, QueuesOK(n), NEW dest \in Endpoints, NEW S, NEW pdu \in S,
           n[dest] \in Seq(S)
    PROVE  /\ Delivered(n, Enqueue(n, dest, pdu), dest, S)
           /\ Len(Enqueue(n, dest, pdu)[dest]) <= Len(n[dest]) + 1
<1>1. Append(n[dest], pdu) \in Seq(S) /\ Len(Append(n[dest], pdu)) = Len(n[dest]) + 1
  BY AppendProperties
<1>2. DOMAIN n = Endpoints /\ Len(n[dest]) \in Nat
  BY DEF QueuesOK
<1> QED BY <1>1, <1>2 DEF Enqueue, Delivered

LEMMA SendtoFits ==
    ASSUME NEW n, QueuesOK(n), NEW dest \in Endpoints, NEW S, NEW pdu \in S,
           pdu \in PDU, dest = "client" => pdu \in Answers,
           Corrupted \in S, n[dest] \in Seq(S), Sendto(n, dest, pdu)
    PROVE  /\ Delivered(n, net', dest, S)
           /\ dest = "main" => Len(net'[dest]) <= Len(n[dest]) + 1
<1> DEFINE q == Enqueue(n, dest, pdu)
           c == Enqueue(n, dest, Corrupted)
           d == Enqueue(q, dest, pdu)
<1>1. QueuesOK(q)
  BY EnqueueOK
<1>2. Delivered(n, q, dest, S) /\ Len(q[dest]) <= Len(n[dest]) + 1
  BY EnqueueFits
<1>3. Delivered(n, c, dest, S) /\ Len(c[dest]) <= Len(n[dest]) + 1
  BY EnqueueFits
<1>4. Delivered(q, d, dest, S)
  <2>1. q[dest] \in Seq(S)
    BY <1>2 DEF Delivered
  <2> HIDE DEF q
  <2> QED BY <1>1, <2>1, EnqueueFits
<1>5. Delivered(n, n, dest, S) /\ Len(n[dest]) <= Len(n[dest]) + 1
  BY DEF QueuesOK, Delivered
<1>6. net' \in {n, q, c} \/ (dest # "main" /\ net' = d)
  BY DEF Sendto, RandomEvent, Duplicate, Dropped, Flipped
<1> HIDE DEF q, c, d
<1>7. Delivered(n, d, dest, S)
  BY <1>2, <1>4 DEF Delivered
<1> QED BY <1>2, <1>3, <1>5, <1>6, <1>7

LEMMA TakeFits ==
    ASSUME NetInv, NEW e \in Endpoints, NEW i \in Receivable(e), NEW S, net[e] \in Seq(S)
    PROVE  /\ Take(e, i)[e] \in Seq(S)
           /\ net[e][i] \in S
           /\ net[e] # << >>
           /\ Len(net[e]) = 1 => Take(e, i)[e] = << >>
           /\ \A f \in Endpoints \ {e} : Take(e, i)[f] = net[f]
<1>1. i \in 1 .. Len(net[e]) /\ DOMAIN net = Endpoints
  BY DEF Receivable, NetInv, QueuesOK
<1>2. Take(e, i)[e] = RemoveAt(net[e], i)
  BY <1>1 DEF Take
<1>3. RemoveAt(net[e], i) \in Seq(S) /\ net[e][i] \in S
  BY <1>1, RemoveAtType, ElementOfSeq
<1>4. net[e] # << >>
  BY <1>1
<1>5. ASSUME Len(net[e]) = 1 PROVE RemoveAt(net[e], i) = << >>
  <2>1. i = 1
    BY <1>1, <1>5
  <2>2. SubSeq(net[e], 1, 0) = << >> /\ SubSeq(net[e], 2, 1) = << >>
    OBVIOUS
  <2> QED BY <1>5, <2>1, <2>2 DEF RemoveAt
<1> QED BY <1>1, <1>2, <1>3, <1>4, <1>5 DEF Take

LEMMA DiscardFits ==
    ASSUME NEW n, QueuesOK(n), NEW e \in Endpoints
    PROVE  /\ Discard(n, e)[e] = << >>
           /\ \A f \in Endpoints \ {e} : Discard(n, e)[f] = n[f]
BY DEF Discard, QueuesOK

LEMMA GoToFits ==
    ASSUME NEW st, GoTo(st)
    PROVE  /\ sstate' = st
           /\ sockets' \subseteq sockets
           /\ ServerEnded' => "server" \notin sockets'
BY DEF GoTo, ServerEnded

-----------------------------------------------------------------------------
(***************************************************************************)
(* The child's window: process_rr frees what lies below the number that    *)
(* was acknowledged, new_send_data takes up the next packet.               *)
(***************************************************************************)
LEMMA CoversNumbers ==
    ASSUME NEW w, NEW next, Covers(w, next)
    PROVE  /\ FirstLower \in {0, 1}
           /\ w.upper = w.lower + WindowSize
           /\ next = 1 => w.lower = 0 /\ w.current = -1
           /\ next # 1 => /\ w.lower >= FirstLower /\ w.lower <= next - 1
                         /\ w.current = next - 2 + FirstLower
                         /\ next <= w.upper + 1 - FirstLower
BY DEF Covers, FirstLower, win_init

LEMMA CoversRR ==
    ASSUME NEW w, HoldsFile(w), NEW next \in Nat, Covers(w, next), Retains(w, next),
           NEW k \in 1 .. next - 1
    PROVE  /\ Covers(win_RR(w, k), next) /\ Retains(win_RR(w, k), next)
           /\ win_RR(w, k).lower \in {w.lower, k}
           /\ ~win_isFull(w) => ~win_isFull(win_RR(w, k))
<1> DEFINE v == win_RR(w, k)
<1>1. /\ w \in WindowType /\ w.lower \in Nat /\ w.upper \in Nat /\ w.current \in Int
      /\ k \in Nat /\ next > 1
  BY DEF HoldsFile, WindowType
<1>0. v = IF k > w.lower THEN [lower |-> k, current |-> w.current,
                               upper |-> k + WindowSize, cells |-> Kept(w, k)]
                         ELSE w
  <2>1. k \in Int /\ w \in WindowType
    BY <1>1
  <2> QED BY ONLY <2>1, RRType, WindowSizeAssumption DEF v
<1> HIDE DEF v
<1>2. CASE ~(k > w.lower)
  <2>1. v = w
    BY <1>0, <1>2
  <2> QED BY <2>1 DEF v
<1>3. CASE k > w.lower
  <2>1. v = [lower |-> k, current |-> w.current, upper |-> k + WindowSize,
             cells |-> Kept(w, k)]
    BY <1>0, <1>3
  <2>2. /\ v.lower = k /\ v.current = w.current /\ v.upper = k + WindowSize
        /\ v.cells = Kept(w, k)
    BY <2>1
  <2>3. /\ v.lower \in FirstLower .. next - 1 /\ v.upper = v.lower + WindowSize
        /\ v.current = next - 2 + FirstLower /\ next <= v.upper + 1 - FirstLower
    BY <1>1, <1>3, <2>2, CoversNumbers
  <2>4. ASSUME NEW i \in Cells, v.cells[i] # EmptyCell
        PROVE  /\ win_index(v.cells[i].seq) = i
               /\ v.lower <= v.cells[i].seq /\ v.cells[i].seq < next
    <3>1. v.cells[i] = w.cells[i] /\ ~(w.cells[i].seq < k)
      BY <2>1, <2>4 DEF Kept
    <3>2. w.cells[i] \in FileData
      BY <2>4, <3>1 DEF HoldsFile
    <3>3. w.cells[i].seq \in Nat
      BY <3>2, AnswersType
    <3> QED BY <1>1, <2>1, <2>4, <3>1, <3>3 DEF Covers
  <2>5. Covers(v, next)
    BY <1>1, <2>3, <2>4 DEF Covers
  <2>6. ASSUME WindowSize > 1, NEW s \in 1 .. next - 1, s >= v.lower
        PROVE  win_get(v, s) = Data(s, File[s])
    <3>1. s >= w.lower
      BY <1>1, <1>3, <2>1, <2>6
    <3>2. win_get(w, s) = Data(s, File[s])
      BY <2>6, <3>1 DEF Retains
    <3>3. w.cells[win_index(s)] = Data(s, File[s]) /\ win_index(s) \in Cells
      BY <3>2, IndexType DEF win_get
    <3>4. ~(w.cells[win_index(s)].seq < k)
      BY <1>1, <2>1, <2>6, <3>3 DEF Data, Packet
    <3>5. v.cells[win_index(s)] = w.cells[win_index(s)]
      BY <2>1, <3>3, <3>4 DEF Kept
    <3> QED BY <3>3, <3>5 DEF win_get
  <2>7. ~win_isFull(w) => ~win_isFull(v)
    <3>1. w.upper = w.lower + WindowSize
      BY CoversNumbers
    <3> QED BY <1>1, <1>3, <2>2, <3>1 DEF win_isFull
  <2> QED BY <2>2, <2>5, <2>6, <2>7 DEF Retains, v
<1> QED BY <1>2, <1>3

LEMMA CoversAdd ==
    ASSUME NEW w, HoldsFile(w), NEW next \in 1 .. NumBlocks, Covers(w, next),
           Retains(w, next), ~win_isFull(w)
    PROVE  LET v == win_add(w, Data(next, File[next])).win
           IN  /\ Covers(v, next + 1) /\ Retains(v, next + 1)
               /\ v.lower \in {w.lower, FirstLower}
<1> DEFINE m == Data(next, File[next])
           v == win_add(w, m).win
           j == win_index(next)
<1>1. /\ w \in WindowType /\ w.lower \in Nat /\ w.upper \in Nat /\ w.current \in Int
      /\ w.upper = w.lower + WindowSize
      /\ \A i \in Cells : w.cells[i] \in FileData \cup {EmptyCell}
  BY DEF HoldsFile, WindowType, Covers
<1>2. m \in PDU /\ m.seq = next /\ next \in Nat
  <2>1. m \in FileData
    BY DEF FileData
  <2> QED BY <2>1, AnswersType DEF Data, Packet
<1>3. win_init.lower = 0 /\ win_init.current = -1 /\ win_init.upper = WindowSize
      /\ \A i \in Cells : win_init.cells[i] = EmptyCell
  BY DEF win_init
<1>4. w.current + 1 < w.upper
  BY <1>1 DEF win_isFull
<1>5. j \in Cells
  BY <1>2, IndexType
<1> HIDE DEF m, j
<1>6. CASE WindowSize = 1
  <2>1. FirstLower = 0
    BY <1>6 DEF FirstLower
  <2>2. next = w.upper
    BY <1>1, <1>2, <1>3, <1>4, <1>6, <2>1 DEF Covers
  <2>3. v = [w EXCEPT !.current = w.upper - 1]
    BY <1>1, <1>2, <1>6, <2>2 DEF win_add
  <2> HIDE DEF v
  <2>4. /\ v.lower = w.lower /\ v.upper = w.upper /\ v.cells = w.cells
        /\ v.current = next - 1
    BY <1>1, <2>2, <2>3 DEF WindowType
  <2>5. \A i \in Cells : \/ v.cells[i] = EmptyCell
                         \/ /\ win_index(v.cells[i].seq) = i
                            /\ v.lower <= v.cells[i].seq /\ v.cells[i].seq < next + 1
    <3>1. \A i \in Cells : w.cells[i] # EmptyCell => w.cells[i].seq \in Nat
      BY <1>1, AnswersType
    <3> QED BY <1>2, <2>4, <3>1 DEF Covers
  <2>6. Covers(v, next + 1)
    <3>1. /\ v.lower \in 0 .. next /\ v.upper = v.lower + WindowSize
          /\ next + 1 <= v.upper + 1 /\ next + 1 # 1
      BY <1>1, <1>2, <1>6, <2>2, <2>4
    <3> QED BY <1>2, <2>1, <2>4, <2>5, <3>1 DEF Covers
  <2> QED BY <1>6, <2>4, <2>6 DEF Retains, v, m
<1>7. CASE WindowSize > 1
  <2>1. FirstLower = 1
    BY <1>7 DEF FirstLower
  <2>2. w.lower <= next /\ next < w.upper
    BY <1>1, <1>2, <1>3, <1>4, <1>7, <2>1 DEF Covers
  <2>3. win_cellEmpty(w, next)
    <3>1. SUFFICES ASSUME w.cells[j] # EmptyCell PROVE FALSE
      BY DEF win_cellEmpty, win_get, j
    <3> DEFINE x == w.cells[j].seq
    <3>2. x \in Nat
      BY <1>1, <1>5, <3>1, AnswersType
    <3>3. win_index(x) = j /\ w.lower <= x /\ x < next
      BY <1>5, <3>1 DEF Covers
    <3> HIDE DEF x
    <3>4. x = next
      <4>1. next < x + WindowSize /\ x <= next
        BY <1>1, <1>2, <2>2, <3>2, <3>3
      <4> QED BY <1>2, <3>2, <3>3, <4>1, SameCell DEF j
    <3> QED BY <1>2, <3>2, <3>3, <3>4
  <2>4. v = Store(w, m)
    BY <1>1, <1>2, <2>2, <2>3 DEF win_add
  <2> HIDE DEF v
  <2>5. /\ v \in WindowType /\ v.cells = [w.cells EXCEPT ![j] = m]
        /\ v.current = next
        /\ IF next = 1 THEN v.lower = 1 /\ v.upper = 1 + WindowSize
                       ELSE v.lower = w.lower /\ v.upper = w.upper
    <3>1. CASE next = 1
      <4>1. w.current = -1
        BY <1>3, <3>1 DEF Covers
      <4>2. /\ v = [lower |-> m.seq, current |-> m.seq, upper |-> m.seq + WindowSize,
                    cells |-> [w.cells EXCEPT ![win_index(m.seq)] = m]]
            /\ v \in WindowType
        BY <1>1, <1>2, <2>4, <4>1, StoreType
      <4> QED BY <1>2, <3>1, <4>2 DEF j
    <3>2. CASE next # 1
      <4>1. w.current = next - 1 /\ w.current # -1
        BY <1>2, <2>1, <3>2 DEF Covers
      <4>2. /\ v \in WindowType
            /\ v.cells = [w.cells EXCEPT ![win_index(m.seq)] = m]
            /\ v.lower = w.lower /\ v.upper = w.upper
            /\ v.current \in {w.current, m.seq} /\ v.current >= m.seq
        BY <1>1, <1>2, <2>4, <4>1, StoreType
      <4> QED BY <1>2, <3>2, <4>1, <4>2 DEF j
    <3> QED BY <3>1, <3>2
  <2>6. v.cells[j] = m /\ \A i \in Cells : i # j => v.cells[i] = w.cells[i]
    BY <1>1, <1>5, <2>5 DEF WindowType
  <2>7. v.lower \in 1 .. next /\ v.upper = v.lower + WindowSize /\ next + 1 <= v.upper
    <3>1. CASE next = 1
      BY <1>7, <2>5, <3>1
    <3>2. CASE next # 1
      BY <1>1, <1>2, <2>1, <2>2, <2>5, <3>2, CoversNumbers
    <3> QED BY <3>1, <3>2
  <2>8. ASSUME NEW i \in Cells, v.cells[i] # EmptyCell
        PROVE  /\ win_index(v.cells[i].seq) = i
               /\ v.lower <= v.cells[i].seq /\ v.cells[i].seq < next + 1
    <3>1. CASE i = j
      BY <1>2, <2>6, <2>7, <3>1 DEF j
    <3>2. CASE i # j
      <4>1. w.cells[i] # EmptyCell /\ v.cells[i] = w.cells[i] /\ next # 1
        BY <1>3, <2>6, <2>8, <3>2 DEF Covers
      <4>2. w.cells[i].seq \in Nat
        BY <1>1, <4>1, AnswersType
      <4>3. v.lower = w.lower
        BY <2>5, <4>1
      <4> QED BY <1>2, <4>1, <4>2, <4>3 DEF Covers
    <3> QED BY <3>1, <3>2
  <2>9. Covers(v, next + 1)
    <3>1. /\ v.lower \in 1 .. (next + 1) - 1 /\ next + 1 # 1
          /\ v.current = (next + 1) - 2 + 1 /\ next + 1 <= v.upper + 1 - 1
      BY <1>2, <2>5, <2>7
    <3> QED BY <2>1, <2>7, <2>8, <3>1 DEF Covers
  <2>10. ASSUME NEW s \in 1 .. next, s >= v.lower
         PROVE  win_get(v, s) = Data(s, File[s])
    <3>1. CASE s = next
      BY <2>6, <3>1 DEF win_get, j, m
    <3>2. CASE s < next
      <4>1. next # 1 /\ v.lower = w.lower
        BY <1>2, <2>5, <3>2
      <4>2. win_get(w, s) = Data(s, File[s])
        BY <1>2, <1>7, <2>10, <3>2, <4>1 DEF Retains
      <4>3. win_index(s) # j /\ win_index(s) \in Cells
        <5>1. s \in Nat /\ s <= next /\ next < s + WindowSize
          <6> HIDE DEF m
          <6>1. s \in Nat /\ s <= next /\ s >= w.lower
            BY <1>2, <2>10, <3>2, <4>1
          <6> QED BY <1>1, <1>2, <2>2, <6>1
        <5> QED BY <1>2, <3>2, <5>1, SameCell, IndexType DEF j
      <4> QED BY <2>6, <4>2, <4>3 DEF win_get
    <3> QED BY <1>2, <3>1, <3>2
  <2>11. Retains(v, next + 1)
    BY <1>2, <2>10 DEF Retains
  <2>12. v.lower \in {w.lower, 1}
    BY <2>5
  <2> QED BY <2>1, <2>9, <2>11, <2>12 DEF v, m
<1> QED BY <1>6, <1>7

-----------------------------------------------------------------------------
(***************************************************************************)
(* Steps of the child that leave its number and its place in the file.     *)
(***************************************************************************)
\* The child may go to state st.
MayGoTo(st) ==
    /\ st \notin {"NONE", "FILENAME"}
    /\ st \in {"CHECK_FOR_RESPONSE", "WAIT_ON_RESPONSE", "TIMEOUT_ON_RESPONSE",
               "POLL_RESPONSE"} => sseq > 1
    /\ st \in EofStates => ~win_isFull(swin)
    /\ Late => st \in EofStates \cup {"DONE", "EXIT"}

\* The child's window stays or follows an RR that rcopy may have sent.
WindowStep ==
    \/ swin' = swin
    \/ \E k \in 1 .. sseq - 1 : k < cwin.lower /\ swin' = win_RR(swin, k)

LEMMA WindowStepFits ==
    ASSUME ServerInv, ChildOK, Lagging, WindowStep, sseq' = sseq, cwin' = cwin
    PROVE  /\ ChildOK' /\ Lagging'
           /\ ~win_isFull(swin) => ~win_isFull(swin')
<1>1. /\ HoldsFile(swin) /\ sseq \in Nat /\ Covers(swin, sseq) /\ Retains(swin, sseq)
      /\ cwin.lower = cwin'.lower
  BY DEF ServerInv, ServerTypeOK, ChildOK
<1>2. CASE swin' = swin
  BY <1>1, <1>2 DEF ChildOK, Lagging
<1>3. ASSUME NEW k \in 1 .. sseq - 1, k < cwin.lower, swin' = win_RR(swin, k)
      PROVE  /\ ChildOK' /\ Lagging'
             /\ ~win_isFull(swin) => ~win_isFull(swin')
  <2>1. /\ Covers(swin', sseq') /\ Retains(swin', sseq')
        /\ swin'.lower \in {swin.lower, k}
        /\ ~win_isFull(swin) => ~win_isFull(swin')
    BY <1>1, <1>3, CoversRR
  <2> QED BY <1>1, <1>3, <2>1 DEF ChildOK, Lagging
<1> QED BY <1>2, <1>3 DEF WindowStep

LEMMA SentGrows ==
    ASSUME ServerInv, ChildOK, Lagging, WindowStep, sseq' = sseq, offset' = offset,
           UNCHANGED <<cstate, cwin>>, Late => Late'
    PROVE  Sent \subseteq Sent' /\ Requested \subseteq Requested' /\ (EofSent => EofSent')
<1>1. EofSent => EofSent'
  BY WindowStepFits DEF EofSent
<1>2. AckSent => AckSent'
  BY <1>1 DEF AckSent
<1> QED BY <1>1, <1>2 DEF Sent, Requested

LEMMA ServerStepFits ==
    ASSUME ServerInv, Session, UNCHANGED clientVars,
           sseq' = sseq, offset' = offset, WindowStep, MayGoTo(sstate'),
           net'["main"] \in {net["main"], << >>},
           sockets' \subseteq sockets,
           net'["client"] \in Seq(Sent'),
           net["client"] = << >> /\ "client" \notin sockets => net'["client"] = << >>,
           net'["server"] \in Seq(Requested),
           net["server"] = << >> => net'["server"] = << >>,
           ServerEnded' => net'["server"] = << >> /\ "server" \notin sockets'
    PROVE  Session'
<1>1. /\ QueuesFit /\ SessionOK /\ ChildOK /\ PhasesOK /\ Lagging /\ ClientLoop
      /\ cstate' = cstate /\ cwin' = cwin /\ expected' = expected /\ srej' = srej
  BY DEF Session, clientVars
<1>2. Late => Late'
  BY DEF MayGoTo, Late
<1>3. Sent \subseteq Sent' /\ Requested \subseteq Requested'
  BY <1>1, <1>2, SentGrows
<1>4. ChildOK' /\ Lagging' /\ (~win_isFull(swin) => ~win_isFull(swin'))
  BY <1>1, WindowStepFits
<1>5. QueuesFit'
  BY <1>3, SeqMonotone DEF QueuesFit
<1>6. SessionOK'
  BY <1>1 DEF SessionOK, Early
<1>7. PhasesOK'
  BY <1>4 DEF PhasesOK, MayGoTo
<1>8. ClientLoop'
  BY <1>1, <1>3 DEF ClientLoop, Early, Receiving, win_cellEmpty, win_get
<1> QED BY <1>4, <1>5, <1>6, <1>7, <1>8 DEF Session

-----------------------------------------------------------------------------
(***************************************************************************)
(* What the child does with a packet it receives.                          *)
(***************************************************************************)
LEMMA SentType ==
    ASSUME ServerInv
    PROVE  Corrupted \in Sent /\ Sent \subseteq Answers /\ Sent \subseteq PDU
<1>1. sseq = offset + 1 /\ offset \in 0 .. NumBlocks
  BY DEF ServerInv, ServerTypeOK
<1>2. Sent \subseteq Answers
  BY <1>1 DEF Sent, Answers, FileData
<1> QED BY <1>2, AnswersType DEF Sent

LEMMA RequestedType ==
    ASSUME ServerInv
    PROVE  Corrupted \in Requested /\ Requested \subseteq PDU
<1>1. sseq \in Nat
  BY DEF ServerInv, ServerTypeOK
<1> QED BY <1>1 DEF Requested, Corrupted, Packet, PDU, WireFlags

LEMMA CellIsSent ==
    ASSUME ServerInv, ChildOK, NEW k \in Int, win_get(swin, k) # EmptyCell
    PROVE  win_get(swin, k) \in Sent
<1> DEFINE pdu == win_get(swin, k)
<1>1. win_index(k) \in Cells
  BY IndexType
<1>2. pdu \in FileData /\ pdu.seq < sseq
  BY <1>1 DEF win_get, ServerInv, HoldsFile, ChildOK, Covers
<1> HIDE DEF pdu
<1>3. PICK s \in 1 .. NumBlocks : pdu = Data(s, File[s])
  BY <1>2 DEF FileData
<1>4. pdu.seq = s
  BY <1>3 DEF Data, Packet
<1>5. s \in 1 .. sseq - 1
  BY <1>2, <1>4 DEF ServerInv, ServerTypeOK
<1>6. pdu \in Sent
  BY <1>3, <1>5 DEF Sent
<1> QED BY <1>6 DEF pdu

LEMMA HandleResponseFits ==
    ASSUME NetInv, ServerInv, Session, UNCHANGED clientVars,
           sseq' = sseq, offset' = offset,
           NEW onCrc, MayGoTo(onCrc), NEW next, MayGoTo(next),
           onCrc \notin {"DONE", "EXIT"}, next \notin {"DONE", "EXIT"},
           HandleResponse(onCrc, next)
    PROVE  Session'
<1>1. PICK i \in Receivable("server") :
        LET m == net["server"][i]
            n == Take("server", i)
        IN  \/ GoTo(onCrc) /\ NoSend(n) /\ UNCHANGED swin
            \/ m.flag = "RR" /\ swin' = win_RR(swin, m.data) /\ GoTo(next) /\ NoSend(n)
            \/ m.flag = "SREJ" /\ process_srej(n, m.data, next) /\ UNCHANGED swin
            \/ GoTo("DONE") /\ NoSend(Discard(n, "server")) /\ UNCHANGED swin
  BY DEF HandleResponse
<1> DEFINE m == net["server"][i]
           n == Take("server", i)
           d == Discard(n, "server")
<1>2. /\ QueuesFit /\ SessionOK /\ ChildOK /\ PhasesOK /\ Lagging
      /\ cstate' = cstate /\ cwin' = cwin
  BY DEF Session, clientVars
<1>3. /\ QueuesOK(n) /\ m \in PDU /\ QueuesOK(d)
      /\ d["server"] = << >> /\ d["client"] = n["client"] /\ d["main"] = n["main"]
  BY TakeOK, DiscardOK, DiscardFits DEF Endpoints
<1>4. /\ n["server"] \in Seq(Requested) /\ m \in Requested /\ net["server"] # << >>
      /\ n["client"] = net["client"] /\ n["main"] = net["main"]
      /\ net["client"] \in Seq(Sent)
  <2>1. "server" \in Endpoints /\ net["server"] \in Seq(Requested)
    BY <1>2 DEF Endpoints, QueuesFit
  <2> QED BY <1>2, <2>1, TakeFits DEF Endpoints, QueuesFit
<1>5. << >> \in Seq(Requested) /\ MayGoTo("DONE") /\ MayGoTo("EXIT")
  BY DEF MayGoTo, EofStates
<1>6. ServerEnded <=> sstate \in {"DONE", "EXIT"}
  BY DEF ServerEnded
<1> HIDE DEF m, n, d
<1>7. ASSUME WindowStep, MayGoTo(sstate') PROVE Sent \subseteq Sent'
  <2>1. Late => Late'
    BY <1>7 DEF MayGoTo, Late
  <2> QED BY <1>2, <1>7, <2>1, SentGrows
<1>8. ASSUME WindowStep, NEW st, MayGoTo(st), st \notin {"DONE", "EXIT"}, GoTo(st), NoSend(n)
      PROVE  Session'
  <2>1. sstate' = st /\ sockets' \subseteq sockets /\ net' = n
    BY <1>8, GoToFits DEF NoSend
  <2>2. net'["client"] \in Seq(Sent')
    BY <1>4, <1>7, <1>8, <2>1, SeqMonotone
  <2>3. ~ServerEnded'
    BY <1>8, <2>1 DEF ServerEnded
  <2> QED BY <1>4, <1>8, <2>1, <2>2, <2>3, ServerStepFits
<1>9. ASSUME UNCHANGED swin, NEW st, MayGoTo(st), GoTo(st), NoSend(d)
      PROVE  Session'
  <2>1. sstate' = st /\ sockets' \subseteq sockets /\ net' = d /\ WindowStep
        /\ (ServerEnded' => "server" \notin sockets')
    BY <1>9, GoToFits DEF NoSend, WindowStep
  <2>2. net'["client"] \in Seq(Sent')
    BY <1>3, <1>4, <1>7, <1>9, <2>1, SeqMonotone
  <2> QED BY <1>3, <1>4, <1>5, <1>9, <2>1, <2>2, ServerStepFits
<1>10. CASE GoTo(onCrc) /\ NoSend(n) /\ UNCHANGED swin
  BY <1>8, <1>10 DEF WindowStep
<1>11. CASE m.flag = "RR" /\ swin' = win_RR(swin, m.data) /\ GoTo(next) /\ NoSend(n)
  <2>1. m.data \in 1 .. sseq - 1 /\ m.data < cwin.lower
    BY <1>4, <1>11 DEF Requested, Corrupted, Packet
  <2> QED BY <1>8, <1>11, <2>1 DEF WindowStep
<1>12. CASE m.flag = "SREJ" /\ process_srej(n, m.data, next) /\ UNCHANGED swin
  <2> DEFINE pdu == win_get(swin, m.data)
  <2>1. CASE pdu = EmptyCell
    <3>1. GoTo("EXIT") /\ NoSend(d)
      BY <1>12, <2>1 DEF process_srej, d
    <3> QED BY <1>5, <1>9, <1>12, <3>1
  <2>2. CASE pdu # EmptyCell
    <3>1. GoTo(next) /\ Sendto(n, "client", pdu)
      BY <1>12, <2>2 DEF process_srej
    <3>2. sstate' = next /\ sockets' \subseteq sockets /\ WindowStep /\ ~ServerEnded'
      BY <1>12, <3>1, GoToFits DEF WindowStep, ServerEnded
    <3>3. pdu \in Sent
      BY <1>2, <1>3, <2>2, CellIsSent DEF PDU
    <3> HIDE DEF pdu
    <3>4. /\ Sent \subseteq Sent' /\ Corrupted \in Sent
          /\ pdu \in Answers /\ pdu \in PDU /\ "client" \in Endpoints
      BY <1>7, <3>2, <3>3, SentType DEF Endpoints
    <3>5. n["client"] \in Seq(Sent)
      BY <1>4
    <3>6. Delivered(n, net', "client", Sent)
      BY <1>3, <3>1, <3>3, <3>4, <3>5, SendtoFits
    <3>7. /\ net'["client"] \in Seq(Sent')
          /\ net'["main"] = net["main"] /\ net'["server"] = n["server"]
          /\ "client" \notin sockets => net'["client"] = net["client"]
      BY <1>4, <3>4, <3>6, SeqMonotone DEF Delivered, Endpoints
    <3> QED BY <1>4, <3>2, <3>7, ServerStepFits
  <2> QED BY <2>1, <2>2
<1>13. CASE GoTo("DONE") /\ NoSend(d) /\ UNCHANGED swin
  BY <1>5, <1>9, <1>13
<1> QED BY <1>1, <1>10, <1>11, <1>12, <1>13 DEF m, n, d

-----------------------------------------------------------------------------
(***************************************************************************)
(* The other steps of the child: one that only changes state, and one that *)
(* sends a packet to rcopy.  A child that ends loses its queue.            *)
(***************************************************************************)
LEMMA ServerQuiet ==
    ASSUME NetInv, ServerInv, Session, UNCHANGED clientVars,
           sseq' = sseq, offset' = offset, swin' = swin,
           NEW st, MayGoTo(st), GoTo(st),
           \/ st \notin {"DONE", "EXIT"} /\ NoSend(net)
           \/ NoSend(Discard(net, "server"))
    PROVE  Session'
<1> DEFINE d == Discard(net, "server")
<1>1. /\ sstate' = st /\ sockets' \subseteq sockets /\ WindowStep
      /\ ServerEnded' => "server" \notin sockets'
  BY GoToFits DEF WindowStep
<1>2. /\ QueuesFit /\ SessionOK /\ ChildOK /\ Lagging /\ cstate' = cstate /\ cwin' = cwin
  BY DEF Session, clientVars
<1>3. Sent \subseteq Sent'
  <2>1. Late => Late'
    BY <1>1 DEF MayGoTo, Late
  <2> QED BY <1>1, <1>2, <2>1, SentGrows
<1>4. /\ d["server"] = << >> /\ d["client"] = net["client"] /\ d["main"] = net["main"]
  BY DiscardFits DEF Endpoints, NetInv
<1>5. /\ net["client"] \in Seq(Sent') /\ net["server"] \in Seq(Requested)
      /\ << >> \in Seq(Requested)
  BY <1>2, <1>3, SeqMonotone DEF QueuesFit
<1>6. (ServerEnded' => st \in {"DONE", "EXIT"}) /\ net' \in {net, d}
  BY <1>1 DEF ServerEnded, NoSend
<1>7. ServerEnded' => net' = d
  BY <1>6 DEF NoSend
<1> HIDE DEF d
<1>8. /\ net'["main"] = net["main"] /\ net'["client"] = net["client"]
      /\ net'["server"] \in {net["server"], << >>}
      /\ ServerEnded' => net'["server"] = << >>
  BY <1>4, <1>6, <1>7
<1> QED BY <1>1, <1>5, <1>8, ServerStepFits

LEMMA ServerSends ==
    ASSUME NetInv, ServerInv, Session, UNCHANGED clientVars,
           sseq' = sseq, offset' = offset, swin' = swin,
           NEW st, MayGoTo(st), GoTo(st), NEW pdu \in Sent', pdu \in Answers,
           \/ st \notin {"DONE", "EXIT"} /\ Sendto(net, "client", pdu)
           \/ Sendto(Discard(net, "server"), "client", pdu)
    PROVE  Session'
<1> DEFINE d == Discard(net, "server")
<1>1. /\ sstate' = st /\ sockets' \subseteq sockets /\ WindowStep
      /\ ServerEnded' => "server" \notin sockets'
  BY GoToFits DEF WindowStep
<1>2. /\ QueuesFit /\ SessionOK /\ ChildOK /\ Lagging /\ cstate' = cstate /\ cwin' = cwin
  BY DEF Session, clientVars
<1>3. Sent \subseteq Sent'
  <2>1. Late => Late'
    BY <1>1 DEF MayGoTo, Late
  <2> QED BY <1>1, <1>2, <2>1, SentGrows
<1>4. /\ d["server"] = << >> /\ d["client"] = net["client"] /\ d["main"] = net["main"]
      /\ QueuesOK(net) /\ QueuesOK(d)
  BY DiscardFits, DiscardOK DEF Endpoints, NetInv
<1>5. /\ net["client"] \in Seq(Sent') /\ net["server"] \in Seq(Requested)
      /\ << >> \in Seq(Requested)
  BY <1>2, <1>3, SeqMonotone DEF QueuesFit
<1>6. pdu \in PDU /\ Corrupted \in Sent' /\ "client" \in Endpoints
  BY <1>3, AnswersType, SentType DEF Endpoints
<1>7. ServerEnded' => st \in {"DONE", "EXIT"}
  BY <1>1 DEF ServerEnded
<1> HIDE DEF d
<1>8. PICK n \in {net, d} : Sendto(n, "client", pdu) /\ (ServerEnded' => n = d)
  BY <1>7 DEF d
<1>9. /\ QueuesOK(n) /\ n["client"] = net["client"] /\ n["main"] = net["main"]
      /\ n["server"] \in {net["server"], << >>}
      /\ ServerEnded' => n["server"] = << >>
  BY <1>4, <1>8
<1>10. Delivered(n, net', "client", Sent')
  <2>1. n["client"] \in Seq(Sent')
    BY <1>5, <1>9
  <2> QED BY <1>6, <1>8, <1>9, <2>1, SendtoFits
<1>11. /\ net'["client"] \in Seq(Sent') /\ net'["main"] = net["main"]
       /\ net'["server"] = n["server"]
       /\ "client" \notin sockets => net'["client"] = net["client"]
  BY <1>9, <1>10 DEF Delivered, Endpoints
<1> QED BY <1>1, <1>5, <1>9, <1>11, ServerStepFits

-----------------------------------------------------------------------------
(***************************************************************************)
(* A new child: nothing of an older one is left.                           *)
(***************************************************************************)
LEMMA ForkFits ==
    ASSUME IInv, Session, UNCHANGED clientVars, ServerFork
    PROVE  Session'
<1>1. /\ net["main"] # << >> /\ sstate' = "FILENAME" /\ sockets' = {"server", "client"}
      /\ swin' = win_init /\ sseq' = 1 /\ offset' = 0
      /\ net' = [Take("main", 1) EXCEPT !["server"] = << >>]
  BY DEF ServerFork, NoSend, START_SEQ_NUM
<1>2. /\ cstate' = cstate /\ cwin' = cwin /\ expected' = expected /\ srej' = srej
      /\ SessionOK /\ ClientLoop /\ ClientInv /\ QueuesOK(net)
  BY DEF clientVars, Session, IInv, NetInv
<1>3. /\ Len(net["main"]) = 1 /\ cstate \in {"START_STATE", "FILENAME"}
      /\ net["client"] = << >>
  BY <1>1, <1>2 DEF SessionOK
<1>4. 1 \in Receivable("main") /\ net["main"] \in Seq(PDU)
  BY <1>2, <1>3 DEF Receivable, QueuesOK, Endpoints
<1>5. /\ Take("main", 1)["main"] = << >> /\ Take("main", 1)["client"] = << >>
      /\ DOMAIN Take("main", 1) = Endpoints
  BY <1>2, <1>3, <1>4, TakeFits DEF Endpoints, IInv, Take, QueuesOK
<1>6. net'["main"] = << >> /\ net'["client"] = << >> /\ net'["server"] = << >>
  BY <1>1, <1>5 DEF Endpoints
<1>7. Early /\ cwin = win_init /\ ~Receiving /\ cstate # "SREJ"
  BY <1>2, <1>3 DEF Early, Receiving, ClientInv, LowerOK
<1>8. /\ win_init.lower = 0 /\ win_init.upper = 0 + WindowSize
      /\ \A i \in Cells : win_init.cells[i] = EmptyCell
  BY DEF win_init
<1>9. ChildOK' /\ Lagging'
  <2>1. Covers(win_init, 1) /\ Retains(win_init, 1)
    BY <1>8 DEF Covers, Retains
  <2>2. win_init.lower <= FirstLower
    BY <1>8 DEF FirstLower
  <2> QED BY <1>1, <2>1, <2>2 DEF ChildOK, Lagging
<1>10. QueuesFit' /\ SessionOK' /\ PhasesOK'
  <2>1. << >> \in Seq(Sent') /\ << >> \in Seq(Requested')
    OBVIOUS
  <2>2. QueuesFit'
    BY <1>6, <2>1 DEF QueuesFit
  <2>3. SessionOK'
    BY <1>1, <1>6 DEF SessionOK, ServerEnded
  <2>4. PhasesOK'
    BY <1>1 DEF PhasesOK, EofStates
  <2> QED BY <2>2, <2>3, <2>4
<1>11. ClientLoop'
  BY <1>2, <1>7, <1>8 DEF ClientLoop, Early, Receiving
<1> QED BY <1>9, <1>10, <1>11 DEF Session

(***************************************************************************)
(* The next block.                                                         *)
(***************************************************************************)
LEMMA SendDataFits ==
    ASSUME NetInv, ServerInv, Session, UNCHANGED clientVars, ServerSendData
    PROVE  Session'
<1> DEFINE m == Data(sseq, File[sseq])
<1>1. /\ sseq \in 1 .. NumBlocks /\ HoldsFile(swin) /\ sseq = offset + 1 /\ sseq \in Nat
      /\ sstate = "NEW_SEND_DATA" /\ ~win_isFull(swin)
      /\ Sendto(net, "client", m) /\ swin' = win_add(swin, m).win
      /\ sseq' = sseq + 1 /\ offset' = offset + 1 /\ GoTo("CHECK_FOR_RESPONSE")
  BY DEF ServerSendData, ServerInv, ServerTypeOK
<1>2. /\ QueuesFit /\ SessionOK /\ ChildOK /\ Lagging /\ ClientLoop /\ PhasesOK
      /\ cstate' = cstate /\ cwin' = cwin /\ expected' = expected /\ srej' = srej
  BY DEF Session, clientVars
<1>3. sstate' = "CHECK_FOR_RESPONSE" /\ sockets' \subseteq sockets
  BY <1>1, GoToFits
<1>4. /\ Covers(swin', sseq + 1) /\ Retains(swin', sseq + 1)
      /\ swin'.lower \in {swin.lower, FirstLower}
  <2> HIDE DEF m
  <2>1. Covers(swin, sseq) /\ Retains(swin, sseq)
    BY <1>2 DEF ChildOK
  <2>2. swin' = win_add(swin, Data(sseq, File[sseq])).win
    BY <1>1 DEF m
  <2> QED BY <1>1, <2>1, <2>2, CoversAdd
<1>5. ChildOK' /\ Lagging'
  BY <1>1, <1>2, <1>4 DEF ChildOK, Lagging, FirstLower
<1>6. m \in FileData /\ m \in Answers /\ m \in PDU
  <2>1. m \in FileData
    BY <1>1 DEF FileData
  <2> HIDE DEF m
  <2> QED BY <2>1, AnswersType DEF Answers
<1>7. Sent \subseteq Sent' /\ m \in Sent' /\ Requested \subseteq Requested'
  <2>1. ~EofSent /\ ~AckSent
    BY <1>1 DEF EofSent, AckSent, Late, EofStates
  <2>2. \A s \in 1 .. sseq - 1 : s \in 1 .. sseq' - 1
    BY <1>1
  <2>3. sseq \in 1 .. sseq' - 1
    BY <1>1
  <2> QED BY <1>2, <2>1, <2>2, <2>3 DEF Sent, Requested
<1> HIDE DEF m
<1>8. Delivered(net, net', "client", Sent')
  <2>1. /\ net["client"] \in Seq(Sent') /\ Corrupted \in Sent' /\ QueuesOK(net)
        /\ "client" \in Endpoints
    BY <1>2, <1>7, SeqMonotone, SentType DEF QueuesFit, NetInv, Endpoints
  <2> QED BY <1>1, <1>6, <1>7, <2>1, SendtoFits
<1>9. /\ net'["client"] \in Seq(Sent') /\ net'["main"] = net["main"]
      /\ net'["server"] = net["server"]
      /\ "client" \notin sockets => net'["client"] = net["client"]
  BY <1>8 DEF Delivered, Endpoints
<1>10. QueuesFit'
  BY <1>2, <1>7, <1>9, SeqMonotone DEF QueuesFit
<1>11. SessionOK'
  BY <1>2, <1>3, <1>9 DEF SessionOK, Early, ServerEnded
<1>12. PhasesOK'
  BY <1>1, <1>3 DEF PhasesOK, EofStates
<1>13. ClientLoop'
  BY <1>2, <1>7 DEF ClientLoop, Early, Receiving, win_cellEmpty, win_get
<1> QED BY <1>5, <1>10, <1>11, <1>12, <1>13 DEF Session

(***************************************************************************)
(* The parent reads a request that does not verify.                        *)
(***************************************************************************)
LEMMA IgnoreFits ==
    ASSUME IInv, Session, UNCHANGED clientVars, ServerIgnoreCorrupted
    PROVE  Session'
<1>1. /\ net["main"] # << >> /\ net' = Take("main", 1) /\ sockets' = sockets
      /\ sstate' = sstate /\ swin' = swin /\ sseq' = sseq /\ offset' = offset
      /\ cstate' = cstate /\ cwin' = cwin /\ expected' = expected /\ srej' = srej
  BY DEF ServerIgnoreCorrupted, NoSend, serverVars, clientVars
<1>2. /\ QueuesFit /\ SessionOK /\ ChildOK /\ PhasesOK /\ Lagging /\ ClientLoop
  BY DEF Session
<1>3. 1 \in Receivable("main") /\ net["main"] \in Seq(PDU) /\ Len(net["main"]) = 1
  BY <1>1, <1>2 DEF Receivable, SessionOK, IInv, NetInv, QueuesOK, Endpoints
<1>4. /\ net'["main"] = << >>
      /\ net'["client"] = net["client"] /\ net'["server"] = net["server"]
  BY <1>1, <1>3, TakeFits DEF Endpoints, IInv
<1>5. Sent' = Sent /\ Requested' = Requested
  BY <1>1 DEF Sent, Requested, EofSent, AckSent, Late
<1>6. QueuesFit' /\ SessionOK'
  BY <1>1, <1>2, <1>4, <1>5 DEF QueuesFit, SessionOK, ServerEnded, Early
<1>7. ChildOK' /\ PhasesOK' /\ Lagging'
  BY <1>1, <1>2 DEF ChildOK, PhasesOK, Lagging
<1>8. ClientLoop'
  BY <1>1, <1>2, <1>5 DEF ClientLoop, Early, Receiving, win_cellEmpty, win_get
<1> QED BY <1>6, <1>7, <1>8 DEF Session

(***************************************************************************)
(* Every step of the server.                                               *)
(***************************************************************************)
LEMMA ServerKeepsSession ==
    ASSUME IInv, Session, UNCHANGED clientVars, ServerStep \/ ServerTimeout
    PROVE  Session'
<1>1. /\ NetInv /\ ServerInv /\ ChildOK /\ PhasesOK /\ sseq \in Nat /\ sseq >= 1
      /\ sseq = offset + 1 /\ swin.lower \in Nat
  BY DEF IInv, Session, ServerInv, ServerTypeOK, HoldsFile, WindowType
<1>2. win_isFull(swin) => sseq > 1
  <2>1. ~win_isFull(win_init)
    BY DEF win_isFull, win_init
  <2> QED BY <1>1, <2>1 DEF ChildOK, Covers
<1>3. MayGoTo("DONE") /\ MayGoTo("EXIT") /\ (~Late => MayGoTo("NEW_SEND_DATA"))
  BY DEF MayGoTo, EofStates, Late
<1>4. CASE ServerFilename
  <2>1. sseq = 1 /\ ~Late
    BY <1>1, <1>4 DEF ServerFilename, PhasesOK, Late, EofStates
  <2>2. swin' = swin /\ sseq' = sseq /\ offset' = offset
    BY <1>1, <1>4, <2>1 DEF ServerFilename, ChildOK, Covers
  <2>3. /\ Packet("FNAME_OK", 0, 0) \in Sent' /\ Packet("FNAME_OK", 0, 0) \in Answers
        /\ Packet("FNAME_BAD", 0, 0) \in Sent' /\ Packet("FNAME_BAD", 0, 0) \in Answers
    BY DEF Sent, Answers
  <2>4. CASE GoTo("NEW_SEND_DATA") /\ Sendto(net, "client", Packet("FNAME_OK", 0, 0))
    BY <1>1, <1>3, <2>1, <2>2, <2>3, <2>4, ServerSends
  <2>5. CASE /\ GoTo("DONE")
             /\ Sendto(Discard(net, "server"), "client", Packet("FNAME_BAD", 0, 0))
    BY <1>1, <1>3, <2>2, <2>3, <2>5, ServerSends
  <2> QED BY <1>4, <2>4, <2>5 DEF ServerFilename
<1>5. CASE ServerWindowFull
  <2>1. MayGoTo("WAIT_ON_RESPONSE")
    BY <1>2, <1>5 DEF ServerWindowFull, MayGoTo, Late, EofStates
  <2> QED BY <1>1, <1>5, <2>1, ServerQuiet DEF ServerWindowFull
<1>6. CASE ServerSendEof
  <2>1. MayGoTo("WAIT_ON_EOF_ACK") /\ offset = NumBlocks /\ ~win_isFull(swin)
        /\ sstate' = "WAIT_ON_EOF_ACK" /\ sseq = NumBlocks + 1
        /\ sseq' = sseq /\ offset' = offset /\ swin' = swin
    BY <1>1, <1>6 DEF ServerSendEof, MayGoTo, EofStates, Late, GoTo
  <2>2. Eof(sseq) \in Sent' /\ Eof(sseq) \in Answers
    BY <2>1 DEF Sent, EofSent, Late, EofStates, Answers
  <2> QED BY <1>1, <1>6, <2>1, <2>2, ServerSends DEF ServerSendEof
<1>7. CASE ServerReadError
  BY <1>1, <1>3, <1>7, ServerQuiet DEF ServerReadError
<1>8. CASE ServerCheckForResponse
  <2>1. ~Late
    BY <1>8 DEF ServerCheckForResponse, Late, EofStates
  <2> QED BY <1>1, <1>3, <1>8, <2>1, HandleResponseFits DEF ServerCheckForResponse
<1>9. CASE ServerNoResponseYet
  <2>1. ~Late
    BY <1>9 DEF ServerNoResponseYet, Late, EofStates
  <2> QED BY <1>1, <1>3, <1>9, <2>1, ServerQuiet DEF ServerNoResponseYet
<1>10. CASE ServerWaitOnResponse
  <2>1. ~Late /\ MayGoTo("TIMEOUT_ON_RESPONSE")
    BY <1>1, <1>10 DEF ServerWaitOnResponse, Late, EofStates, MayGoTo, PhasesOK
  <2> QED BY <1>1, <1>3, <1>10, <2>1, HandleResponseFits DEF ServerWaitOnResponse
<1>11. CASE ServerWaitTimeout
  <2>1. MayGoTo("TIMEOUT_ON_RESPONSE")
    BY <1>1, <1>11 DEF ServerWaitTimeout, Late, EofStates, MayGoTo, PhasesOK
  <2> QED BY <1>1, <1>11, <2>1, ServerQuiet DEF ServerWaitTimeout
<1>12. CASE ServerResendLowest
  <2> DEFINE pdu == win_get(swin, swin.lower)
  <2>1. MayGoTo("POLL_RESPONSE") /\ sseq' = sseq /\ offset' = offset /\ swin' = swin
    BY <1>1, <1>12 DEF ServerResendLowest, Late, EofStates, MayGoTo, PhasesOK
  <2>2. CASE pdu = EmptyCell
    BY <1>1, <1>3, <1>12, <2>1, <2>2, ServerQuiet DEF ServerResendLowest
  <2>3. CASE pdu # EmptyCell
    <3>1. pdu \in Sent /\ pdu \in Answers
      <4> HIDE DEF pdu
      <4>1. pdu \in Sent
        BY <1>1, <2>3, CellIsSent DEF pdu
      <4> QED BY <1>1, <4>1, SentType
    <3>2. \/ GoTo("DONE") /\ Sendto(Discard(net, "server"), "client", pdu)
          \/ GoTo("POLL_RESPONSE") /\ Sendto(net, "client", pdu)
      BY <1>12, <2>3 DEF ServerResendLowest
    <3> HIDE DEF pdu
    <3>3. pdu \in Sent'
      <4>1. Late => Late'
        BY <1>12 DEF ServerResendLowest, Late, EofStates
      <4>2. WindowStep /\ Lagging /\ UNCHANGED <<cstate, cwin>>
        BY <2>1 DEF WindowStep, Session, clientVars
      <4> QED BY <1>1, <2>1, <3>1, <4>1, <4>2, SentGrows
    <3>4. CASE GoTo("DONE") /\ Sendto(Discard(net, "server"), "client", pdu)
      BY <1>1, <1>3, <2>1, <3>1, <3>3, <3>4, ServerSends
    <3>5. CASE GoTo("POLL_RESPONSE") /\ Sendto(net, "client", pdu)
      BY <1>1, <2>1, <3>1, <3>3, <3>5, ServerSends
    <3> QED BY <3>2, <3>4, <3>5
  <2> QED BY <2>2, <2>3
<1>13. CASE ServerResponseReady
  <2>1. MayGoTo("CHECK_FOR_RESPONSE")
    BY <1>1, <1>13 DEF ServerResponseReady, Late, EofStates, MayGoTo, PhasesOK
  <2> QED BY <1>1, <1>13, <2>1, ServerQuiet DEF ServerResponseReady
<1>14. CASE ServerResponseTimeout
  <2>1. MayGoTo("TIMEOUT_ON_RESPONSE")
    BY <1>1, <1>14 DEF ServerResponseTimeout, Late, EofStates, MayGoTo, PhasesOK
  <2> QED BY <1>1, <1>14, <2>1, ServerQuiet DEF ServerResponseTimeout
<1>15. sstate \in EofStates => \A st \in EofStates : MayGoTo(st)
  BY <1>1 DEF MayGoTo, EofStates, PhasesOK
<1>16. CASE ServerEofAckReady \/ ServerRecvAfterGiveUp
  <2>1. MayGoTo("WAIT_ON_EOF_ACK")
    BY <1>15, <1>16 DEF ServerEofAckReady, ServerRecvAfterGiveUp, EofStates
  <2> QED BY <1>1, <1>16, <2>1, HandleResponseFits DEF ServerEofAckReady, ServerRecvAfterGiveUp
<1>17. CASE ServerEofAckTimeout
  <2>1. MayGoTo("TIMEOUT_ON_EOF_ACK")
    BY <1>15, <1>17 DEF ServerEofAckTimeout, EofStates
  <2> QED BY <1>1, <1>17, <2>1, ServerQuiet DEF ServerEofAckTimeout
<1>18. CASE ServerEofAckGiveUp
  <2>1. MayGoTo("RECV_EOF_ACK")
    BY <1>15, <1>18 DEF ServerEofAckGiveUp, EofStates
  <2> QED BY <1>1, <1>18, <2>1, ServerQuiet DEF ServerEofAckGiveUp
<1>19. CASE ServerResendEof
  <2>1. /\ MayGoTo("WAIT_ON_EOF_ACK") /\ offset = NumBlocks /\ ~win_isFull(swin)
        /\ sstate' = "WAIT_ON_EOF_ACK" /\ sseq = NumBlocks + 1
        /\ sseq' = sseq /\ offset' = offset /\ swin' = swin
    BY <1>1, <1>15, <1>19 DEF ServerResendEof, EofStates, GoTo, PhasesOK, ServerInv
  <2>2. Eof(sseq) \in Sent' /\ Eof(sseq) \in Answers
    BY <2>1 DEF Sent, EofSent, Late, EofStates, Answers
  <2> QED BY <1>1, <1>19, <2>1, <2>2, ServerSends DEF ServerResendEof
<1> QED BY <1>4, <1>5, <1>6, <1>7, <1>8, <1>9, <1>10, <1>11, <1>12, <1>13, <1>14, <1>16,
           <1>17, <1>18, <1>19, ForkFits, IgnoreFits, SendDataFits
        DEF ServerStep, ServerTimeout, IInv

-----------------------------------------------------------------------------
(***************************************************************************)
(* rcopy's steps.  None of them changes what the child may have sent, and  *)
(* its window only grows, so that what it may have requested stays.        *)
(***************************************************************************)
LEMMA ClientFrame ==
    ASSUME ServerInv, UNCHANGED serverVars, cstate # "DONE",
           cwin.lower \in Nat, cwin'.lower \in Nat, cwin'.lower >= cwin.lower
    PROVE  /\ Sent' = Sent /\ Requested \subseteq Requested'
           /\ Corrupted \in Requested' /\ Corrupted \in Sent
<1>1. /\ sseq' = sseq /\ offset' = offset /\ sstate' = sstate /\ swin' = swin /\ sseq \in Nat
  BY DEF serverVars, ServerInv, ServerTypeOK
<1>2. Sent' = Sent
  BY <1>1 DEF Sent, EofSent, Late
<1>3. \A j \in 1 .. sseq - 1 : j < cwin.lower => j < cwin'.lower
  OBVIOUS
<1>4. Requested \subseteq Requested'
  BY <1>1, <1>3 DEF Requested, AckSent
<1> QED BY <1>2, <1>4 DEF Requested, Sent

LEMMA ClientStepFits ==
    ASSUME ServerInv, Session, UNCHANGED serverVars, cstate # "DONE",
           cwin.lower \in Nat, cwin'.lower \in Nat, cwin'.lower >= cwin.lower,
           net'["client"] \in Seq(Sent), net'["server"] \in Seq(Requested'),
           SessionOK', ClientLoop'
    PROVE  Session'
<1>1. /\ sseq' = sseq /\ offset' = offset /\ sstate' = sstate /\ swin' = swin
      /\ swin.lower \in Nat
  BY DEF serverVars, ServerInv, HoldsFile, WindowType
<1>2. ChildOK /\ PhasesOK /\ Lagging
  BY DEF Session
<1>3. Sent' = Sent
  BY ClientFrame
<1>4. QueuesFit'
  BY <1>3 DEF QueuesFit
<1>5. ChildOK' /\ PhasesOK' /\ Lagging'
  BY <1>1, <1>2 DEF ChildOK, PhasesOK, Lagging, FirstLower
<1> QED BY <1>4, <1>5 DEF Session

LEMMA ClientSends ==
    ASSUME SessionOK, NEW n, QueuesOK(n), n["server"] = net["server"],
           NEW S, net["server"] \in Seq(S), Corrupted \in S, NEW pdu \in S, pdu \in PDU,
           Sendto(n, "server", pdu)
    PROVE  /\ net'["server"] \in Seq(S)
           /\ net'["main"] = n["main"] /\ net'["client"] = n["client"]
           /\ ServerEnded => net'["server"] = << >>
<1>1. Delivered(n, net', "server", S)
  BY SendtoFits DEF Endpoints
<1> QED BY <1>1 DEF Delivered, Endpoints, SessionOK

\* Steps after which rcopy is not in the loop of recv_data, and which leave
\* its window.
LEMMA ClientQuiet ==
    ASSUME ServerInv, Session, UNCHANGED serverVars, cstate # "DONE",
           cwin.lower \in Nat, UNCHANGED <<cwin, expected, srej>>,
           Early' => Early, Receiving' => Receiving, cstate' # "SREJ",
           net'["client"] \in Seq(Sent), net'["server"] = net["server"],
           sockets' \subseteq sockets,
           net'["main"] # << >> =>
             /\ Len(net'["main"]) = 1
             /\ cstate' \in {"START_STATE", "FILENAME"}
             /\ "client" \notin sockets' /\ net'["client"] = << >>
    PROVE  Session'
<1>1. QueuesFit /\ SessionOK /\ ClientLoop /\ cwin' = cwin /\ expected' = expected
  BY DEF Session
<1>2. Sent' = Sent /\ Requested \subseteq Requested'
  BY <1>1, ClientFrame
<1>3. net'["server"] \in Seq(Requested')
  BY <1>1, <1>2, SeqMonotone DEF QueuesFit
<1>4. SessionOK'
  BY <1>1 DEF SessionOK, ServerEnded, serverVars
<1>5. ClientLoop'
  BY <1>1, <1>2 DEF ClientLoop
<1> QED BY <1>1, <1>3, <1>4, <1>5, ClientStepFits

LEMMA ToDoneFits ==
    ASSUME ServerInv, Session, UNCHANGED serverVars, cstate # "DONE",
           cwin.lower \in Nat, UNCHANGED <<cwin, expected, srej>>,
           NEW n, QueuesOK(n), n["server"] = net["server"], ToDone(n)
    PROVE  Session'
<1>1. /\ cstate' = "DONE" /\ sockets' \subseteq sockets
      /\ net' = Discard(Discard(n, "client"), "main")
  BY DEF ToDone, NoSend, Close
<1>2. QueuesOK(Discard(n, "client"))
  BY DiscardOK DEF Endpoints
<1>3. net'["main"] = << >> /\ net'["client"] = << >> /\ net'["server"] = net["server"]
  BY <1>1, <1>2, DiscardFits DEF Endpoints
<1>4. ~Early' /\ ~Receiving' /\ << >> \in Seq(Sent)
  BY <1>1 DEF Early, Receiving
<1> QED BY <1>1, <1>3, <1>4, ClientQuiet

-----------------------------------------------------------------------------
(***************************************************************************)
(* rcopy before it has a packet of the file.                               *)
(***************************************************************************)
LEMMA AtMostOne ==
    ASSUME NEW S, NEW q \in Seq(S), Len(q) <= 1, q # << >>
    PROVE  Len(q) = 1
<1> DEFINE k == Len(q)
<1>1. k \in Nat \ {0} /\ k <= 1
  BY EmptySeq
<1> HIDE DEF k
<1>2. k = 1
  BY <1>1
<1> QED BY <1>2 DEF k

LEMMA StartFits ==
    ASSUME IInv, Session, UNCHANGED serverVars, ClientStart
    PROVE  Session'
<1> DEFINE n == Close(net)
           pdu == Packet("FNAME", 0, 0)
<1>1. /\ NetInv /\ ServerInv /\ QueuesOK(net) /\ cwin.lower \in Nat /\ QueuesFit
      /\ cstate = "START_STATE"
  BY DEF IInv, NetInv, ClientInv, Frame, WindowType, Session, ClientStart
<1>2. QueuesOK(Discard(net, "client")) /\ QueuesOK(n)
  BY <1>1, DiscardOK, CloseOK DEF Endpoints
<1>3. n["main"] = << >> /\ n["client"] = << >> /\ n["server"] = net["server"]
  BY <1>1, <1>2, DiscardFits DEF Endpoints, Close
<1>4. /\ Sendto(n, "main", pdu) /\ cstate' = "FILENAME" /\ sockets' = sockets \ {"client"}
      /\ UNCHANGED <<cwin, expected, srej>>
  BY DEF ClientStart
<1>5. pdu \in PDU /\ Corrupted \in PDU
  BY DEF Packet, PDU, WireFlags, Corrupted
<1> HIDE DEF n, pdu
<1>6. Delivered(n, net', "main", PDU) /\ Len(net'["main"]) <= Len(n["main"]) + 1
  <2>1. n["main"] \in Seq(PDU)
    BY <1>3
  <2> QED BY <1>2, <1>4, <1>5, <2>1, SendtoFits DEF Endpoints
<1>7. /\ net'["server"] = net["server"] /\ net'["client"] = << >>
      /\ net'["main"] \in Seq(PDU) /\ Len(net'["main"]) <= 1
  BY <1>3, <1>6 DEF Delivered, Endpoints
<1>8. net'["main"] # << >> => Len(net'["main"]) = 1
  BY <1>7, AtMostOne
<1>9. Early /\ ~Receiving' /\ << >> \in Seq(Sent)
  BY <1>1, <1>4 DEF Early, Receiving
<1> QED BY <1>1, <1>4, <1>7, <1>8, <1>9, ClientQuiet

LEMMA FilenameFits ==
    ASSUME IInv, Session, UNCHANGED serverVars, ClientFilename
    PROVE  Session'
<1>1. PICK i \in Receivable("client") :
        \/ ToDone(Take("client", i))
        \/ /\ cstate' \in {"START_STATE", "FILENAME", "FILE_OK"}
           /\ NoSend(Take("client", i)) /\ UNCHANGED sockets
  BY DEF ClientFilename
<1> DEFINE n == Take("client", i)
<1>2. /\ NetInv /\ ServerInv /\ cwin.lower \in Nat /\ QueuesFit /\ SessionOK
      /\ cstate = "FILENAME" /\ UNCHANGED <<cwin, expected, srej>>
  BY DEF IInv, ClientInv, Frame, WindowType, Session, ClientFilename
<1>3. /\ QueuesOK(n) /\ n["client"] \in Seq(Sent) /\ net["client"] # << >>
      /\ n["server"] = net["server"] /\ n["main"] = net["main"]
  <2>1. net["client"] \in Seq(Sent)
    BY <1>2 DEF QueuesFit
  <2> QED BY <1>2, <2>1, TakeFits, TakeOK DEF Endpoints
<1>4. net["main"] = << >>
  BY <1>2, <1>3 DEF SessionOK
<1> HIDE DEF n
<1>5. CASE ToDone(n)
  BY <1>2, <1>3, <1>5, ToDoneFits
<1>6. CASE /\ cstate' \in {"START_STATE", "FILENAME", "FILE_OK"}
           /\ NoSend(n) /\ UNCHANGED sockets
  <2>1. Early /\ ~Receiving' /\ net' = n
    BY <1>2, <1>6 DEF Early, Receiving, NoSend
  <2> QED BY <1>2, <1>3, <1>4, <1>6, <2>1, ClientQuiet
<1> QED BY <1>1, <1>5, <1>6 DEF n

LEMMA FileOkFits ==
    ASSUME IInv, Session, UNCHANGED serverVars, ClientFileOk
    PROVE  Session'
<1>1. /\ NetInv /\ ServerInv /\ QueuesOK(net) /\ QueuesFit /\ SessionOK /\ ClientLoop
      /\ cstate = "FILE_OK" /\ cwin = win_init /\ Early
  BY DEF IInv, NetInv, ClientInv, LowerOK, Session, ClientFileOk, Early
<1>2. /\ Frame(cwin') /\ cwin'.lower = 1 /\ cwin'.current = 0
      /\ \A i \in Cells : cwin'.cells[i] = EmptyCell
  BY <1>1, FileOkWindow DEF ClientFileOk
<1>3. /\ cwin.lower = 0 /\ expected' = 1 /\ cwin'.upper = 1 + WindowSize
      /\ net["main"] = << >> /\ net["server"] = << >>
  BY <1>1, <1>2 DEF win_init, ClientLoop, ClientFileOk, Frame, SessionOK
<1>4. /\ net' \in {net, Close(net)} /\ sockets' \subseteq sockets
      /\ cstate' \in {"RECV_DATA", "DONE"}
  BY DEF ClientFileOk, ToDone, NoSend
<1>5. QueuesOK(Discard(net, "client"))
  BY <1>1, DiscardOK DEF Endpoints
<1>6. /\ net'["client"] \in {net["client"], << >>}
      /\ net'["server"] = << >> /\ net'["main"] = << >>
  BY <1>1, <1>3, <1>4, <1>5, DiscardFits DEF Endpoints, Close
<1>7. net'["client"] \in Seq(Sent) /\ net'["server"] \in Seq(Requested')
  <2>1. << >> \in Seq(Sent) /\ << >> \in Seq(Requested')
    OBVIOUS
  <2> QED BY <1>1, <1>6, <2>1 DEF QueuesFit
<1>8. SessionOK'
  BY <1>1, <1>4, <1>6 DEF SessionOK, ServerEnded, serverVars
<1>9. ClientLoop'
  <2>1. cstate' \in {"RECV_DATA", "DONE"} /\ 1 <= 1 + WindowSize
    BY <1>4
  <2> QED BY <1>2, <1>3, <2>1 DEF ClientLoop, Early
<1> QED BY <1>1, <1>2, <1>3, <1>7, <1>8, <1>9, ClientStepFits

-----------------------------------------------------------------------------
(***************************************************************************)
(* rcopy receives.  No packet that the child may have sent is above its    *)
(* window.                                                                 *)
(***************************************************************************)
LEMMA BelowUpper ==
    ASSUME ServerInv, ClientInv, ChildOK, Lagging, Receiving, NEW m \in Sent
    PROVE  m.seq \in Nat /\ m.seq < cwin.upper
<1>1. /\ cwin.lower \in Nat /\ cwin.lower >= 1 /\ cwin.upper = cwin.lower + WindowSize
      /\ sseq = offset + 1 /\ offset \in Nat /\ swin.lower \in Nat
      /\ WindowSize \in Nat /\ WindowSize >= 1
  BY DEF ClientInv, Frame, WindowType, LowerOK, ServerInv, ServerTypeOK, HoldsFile
<1>2. /\ FirstLower \in {0, 1} /\ (FirstLower = 0 => WindowSize = 1)
      /\ swin.upper = swin.lower + WindowSize
      /\ sseq = 1 => swin.lower = 0 /\ swin.current = -1
      /\ sseq # 1 => /\ swin.current = sseq - 2 + FirstLower
                     /\ sseq <= swin.upper + 1 - FirstLower
  BY CoversNumbers DEF ChildOK, FirstLower
<1>3. swin.lower <= FirstLower \/ swin.lower < cwin.lower
  BY DEF Lagging
<1>4. CASE m \in {Corrupted, Packet("FNAME_OK", 0, 0), Packet("FNAME_BAD", 0, 0)}
  BY <1>1, <1>4 DEF Corrupted, Packet
<1>5. ASSUME NEW s \in 1 .. sseq - 1, m = Data(s, File[s])
      PROVE  m.seq \in Nat /\ m.seq < cwin.upper
  <2>1. m.seq = s /\ s \in Nat /\ s <= sseq - 1
    BY <1>1, <1>5 DEF Data, Packet
  <2>2. sseq <= swin.lower + WindowSize + 1 - FirstLower
    BY <1>1, <1>2, <2>1
  <2>3. sseq - 1 < cwin.lower + WindowSize
    BY <1>1, <1>2, <1>3, <2>2
  <2> QED BY <1>1, <2>1, <2>3
<1>6. CASE EofSent /\ m = Eof(NumBlocks + 1)
  <2>1. m.seq = sseq /\ swin.current + 1 < swin.upper
    BY <1>1, <1>6 DEF EofSent, win_isFull, Eof, Packet, HoldsFile, WindowType, ServerInv
  <2>2. sseq < cwin.lower + WindowSize
    <3>1. CASE sseq = 1
      BY <1>1, <3>1
    <3>2. CASE sseq # 1
      <4>1. sseq - 1 + FirstLower < swin.lower + WindowSize
        BY <1>1, <1>2, <2>1, <3>2
      <4> QED BY <1>1, <1>2, <1>3, <4>1
    <3> QED BY <3>1, <3>2
  <2> QED BY <1>1, <2>1, <2>2
<1> QED BY <1>4, <1>5, <1>6 DEF Sent

(***************************************************************************)
(* What win_add does with a packet that is not above the window: it        *)
(* refuses what is old or held already, and of the numbers it skips none   *)
(* is held.                                                                *)
(***************************************************************************)
LEMMA AddBelowUpper ==
    ASSUME NEW w, Frame(w), w.current >= 0, w.lower >= 1, win_cellEmpty(w, w.lower),
           NEW e \in Int, e = w.current + 1, w.lower <= e, e <= w.upper,
           \A i \in Cells : w.cells[i] = EmptyCell \/ w.cells[i].seq < e,
           NEW m \in Answers, m # Corrupted, m.seq < w.upper
    PROVE  LET v   == win_add(w, m).win
               ret == win_add(w, m).ret
           IN  /\ v.lower = w.lower /\ v.upper = w.upper
               /\ \/ v = w /\ m.seq < e /\ m.seq # w.lower
                  \/ /\ ret = v.current
                     /\ v.current \in {w.current, m.seq}
                     /\ v.current >= w.current /\ v.current >= m.seq
                     /\ \A i \in Cells : v.cells[i] \in {w.cells[i], m}
                     /\ \A s \in e .. v.current - 1 : win_cellEmpty(v, s)
<1> DEFINE v == win_add(w, m).win
           ret == win_add(w, m).ret
           j == win_index(m.seq)
<1>1. /\ w \in WindowType /\ w.lower \in Nat /\ w.upper \in Nat /\ w.current \in Nat
      /\ w.upper = w.lower + WindowSize
  BY DEF Frame, WindowType
<1>2. m \in PDU /\ m.seq \in Nat /\ j \in Cells
  BY AnswersType, IndexType DEF PDU
\* A full cell holds the only number of the frame that belongs to it.
<1>3. ASSUME NEW s \in Nat, w.lower <= s, s < w.upper, ~win_cellEmpty(w, s)
      PROVE  s < e
  <2> DEFINE i == win_index(s)
             x == w.cells[i].seq
  <2>1. i \in Cells /\ w.cells[i] # EmptyCell
    BY <1>3, IndexType DEF win_cellEmpty, win_get
  <2>2. /\ w.cells[i] \in FileData \cup {Eof(NumBlocks + 1)}
        /\ x % WindowSize = i /\ w.lower <= x /\ x < w.lower + WindowSize /\ x < e
    BY <2>1 DEF Frame, InFrame
  <2>3. x \in Nat
    BY <2>2, AnswersType DEF PDU
  <2> HIDE DEF x
  <2>4. win_index(x) = win_index(s)
    BY <2>2 DEF win_index
  <2>5. x = s
    <3>1. (x <= s /\ s < x + WindowSize) \/ (s <= x /\ x < s + WindowSize)
      BY <1>1, <1>3, <2>2, <2>3
    <3> QED BY <1>3, <2>3, <2>4, <3>1, SameCell
  <2> QED BY <2>2, <2>5
<1>4. CASE m.seq < w.lower
  <2>1. v = w
    BY <1>1, <1>2, <1>4 DEF win_add
  <2> QED BY <1>1, <1>2, <1>4, <2>1
<1>5. CASE m.seq >= w.lower /\ ~win_cellEmpty(w, m.seq)
  <2>1. v = w
    BY <1>1, <1>2, <1>5 DEF win_add
  <2>2. m.seq < e /\ m.seq # w.lower
    BY <1>2, <1>3, <1>5
  <2> QED BY <2>1, <2>2
<1>6. CASE m.seq >= w.lower /\ win_cellEmpty(w, m.seq)
  <2>1. v = Store(w, m) /\ ret = v.current
    BY <1>1, <1>2, <1>6 DEF win_add
  <2>2. /\ v.cells = [w.cells EXCEPT ![j] = m]
        /\ v.lower = w.lower /\ v.upper = w.upper
        /\ v.current >= w.current /\ v.current >= m.seq
        /\ v.current \in {w.current, m.seq}
    BY <1>1, <1>2, <2>1, StoreType
  <2> HIDE DEF v, ret, j
  <2>3. /\ \A i \in Cells : v.cells[i] \in {w.cells[i], m}
        /\ \A i \in Cells : i # j => v.cells[i] = w.cells[i]
    BY <1>1, <2>2 DEF WindowType
  <2>4. ASSUME NEW s \in e .. v.current - 1 PROVE win_cellEmpty(v, s)
    <3>1. s \in Nat /\ w.lower <= s /\ s < m.seq /\ e <= s
      BY <1>1, <1>2, <2>2
    <3>2. win_cellEmpty(w, s)
      BY <1>1, <1>2, <1>3, <3>1
    <3>3. win_index(s) # j /\ win_index(s) \in Cells
      <4>1. s <= m.seq /\ m.seq < s + WindowSize
        BY <1>1, <1>2, <3>1
      <4> QED BY <1>2, <3>1, <4>1, SameCell, IndexType DEF j
    <3> QED BY <2>3, <3>2, <3>3 DEF win_cellEmpty, win_get
  <2> QED BY <2>1, <2>2, <2>3, <2>4 DEF v, ret
<1> QED BY <1>1, <1>2, <1>4, <1>5, <1>6 DEF v, ret

LEMMA RecvDataFits ==
    ASSUME IInv, Session, DeliversAtOnce, UNCHANGED serverVars, ClientRecvData
    PROVE  Session'
<1>1. PICK i \in Receivable("client") :
        LET m     == net["client"][i]
            n     == Take("client", i)
            added == win_add(cwin, m)
        IN  /\ m.flag # "CRC_ERROR"
            /\ cwin' = added.win
            /\ IF NotNext(cwin', m.seq)
               THEN /\ Sendto(n, "server", Packet("SREJ", 0, cwin'.lower))
                    /\ UNCHANGED <<cstate, expected, srej>>
               ELSE /\ NoSend(n)
                    /\ expected' = added.ret + 1
                    /\ IF expected < added.ret
                       THEN cstate' = "SREJ" /\ srej' = expected
                       ELSE cstate' = NextDequeue(cwin')
  BY DEF ClientRecvData
<1> DEFINE m     == net["client"][i]
           n     == Take("client", i)
           added == win_add(cwin, m)
<1>2. /\ NetInv /\ ServerInv /\ ClientInv /\ ChildOK /\ Lagging /\ QueuesFit /\ SessionOK
      /\ ClientLoop /\ cstate = "RECV_DATA" /\ Receiving /\ sockets' = sockets
  BY DEF IInv, Session, ClientRecvData, Receiving
<1>3. /\ QueuesOK(n) /\ n["client"] \in Seq(Sent) /\ m \in Sent /\ net["client"] # << >>
      /\ n["server"] = net["server"] /\ n["main"] = net["main"] /\ m \in Answers
  <2>1. net["client"] \in Seq(Sent)
    BY <1>2 DEF QueuesFit
  <2> QED BY <1>2, <2>1, TakeFits, TakeOK DEF Endpoints
<1>4. net["main"] = << >>
  BY <1>2, <1>3 DEF SessionOK
<1>5. /\ m # Corrupted /\ m \in PDU /\ m.seq \in Nat /\ m.seq < cwin.upper
  <2>1. m # Corrupted
    BY <1>1 DEF Corrupted, Packet
  <2>2. m.seq \in Nat /\ m.seq < cwin.upper
    <3> HIDE DEF m
    <3> QED BY <1>2, <1>3, BelowUpper
  <2> QED BY <1>3, <2>1, <2>2, AnswersType
<1>6. /\ Frame(cwin) /\ cwin.current \in Nat /\ cwin.lower \in Nat /\ cwin.lower >= 1
      /\ cwin.upper \in Nat /\ win_cellEmpty(cwin, cwin.lower)
      /\ expected \in Int /\ expected = cwin.current + 1
      /\ cwin.lower <= expected /\ expected <= cwin.upper
      /\ \A c \in Cells : cwin.cells[c] = EmptyCell \/ cwin.cells[c].seq < expected
      /\ \A c \in Cells : cwin.cells[c] \in Sent \cup {EmptyCell}
      /\ cwin' = added.win
  <2>1. /\ Frame(cwin) /\ cwin.current \in Nat /\ cwin.lower \in Nat /\ cwin.upper \in Nat
        /\ cwin.lower >= 1 /\ expected \in Int
    BY <1>2 DEF ClientInv, ClientTypeOK, LowerOK, Frame, WindowType
  <2>2. win_cellEmpty(cwin, cwin.lower) /\ cwin' = added.win
    BY <1>1, <1>2 DEF DeliversAtOnce
  <2> QED BY <1>2, <2>1, <2>2 DEF ClientLoop
<1>7. /\ cwin'.lower = cwin.lower /\ cwin'.upper = cwin.upper
      /\ \/ cwin' = cwin /\ m.seq < expected /\ m.seq # cwin.lower
         \/ /\ added.ret = cwin'.current
            /\ cwin'.current \in {cwin.current, m.seq}
            /\ cwin'.current >= cwin.current /\ cwin'.current >= m.seq
            /\ \A c \in Cells : cwin'.cells[c] \in {cwin.cells[c], m}
            /\ \A s \in expected .. cwin'.current - 1 : win_cellEmpty(cwin', s)
  <2> HIDE DEF m
  <2> QED BY <1>3, <1>5, <1>6, AddBelowUpper
<1>8. NotNext(cwin', m.seq) <=> m.seq < expected /\ m.seq # cwin.lower
  BY <1>6, <1>7 DEF NotNext, BelowExpected
<1> HIDE DEF m, n, added
<1>9. /\ Sent' = Sent /\ Requested \subseteq Requested' /\ Corrupted \in Requested'
      /\ net["server"] \in Seq(Requested')
  <2>1. Sent' = Sent /\ Requested \subseteq Requested' /\ Corrupted \in Requested'
    BY <1>2, <1>6, <1>7, ClientFrame
  <2> QED BY <1>2, <2>1, SeqMonotone DEF QueuesFit
<1>10. SUFFICES /\ net'["client"] \in Seq(Sent) /\ net'["server"] \in Seq(Requested')
                /\ SessionOK' /\ ClientLoop'
  BY <1>2, <1>6, <1>7, ClientStepFits
<1>11. CASE NotNext(cwin', m.seq)
  <2> DEFINE pdu == Packet("SREJ", 0, cwin'.lower)
  <2>1. Sendto(n, "server", pdu) /\ UNCHANGED <<cstate, expected, srej>>
    BY <1>1, <1>11 DEF m, n
  <2>2. pdu \in Requested' /\ pdu \in PDU
    BY <1>6, <1>7 DEF Requested, Packet, PDU, WireFlags
  <2> HIDE DEF pdu
  <2>3. /\ net'["server"] \in Seq(Requested') /\ net'["main"] = << >>
        /\ net'["client"] = n["client"] /\ (ServerEnded => net'["server"] = << >>)
    BY <1>2, <1>3, <1>4, <1>9, <2>1, <2>2, ClientSends
  <2>4. SessionOK'
    BY <1>2, <2>1, <2>3 DEF SessionOK, ServerEnded, serverVars, Early
  <2>5. /\ cwin'.current = cwin.current
        /\ \A c \in Cells : cwin'.cells[c] \in {cwin.cells[c], m}
    BY <1>5, <1>6, <1>7, <1>8, <1>11
  <2>6. ClientLoop'
    <3>1. \A c \in Cells : cwin'.cells[c] \in Sent' \cup {EmptyCell}
      BY <1>3, <1>6, <1>9, <2>5
    <3>2. \A c \in Cells : cwin'.cells[c] = EmptyCell \/ cwin'.cells[c].seq < expected
      BY <1>6, <1>8, <1>11, <2>5
    <3> QED BY <1>2, <1>6, <1>7, <2>1, <2>5, <3>1, <3>2 DEF ClientLoop, Early
  <2> QED BY <1>3, <2>3, <2>4, <2>6
<1>12. CASE ~NotNext(cwin', m.seq)
  <2>1. /\ net' = n /\ expected' = added.ret + 1
        /\ IF expected < added.ret THEN cstate' = "SREJ" /\ srej' = expected
                                   ELSE cstate' = NextDequeue(cwin')
    BY <1>1, <1>12 DEF m, n, added, NoSend
  <2>2. /\ added.ret = cwin'.current
        /\ cwin'.current \in {cwin.current, m.seq}
        /\ cwin'.current >= cwin.current /\ cwin'.current >= m.seq
        /\ \A c \in Cells : cwin'.cells[c] \in {cwin.cells[c], m}
        /\ \A s \in expected .. cwin'.current - 1 : win_cellEmpty(cwin', s)
    BY <1>7, <1>8, <1>12
  <2>3. cstate' \in {"RECV_DATA", "SREJ", "DEQUEUE"} /\ ~Early' /\ ~Early
    BY <1>2, <2>1 DEF NextDequeue, Early
  <2>4. SessionOK'
    BY <1>2, <1>3, <1>4, <2>1, <2>3 DEF SessionOK, ServerEnded, serverVars
  <2>5. /\ expected' = cwin'.current + 1 /\ cwin'.current \in Nat
        /\ cwin'.lower <= expected' /\ expected' <= cwin'.upper
    BY <1>5, <1>6, <1>7, <2>1, <2>2
  <2>6. \A c \in Cells : /\ cwin'.cells[c] \in Sent' \cup {EmptyCell}
                         /\ cwin'.cells[c] = EmptyCell \/ cwin'.cells[c].seq < expected'
    <3>1. TAKE c \in Cells
    <3>2. CASE cwin'.cells[c] = m
      BY <1>3, <1>5, <1>9, <2>2, <2>5, <3>2
    <3>3. CASE cwin'.cells[c] = cwin.cells[c]
      <4>1. cwin.cells[c] # EmptyCell => cwin.cells[c].seq \in Nat
        BY <1>2, <1>6, BelowUpper
      <4> QED BY <1>6, <1>9, <2>2, <2>5, <3>3, <4>1
    <3> QED BY <2>2, <3>2, <3>3
  <2>7. cstate' = "SREJ" => /\ cwin'.lower <= srej' /\ srej' < expected' - 1
                            /\ \A s \in srej' .. expected' - 2 : win_cellEmpty(cwin', s)
    <3>1. SUFFICES ASSUME cstate' = "SREJ"
                   PROVE  /\ cwin'.lower <= srej' /\ srej' < expected' - 1
                          /\ \A s \in srej' .. expected' - 2 : win_cellEmpty(cwin', s)
      OBVIOUS
    <3>2. expected < cwin'.current /\ srej' = expected
      BY <2>1, <2>2, <3>1 DEF NextDequeue
    <3>3. expected' - 1 = cwin'.current /\ expected' - 2 = cwin'.current - 1
      BY <2>5
    <3> QED BY <1>6, <1>7, <2>2, <3>2, <3>3
  <2>8. ClientLoop'
    BY <2>3, <2>5, <2>6, <2>7 DEF ClientLoop, win_cellEmpty, win_get
  <2> QED BY <1>3, <1>9, <2>1, <2>4, <2>8
<1> QED BY <1>11, <1>12

LEMMA SendSrejFits ==
    ASSUME IInv, Session, UNCHANGED serverVars, ClientSendSrej
    PROVE  Session'
<1> DEFINE pdu == Packet("SREJ", 0, srej)
<1>1. /\ NetInv /\ ServerInv /\ ClientInv /\ QueuesFit /\ SessionOK /\ ClientLoop
      /\ cstate = "SREJ" /\ Receiving /\ QueuesOK(net)
      /\ UNCHANGED <<sockets, cwin, expected>> /\ Sendto(net, "server", pdu)
      /\ cwin.lower \in Nat /\ srej \in Int /\ expected \in Int
  BY DEF IInv, Session, ClientSendSrej, Receiving, NetInv, ClientInv, ClientTypeOK,
         Frame, WindowType
<1>2. \/ cstate' = "SREJ" /\ srej' = srej + 1 /\ srej + 1 < expected - 1
      \/ cstate' \in {"RECV_DATA", "DEQUEUE"}
  BY DEF ClientSendSrej, NextDequeue
<1>3. /\ Sent' = Sent /\ Requested \subseteq Requested' /\ Corrupted \in Requested'
      /\ net["server"] \in Seq(Requested')
  <2>1. Sent' = Sent /\ Requested \subseteq Requested' /\ Corrupted \in Requested'
    BY <1>1, ClientFrame
  <2> QED BY <1>1, <2>1, SeqMonotone DEF QueuesFit
<1>4. pdu \in Requested' /\ pdu \in PDU
  BY <1>1 DEF Requested, Packet, PDU, WireFlags
<1> HIDE DEF pdu
<1>5. /\ net'["server"] \in Seq(Requested') /\ net'["main"] = net["main"]
      /\ net'["client"] = net["client"] /\ (ServerEnded => net'["server"] = << >>)
  BY <1>1, <1>3, <1>4, ClientSends
<1>6. net["main"] = << >> /\ ~Early'
  BY <1>1, <1>2 DEF SessionOK, Early
<1>7. SessionOK'
  BY <1>1, <1>5, <1>6 DEF SessionOK, ServerEnded, serverVars
<1>8. ClientLoop'
  <2>1. /\ cwin.lower <= srej /\ srej < expected - 1
        /\ \A s \in srej .. expected - 2 : win_cellEmpty(cwin, s)
    BY <1>1 DEF ClientLoop
  <2>2. cstate' = "SREJ" => /\ cwin.lower <= srej' /\ srej' < expected - 1
                            /\ \A s \in srej' .. expected - 2 : win_cellEmpty(cwin, s)
    BY <1>1, <1>2, <2>1
  <2> QED BY <1>1, <1>3, <1>6, <2>2 DEF ClientLoop, win_cellEmpty, win_get
<1>9. net'["client"] \in Seq(Sent) /\ cwin'.lower = cwin.lower
  BY <1>1, <1>5 DEF QueuesFit
<1> QED BY <1>1, <1>5, <1>7, <1>8, <1>9, ClientStepFits

(***************************************************************************)
(* rcopy writes.  An RR is for a packet that the child has sent, and the   *)
(* EOF_ACK answers an EOF packet that the child has sent.                  *)
(***************************************************************************)
LEMMA DequeueFits ==
    ASSUME IInv, Session, UNCHANGED serverVars, ClientDequeue
    PROVE  Session'
<1> DEFINE L == cwin.lower
           pdu == win_get(cwin, cwin.lower)
<1>1. /\ NetInv /\ ServerInv /\ ClientInv /\ QueuesFit /\ SessionOK /\ ClientLoop
      /\ cstate = "DEQUEUE" /\ Receiving /\ QueuesOK(net)
      /\ cwin' = win_deQueue(cwin) /\ expected' = expected /\ srej' = srej
  BY DEF IInv, Session, ClientDequeue, Receiving, NetInv
<1>2. /\ Frame(cwin) /\ cwin \in WindowType /\ L \in Nat /\ L >= 1 /\ cwin.upper \in Nat
      /\ cwin.current \in Nat /\ expected \in Int /\ win_lowest_cell_isFull(cwin)
  BY <1>1 DEF ClientInv, ClientTypeOK, LowerOK, Frame, WindowType, win_lowest_cell_isFull
<1>3. /\ cwin'.lower = L + 1 /\ cwin'.current = cwin.current /\ cwin'.upper = L + 1 + WindowSize
      /\ cwin.upper = L + WindowSize
      /\ pdu \in FileData \cup {Eof(NumBlocks + 1)} /\ pdu.seq = L
  <2>1. /\ Frame(win_deQueue(cwin)) /\ win_deQueue(cwin).lower = cwin.lower + 1
        /\ win_deQueue(cwin).current = cwin.current
        /\ pdu \in FileData \cup {Eof(NumBlocks + 1)} /\ pdu.seq = cwin.lower
    BY <1>2, FrameDequeue
  <2> HIDE DEF pdu
  <2> QED BY <1>1, <1>2, <2>1 DEF Frame
<1>4. \A c \in Cells : cwin'.cells[c] \in {cwin.cells[c], EmptyCell}
  <2>1. L + 1 \in Int /\ L + 1 > L
    BY <1>2
  <2>2. win_RR(cwin, L + 1) = [lower |-> L + 1, current |-> cwin.current,
                               upper |-> L + 1 + WindowSize, cells |-> Kept(cwin, L + 1)]
    BY ONLY <1>2, <2>1, RRType, WindowSizeAssumption
  <2> QED BY <1>1, <2>2 DEF Kept, win_deQueue
<1>5. pdu \in Sent /\ L < expected
  <2>1. win_index(L) \in Cells /\ cwin.cells[win_index(L)] # EmptyCell
        /\ pdu = cwin.cells[win_index(L)]
    BY <1>2, IndexType DEF win_lowest_cell_isFull, win_cellEmpty, win_get
  <2>2. pdu \in Sent \cup {EmptyCell} /\ pdu.seq < expected
    BY <1>1, <2>1 DEF ClientLoop
  <2> QED BY <1>3, <2>1, <2>2
<1> HIDE DEF pdu
<1>6. /\ Sent' = Sent /\ Requested \subseteq Requested' /\ Corrupted \in Requested'
      /\ net["server"] \in Seq(Requested')
  <2>1. Sent' = Sent /\ Requested \subseteq Requested' /\ Corrupted \in Requested'
    BY <1>1, <1>2, <1>3, ClientFrame
  <2> QED BY <1>1, <2>1, SeqMonotone DEF QueuesFit
<1>7. ASSUME cstate' \in {"RECV_DATA", "DEQUEUE", "DONE"} PROVE ClientLoop'
  <2>1. ~Early' /\ cstate' # "SREJ"
    BY <1>7 DEF Early
  <2>2. \A c \in Cells : cwin'.cells[c] \in Sent' \cup {EmptyCell}
    BY <1>1, <1>4, <1>6 DEF ClientLoop
  <2>3. \A c \in Cells : cwin'.cells[c] = EmptyCell \/ cwin'.cells[c].seq < expected
    BY <1>1, <1>4 DEF ClientLoop
  <2>4. /\ expected = cwin'.current + 1
        /\ cwin'.lower <= expected /\ expected <= cwin'.upper
    <3>1. expected = cwin.current + 1 /\ expected <= cwin.upper
      BY <1>1 DEF ClientLoop
    <3> QED BY <1>2, <1>3, <1>5, <3>1
  <2> QED BY <1>1, <2>1, <2>2, <2>3, <2>4 DEF ClientLoop
<1>8. net["main"] = << >> /\ net["client"] \in Seq(Sent) /\ << >> \in Seq(Sent)
  BY <1>1 DEF SessionOK, QueuesFit
<1>9. CASE pdu.flag = "DATA"
  <2> DEFINE rr == Packet("RR", 0, L)
  <2>1. /\ Sendto(net, "server", rr) /\ sockets' = sockets
        /\ cstate' \in {"RECV_DATA", "DEQUEUE"}
    BY <1>3, <1>9 DEF ClientDequeue, NextDequeue, pdu
  <2>2. rr \in Requested' /\ rr \in PDU
    <3>1. PICK s \in 1 .. sseq - 1 : pdu = Data(s, File[s])
      BY <1>5, <1>9 DEF Sent, Corrupted, Packet, Eof
    <3>2. L \in 1 .. sseq - 1
      BY <1>3, <3>1 DEF Data, Packet
    <3>3. L \in 1 .. sseq' - 1 /\ L < cwin'.lower
      BY <1>2, <1>3, <3>2 DEF serverVars
    <3>4. rr \in Requested'
      BY <3>3 DEF Requested
    <3> QED BY <1>2, <3>4 DEF Packet, PDU, WireFlags
  <2> HIDE DEF rr
  <2>3. /\ net'["server"] \in Seq(Requested') /\ net'["main"] = net["main"]
        /\ net'["client"] = net["client"] /\ (ServerEnded => net'["server"] = << >>)
    BY <1>1, <1>6, <2>1, <2>2, ClientSends
  <2>4. SessionOK'
    BY <1>1, <1>8, <2>1, <2>3 DEF SessionOK, ServerEnded, serverVars, Early
  <2> QED BY <1>1, <1>2, <1>3, <1>7, <1>8, <2>1, <2>3, <2>4, ClientStepFits
<1>10. CASE pdu.flag # "DATA"
  <2> DEFINE n == Close(net)
             ack == Packet("EOF_ACK", 0, 0)
  <2>1. pdu = Eof(NumBlocks + 1) /\ pdu.flag = "END_OF_FILE" /\ L = NumBlocks + 1
    BY <1>3, <1>10, AnswersType
  <2>2. /\ Sendto(n, "server", ack) /\ cstate' = "DONE" /\ sockets' = sockets \ {"client"}
    BY <2>1 DEF ClientDequeue, pdu
  <2>3. EofSent
    <3>1. SUFFICES ASSUME ~EofSent PROVE FALSE
      OBVIOUS
    <3>2. \/ pdu \in {Corrupted, Packet("FNAME_OK", 0, 0), Packet("FNAME_BAD", 0, 0)}
          \/ \E s \in 1 .. sseq - 1 : pdu = Data(s, File[s])
      BY <1>5, <3>1 DEF Sent
    <3>3. Corrupted.flag # "END_OF_FILE" /\ \A f, s, d : Packet(f, s, d).flag = f
      BY DEF Corrupted, Packet
    <3>4. \A s, b : Data(s, b).flag = "DATA"
      BY DEF Data, Packet
    <3> QED BY ONLY <2>1, <3>2, <3>3, <3>4
  <2>4. ack \in Requested' /\ ack \in PDU
    <3>1. EofSent'
      BY <2>3 DEF EofSent, Late, serverVars
    <3>2. AckSent'
      BY <1>2, <1>3, <2>1, <2>2, <3>1 DEF AckSent
    <3> QED BY <3>2 DEF Requested, Packet, PDU, WireFlags
  <2>5. QueuesOK(Discard(net, "client")) /\ QueuesOK(n)
    BY <1>1, DiscardOK, CloseOK DEF Endpoints
  <2>6. n["main"] = << >> /\ n["client"] = << >> /\ n["server"] = net["server"]
    BY <1>1, <2>5, DiscardFits DEF Endpoints, Close
  <2> HIDE DEF n, ack
  <2>7. /\ net'["server"] \in Seq(Requested') /\ net'["main"] = << >>
        /\ net'["client"] = << >> /\ (ServerEnded => net'["server"] = << >>)
    BY <1>1, <1>6, <2>2, <2>4, <2>5, <2>6, ClientSends
  <2>8. SessionOK'
    BY <1>1, <2>2, <2>7 DEF SessionOK, ServerEnded, serverVars, Early
  <2> QED BY <1>1, <1>2, <1>3, <1>7, <1>8, <2>2, <2>7, <2>8, ClientStepFits
<1> QED BY <1>9, <1>10

LEMMA ClientKeepsSession ==
    ASSUME IInv, Session, DeliversAtOnce, UNCHANGED serverVars,
           ClientStep \/ ClientFilenameTimeout \/ ClientRecvTimeout
    PROVE  Session'
<1>1. /\ NetInv /\ ServerInv /\ ClientInv /\ QueuesFit /\ SessionOK /\ QueuesOK(net)
      /\ cwin.lower \in Nat
  BY DEF IInv, Session, NetInv, ClientInv, Frame, WindowType
<1>2. CASE ClientNoHost \/ ClientFilenameGiveUp \/ ClientRecvTimeout
  <2>1. cstate # "DONE" /\ UNCHANGED <<cwin, expected, srej>> /\ ToDone(net)
    BY <1>2 DEF ClientNoHost, ClientFilenameGiveUp, ClientRecvTimeout
  <2> QED BY <1>1, <2>1, ToDoneFits
<1>3. CASE ClientFilenameTimeout
  <2>1. /\ cstate = "FILENAME" /\ cstate' = "START_STATE" /\ net' = net /\ sockets' = sockets
        /\ UNCHANGED <<cwin, expected, srej>>
    BY <1>3 DEF ClientFilenameTimeout, NoSend
  <2>2. Early /\ ~Receiving' /\ net["client"] \in Seq(Sent)
    BY <1>1, <2>1 DEF Early, Receiving, QueuesFit
  <2> QED BY <1>1, <2>1, <2>2, ClientQuiet DEF SessionOK
<1>4. CASE ClientRecvCorrupted
  <2>1. PICK i \in Receivable("client") : NoSend(Take("client", i))
    BY <1>4 DEF ClientRecvCorrupted
  <2>2. /\ cstate = "RECV_DATA" /\ cstate' = "RECV_DATA" /\ sockets' = sockets
        /\ UNCHANGED <<cwin, expected, srej>> /\ net' = Take("client", i)
    BY <1>4, <2>1 DEF ClientRecvCorrupted, clientVars, NoSend
  <2>3. /\ net'["client"] \in Seq(Sent) /\ net'["server"] = net["server"]
        /\ net'["main"] = net["main"]
    <3>1. net["client"] \in Seq(Sent)
      BY <1>1 DEF QueuesFit
    <3> QED BY <1>1, <2>2, <3>1, TakeFits DEF Endpoints
  <2>4. ~Early' /\ Receiving /\ net["main"] = << >>
    BY <1>1, <2>2 DEF Early, Receiving, SessionOK
  <2> QED BY <1>1, <2>2, <2>3, <2>4, ClientQuiet
<1> QED BY <1>2, <1>3, <1>4, StartFits, FilenameFits, FileOkFits, RecvDataFits,
           SendSrejFits, DequeueFits DEF ClientStep

-----------------------------------------------------------------------------
LEMMA InitSession == Init => Session
<1>1. SUFFICES ASSUME Init PROVE Session
  OBVIOUS
<1>2. /\ net = [e \in Endpoints |-> << >>] /\ sockets = {} /\ sstate = "NONE"
      /\ swin = win_init /\ sseq = 1 /\ offset = 0
      /\ cstate = "START_STATE" /\ cwin = win_init /\ expected = 1
  BY <1>1 DEF Init, NetworkInit, ServerInit, ClientInit, START_SEQ_NUM
<1>3. /\ win_init.lower = 0 /\ win_init.upper = 0 + WindowSize
      /\ \A i \in Cells : win_init.cells[i] = EmptyCell
  BY DEF win_init
<1>4. net["main"] = << >> /\ net["client"] = << >> /\ net["server"] = << >>
  BY <1>2 DEF Endpoints
<1>5. QueuesFit
  <2>1. << >> \in Seq(Sent) /\ << >> \in Seq(Requested)
    OBVIOUS
  <2> QED BY <1>4, <2>1 DEF QueuesFit
<1>6. SessionOK
  BY <1>2, <1>4 DEF SessionOK, ServerEnded
<1>7. ChildOK /\ Lagging
  <2>1. Covers(win_init, 1) /\ Retains(win_init, 1)
    BY <1>3 DEF Covers, Retains
  <2> QED BY <1>2, <1>3, <2>1 DEF ChildOK, Lagging, FirstLower
<1>8. PhasesOK
  BY <1>2 DEF PhasesOK, EofStates
<1>9. ClientLoop
  BY <1>2, <1>3 DEF ClientLoop, Early, Receiving
<1> QED BY <1>5, <1>6, <1>7, <1>8, <1>9 DEF Session

LEMMA StutterSession == Session /\ UNCHANGED vars => Session'
BY DEF Session, QueuesFit, SessionOK, ChildOK, PhasesOK, Lagging, ClientLoop, Sent,
       Requested, EofSent, AckSent, Early, Late, Receiving, ServerEnded, win_cellEmpty,
       win_get, vars, netVars, serverVars, clientVars

LEMMA NextSession == IInv /\ DeliversAtOnce /\ Session /\ [Next]_vars => Session'
<1>1. SUFFICES ASSUME IInv, DeliversAtOnce, Session, [Next]_vars PROVE Session'
  OBVIOUS
<1>2. CASE UNCHANGED vars
  BY <1>1, <1>2, StutterSession
<1>3. CASE ServerNext
  <2>1. (ServerStep \/ ServerTimeout) /\ UNCHANGED clientVars
    BY <1>3 DEF ServerNext, ServerTimesOut
  <2> QED BY <1>1, <2>1, ServerKeepsSession
<1>4. CASE ClientNext
  <2>1. /\ ClientStep \/ ClientFilenameTimeout \/ ClientRecvTimeout
        /\ UNCHANGED serverVars
    BY <1>4 DEF ClientNext, ClientTimesOut
  <2> QED BY <1>1, <2>1, ClientKeepsSession
<1> QED BY <1>1, <1>2, <1>3, <1>4 DEF Next, Terminated

(***************************************************************************)
(* The two windows, the numbers on their way and the states of the two     *)
(* machines always fit: the child's window covers what it has sent, lags   *)
(* rcopy's by a packet at least, and no packet of an older child and no    *)
(* acknowledgement of a packet not written is ever on its way.             *)
(***************************************************************************)
THEOREM SessionInvariance == Spec => []Session
BY InitSession, NextSession, Invariance, NothingHeldBack, PTL DEF Spec

-----------------------------------------------------------------------------
(***************************************************************************)
(* Flow control, for every window size, window of one included: no packet  *)
(* that reaches rcopy is above its window, so that win_add never pushes    *)
(* current to the end of the frame (new_send_data, win_isFull, win_RR).    *)
(***************************************************************************)
THEOREM FlowControl == Spec => []NeverTooHigh
<1>1. IInv /\ Session => NeverTooHigh
  <2>1. SUFFICES ASSUME IInv, Session, Receiving, NEW m \in Queued("client")
                 PROVE  m.seq < cwin.upper
    BY DEF NeverTooHigh
  <2>2. m \in Sent
    BY <2>1, ElementOfSeq DEF Session, QueuesFit, Queued, ToSet
  <2> QED BY <2>1, <2>2, BelowUpper DEF IInv, Session
<1> QED BY <1>1, Invariance, SessionInvariance, PTL

(***************************************************************************)
(* An EOF_ACK is on its way to the child only when rcopy has written the   *)
(* whole file: "File transfer completed successfully" is never premature,  *)
(* whatever was lost, resent or reordered (dequeue_data).                  *)
(***************************************************************************)
THEOREM AckMeansComplete == Spec => []EofAckMeansComplete
<1>1. IInv /\ Session => EofAckMeansComplete
  <2>1. SUFFICES ASSUME IInv, Session, Packet("EOF_ACK", 0, 0) \in Queued("server")
                 PROVE  out = File
    BY DEF EofAckMeansComplete
  <2>2. Packet("EOF_ACK", 0, 0) \in Requested
    BY <2>1, ElementOfSeq DEF Session, QueuesFit, Queued, ToSet
  <2>3. AckSent
    BY <2>2 DEF Requested, Corrupted, Packet
  <2>4. outcome = "complete"
    BY <2>3 DEF AckSent, outcome
  <2> QED BY <2>1, <2>4, CompleteIsFile DEF IInv
<1> QED BY <1>1, Invariance, SessionInvariance, PTL

(***************************************************************************)
(* "this should never happen" (server.c:184, 214, 271) never does: no      *)
(* packet reaches the child that would end it as unexpected, and an        *)
(* EOF_ACK meets only a child that waits for it.                           *)
(***************************************************************************)
THEOREM NothingUnexpected == Spec => []NoUnexpectedFlag
<1>1. Session => NoUnexpectedFlag
  <2>1. SUFFICES ASSUME Session, NEW m \in Queued("server"),
                        m.flag \notin {"CRC_ERROR", "RR", "SREJ"}
                 PROVE  m.flag = "EOF_ACK" /\ sstate \in EofStates
    BY DEF NoUnexpectedFlag, EofStates
  <2>2. m \in Requested /\ net["server"] # << >>
    BY <2>1, ElementOfSeq DEF Session, QueuesFit, Queued, ToSet
  <2>3. AckSent /\ m = Packet("EOF_ACK", 0, 0)
    BY <2>1, <2>2 DEF Requested, Corrupted, Packet
  <2>4. Late /\ ~ServerEnded
    BY <2>1, <2>2, <2>3 DEF AckSent, EofSent, Session, SessionOK
  <2> QED BY <2>3, <2>4 DEF Late, ServerEnded, Packet
<1> QED BY <1>1, SessionInvariance, PTL

(***************************************************************************)
(* The loop of recv_data asks only for packets that rcopy does not have,   *)
(* within its window: a negative result of win_add never passes for a      *)
(* number to go up to.                                                     *)
(***************************************************************************)
THEOREM OnlyGaps == Spec => []RequestsOnlyGaps
<1>1. IInv /\ Session => RequestsOnlyGaps
  <2>1. SUFFICES ASSUME IInv, Session, cstate = "SREJ"
                 PROVE  /\ srej >= cwin.lower /\ srej < cwin.upper
                        /\ win_cellEmpty(cwin, srej)
    BY DEF RequestsOnlyGaps
  <2>2. /\ srej \in Int /\ expected \in Int /\ cwin.lower \in Nat /\ cwin.upper \in Nat
    BY <2>1 DEF IInv, ClientInv, ClientTypeOK, Frame, WindowType
  <2>3. /\ cwin.lower <= srej /\ srej < expected - 1 /\ expected <= cwin.upper
        /\ \A s \in srej .. expected - 2 : win_cellEmpty(cwin, s)
    BY <2>1 DEF Session, ClientLoop, Receiving
  <2> QED BY <2>2, <2>3
<1> QED BY <1>1, Invariance, SessionInvariance, PTL

(***************************************************************************)
(* A window with room for two packets or more never lets go of a packet    *)
(* that rcopy may still ask for (new_send_data, process_rr).  A window of  *)
(* one does: win_add refuses every packet new_send_data gives it.          *)
(***************************************************************************)
THEOREM Retention ==
    ASSUME WindowSize > 1
    PROVE  Spec => []ServerRetains
<1>1. IInv /\ Session => ServerRetains
  <2>1. SUFFICES ASSUME IInv, Session, NEW s \in 1 .. sseq - 1, s >= cwin.lower
                 PROVE  win_get(swin, s) = Data(s, File[s])
    BY DEF ServerRetains
  <2>2. swin.lower \in Nat /\ cwin.lower \in Nat /\ sseq \in Nat
    BY <2>1 DEF IInv, ServerInv, ServerTypeOK, HoldsFile, ClientInv, Frame, WindowType
  <2>3. s >= swin.lower
    BY <2>1, <2>2 DEF Session, Lagging, FirstLower
  <2> QED BY <2>1, <2>3 DEF Session, ChildOK, Retains
<1> QED BY <1>1, Invariance, SessionInvariance, PTL

(***************************************************************************)
(* "Resend lowest packet" (server.c:223) finds a packet to resend, so that *)
(* timeout_on_response never sends one of size 0 (again unless the window  *)
(* has room for one packet only).                                          *)
(***************************************************************************)
THEOREM LowestHeld ==
    ASSUME WindowSize > 1
    PROVE  Spec => []LowestIsHeld
<1>1. IInv /\ Session => LowestIsHeld
  <2>1. SUFFICES ASSUME IInv, Session, sstate = "TIMEOUT_ON_RESPONSE"
                 PROVE  win_get(swin, swin.lower) # EmptyCell
    BY DEF LowestIsHeld, win_cellEmpty
  <2>2. sseq > 1 /\ Covers(swin, sseq) /\ Retains(swin, sseq) /\ sseq \in Nat
    BY <2>1 DEF Session, PhasesOK, ChildOK, IInv, ServerInv, ServerTypeOK
  <2>3. swin.lower \in 1 .. sseq - 1
    BY <2>2 DEF Covers, FirstLower
  <2>4. win_get(swin, swin.lower) = Data(swin.lower, File[swin.lower])
    BY <2>2, <2>3 DEF Retains
  <2> QED BY <2>4 DEF Data, EmptyCell, Packet
<1> QED BY <1>1, Invariance, SessionInvariance, PTL

-----------------------------------------------------------------------------
(***************************************************************************)
(* Flow control of one child, which may be told of packets it has not      *)
(* sent: the lemmas that module TwoChildrenProofs instantiates.            *)
(***************************************************************************)
LEMMA FollowsRR ==
    ASSUME NEW w, HoldsFile(w), NEW next \in Nat, w.upper = w.lower + WindowSize,
           CellsSent(w, next), NEW k \in Int
    PROVE  LET v == win_RR(w, k)
           IN  /\ v.upper = v.lower + WindowSize /\ CellsSent(v, next)
               /\ v.lower \in {w.lower, k}
               /\ Follows(w, next) => Follows(v, next)
<1> DEFINE v == win_RR(w, k)
<1>1. /\ w \in WindowType /\ w.lower \in Nat /\ w.current \in Int
  BY DEF HoldsFile, WindowType
<1>2. v = IF k > w.lower THEN [lower |-> k, current |-> w.current,
                               upper |-> k + WindowSize, cells |-> Kept(w, k)]
                         ELSE w
  BY ONLY <1>1, k \in Int, RRType, WindowSizeAssumption DEF v
<1> HIDE DEF v
<1>3. CASE ~(k > w.lower)
  <2>1. v = w
    BY <1>2, <1>3
  <2> QED BY <2>1 DEF v
<1>4. CASE k > w.lower
  <2>1. /\ v.lower = k /\ v.current = w.current /\ v.upper = k + WindowSize
        /\ v.cells = Kept(w, k)
    BY <1>2, <1>4
  <2>2. ASSUME NEW i \in Cells, v.cells[i] # EmptyCell
        PROVE  /\ win_index(v.cells[i].seq) = i
               /\ v.lower <= v.cells[i].seq /\ v.cells[i].seq < next
    <3>1. v.cells[i] = w.cells[i] /\ ~(w.cells[i].seq < k)
      BY <2>1, <2>2 DEF Kept
    <3>2. w.cells[i] \in FileData
      BY <2>2, <3>1 DEF HoldsFile
    <3>3. w.cells[i].seq \in Nat
      BY <3>2, AnswersType
    <3> QED BY <2>1, <2>2, <3>1, <3>3 DEF CellsSent
  <2>3. Follows(w, next) => Follows(v, next)
    BY <1>1, <1>4, <2>1 DEF Follows, FirstLower
  <2> QED BY <2>1, <2>2, <2>3 DEF CellsSent, v
<1> QED BY <1>3, <1>4

LEMMA FollowsAdd ==
    ASSUME NEW w, HoldsFile(w), NEW next \in 1 .. NumBlocks,
           w.upper = w.lower + WindowSize, CellsSent(w, next),
           IF next = 1 THEN w = win_init ELSE Follows(w, next), ~win_isFull(w)
    PROVE  LET v == win_add(w, Data(next, File[next])).win
           IN  /\ v.upper = v.lower + WindowSize
               /\ CellsSent(v, next + 1) /\ Follows(v, next + 1)
               /\ v.lower \in {w.lower, FirstLower}
<1> DEFINE m == Data(next, File[next])
           v == win_add(w, m).win
           j == win_index(next)
<1>1. /\ w \in WindowType /\ w.lower \in Nat /\ w.upper \in Nat /\ w.current \in Int
      /\ \A i \in Cells : w.cells[i] \in FileData \cup {EmptyCell}
  BY DEF HoldsFile, WindowType
<1>2. m \in PDU /\ m.seq = next /\ next \in Nat
  <2>1. m \in FileData
    BY DEF FileData
  <2> QED BY <2>1, AnswersType DEF Data, Packet
<1>3. win_init.lower = 0 /\ win_init.current = -1 /\ win_init.upper = WindowSize
      /\ \A i \in Cells : win_init.cells[i] = EmptyCell
  BY DEF win_init
<1>4. w.current + 1 < w.upper
  BY <1>1 DEF win_isFull
<1>5. j \in Cells
  BY <1>2, IndexType
<1>6. FirstLower \in {0, 1} /\ (FirstLower = 0 <=> WindowSize = 1)
  BY DEF FirstLower
<1>7. \A i \in Cells : w.cells[i] # EmptyCell => w.cells[i].seq \in Nat
  BY <1>1, AnswersType
<1> HIDE DEF m, j
<1>8. CASE next < w.lower
  <2>1. v = w
    BY <1>1, <1>2, <1>8 DEF win_add
  <2>2. next # 1
    BY <1>1, <1>3, <1>8
  <2> HIDE DEF v
  <2>3. CellsSent(w, next + 1)
    BY <1>2, <1>7 DEF CellsSent
  <2>4. Follows(w, next + 1)
    BY <1>1, <1>2, <1>8, <2>2 DEF Follows
  <2> QED BY <2>1, <2>3, <2>4 DEF v, m
<1>9. CASE w.lower <= next /\ next >= w.upper
  <2>1. v = [w EXCEPT !.current = w.upper - 1]
    BY <1>1, <1>2, <1>9 DEF win_add
  <2> HIDE DEF v
  <2>2. /\ v.lower = w.lower /\ v.upper = w.upper /\ v.cells = w.cells
        /\ v.current = w.upper - 1
    BY <1>1, <2>1 DEF WindowType
  <2>3. next = w.upper /\ FirstLower = 0
    <3>1. CASE next = 1
      BY <1>1, <1>3, <1>6, <1>9, <3>1
    <3>2. CASE next # 1
      <4>1. next <= w.current + 2 - FirstLower
        BY <1>1, <1>2, <1>9, <3>2 DEF Follows
      <4> QED BY <1>1, <1>2, <1>4, <1>6, <1>9, <4>1
    <3> QED BY <3>1, <3>2
  <2>4. CellsSent(v, next + 1)
    BY <1>2, <1>7, <2>2 DEF CellsSent
  <2>5. Follows(v, next + 1)
    BY <1>1, <1>2, <2>2, <2>3 DEF Follows
  <2> QED BY <2>2, <2>4, <2>5 DEF v, m
<1>10. CASE w.lower <= next /\ next < w.upper
  <2>1. win_cellEmpty(w, next)
    <3>1. SUFFICES ASSUME w.cells[j] # EmptyCell PROVE FALSE
      BY DEF win_cellEmpty, win_get, j
    <3> DEFINE x == w.cells[j].seq
    <3>2. x \in Nat
      BY <1>5, <1>7, <3>1
    <3>3. win_index(x) = j /\ w.lower <= x /\ x < next
      BY <1>5, <3>1 DEF CellsSent
    <3> HIDE DEF x
    <3>4. next < x + WindowSize /\ x <= next
      BY <1>1, <1>2, <1>10, <3>2, <3>3
    <3>5. x = next
      BY <1>2, <3>2, <3>3, <3>4, SameCell DEF j
    <3> QED BY <1>2, <3>2, <3>3, <3>5
  <2>2. v = Store(w, m)
    BY <1>1, <1>2, <1>10, <2>1 DEF win_add
  <2> HIDE DEF v
  <2>3. /\ v \in WindowType /\ v.cells = [w.cells EXCEPT ![j] = m]
        /\ v.current >= next /\ v.upper = v.lower + WindowSize
        /\ IF next = 1 THEN v.lower = 1 /\ WindowSize > 1 ELSE v.lower = w.lower
    <3>1. CASE next = 1
      <4>1. w.current = -1 /\ WindowSize > 1
        BY <1>1, <1>3, <1>10, <3>1
      <4>2. /\ v = [lower |-> m.seq, current |-> m.seq, upper |-> m.seq + WindowSize,
                    cells |-> [w.cells EXCEPT ![win_index(m.seq)] = m]]
            /\ v \in WindowType
        BY <1>1, <1>2, <2>2, <4>1, StoreType
      <4> QED BY <1>2, <3>1, <4>1, <4>2 DEF j
    <3>2. CASE next # 1
      <4>1. w.current # -1
        BY <1>1, <3>2 DEF Follows
      <4>2. /\ v \in WindowType
            /\ v.cells = [w.cells EXCEPT ![win_index(m.seq)] = m]
            /\ v.lower = w.lower /\ v.upper = w.upper /\ v.current >= m.seq
        BY <1>1, <1>2, <2>2, <4>1, StoreType
      <4> QED BY <1>2, <3>2, <4>2 DEF j
    <3> QED BY <3>1, <3>2
  <2>4. v.cells[j] = m /\ \A i \in Cells : i # j => v.cells[i] = w.cells[i]
    BY <1>1, <1>5, <2>3 DEF WindowType
  <2>5. v.lower <= next /\ v.lower \in {w.lower, FirstLower} /\ v.current \in Int
    BY <1>1, <1>2, <1>6, <1>10, <2>3 DEF WindowType
  <2>6. ASSUME NEW i \in Cells, v.cells[i] # EmptyCell
        PROVE  /\ win_index(v.cells[i].seq) = i
               /\ v.lower <= v.cells[i].seq /\ v.cells[i].seq < next + 1
    <3>1. CASE i = j
      BY <1>1, <1>2, <2>4, <2>5, <3>1 DEF j
    <3>2. CASE i # j
      <4>1. w.cells[i] # EmptyCell /\ v.cells[i] = w.cells[i] /\ next # 1
        BY <1>3, <2>4, <2>6, <3>2
      <4>2. w.cells[i].seq \in Nat /\ v.lower = w.lower
        BY <1>7, <2>3, <4>1
      <4> QED BY <1>2, <4>1, <4>2 DEF CellsSent
    <3> QED BY <3>1, <3>2
  <2>7. Follows(v, next + 1)
    BY <1>2, <1>6, <2>3, <2>5 DEF Follows
  <2> QED BY <2>3, <2>5, <2>6, <2>7 DEF CellsSent, v, m
<1> QED BY <1>1, <1>2, <1>8, <1>9, <1>10

\* The child may go to state st.
FlowsTo(st) ==
    /\ st \notin {"NONE", "FILENAME"}
    /\ st \in {"CHECK_FOR_RESPONSE", "WAIT_ON_RESPONSE", "TIMEOUT_ON_RESPONSE",
               "POLL_RESPONSE"} => sseq > 1
    /\ st \in EofStates => sseq < Horizon
    /\ Late => st \in EofStates \cup {"DONE", "EXIT"}

\* The child's window stays or follows an RR.
FollowsTold ==
    \/ swin' = swin
    \/ /\ sseq > 1 \/ Late
       /\ \E k \in Int : k < cwin.lower /\ swin' = win_RR(swin, k)

LEMMA FlowStep ==
    ASSUME ServerInv, Flow, cwin' = cwin, sseq' = sseq, FollowsTold, FlowsTo(sstate'),
           net'["client"] \in Seq(Below), net'["server"] \in Seq(Told)
    PROVE  Flow'
<1>1. /\ HoldsFile(swin) /\ sseq \in Nat
      /\ Horizon' = Horizon /\ Below' = Below /\ Told' = Told
  BY DEF ServerInv, ServerTypeOK, Horizon, Below, Told
<1>2. Late => Late'
  BY DEF FlowsTo, Late
<1>3. WithinHorizon
  BY DEF Flow
<1>4. /\ swin'.upper = swin'.lower + WindowSize /\ CellsSent(swin', sseq)
      /\ swin'.lower = swin.lower \/ swin'.lower < cwin.lower
      /\ IF sseq = 1 THEN Late' \/ swin' = win_init ELSE Follows(swin', sseq)
  <2>1. CASE swin' = swin
    BY <1>2, <1>3, <2>1 DEF WithinHorizon
  <2>2. ASSUME sseq > 1 \/ Late, NEW k \in Int, k < cwin.lower, swin' = win_RR(swin, k)
        PROVE  /\ swin'.upper = swin'.lower + WindowSize /\ CellsSent(swin', sseq)
               /\ swin'.lower = swin.lower \/ swin'.lower < cwin.lower
               /\ IF sseq = 1 THEN Late' \/ swin' = win_init ELSE Follows(swin', sseq)
    <3>1. /\ swin.upper = swin.lower + WindowSize /\ CellsSent(swin, sseq)
          /\ sseq # 1 => Follows(swin, sseq)
      BY <1>3 DEF WithinHorizon
    <3>2. /\ swin'.upper = swin'.lower + WindowSize /\ CellsSent(swin', sseq)
          /\ swin'.lower \in {swin.lower, k}
          /\ sseq # 1 => Follows(swin', sseq)
      BY <1>1, <2>2, <3>1, FollowsRR
    <3> QED BY <1>2, <2>2, <3>2
  <2> QED BY <2>1, <2>2 DEF FollowsTold
<1>5. Lagging'
  BY <1>3, <1>4 DEF WithinHorizon, Lagging
<1>6. WithinHorizon'
  BY <1>1, <1>3, <1>4, <1>5 DEF WithinHorizon, FlowsTo
<1> QED BY <1>1, <1>6 DEF Flow, QueuesWithinHorizon

LEMMA FlowType ==
    ASSUME ClientInv
    PROVE  /\ cwin.lower \in Nat /\ Horizon \in Nat /\ Horizon > WindowSize
           /\ Horizon >= cwin.lower + WindowSize
           /\ Corrupted \in Below /\ Corrupted \in Told
           /\ Packet("FNAME_OK", 0, 0) \in Below /\ Packet("FNAME_BAD", 0, 0) \in Below
<1>1. cwin.lower \in Nat /\ Horizon \in Nat /\ Horizon > WindowSize
      /\ Horizon >= cwin.lower + WindowSize
  BY DEF ClientInv, Frame, WindowType, Horizon
<1> QED BY <1>1 DEF Below, Told, Corrupted, Packet, PDU, WireFlags

\* A packet out of the child's window.
LEMMA CellIsBelow ==
    ASSUME ServerInv, ClientInv, Flow, NEW k \in Int, win_get(swin, k) # EmptyCell
    PROVE  /\ win_get(swin, k) \in Below /\ win_get(swin, k) \in PDU
           /\ win_get(swin, k) \in Answers
<1> DEFINE pdu == win_get(swin, k)
<1>1. win_index(k) \in Cells
  BY IndexType
<1>2. pdu \in FileData /\ pdu.seq < sseq
  BY <1>1 DEF win_get, ServerInv, HoldsFile, Flow, WithinHorizon, CellsSent
<1>3. sseq \in Nat /\ sseq <= Horizon
  BY DEF ServerInv, ServerTypeOK, Flow, WithinHorizon
<1> HIDE DEF pdu
<1>4. pdu \in PDU /\ pdu.seq \in Nat /\ pdu \in Answers
  BY <1>2, AnswersType DEF Answers
<1>5. pdu \in Below
  BY <1>2, <1>3, <1>4, FlowType DEF Below
<1> QED BY <1>4, <1>5 DEF pdu

\* The next packet, when the window has room for it.
LEMMA NextIsBelow ==
    ASSUME ServerInv, ClientInv, Flow, ~Late, ~win_isFull(swin)
    PROVE  sseq < Horizon
<1>1. /\ sseq \in Nat /\ sseq = offset + 1 /\ offset \in Nat
      /\ swin.lower \in Nat /\ swin.upper \in Nat /\ swin.current \in Int
  BY DEF ServerInv, ServerTypeOK, HoldsFile, WindowType
<1>2. /\ swin.upper = swin.lower + WindowSize /\ Lagging
      /\ sseq # 1 => Follows(swin, sseq)
  BY DEF Flow, WithinHorizon
<1>3. swin.current + 1 < swin.upper
  BY <1>1 DEF win_isFull
<1>4. FirstLower \in {0, 1}
  BY DEF FirstLower
<1>5. CASE sseq = 1
  BY <1>5, FlowType
<1>6. CASE sseq # 1
  <2>1. sseq <= swin.lower \/ sseq <= swin.lower + WindowSize - FirstLower
    BY <1>1, <1>2, <1>3, <1>4, <1>6 DEF Follows
  <2>2. swin.lower <= FirstLower \/ swin.lower < cwin.lower
    BY <1>2 DEF Lagging
  <2>3. cwin.lower \in Nat /\ Horizon \in Nat /\ Horizon > WindowSize
        /\ Horizon >= cwin.lower + WindowSize
    BY FlowType
  <2> QED BY <1>1, <1>4, <1>6, <2>1, <2>2, <2>3
<1> QED BY <1>5, <1>6

\* A step that only changes state.
LEMMA FlowQuiet ==
    ASSUME NetInv, ServerInv, Flow, cwin' = cwin, sseq' = sseq, swin' = swin,
           NEW st, FlowsTo(st), GoTo(st), NoSend(net) \/ NoSend(Discard(net, "server"))
    PROVE  Flow'
<1> DEFINE d == Discard(net, "server")
<1>1. sstate' = st /\ FollowsTold /\ net' \in {net, d}
  BY GoToFits DEF FollowsTold, NoSend
<1>2. d["server"] = << >> /\ d["client"] = net["client"]
  BY DiscardFits DEF Endpoints, NetInv
<1>3. net["client"] \in Seq(Below) /\ net["server"] \in Seq(Told) /\ << >> \in Seq(Told)
  BY DEF Flow, QueuesWithinHorizon
<1> HIDE DEF d
<1> QED BY <1>1, <1>2, <1>3, FlowStep

\* A step that sends a packet to rcopy.
LEMMA FlowSends ==
    ASSUME NetInv, ServerInv, ClientInv, Flow, cwin' = cwin, sseq' = sseq, swin' = swin,
           NEW st, FlowsTo(st), GoTo(st), NEW pdu \in Below, pdu \in Answers,
           \/ Sendto(net, "client", pdu)
           \/ Sendto(Discard(net, "server"), "client", pdu)
    PROVE  Flow'
<1> DEFINE d == Discard(net, "server")
<1>1. sstate' = st /\ FollowsTold
  BY GoToFits DEF FollowsTold
<1>2. /\ d["server"] = << >> /\ d["client"] = net["client"]
      /\ QueuesOK(net) /\ QueuesOK(d)
  BY DiscardFits, DiscardOK DEF Endpoints, NetInv
<1>3. net["client"] \in Seq(Below) /\ net["server"] \in Seq(Told) /\ << >> \in Seq(Told)
  BY DEF Flow, QueuesWithinHorizon
<1>4. pdu \in PDU /\ Corrupted \in Below /\ "client" \in Endpoints
  BY AnswersType, FlowType DEF Endpoints
<1> HIDE DEF d
<1>5. PICK n \in {net, d} : Sendto(n, "client", pdu)
  BY DEF d
<1>6. QueuesOK(n) /\ n["client"] \in Seq(Below) /\ n["server"] \in Seq(Told)
  BY <1>2, <1>3
<1>7. Delivered(n, net', "client", Below)
  BY <1>4, <1>5, <1>6, SendtoFits
<1>8. net'["client"] \in Seq(Below) /\ net'["server"] \in Seq(Told)
  BY <1>6, <1>7 DEF Delivered, Endpoints
<1> QED BY <1>1, <1>8, FlowStep

\* What the child does with a packet it receives.
LEMMA FlowResponse ==
    ASSUME NetInv, ServerInv, ClientInv, Flow, cwin' = cwin, sseq' = sseq,
           sseq > 1 \/ Late, NEW onCrc, FlowsTo(onCrc), NEW next, FlowsTo(next),
           HandleResponse(onCrc, next)
    PROVE  Flow'
<1>1. PICK i \in Receivable("server") :
        LET m == net["server"][i]
            n == Take("server", i)
        IN  \/ GoTo(onCrc) /\ NoSend(n) /\ UNCHANGED swin
            \/ m.flag = "RR" /\ swin' = win_RR(swin, m.data) /\ GoTo(next) /\ NoSend(n)
            \/ m.flag = "SREJ" /\ process_srej(n, m.data, next) /\ UNCHANGED swin
            \/ GoTo("DONE") /\ NoSend(Discard(n, "server")) /\ UNCHANGED swin
  BY DEF HandleResponse
<1> DEFINE m == net["server"][i]
           n == Take("server", i)
           d == Discard(n, "server")
<1>2. /\ QueuesOK(n) /\ m \in PDU /\ d["server"] = << >> /\ d["client"] = n["client"]
  BY TakeOK, DiscardFits DEF Endpoints
<1>3. /\ n["server"] \in Seq(Told) /\ m \in Told /\ n["client"] \in Seq(Below)
  <2>1. "server" \in Endpoints /\ net["server"] \in Seq(Told) /\ net["client"] \in Seq(Below)
    BY DEF Endpoints, Flow, QueuesWithinHorizon
  <2> QED BY <2>1, TakeFits DEF Endpoints
<1>4. << >> \in Seq(Told) /\ FlowsTo("DONE") /\ FlowsTo("EXIT") /\ m.data \in Int
  BY <1>2 DEF FlowsTo, EofStates, PDU
<1> HIDE DEF m, n, d
<1>5. ASSUME FollowsTold, NEW st, FlowsTo(st), GoTo(st), NoSend(n) \/ NoSend(d)
      PROVE  Flow'
  <2>1. sstate' = st /\ net' \in {n, d}
    BY <1>5, GoToFits DEF NoSend
  <2>2. net'["client"] \in Seq(Below) /\ net'["server"] \in Seq(Told)
    BY <1>2, <1>3, <1>4, <2>1
  <2> QED BY <1>5, <2>1, <2>2, FlowStep
<1>6. CASE GoTo(onCrc) /\ NoSend(n) /\ UNCHANGED swin
  BY <1>5, <1>6 DEF FollowsTold
<1>7. CASE m.flag = "RR" /\ swin' = win_RR(swin, m.data) /\ GoTo(next) /\ NoSend(n)
  <2>1. m.data < cwin.lower
    BY <1>3, <1>7 DEF Told
  <2>2. FollowsTold
    BY <1>4, <1>7, <2>1 DEF FollowsTold
  <2> QED BY <1>5, <1>7, <2>2
<1>8. CASE m.flag = "SREJ" /\ process_srej(n, m.data, next) /\ UNCHANGED swin
  <2> DEFINE pdu == win_get(swin, m.data)
  <2>1. CASE pdu = EmptyCell
    <3>1. GoTo("EXIT") /\ NoSend(d)
      BY <1>8, <2>1 DEF process_srej, d
    <3> QED BY <1>4, <1>5, <1>8, <3>1 DEF FollowsTold
  <2>2. CASE pdu # EmptyCell
    <3>1. GoTo(next) /\ Sendto(n, "client", pdu)
      BY <1>8, <2>2 DEF process_srej
    <3>2. sstate' = next /\ FollowsTold
      BY <1>8, <3>1, GoToFits DEF FollowsTold
    <3>3. pdu \in Below /\ pdu \in PDU /\ pdu \in Answers
      BY <1>4, <2>2, CellIsBelow
    <3> HIDE DEF pdu
    <3>4. Corrupted \in Below /\ "client" \in Endpoints
      BY FlowType DEF Endpoints
    <3>5. Delivered(n, net', "client", Below)
      BY <1>2, <1>3, <3>1, <3>3, <3>4, SendtoFits
    <3>6. net'["client"] \in Seq(Below) /\ net'["server"] \in Seq(Told)
      BY <1>3, <3>5 DEF Delivered, Endpoints
    <3> QED BY <3>2, <3>6, FlowStep
  <2> QED BY <2>1, <2>2
<1>9. CASE GoTo("DONE") /\ NoSend(d) /\ UNCHANGED swin
  BY <1>4, <1>5, <1>9 DEF FollowsTold
<1> QED BY <1>1, <1>6, <1>7, <1>8, <1>9 DEF m, n, d

\* new_send_data reads a block.
LEMMA FlowSendData ==
    ASSUME NetInv, ServerInv, ClientInv, Flow, cwin' = cwin, ServerSendData
    PROVE  Flow'
<1> DEFINE m == Data(sseq, File[sseq])
<1>1. /\ sseq \in 1 .. NumBlocks /\ HoldsFile(swin)
      /\ ~Late /\ ~win_isFull(swin) /\ sstate' = "CHECK_FOR_RESPONSE"
      /\ Sendto(net, "client", m) /\ swin' = win_add(swin, m).win /\ sseq' = sseq + 1
  BY DEF ServerSendData, ServerInv, ServerTypeOK, GoTo, Late, EofStates
<1>2. /\ swin.upper = swin.lower + WindowSize /\ CellsSent(swin, sseq)
      /\ IF sseq = 1 THEN swin = win_init ELSE Follows(swin, sseq)
      /\ Lagging
  BY <1>1 DEF Flow, WithinHorizon
<1>3. /\ swin'.upper = swin'.lower + WindowSize
      /\ CellsSent(swin', sseq') /\ Follows(swin', sseq')
      /\ swin'.lower \in {swin.lower, FirstLower}
  BY <1>1, <1>2, FollowsAdd
<1>4. sseq < Horizon /\ Horizon \in Nat /\ Horizon' = Horizon /\ sseq' # 1
  BY <1>1, NextIsBelow, FlowType DEF Horizon
<1>5. Lagging'
  BY <1>2, <1>3 DEF Lagging, FirstLower
<1>6. WithinHorizon'
  BY <1>1, <1>3, <1>4, <1>5 DEF WithinHorizon, EofStates
<1>7. m \in Answers /\ m \in PDU /\ m.seq = sseq
  <2>1. m \in FileData
    BY <1>1 DEF FileData
  <2> QED BY <2>1, AnswersType DEF Answers, Data, Packet
<1> HIDE DEF m
<1>8. m \in Below /\ Corrupted \in Below /\ "client" \in Endpoints
  BY <1>4, <1>7, FlowType DEF Below, Endpoints
<1>9. QueuesOK(net) /\ net["client"] \in Seq(Below) /\ net["server"] \in Seq(Told)
  BY DEF NetInv, Flow, QueuesWithinHorizon
<1>10. Delivered(net, net', "client", Below)
  BY <1>1, <1>7, <1>8, <1>9, SendtoFits
<1>11. net'["client"] \in Seq(Below) /\ net'["server"] \in Seq(Told)
  BY <1>9, <1>10 DEF Delivered, Endpoints
<1>12. Below' = Below /\ Told' = Told
  BY <1>4 DEF Below, Told
<1> QED BY <1>6, <1>11, <1>12 DEF Flow, QueuesWithinHorizon

\* The parent reads a request: a new child, or nothing.
LEMMA FlowRequest ==
    ASSUME NetInv, ClientInv, Flow, cwin' = cwin, ServerFork \/ ServerIgnoreCorrupted
    PROVE  Flow'
<1> DEFINE n == Take("main", 1)
<1>1. 1 \in Receivable("main") /\ "main" \in Endpoints /\ QueuesOK(net)
  <2>1. net["main"] \in Seq(PDU) /\ net["main"] # << >>
    BY DEF ServerFork, ServerIgnoreCorrupted, NetInv, QueuesOK, Endpoints
  <2>2. 1 \in DOMAIN net["main"]
    BY <2>1, EmptySeq
  <2> QED BY <2>2 DEF Receivable, Endpoints, NetInv
<1>2. QueuesOK(n) /\ n["client"] = net["client"] /\ n["server"] = net["server"]
  BY <1>1, TakeOK DEF Take, Endpoints, QueuesOK
<1>3. net["client"] \in Seq(Below) /\ net["server"] \in Seq(Told) /\ << >> \in Seq(Told)
  BY DEF Flow, QueuesWithinHorizon
<1>4. Horizon' = Horizon /\ Below' = Below /\ Told' = Told
  BY DEF Horizon, Below, Told
<1> HIDE DEF n
<1>5. CASE ServerFork
  <2>1. /\ sstate' = "FILENAME" /\ swin' = win_init /\ sseq' = 1
        /\ net' = [n EXCEPT !["server"] = << >>]
    BY <1>5 DEF ServerFork, NoSend, START_SEQ_NUM, n
  <2>2. net'["client"] \in Seq(Below) /\ net'["server"] \in Seq(Told)
    BY <1>2, <1>3, <2>1 DEF QueuesOK, Endpoints
  <2>3. WithinHorizon'
    <3>1. /\ win_init.upper = win_init.lower + WindowSize /\ win_init.lower = 0
          /\ CellsSent(win_init, 1)
      BY DEF win_init, CellsSent
    <3>2. Lagging'
      BY <2>1, <3>1 DEF Lagging, FirstLower
    <3> QED BY <1>4, <2>1, <3>1, <3>2, FlowType DEF WithinHorizon, EofStates
  <2> QED BY <1>4, <2>2, <2>3 DEF Flow, QueuesWithinHorizon
<1>6. CASE ServerIgnoreCorrupted
  <2>1. /\ sstate' = sstate /\ swin' = swin /\ sseq' = sseq /\ net' = n
    BY <1>6 DEF ServerIgnoreCorrupted, NoSend, serverVars, n
  <2>2. WithinHorizon'
    BY <1>4, <2>1 DEF Flow, WithinHorizon, Late, EofStates, Lagging
  <2> QED BY <1>2, <1>3, <1>4, <2>1, <2>2 DEF Flow, QueuesWithinHorizon
<1> QED BY <1>5, <1>6

LEMMA ServerKeepsFlow ==
    ASSUME NetInv, ServerInv, ClientInv, Flow, cwin' = cwin, ServerStep \/ ServerTimeout
    PROVE  Flow'
<1>1. /\ sseq \in Nat /\ sseq >= 1 /\ sseq = offset + 1
      /\ sstate \in {"NONE", "FILENAME"} => sseq = 1
      /\ sstate \in {"CHECK_FOR_RESPONSE", "WAIT_ON_RESPONSE", "TIMEOUT_ON_RESPONSE",
                     "POLL_RESPONSE"} => sseq > 1
      /\ sstate \in EofStates => sseq < Horizon
      /\ sseq = 1 => Late \/ swin = win_init
  BY DEF ServerInv, ServerTypeOK, Flow, WithinHorizon
<1>2. win_isFull(swin) => sseq > 1 \/ Late
  <2>1. ~win_isFull(win_init)
    BY DEF win_isFull, win_init
  <2> QED BY <1>1, <2>1
<1>3. FlowsTo("DONE") /\ FlowsTo("EXIT") /\ (~Late => FlowsTo("NEW_SEND_DATA"))
  BY DEF FlowsTo, EofStates, Late
<1>4. sstate \in EofStates => \A st \in EofStates : FlowsTo(st)
  BY <1>1 DEF FlowsTo, EofStates
<1>5. CASE ServerFilename
  <2>1. sseq = 1 /\ ~Late
    BY <1>1, <1>5 DEF ServerFilename, Late, EofStates
  <2>2. swin' = swin /\ sseq' = sseq
    BY <1>1, <1>5, <2>1 DEF ServerFilename
  <2>3. /\ Packet("FNAME_OK", 0, 0) \in Below /\ Packet("FNAME_OK", 0, 0) \in Answers
        /\ Packet("FNAME_BAD", 0, 0) \in Below /\ Packet("FNAME_BAD", 0, 0) \in Answers
    BY FlowType DEF Answers
  <2>4. CASE GoTo("NEW_SEND_DATA") /\ Sendto(net, "client", Packet("FNAME_OK", 0, 0))
    BY <1>3, <2>1, <2>2, <2>3, <2>4, FlowSends
  <2>5. CASE /\ GoTo("DONE")
             /\ Sendto(Discard(net, "server"), "client", Packet("FNAME_BAD", 0, 0))
    BY <1>3, <2>2, <2>3, <2>5, FlowSends
  <2> QED BY <1>5, <2>4, <2>5 DEF ServerFilename
<1>6. CASE ServerWindowFull
  <2>1. FlowsTo("WAIT_ON_RESPONSE")
    BY <1>2, <1>6 DEF ServerWindowFull, FlowsTo, Late, EofStates
  <2> QED BY <1>6, <2>1, FlowQuiet DEF ServerWindowFull
<1>7. CASE ServerSendEof \/ ServerResendEof
  <2>1. /\ sstate' = "WAIT_ON_EOF_ACK" /\ GoTo("WAIT_ON_EOF_ACK")
        /\ offset = NumBlocks /\ sseq < Horizon
        /\ sseq' = sseq /\ swin' = swin /\ Sendto(net, "client", Eof(sseq))
    <3>1. CASE ServerSendEof
      <4>1. ~Late /\ ~win_isFull(swin)
        BY <3>1 DEF ServerSendEof, Late, EofStates
      <4> QED BY <3>1, <4>1, NextIsBelow DEF ServerSendEof, GoTo
    <3>2. CASE ServerResendEof
      BY <1>1, <3>2 DEF ServerResendEof, GoTo, EofStates, ServerInv
    <3> QED BY <1>7, <3>1, <3>2
  <2>2. FlowsTo("WAIT_ON_EOF_ACK")
    BY <2>1 DEF FlowsTo, EofStates
  <2>3. Eof(sseq) \in Answers /\ Eof(sseq) \in PDU /\ Eof(sseq).seq = sseq
    BY <1>1, <2>1, AnswersType DEF Answers, Eof, Packet
  <2>4. Eof(sseq) \in Below
    BY <2>1, <2>3 DEF Below
  <2> QED BY <2>1, <2>2, <2>3, <2>4, FlowSends
<1>8. CASE ServerReadError
  BY <1>3, <1>8, FlowQuiet DEF ServerReadError
<1>9. CASE ServerCheckForResponse
  <2>1. ~Late /\ sseq > 1
    BY <1>1, <1>9 DEF ServerCheckForResponse, Late, EofStates
  <2> QED BY <1>3, <1>9, <2>1, FlowResponse DEF ServerCheckForResponse
<1>10. CASE ServerNoResponseYet
  <2>1. ~Late
    BY <1>10 DEF ServerNoResponseYet, Late, EofStates
  <2> QED BY <1>3, <1>10, <2>1, FlowQuiet DEF ServerNoResponseYet
<1>11. CASE ServerWaitOnResponse
  <2>1. ~Late /\ sseq > 1 /\ FlowsTo("TIMEOUT_ON_RESPONSE")
    BY <1>1, <1>11 DEF ServerWaitOnResponse, Late, EofStates, FlowsTo
  <2> QED BY <1>3, <1>11, <2>1, FlowResponse DEF ServerWaitOnResponse
<1>12. CASE ServerWaitTimeout
  <2>1. FlowsTo("TIMEOUT_ON_RESPONSE")
    BY <1>1, <1>12 DEF ServerWaitTimeout, Late, EofStates, FlowsTo
  <2> QED BY <1>12, <2>1, FlowQuiet DEF ServerWaitTimeout
<1>13. CASE ServerResendLowest
  <2> DEFINE pdu == win_get(swin, swin.lower)
  <2>1. FlowsTo("POLL_RESPONSE") /\ sseq' = sseq /\ swin' = swin /\ swin.lower \in Int
    BY <1>1, <1>13 DEF ServerResendLowest, Late, EofStates, FlowsTo,
                       ServerInv, HoldsFile, WindowType
  <2>2. CASE pdu = EmptyCell
    BY <1>3, <1>13, <2>1, <2>2, FlowQuiet DEF ServerResendLowest
  <2>3. CASE pdu # EmptyCell
    <3>1. pdu \in Below /\ pdu \in Answers
      BY <2>1, <2>3, CellIsBelow
    <3>2. \/ GoTo("DONE") /\ Sendto(Discard(net, "server"), "client", pdu)
          \/ GoTo("POLL_RESPONSE") /\ Sendto(net, "client", pdu)
      BY <1>13, <2>3 DEF ServerResendLowest
    <3> HIDE DEF pdu
    <3> QED BY <1>3, <2>1, <3>1, <3>2, FlowSends
  <2> QED BY <2>2, <2>3
<1>14. CASE ServerResponseReady
  <2>1. FlowsTo("CHECK_FOR_RESPONSE")
    BY <1>1, <1>14 DEF ServerResponseReady, Late, EofStates, FlowsTo
  <2> QED BY <1>14, <2>1, FlowQuiet DEF ServerResponseReady
<1>15. CASE ServerResponseTimeout
  <2>1. FlowsTo("TIMEOUT_ON_RESPONSE")
    BY <1>1, <1>15 DEF ServerResponseTimeout, Late, EofStates, FlowsTo
  <2> QED BY <1>15, <2>1, FlowQuiet DEF ServerResponseTimeout
<1>16. CASE ServerEofAckReady \/ ServerRecvAfterGiveUp
  <2>1. FlowsTo("WAIT_ON_EOF_ACK") /\ Late
    BY <1>4, <1>16 DEF ServerEofAckReady, ServerRecvAfterGiveUp, EofStates, Late
  <2> QED BY <1>16, <2>1, FlowResponse DEF ServerEofAckReady, ServerRecvAfterGiveUp
<1>17. CASE ServerEofAckTimeout
  <2>1. FlowsTo("TIMEOUT_ON_EOF_ACK")
    BY <1>4, <1>17 DEF ServerEofAckTimeout, EofStates
  <2> QED BY <1>17, <2>1, FlowQuiet DEF ServerEofAckTimeout
<1>18. CASE ServerEofAckGiveUp
  <2>1. FlowsTo("RECV_EOF_ACK")
    BY <1>4, <1>18 DEF ServerEofAckGiveUp, EofStates
  <2> QED BY <1>18, <2>1, FlowQuiet DEF ServerEofAckGiveUp
<1> QED BY <1>5, <1>6, <1>7, <1>8, <1>9, <1>10, <1>11, <1>12, <1>13, <1>14, <1>15, <1>16,
           <1>17, <1>18, FlowRequest, FlowSendData
        DEF ServerStep, ServerTimeout

-----------------------------------------------------------------------------
\* rcopy's lower edge only grows, and with it the horizon.
LEMMA FlowGrows ==
    ASSUME ServerInv, Flow, UNCHANGED serverVars,
           cwin.lower \in Nat, cwin'.lower \in Nat, cwin'.lower >= cwin.lower,
           net'["client"] \in Seq(Below), net'["server"] \in Seq(Told')
    PROVE  Flow'
<1>1. Horizon' >= Horizon /\ Horizon \in Nat /\ Horizon' \in Nat
  BY DEF Horizon
<1>2. sseq \in Nat /\ swin.lower \in Nat
  BY DEF ServerInv, ServerTypeOK, HoldsFile, WindowType
<1>3. WithinHorizon'
  BY <1>1, <1>2 DEF Flow, WithinHorizon, serverVars, Late, EofStates, Lagging
<1>4. Below \subseteq Below'
  BY <1>1 DEF Below, PDU
<1>5. net'["client"] \in Seq(Below')
  BY <1>4, SeqMonotone
<1> QED BY <1>3, <1>5 DEF Flow, QueuesWithinHorizon

LEMMA ToldGrows ==
    ASSUME cwin.lower \in Nat, cwin'.lower \in Nat, cwin'.lower >= cwin.lower
    PROVE  Told \subseteq Told'
BY DEF Told, PDU

\* rcopy answers this child, or sends a request.
LEMMA FlowClientSends ==
    ASSUME NEW n, QueuesOK(n), NEW S, n["client"] \in Seq(Below), n["server"] \in Seq(S),
           Corrupted \in S, NEW dest \in {"main", "server"}, NEW pdu \in PDU,
           dest = "server" => pdu \in S, Sendto(n, dest, pdu)
    PROVE  net'["client"] \in Seq(Below) /\ net'["server"] \in Seq(S)
<1>1. CASE dest = "server"
  <2>1. Delivered(n, net', "server", S)
    BY <1>1, SendtoFits DEF Endpoints
  <2> QED BY <2>1 DEF Delivered, Endpoints
<1>2. CASE dest = "main"
  <2>1. n["main"] \in Seq(PDU) /\ Corrupted \in PDU
    BY AnswersType DEF QueuesOK, Endpoints, Answers
  <2>2. Delivered(n, net', "main", PDU)
    BY <1>2, <2>1, SendtoFits DEF Endpoints
  <2> QED BY <2>2 DEF Delivered, Endpoints
<1> QED BY <1>1, <1>2

LEMMA FlowClose ==
    ASSUME NEW n, QueuesOK(n), NEW S, n["server"] \in Seq(S)
    PROVE  /\ QueuesOK(Close(n))
           /\ Close(n)["client"] \in Seq(Below) /\ Close(n)["server"] \in Seq(S)
<1> DEFINE d == Discard(n, "client")
<1>1. QueuesOK(d) /\ d["client"] = << >> /\ d["server"] = n["server"]
  BY DiscardOK, DiscardFits DEF Endpoints
<1> HIDE DEF d
<1>2. /\ Discard(d, "main")["client"] = << >>
      /\ Discard(d, "main")["server"] = n["server"]
  BY <1>1, DiscardFits DEF Endpoints
<1>3. << >> \in Seq(Below)
  OBVIOUS
<1> QED BY <1>2, <1>3, CloseOK DEF Close, d

LEMMA ClientKeepsFlow ==
    ASSUME NetInv, ServerInv, ClientInv, ClientInv', Flow, UNCHANGED serverVars,
           ClientStep \/ ClientFilenameTimeout \/ ClientRecvTimeout
    PROVE  Flow'
<1>1. cwin.lower \in Nat /\ cwin'.lower \in Nat /\ cwin'.lower >= cwin.lower
  BY ClientAdvances DEF ClientInv, Frame, WindowType
<1>2. Told \subseteq Told' /\ Corrupted \in Told
  BY <1>1, ToldGrows, FlowType
<1>3. /\ QueuesOK(net) /\ net["client"] \in Seq(Below)
      /\ net["server"] \in Seq(Told) /\ net["server"] \in Seq(Told')
  BY <1>2, SeqMonotone DEF NetInv, Flow, QueuesWithinHorizon
<1>4. /\ QueuesOK(Close(net)) /\ Close(net)["client"] \in Seq(Below)
      /\ Close(net)["server"] \in Seq(Told')
  BY <1>3, FlowClose
<1>5. \A i \in Receivable("client") :
        /\ QueuesOK(Take("client", i))
        /\ Take("client", i)["client"] \in Seq(Below)
        /\ Take("client", i)["server"] \in Seq(Told')
  BY <1>3, TakeOK, TakeFits DEF Endpoints
<1>6. ASSUME NEW n, QueuesOK(n), n["server"] \in Seq(Told'), ToDone(n)
      PROVE  net'["client"] \in Seq(Below) /\ net'["server"] \in Seq(Told')
  BY <1>6, FlowClose DEF ToDone, NoSend
<1>7. SUFFICES net'["client"] \in Seq(Below) /\ net'["server"] \in Seq(Told')
  BY <1>1, FlowGrows
<1>8. CASE ClientStart
  <2>1. Sendto(Close(net), "main", Packet("FNAME", 0, 0)) /\ Packet("FNAME", 0, 0) \in PDU
    BY <1>8 DEF ClientStart, Packet, PDU, WireFlags
  <2>2. Corrupted \in Told'
    BY <1>2
  <2> QED BY <1>4, <2>1, <2>2, FlowClientSends
<1>9. CASE ClientNoHost \/ ClientFilenameGiveUp \/ ClientRecvTimeout
  BY <1>3, <1>6, <1>9 DEF ClientNoHost, ClientFilenameGiveUp, ClientRecvTimeout
<1>10. CASE ClientFilenameTimeout
  BY <1>3, <1>10 DEF ClientFilenameTimeout, NoSend
<1>11. CASE ClientFilename
  <2>1. PICK i \in Receivable("client") :
          ToDone(Take("client", i)) \/ NoSend(Take("client", i))
    BY <1>11 DEF ClientFilename
  <2> QED BY <1>5, <1>6, <2>1 DEF NoSend
<1>12. CASE ClientFileOk
  BY <1>3, <1>6, <1>12 DEF ClientFileOk, NoSend
<1>13. CASE ClientRecvCorrupted
  BY <1>5, <1>13 DEF ClientRecvCorrupted, NoSend
<1>14. ASSUME NEW k \in Int
       PROVE  Packet("SREJ", 0, k) \in PDU /\ Packet("SREJ", 0, k) \in Told'
  BY DEF Packet, PDU, WireFlags, Told
<1>15. CASE ClientRecvData
  <2>1. PICK i \in Receivable("client") :
          \/ Sendto(Take("client", i), "server", Packet("SREJ", 0, cwin'.lower))
          \/ NoSend(Take("client", i))
    BY <1>15 DEF ClientRecvData
  <2>2. CASE NoSend(Take("client", i))
    BY <1>5, <2>2 DEF NoSend
  <2>3. CASE Sendto(Take("client", i), "server", Packet("SREJ", 0, cwin'.lower))
    BY <1>1, <1>2, <1>5, <1>14, <2>3, FlowClientSends
  <2> QED BY <2>1, <2>2, <2>3
<1>16. CASE ClientSendSrej
  <2>1. Sendto(net, "server", Packet("SREJ", 0, srej)) /\ srej \in Int
    BY <1>16 DEF ClientSendSrej, ClientInv, ClientTypeOK
  <2> QED BY <1>2, <1>3, <1>14, <2>1, FlowClientSends
<1>17. CASE ClientDequeue
  <2> DEFINE pdu == win_get(cwin, cwin.lower)
  <2>1. Frame(cwin) /\ cwin.lower >= 1 /\ win_lowest_cell_isFull(cwin)
    BY <1>17 DEF ClientDequeue, ClientInv, LowerOK, Receiving, win_lowest_cell_isFull
  <2>2. cwin'.lower = cwin.lower + 1 /\ pdu.seq = cwin.lower
    BY <1>17, <2>1, FrameDequeue DEF ClientDequeue
  <2>3. \/ Sendto(net, "server", Packet("RR", 0, pdu.seq))
        \/ Sendto(Close(net), "server", Packet("EOF_ACK", 0, 0))
        \/ NoSend(net)
    BY <1>17 DEF ClientDequeue
  <2> HIDE DEF pdu
  <2>4. /\ Packet("RR", 0, pdu.seq) \in PDU /\ Packet("RR", 0, pdu.seq) \in Told'
        /\ Packet("EOF_ACK", 0, 0) \in PDU /\ Packet("EOF_ACK", 0, 0) \in Told'
    BY <1>1, <2>2 DEF Packet, PDU, WireFlags, Told
  <2> QED BY <1>2, <1>3, <1>4, <2>3, <2>4, FlowClientSends DEF NoSend
<1> QED BY <1>8, <1>9, <1>10, <1>11, <1>12, <1>13, <1>15, <1>16, <1>17 DEF ClientStep

\* rcopy hears somebody else, and may end; somebody else's packets count as
\* faults too.
LEMMA ElsewhereKeeps ==
    ASSUME NetInv, ServerInv, ClientInv, Flow, UNCHANGED serverVars,
           cwin'.lower \in Nat, cwin'.lower >= cwin.lower, net' \in {net, Close(net)},
           sockets' \subseteq sockets, faults' \in Nat
    PROVE  NetInv' /\ ServerInv' /\ Flow'
<1>1. cwin.lower \in Nat
  BY FlowType
<1>2. /\ QueuesOK(net) /\ net["client"] \in Seq(Below) /\ net["server"] \in Seq(Told')
  BY <1>1, ToldGrows, SeqMonotone DEF NetInv, Flow, QueuesWithinHorizon
<1>3. /\ QueuesOK(net') /\ net'["client"] \in Seq(Below) /\ net'["server"] \in Seq(Told')
  BY <1>2, FlowClose
<1>4. NetInv'
  BY <1>3 DEF NetInv, NetworkTypeOK, QueuesOK
<1>5. ServerInv'
  BY DEF ServerInv, ServerTypeOK, HoldsFile, serverVars
<1>6. Flow'
  BY <1>1, <1>3, FlowGrows
<1> QED BY <1>4, <1>5, <1>6

LEMMA InitFlow == Init => Flow
<1>1. SUFFICES ASSUME Init PROVE Flow
  OBVIOUS
<1>2. /\ net = [e \in Endpoints |-> << >>] /\ sstate = "NONE" /\ swin = win_init
      /\ sseq = 1 /\ cwin = win_init
  BY <1>1 DEF Init, NetworkInit, ServerInit, ClientInit, START_SEQ_NUM
<1>3. /\ win_init.lower = 0 /\ win_init.upper = 0 + WindowSize
      /\ CellsSent(win_init, 1)
  BY DEF win_init, CellsSent
<1>4. Lagging
  BY <1>2, <1>3 DEF Lagging, FirstLower
<1>5. Horizon = 1 + WindowSize
  BY <1>2, <1>3 DEF Horizon
<1>6. WithinHorizon
  BY <1>2, <1>3, <1>4, <1>5 DEF WithinHorizon, EofStates
<1>7. QueuesWithinHorizon
  BY <1>2 DEF QueuesWithinHorizon, Endpoints
<1> QED BY <1>6, <1>7 DEF Flow

LEMMA FlowBound ==
    ASSUME ClientInv, Flow, Receiving, NEW i \in DOMAIN net["client"]
    PROVE  net["client"][i].seq < cwin.upper
<1>1. cwin.upper = Horizon
  BY DEF ClientInv, Frame, LowerOK, Horizon
<1>2. net["client"][i] \in Below
  BY ElementOfSeq DEF Flow, QueuesWithinHorizon
<1> QED BY <1>1, <1>2 DEF Below
=============================================================================
