-------------------------- MODULE WindowWidthProofs -------------------------
(***************************************************************************)
(* The windows of WindowWidth are sliding frames over plain numbers, for   *)
(* every width of the numbers and every window size.                       *)
(***************************************************************************)
EXTENDS WindowWidth, Arithmetic

USE WindowWidthAssumption

-----------------------------------------------------------------------------
(***************************************************************************)
(* The inductive invariant.  A window in use holds, each in its own cell,  *)
(* numbers of its frame below s, the next number of the server; only its   *)
(* upper edge may have wrapped.                                            *)
(***************************************************************************)
Started(w, s) ==
    /\ w \in [lower : 1 .. s, current : 0 .. s - 1, upper : Int, cells : [Cells -> Int]]
    /\ w.upper = Signed(w.lower + WindowSize)
    /\ \A i \in Cells : w.cells[i] # Empty =>
         /\ w.cells[i] \in w.lower .. s - 1
         /\ w.cells[i] < w.lower + WindowSize
         /\ i = w.cells[i] % WindowSize

\* The server never lets seq_num pass its upper edge, nor its edge seq_num.
ServerWidth ==
    /\ sseq \in 1 .. IntMax
    /\ sseq = 1 => swin = win_init
    /\ sseq > 1 =>
         /\ Started(swin, sseq)
         /\ swin.lower < sseq /\ sseq <= swin.lower + WindowSize
         /\ swin.current = sseq - 1

ClientWidth == cwin = win_init \/ Started(cwin, sseq)

WidthInv == ServerWidth /\ ClientWidth

-----------------------------------------------------------------------------
(***************************************************************************)
(* The conversions: numbers up to IntMax stay what they are, and an upper  *)
(* edge beyond it becomes negative when signed and itself again when       *)
(* unsigned.                                                               *)
(***************************************************************************)
LEMMA Modulo ==
    ASSUME NEW m \in Int, NEW x \in Int
    PROVE  /\ 0 <= x /\ x < m => x % m = x
           /\ -m <= x /\ x < 0 => x % m = x + m
OBVIOUS

LEMMA Small ==
    ASSUME NEW x \in 0 .. IntMax
    PROVE  Unsigned(x) = x /\ Signed(x) = x
<1>1. Unsigned(x) = x
  BY Modulo DEF Unsigned, Modulus
<1> QED BY <1>1 DEF Signed

LEMMA UpperEdge ==
    ASSUME NEW x \in 0 .. IntMax
    PROVE  /\ Unsigned(x + WindowSize) = x + WindowSize
           /\ Signed(x + WindowSize) \in Int
           /\ Unsigned(Signed(x + WindowSize)) = x + WindowSize
           /\ Signed(x + WindowSize) >= -IntMax - 1 /\ Signed(x + WindowSize) <= IntMax
           /\ x + WindowSize <= IntMax => Signed(x + WindowSize) = x + WindowSize
           /\ x + WindowSize > IntMax => Signed(x + WindowSize) < 0
<1> DEFINE y == x + WindowSize
<1>1. y \in Int /\ 0 <= y /\ y < Modulus
  BY DEF Modulus
<1>2. Modulus \in Int /\ IntMax < Modulus /\ Modulus = 2 * (IntMax + 1)
  BY DEF Modulus
<1> HIDE DEF y
<1>3. Unsigned(y) = y
  BY <1>1, <1>2, Modulo DEF Unsigned
<1>4. Signed(y) = IF y <= IntMax THEN y ELSE y - Modulus
  BY <1>3 DEF Signed
<1>5. /\ y > IntMax => Unsigned(y - Modulus) = y
      /\ y \in Int
  <2>1. ASSUME y > IntMax
        PROVE  (y - Modulus) % Modulus = y
    <3> DEFINE z == y - Modulus
    <3>1. z \in Int /\ -Modulus <= z /\ z < 0 /\ z + Modulus = y
      BY <1>1, <1>2
    <3> HIDE DEF z
    <3> QED BY <1>2, <3>1, Modulo DEF z
  <2> QED BY <1>1, <2>1 DEF Unsigned
<1>6. /\ Unsigned(y) = y
      /\ Signed(y) \in Int
      /\ Unsigned(Signed(y)) = y
      /\ Signed(y) >= -IntMax - 1 /\ Signed(y) <= IntMax
      /\ y <= IntMax => Signed(y) = y
      /\ y > IntMax => Signed(y) < 0
  BY <1>1, <1>2, <1>3, <1>4, <1>5
<1> QED BY <1>6 DEF y

LEMMA Index ==
    ASSUME NEW x \in 0 .. IntMax
    PROVE  win_index(x) = x % WindowSize /\ win_index(x) \in Cells
BY Small DEF win_index, Cells

-----------------------------------------------------------------------------
(***************************************************************************)
(* win_RR of a window in use: the frame moves to rr, and the cells below   *)
(* it become empty.                                                        *)
(***************************************************************************)
Kept(w, rr) == [i \in Cells |-> IF w.cells[i] < rr THEN Empty ELSE w.cells[i]]

LEMMA SetLower ==
    ASSUME NEW w \in [lower : Int, current : Int, upper : Int, cells : [Cells -> Int]],
           NEW rr \in 0 .. IntMax
    PROVE  win_set_lower(w, rr) = [lower |-> rr, current |-> w.current,
                                   upper |-> Signed(rr + WindowSize), cells |-> w.cells]
<1> DEFINE u == Signed(rr + WindowSize)
<1>1. Signed(rr) = rr /\ Unsigned(rr) = rr /\ u \in Int
  BY Small, UpperEdge
<1> HIDE DEF u
<1> DEFINE v == [w EXCEPT !.lower = rr]
<1>2. v = [lower |-> rr, current |-> w.current, upper |-> w.upper, cells |-> w.cells]
  OBVIOUS
<1>3. win_set_lower(w, rr) = [v EXCEPT !.upper = u]
  BY <1>1 DEF win_set_lower, u
<1> HIDE DEF v
<1>4. [v EXCEPT !.upper = u]
        = [lower |-> rr, current |-> w.current, upper |-> u, cells |-> w.cells]
  BY <1>1, <1>2
<1> QED BY <1>3, <1>4 DEF u

LEMMA RR ==
    ASSUME NEW w \in [lower : 0 .. IntMax, current : Int, upper : Int, cells : [Cells -> Int]],
           NEW rr \in 0 .. IntMax
    PROVE  win_RR(w, rr) = IF rr > w.lower
                           THEN [lower |-> rr, current |-> w.current,
                                 upper |-> Signed(rr + WindowSize), cells |-> Kept(w, rr)]
                           ELSE w
<1> DEFINE v == [w EXCEPT !.cells = Kept(w, rr)]
<1>1. Unsigned(rr) = rr /\ Unsigned(w.lower) = w.lower
  BY Small
<1>2. Kept(w, rr) \in [Cells -> Int]
  BY DEF Kept, Empty
<1>3. /\ v \in [lower : Int, current : Int, upper : Int, cells : [Cells -> Int]]
      /\ v.current = w.current /\ v.cells = Kept(w, rr)
  BY <1>2
<1>4. win_RR(w, rr) = IF rr > w.lower THEN win_set_lower(v, rr) ELSE w
  BY <1>1 DEF win_RR, Kept
<1> HIDE DEF v
<1> QED BY <1>3, <1>4, SetLower

LEMMA RRStarted ==
    ASSUME NEW s \in 1 .. IntMax, NEW w, Started(w, s), NEW rr \in w.lower + 1 .. s
    PROVE  /\ Started(win_RR(w, rr), s)
           /\ win_RR(w, rr).lower = rr
           /\ win_RR(w, rr).current = w.current
           /\ Held(win_RR(w, rr)) = Held(w) \ (w.lower .. rr - 1)
<1> DEFINE v == win_RR(w, rr)
<1>1. /\ w \in [lower : 0 .. IntMax, current : Int, upper : Int, cells : [Cells -> Int]]
      /\ rr \in 0 .. IntMax /\ rr > w.lower /\ w.lower \in Int /\ w.current \in 0 .. s - 1
  BY DEF Started
<1>2. v = [lower |-> rr, current |-> w.current,
           upper |-> Signed(rr + WindowSize), cells |-> Kept(w, rr)]
  BY <1>1, RR
<1>3. \A i \in Cells : v.cells[i] = IF w.cells[i] < rr THEN Empty ELSE w.cells[i]
  BY <1>2 DEF Kept
<1>4. /\ v.lower = rr /\ v.current = w.current /\ v.upper = Signed(rr + WindowSize)
      /\ v \in [lower : 1 .. s, current : 0 .. s - 1, upper : Int, cells : [Cells -> Int]]
  <2>1. Kept(w, rr) \in [Cells -> Int]
    BY <1>1 DEF Kept, Empty
  <2> QED BY <1>1, <1>2, <2>1, UpperEdge
<1> HIDE DEF v
<1>5. \A i \in Cells : v.cells[i] # Empty =>
        /\ w.cells[i] # Empty /\ v.cells[i] = w.cells[i] /\ w.cells[i] >= rr
        /\ v.cells[i] \in rr .. s - 1
        /\ v.cells[i] < rr + WindowSize
        /\ i = v.cells[i] % WindowSize
  BY <1>1, <1>3 DEF Started
<1>6. Started(v, s)
  BY <1>1, <1>4, <1>5 DEF Started
<1>7. \A i \in Cells : w.cells[i] # Empty /\ w.cells[i] >= rr
                         => v.cells[i] = w.cells[i] /\ v.cells[i] # Empty
  BY <1>1, <1>3 DEF Started
<1>8. Held(v) = Held(w) \ (w.lower .. rr - 1)
  <2>1. \A k \in Held(v) : k \in Held(w) /\ k >= rr
    BY <1>5 DEF Held
  <2>2. \A k \in Held(w) : k >= w.lower /\ k \in Int /\ (k >= rr => k \in Held(v))
    BY <1>1, <1>7 DEF Held, Started
  <2> QED BY <1>1, <2>1, <2>2
<1> QED BY <1>4, <1>6, <1>8 DEF v

-----------------------------------------------------------------------------
(***************************************************************************)
(* win_add of a window in use: a number of its frame that it does not hold *)
(* goes into an empty cell; the edges stay.                                *)
(***************************************************************************)
LEMMA StoreUsed ==
    ASSUME NEW w \in [lower : Int, current : Int, upper : Int, cells : [Cells -> Int]],
           NEW seq \in 0 .. IntMax, w.current # -1
    PROVE  Store(w, seq) = [lower |-> w.lower,
                            current |-> IF seq >= w.current THEN seq ELSE w.current,
                            upper |-> w.upper,
                            cells |-> [w.cells EXCEPT ![seq % WindowSize] = seq]]
<1> DEFINE k == IF seq >= w.current THEN seq ELSE w.current
           c == [w.cells EXCEPT ![seq % WindowSize] = seq]
           u == [w EXCEPT !.current = k]
<1>1. Store(w, seq) = [u EXCEPT !.cells = c]
  <2>1. Signed(seq) = seq /\ win_index(seq) = seq % WindowSize
    BY Small, Index
  <2> QED BY <2>1 DEF Store
<1>2. k \in Int /\ c \in [Cells -> Int]
  <2> DEFINE j == seq % WindowSize
  <2>0. j \in Cells
    BY Index
  <2> HIDE DEF j
  <2>1. [w.cells EXCEPT ![j] = seq] \in [Cells -> Int]
    BY <2>0
  <2> QED BY <2>1 DEF j
<1> HIDE DEF k, c
<1>3. u = [lower |-> w.lower, current |-> k, upper |-> w.upper, cells |-> w.cells]
  BY <1>2
<1> HIDE DEF u
<1>4. [u EXCEPT !.cells = c]
        = [lower |-> w.lower, current |-> k, upper |-> w.upper, cells |-> c]
  BY <1>2, <1>3
<1> QED BY <1>1, <1>4 DEF k, c

LEMMA StoreFirst ==
    ASSUME NEW n \in 0 .. IntMax
    PROVE  Store(win_init, n) = [lower |-> n, current |-> n, upper |-> Signed(n + WindowSize),
                                 cells |-> [win_init.cells EXCEPT ![n % WindowSize] = n]]
<1> DEFINE u == Signed(n + WindowSize)
           c == [win_init.cells EXCEPT ![n % WindowSize] = n]
           e == win_init.cells
<1>1. /\ win_init \in [lower : Int, current : Int, upper : Int, cells : [Cells -> Int]]
      /\ win_init.current = -1 /\ e \in [Cells -> Int]
  BY DEF win_init, Empty
<1>2. win_set_lower(win_init, n) = [lower |-> n, current |-> -1, upper |-> u, cells |-> e]
  BY <1>1, SetLower
<1>3. Signed(n) = n /\ win_index(n) = n % WindowSize /\ u \in Int
  BY Small, Index, UpperEdge
<1>4. c \in [Cells -> Int]
  <2> DEFINE j == n % WindowSize
  <2>0. j \in Cells
    BY Index
  <2> HIDE DEF j, e
  <2>1. [e EXCEPT ![j] = n] \in [Cells -> Int]
    BY <1>1, <2>0
  <2> QED BY <2>1 DEF j, e
<1> DEFINE a == [lower |-> n, current |-> -1, upper |-> u, cells |-> e]
           v == [a EXCEPT !.current = n]
           k == IF n >= v.current THEN n ELSE v.current
           b == [v EXCEPT !.current = k]
<1>5. Store(win_init, n) = [b EXCEPT !.cells = c]
  <2> HIDE DEF u
  <2>1. win_set_lower(win_init, n) = a
    BY <1>2
  <2>2. v.cells = e
    BY <1>1, <1>3
  <2> HIDE DEF a
  <2> QED BY <1>1, <1>3, <2>1, <2>2 DEF Store
<1> HIDE DEF u, c, e
<1>6. v = [lower |-> n, current |-> n, upper |-> u, cells |-> e]
  BY <1>3
<1> HIDE DEF v
<1>7. b = [lower |-> n, current |-> n, upper |-> u, cells |-> e]
  BY <1>3, <1>6
<1> HIDE DEF b
<1>8. [b EXCEPT !.cells = c] = [lower |-> n, current |-> n, upper |-> u, cells |-> c]
  BY <1>1, <1>4, <1>7
<1> QED BY <1>5, <1>8 DEF c, u

LEMMA CellOf ==
    ASSUME NEW s \in 1 .. IntMax, NEW w, Started(w, s),
           NEW seq \in w.lower .. w.lower + WindowSize - 1, seq <= IntMax
    PROVE  win_cellEmpty(w, seq) <=> seq \notin Held(w)
<1>1. w.lower \in Int /\ seq \in 0 .. IntMax /\ seq \in Int /\ seq # Empty
  BY DEF Started, Empty
<1>2. win_index(seq) = seq % WindowSize /\ win_index(seq) \in Cells
  BY <1>1, Index
<1>3. ASSUME NEW i \in Cells, w.cells[i] # Empty, i = seq % WindowSize
      PROVE  w.cells[i] = seq
  <2> DEFINE k == w.cells[i]
  <2>1. /\ k \in Int /\ w.lower <= k /\ k < w.lower + WindowSize
        /\ k % WindowSize = seq % WindowSize
    BY <1>1, <1>3 DEF Started
  <2> HIDE DEF k
  <2>2. /\ seq < k + WindowSize /\ k < seq + WindowSize
        /\ k <= seq \/ seq <= k
        /\ WindowSize \in Int /\ WindowSize > 0
    BY <1>1, <2>1
  <2>3. k = seq
    BY <1>1, <2>1, <2>2, SameResidue, Zenon
  <2> QED BY <2>3 DEF k
<1>4. ASSUME seq \in Held(w) PROVE ~win_cellEmpty(w, seq)
  <2>1. PICK i \in Cells : w.cells[i] = seq
    BY <1>4 DEF Held
  <2>2. i = seq % WindowSize
    BY <1>1, <2>1 DEF Started
  <2> QED BY <1>1, <1>2, <2>1, <2>2 DEF win_cellEmpty
<1>5. ASSUME ~win_cellEmpty(w, seq) PROVE seq \in Held(w)
  BY <1>2, <1>3, <1>5, <1>1 DEF win_cellEmpty, Held
<1> QED BY <1>4, <1>5

LEMMA StoreStarted ==
    ASSUME NEW s \in 1 .. IntMax, NEW w, Started(w, s),
           NEW seq \in w.lower .. s - 1, seq < w.lower + WindowSize, seq \notin Held(w)
    PROVE  /\ Started(Store(w, seq), s)
           /\ Store(w, seq).lower = w.lower
           /\ Store(w, seq).current = IF seq >= w.current THEN seq ELSE w.current
           /\ Held(Store(w, seq)) = Held(w) \cup {seq}
<1> DEFINE v == Store(w, seq)
           j == seq % WindowSize
<1>1. /\ w \in [lower : Int, current : Int, upper : Int, cells : [Cells -> Int]]
      /\ w.lower \in 1 .. s /\ w.current \in 0 .. s - 1 /\ w.current # -1
      /\ w.upper \in Int
      /\ seq \in 0 .. IntMax /\ seq \in Int /\ seq # Empty
  BY DEF Started, Empty
<1>2. /\ v.lower = w.lower /\ v.upper = w.upper
      /\ v.current = IF seq >= w.current THEN seq ELSE w.current
      /\ v.cells = [w.cells EXCEPT ![j] = seq]
      /\ v = [lower |-> v.lower, current |-> v.current, upper |-> v.upper, cells |-> v.cells]
  BY <1>1, StoreUsed
<1>3. j \in Cells /\ w.cells[j] = Empty
  BY <1>1, Index, CellOf DEF win_cellEmpty, Started
<1>4. v.cells \in [Cells -> Int] /\ \A i \in Cells : v.cells[i] = IF i = j THEN seq ELSE w.cells[i]
  BY <1>1, <1>2, <1>3
<1> HIDE DEF v
<1>5. v \in [lower : 1 .. s, current : 0 .. s - 1, upper : Int, cells : [Cells -> Int]]
  <2>1. v.lower \in 1 .. s /\ v.current \in 0 .. s - 1 /\ v.upper \in Int
    BY <1>1, <1>2
  <2> QED BY <1>2, <1>4, <2>1
<1>6. \A i \in Cells : v.cells[i] # Empty =>
        /\ v.cells[i] \in v.lower .. s - 1
        /\ v.cells[i] < v.lower + WindowSize
        /\ i = v.cells[i] % WindowSize
  BY <1>1, <1>2, <1>4 DEF Started
<1>7. Started(v, s)
  BY <1>1, <1>2, <1>5, <1>6 DEF Started
<1>8. Held(v) = Held(w) \cup {seq}
  <2>1. \A k \in Held(v) : k \in Held(w) \cup {seq}
    BY <1>4 DEF Held
  <2>2. \A k \in Held(w) : k \in Held(v)
    BY <1>3, <1>4 DEF Held
  <2>3. seq \in Held(v)
    BY <1>1, <1>3, <1>4 DEF Held
  <2> QED BY <2>1, <2>2, <2>3
<1> QED BY <1>2, <1>7, <1>8 DEF v

LEMMA AddStarted ==
    ASSUME NEW s \in 1 .. IntMax, NEW w, Started(w, s), NEW seq \in 1 .. s - 1
    PROVE  /\ Started(win_add(w, seq), s)
           /\ win_add(w, seq).lower = w.lower
           /\ \/ Held(win_add(w, seq)) = Held(w)
              \/ /\ seq \in (w.lower .. w.lower + WindowSize - 1) \ Held(w)
                 /\ win_add(w, seq) = Store(w, seq)
                 /\ Held(win_add(w, seq)) = Held(w) \cup {seq}
<1>1. /\ w.lower \in 1 .. s /\ w.lower \in 0 .. IntMax /\ w.lower \in Int
      /\ w.upper = Signed(w.lower + WindowSize) /\ w.upper \in Int
      /\ seq \in Int /\ seq \in 0 .. IntMax
  BY DEF Started
<1>2. Unsigned(w.lower) = w.lower /\ Unsigned(w.upper) = w.lower + WindowSize
  BY <1>1, Small, UpperEdge
<1>3. CASE seq < w.lower
  BY <1>1, <1>2, <1>3 DEF win_add
<1>4. CASE seq >= w.lower /\ seq >= w.lower + WindowSize
  <2> DEFINE k == Signed(w.upper - 1)
             v == [w EXCEPT !.current = k]
  <2>1. win_add(w, seq) = v
    BY <1>1, <1>2, <1>4 DEF win_add
  <2>2. k \in 0 .. s - 1
    <3>1. w.lower + WindowSize <= IntMax
      BY <1>1, <1>4
    <3>2. w.upper = w.lower + WindowSize
      BY <1>1, <3>1, UpperEdge
    <3>3. w.upper - 1 \in 0 .. s - 1 /\ w.upper - 1 \in 0 .. IntMax
      BY <1>1, <1>4, <3>1, <3>2
    <3> QED BY <3>3, Small
  <2> HIDE DEF k
  <2>3. v.lower = w.lower /\ v.upper = w.upper /\ v.cells = w.cells
    BY DEF Started
  <2>4. v \in [lower : 1 .. s, current : 0 .. s - 1, upper : Int, cells : [Cells -> Int]]
    BY <2>2 DEF Started
  <2> HIDE DEF v
  <2>5. Started(v, s) /\ Held(v) = Held(w)
    BY <2>3, <2>4 DEF Started, Held
  <2> QED BY <2>1, <2>3, <2>5
<1>5. CASE /\ seq >= w.lower /\ seq < w.lower + WindowSize
           /\ ~win_cellEmpty(w, seq)
  BY <1>1, <1>2, <1>5 DEF win_add
<1>6. CASE /\ seq >= w.lower /\ seq < w.lower + WindowSize
           /\ win_cellEmpty(w, seq)
  <2>1. win_add(w, seq) = Store(w, seq)
    BY <1>1, <1>2, <1>6 DEF win_add
  <2>2. seq \in w.lower .. s - 1 /\ seq \in w.lower .. w.lower + WindowSize - 1
    BY <1>1, <1>6
  <2>3. seq \notin Held(w)
    BY <1>1, <1>6, <2>2, CellOf
  <2>4. /\ Started(Store(w, seq), s)
        /\ Store(w, seq).lower = w.lower
        /\ Held(Store(w, seq)) = Held(w) \cup {seq}
    BY <1>6, <2>2, <2>3, StoreStarted
  <2> QED BY <2>1, <2>2, <2>3, <2>4
<1> QED BY <1>1, <1>3, <1>4, <1>5, <1>6

LEMMA AddNew ==
    ASSUME NEW s \in 1 .. IntMax, NEW w, Started(w, s),
           NEW seq \in w.lower .. s - 1, seq < w.lower + WindowSize, seq \notin Held(w)
    PROVE  win_add(w, seq) = Store(w, seq)
<1>1. /\ w.lower \in 0 .. IntMax /\ w.lower \in Int
      /\ w.upper = Signed(w.lower + WindowSize)
      /\ seq \in Int /\ seq \in w.lower .. w.lower + WindowSize - 1 /\ seq <= IntMax
  BY DEF Started
<1>2. Unsigned(w.lower) = w.lower /\ Unsigned(w.upper) = w.lower + WindowSize
  BY <1>1, Small, UpperEdge
<1>3. win_cellEmpty(w, seq)
  BY <1>1, CellOf
<1> QED BY <1>1, <1>2, <1>3 DEF win_add

(***************************************************************************)
(* A window in use stays one when the server's next number rises.          *)
(***************************************************************************)
LEMMA StartedLater ==
    ASSUME NEW s \in 1 .. IntMax, s + 1 <= IntMax, NEW w, Started(w, s)
    PROVE  Started(w, s + 1)
<1>1. w \in [lower : 1 .. s + 1, current : 0 .. s, upper : Int, cells : [Cells -> Int]]
  BY DEF Started
<1>2. \A i \in Cells : w.cells[i] # Empty => w.cells[i] \in w.lower .. s
  <2>1. w.lower \in Int
    BY <1>1
  <2> QED BY <2>1 DEF Started
<1>3. s + 1 - 1 = s
  OBVIOUS
<1> QED BY <1>1, <1>2, <1>3 DEF Started

(***************************************************************************)
(* The first packet of a window moves it to itself.                        *)
(***************************************************************************)
LEMMA InitHeld == Held(win_init) = {} /\ win_init.lower = 0 /\ win_init.current = -1
BY DEF Held, win_init

LEMMA AddFirst ==
    ASSUME NEW n \in 0 .. WindowSize - 1
    PROVE  win_add(win_init, n) = Store(win_init, n)
<1>1. n \in 0 .. IntMax /\ 0 \in 0 .. IntMax /\ WindowSize \in 0 .. IntMax /\ n \in Int
  OBVIOUS
<1>2. Unsigned(win_init.lower) = 0 /\ Unsigned(win_init.upper) = WindowSize
  BY <1>1, Small DEF win_init
<1>3. win_cellEmpty(win_init, n)
  BY <1>1, Index DEF win_cellEmpty, win_init
<1> QED BY <1>1, <1>2, <1>3 DEF win_add

LEMMA ServerFirst ==
    /\ Started(win_add(win_init, 1), 2)
    /\ win_add(win_init, 1).lower = 1
    /\ win_add(win_init, 1).current = 1
    /\ Held(win_add(win_init, 1)) = {1}
<1> DEFINE v == win_add(win_init, 1)
           j == 1 % WindowSize
<1>1. 1 \in 0 .. IntMax /\ 2 \in 1 .. IntMax /\ 1 \in 0 .. WindowSize - 1
  OBVIOUS
<1>2. j \in Cells /\ win_init.cells = [i \in Cells |-> Empty]
  BY <1>1, Index DEF win_init
<1>3. v = [lower |-> 1, current |-> 1, upper |-> Signed(1 + WindowSize),
           cells |-> [win_init.cells EXCEPT ![j] = 1]]
  BY <1>1, AddFirst, StoreFirst
<1>4. /\ v.lower = 1 /\ v.current = 1 /\ v.upper = Signed(1 + WindowSize)
      /\ v.cells \in [Cells -> Int] /\ Signed(1 + WindowSize) \in Int
      /\ \A i \in Cells : v.cells[i] = IF i = j THEN 1 ELSE Empty
  BY <1>1, <1>2, <1>3, UpperEdge DEF Empty
<1>5. v \in [lower : 1 .. 2, current : 0 .. 1, upper : Int, cells : [Cells -> Int]]
  BY <1>3, <1>4
<1> HIDE DEF v
<1>6. \A i \in Cells : v.cells[i] # Empty =>
        v.cells[i] \in 1 .. 1 /\ v.cells[i] < 1 + WindowSize /\ i = v.cells[i] % WindowSize
  BY <1>4
<1>7. Started(v, 2)
  BY <1>4, <1>5, <1>6 DEF Started
<1>8. Held(v) = {1}
  BY <1>2, <1>4 DEF Held, Empty
<1> QED BY <1>4, <1>7, <1>8 DEF v

LEMMA ClientFirst ==
    ASSUME NEW s \in 1 .. IntMax
    PROVE  LET v == win_deQueue(win_add(win_init, 0))
           IN  Started(v, s) /\ v.lower = 1 /\ Held(v) = {}
<1> DEFINE u == win_add(win_init, 0)
           v == win_deQueue(u)
           j == 0 % WindowSize
<1>1. /\ 0 \in 0 .. IntMax /\ 1 \in 0 .. IntMax /\ 0 \in 0 .. WindowSize - 1
  OBVIOUS
<1>2. j \in Cells /\ win_init.cells = [i \in Cells |-> Empty]
  BY <1>1, Index DEF win_init
<1>3. u = [lower |-> 0, current |-> 0, upper |-> Signed(0 + WindowSize),
           cells |-> [win_init.cells EXCEPT ![j] = 0]]
  BY <1>1, AddFirst, StoreFirst
<1>4. /\ Signed(0 + WindowSize) \in Int /\ Signed(1 + WindowSize) \in Int
      /\ u.lower = 0 /\ u.current = 0 /\ u.cells \in [Cells -> Int]
      /\ \A i \in Cells : u.cells[i] = IF i = j THEN 0 ELSE Empty
  BY <1>1, <1>2, <1>3, UpperEdge DEF Empty
<1>5. u \in [lower : 0 .. IntMax, current : Int, upper : Int, cells : [Cells -> Int]]
  BY <1>1, <1>3, <1>4
<1> HIDE DEF u
<1>6. v = [lower |-> 1, current |-> 0, upper |-> Signed(1 + WindowSize), cells |-> Kept(u, 1)]
  BY <1>1, <1>4, <1>5, RR DEF win_deQueue
<1>7. \A i \in Cells : Kept(u, 1)[i] = Empty
  BY <1>4 DEF Kept, Empty
<1>8. Kept(u, 1) \in [Cells -> Int]
  BY <1>4 DEF Kept, Empty
<1>9. /\ v \in [lower : 1 .. s, current : 0 .. s - 1, upper : Int, cells : [Cells -> Int]]
      /\ v.lower = 1 /\ v.upper = Signed(1 + WindowSize) /\ v.cells = Kept(u, 1)
  BY <1>4, <1>6, <1>8
<1> HIDE DEF v
<1>10. Started(v, s) /\ Held(v) = {}
  BY <1>7, <1>9 DEF Started, Held
<1> QED BY <1>9, <1>10 DEF v, u

-----------------------------------------------------------------------------
ServerMove == [Server!Next]_<<swin.lower, Held(swin)>>
ClientMove == [Client!Next]_<<cwin.lower, Held(cwin)>>

LEMMA SendMoves ==
    ASSUME WidthInv, Send
    PROVE  ServerWidth' /\ ServerMove
<1>1. /\ sseq \in 1 .. IntMax /\ sseq \in Int
      /\ ~win_isFull(swin) /\ swin' = win_add(swin, sseq) /\ sseq' = Unsigned(sseq + 1)
  BY DEF WidthInv, ServerWidth, Send
<1>2. CASE sseq = 1
  <2>1. swin = win_init
    BY <1>2 DEF WidthInv, ServerWidth
  <2>2. 2 \in 0 .. IntMax /\ sseq + 1 = 2
    BY <1>2
  <2>3. sseq' = 2
    BY <1>1, <2>2, Small
  <2>4. ServerWidth'
    BY <1>1, <1>2, <2>1, <2>2, <2>3, ServerFirst DEF ServerWidth
  <2>5. /\ swin.lower = 0 /\ Held(swin) = {}
        /\ swin'.lower = 1 /\ Held(swin') = {1} /\ Held(swin)' = {1}
    BY <1>1, <1>2, <2>1, InitHeld, ServerFirst DEF Held
  <2>6. 1 \in Server!Frame
    BY <2>5 DEF Server!Frame
  <2>7. Server!First(1)
    BY <2>5, <2>6 DEF Server!First
  <2> QED BY <2>4, <2>6, <2>7 DEF Server!Next, ServerMove
<1>3. CASE sseq > 1
  <2>1. /\ Started(swin, sseq) /\ swin.lower < sseq /\ swin.current = sseq - 1
        /\ swin.lower \in 1 .. sseq /\ swin.lower \in 0 .. IntMax /\ swin.lower \in Int
        /\ swin.upper = Signed(swin.lower + WindowSize)
    BY <1>1, <1>3 DEF WidthInv, ServerWidth, Started
  <2>2. sseq < swin.upper
    BY <1>1, <2>1, UpperEdge DEF win_isFull
  <2>3. swin.upper = swin.lower + WindowSize /\ swin.lower + WindowSize <= IntMax
    BY <1>1, <2>1, <2>2, UpperEdge
  <2>4. sseq + 1 \in 1 .. IntMax /\ sseq + 1 \in 0 .. IntMax /\ sseq' = sseq + 1
    BY <1>1, <2>1, <2>2, <2>3, Small
  <2>5. Started(swin, sseq + 1)
    BY <1>1, <2>1, <2>4, StartedLater
  <2>6. sseq \notin Held(swin)
    BY <1>1, <2>1 DEF Started, Held
  <2>7. swin' = Store(swin, sseq)
    BY <1>1, <2>1, <2>2, <2>3, <2>4, <2>5, <2>6, AddNew
  <2>8. /\ Started(swin', sseq + 1) /\ swin'.lower = swin.lower /\ swin'.current = sseq
        /\ Held(swin') = Held(swin) \cup {sseq}
    BY <1>1, <2>1, <2>2, <2>3, <2>4, <2>5, <2>6, <2>7, StoreStarted
  <2>9. ServerWidth'
    BY <1>1, <2>1, <2>2, <2>3, <2>4, <2>8 DEF ServerWidth
  <2>10. Held(swin)' = Held(swin) \cup {sseq} /\ sseq \in Server!Frame
    BY <1>1, <2>1, <2>2, <2>3, <2>8 DEF Held, Server!Frame
  <2>11. Server!Add(sseq)
    BY <2>6, <2>8, <2>10 DEF Server!Add
  <2> QED BY <2>9, <2>10, <2>11 DEF Server!Next, ServerMove
<1> QED BY <1>1, <1>2, <1>3

LEMMA AcknowledgeMoves ==
    ASSUME WidthInv, NEW n \in 1 .. WindowSize, Acknowledge(n)
    PROVE  ServerWidth' /\ ServerMove
<1> DEFINE rr == cwin.lower - n
<1>1. rr >= 1 /\ swin' = win_RR(swin, rr) /\ sseq' = sseq /\ sseq \in 1 .. IntMax
  BY DEF Acknowledge, WidthInv, ServerWidth
<1>2. cwin.lower \in 0 .. sseq /\ rr \in 1 .. sseq - 1
  BY <1>1, InitHeld DEF WidthInv, ClientWidth, Started
<1>3. /\ Started(swin, sseq) /\ swin.lower < sseq /\ sseq <= swin.lower + WindowSize
      /\ swin.current = sseq - 1
      /\ swin \in [lower : 0 .. IntMax, current : Int, upper : Int, cells : [Cells -> Int]]
      /\ swin.lower \in 1 .. sseq
  BY <1>1, <1>2 DEF WidthInv, ServerWidth, Started
<1> HIDE DEF rr
<1>4. CASE rr <= swin.lower
  <2>1. swin' = swin
    BY <1>1, <1>2, <1>3, <1>4, RR
  <2>2. Held(swin)' = Held(swin) /\ swin'.lower = swin.lower
    BY <2>1 DEF Held
  <2> QED BY <1>1, <1>2, <1>3, <2>1, <2>2 DEF ServerWidth, ServerMove
<1>5. CASE rr > swin.lower
  <2>0. rr \in Int /\ sseq \in Int /\ swin.lower \in Int
        /\ rr <= sseq - 1 /\ sseq <= swin.lower + WindowSize
    BY <1>1, <1>2, <1>3
  <2>1. rr \in swin.lower + 1 .. sseq
    BY <2>0, <1>5
  <2>2. /\ Started(swin', sseq) /\ swin'.lower = rr /\ swin'.current = swin.current
        /\ Held(swin') = Held(swin) \ (swin.lower .. rr - 1)
    BY <1>1, <1>3, <2>1, RRStarted
  <2>3. ServerWidth'
    BY <1>1, <1>2, <1>3, <2>1, <2>2 DEF ServerWidth
  <2>4. Held(swin)' = Held(swin')
    BY DEF Held
  <2>5. Server!Advance(rr)
    BY <2>2, <2>4 DEF Server!Advance
  <2>6. rr \in swin.lower + 1 .. swin.lower + WindowSize
    BY <1>5, <2>0
  <2> QED BY <2>3, <2>5, <2>6 DEF Server!Next, ServerMove
<1> QED BY <1>2, <1>3, <1>4, <1>5

LEMMA ClientMoves ==
    ASSUME WidthInv, FileOk \/ Receive \/ Dequeue
    PROVE  ClientWidth' /\ ClientMove /\ UNCHANGED <<swin, sseq>>
<1>1. sseq' = sseq /\ swin' = swin /\ sseq \in 1 .. IntMax
  BY DEF FileOk, Receive, Dequeue, WidthInv, ServerWidth
<1>2. Held(cwin)' = Held(cwin')
  BY DEF Held
<1>3. CASE FileOk
  <2>1. Started(cwin', sseq) /\ cwin'.lower = 1 /\ Held(cwin') = {}
    BY <1>1, <1>3, ClientFirst DEF FileOk
  <2>2. cwin.lower = 0 /\ Held(cwin) = {}
    BY <1>3, InitHeld DEF FileOk
  <2>3. Client!Advance(1) /\ 1 \in cwin.lower + 1 .. cwin.lower + WindowSize
    BY <1>2, <2>1, <2>2 DEF Client!Advance
  <2> QED BY <1>1, <2>1, <2>3 DEF ClientWidth, Client!Next, ClientMove
<1>4. CASE Receive
  <2>1. PICK n \in 1 .. 2 * WindowSize : sseq - n >= 1 /\ cwin' = win_add(cwin, sseq - n)
    BY <1>4 DEF Receive
  <2> DEFINE seq == sseq - n
  <2>2. seq \in 1 .. sseq - 1 /\ cwin' = win_add(cwin, seq)
    BY <1>1, <2>1
  <2>3. Started(cwin, sseq)
    BY <1>4 DEF Receive, WidthInv, ClientWidth
  <2> HIDE DEF seq
  <2>4. /\ Started(cwin', sseq) /\ cwin'.lower = cwin.lower
        /\ \/ Held(cwin') = Held(cwin)
           \/ /\ seq \in (cwin.lower .. cwin.lower + WindowSize - 1) \ Held(cwin)
              /\ Held(cwin') = Held(cwin) \cup {seq}
    BY <1>1, <2>2, <2>3, AddStarted
  <2>5. CASE Held(cwin') = Held(cwin)
    BY <1>1, <1>2, <2>4, <2>5 DEF ClientWidth, ClientMove
  <2>6. CASE /\ seq \in (cwin.lower .. cwin.lower + WindowSize - 1) \ Held(cwin)
             /\ Held(cwin') = Held(cwin) \cup {seq}
    <3>1. Client!Add(seq) /\ seq \in Client!Frame
      BY <1>2, <2>4, <2>6 DEF Client!Add, Client!Frame
    <3> QED BY <1>1, <2>4, <3>1 DEF ClientWidth, ClientMove, Client!Next
  <2> QED BY <2>4, <2>5, <2>6
<1>5. CASE Dequeue
  <2>1. cwin # win_init
    <3>1. ASSUME cwin = win_init PROVE FALSE
      <4>1. win_cellEmpty(win_init, 0)
        <5>1. 0 \in 0 .. IntMax
          OBVIOUS
        <5> QED BY <5>1, Index DEF win_cellEmpty, win_init
      <4> QED BY <1>5, <3>1, <4>1, InitHeld DEF Dequeue, win_lowest_cell_isFull
    <3> QED BY <3>1
  <2>2. Started(cwin, sseq)
    BY <2>1 DEF WidthInv, ClientWidth
  <2>3. /\ cwin.lower \in 1 .. sseq /\ cwin.lower \in Int
        /\ cwin \in [lower : 0 .. IntMax, current : Int, upper : Int, cells : [Cells -> Int]]
    BY <1>1, <2>2 DEF Started
  <2>4. cwin.lower \in Held(cwin)
    BY <1>1, <1>5, <2>2, <2>3, CellOf DEF Dequeue, win_lowest_cell_isFull
  <2>5. cwin.lower <= sseq - 1
    BY <1>1, <2>2, <2>4 DEF Started, Held
  <2> DEFINE rr == cwin.lower + 1
  <2>6. cwin' = win_RR(cwin, rr)
    BY <1>5 DEF Dequeue, win_deQueue
  <2>7. rr \in cwin.lower + 1 .. sseq /\ rr \in cwin.lower + 1 .. cwin.lower + WindowSize
    BY <1>1, <2>3, <2>5
  <2> HIDE DEF rr
  <2>8. /\ Started(cwin', sseq) /\ cwin'.lower = rr
        /\ Held(cwin') = Held(cwin) \ (cwin.lower .. rr - 1)
    BY <1>1, <2>2, <2>6, <2>7, RRStarted
  <2>9. Client!Advance(rr)
    BY <1>2, <2>8 DEF Client!Advance
  <2> QED BY <1>1, <2>7, <2>8, <2>9 DEF ClientWidth, Client!Next, ClientMove
<1> QED BY <1>1, <1>3, <1>4, <1>5

LEMMA NextMoves == WidthInv /\ [Next]_vars => WidthInv' /\ ServerMove /\ ClientMove
<1>1. SUFFICES ASSUME WidthInv, [Next]_vars PROVE WidthInv' /\ ServerMove /\ ClientMove
  OBVIOUS
<1>2. ASSUME UNCHANGED swin PROVE ServerMove
  BY <1>2 DEF ServerMove, Held
<1>3. ASSUME UNCHANGED cwin PROVE ClientMove
  BY <1>3 DEF ClientMove, Held
<1>4. CASE UNCHANGED vars
  BY <1>1, <1>2, <1>3, <1>4 DEF vars, WidthInv, ServerWidth, ClientWidth, Started
<1>5. CASE FileOk \/ Receive \/ Dequeue
  <2>1. ClientWidth' /\ ClientMove /\ UNCHANGED <<swin, sseq>>
    BY <1>1, <1>5, ClientMoves
  <2>2. ServerWidth'
    BY <1>1, <2>1 DEF WidthInv, ServerWidth
  <2> QED BY <1>2, <2>1, <2>2 DEF WidthInv
<1>6. CASE Send
  <2>1. ServerWidth' /\ ServerMove /\ UNCHANGED cwin
    BY <1>1, <1>6, SendMoves DEF Send
  <2>2. sseq' \in 1 .. IntMax /\ sseq \in 1 .. IntMax /\ sseq' = Unsigned(sseq + 1)
    BY <1>1, <1>6, <2>1 DEF WidthInv, ServerWidth, Send
  <2>3. sseq' = sseq + 1
    <3>1. sseq = IntMax => Unsigned(sseq + 1) = IntMax + 1
      BY Modulo DEF Unsigned, Modulus
    <3> QED BY <2>2, <3>1, Small
  <2>4. ClientWidth'
    BY <1>1, <2>1, <2>2, <2>3, StartedLater DEF WidthInv, ClientWidth
  <2> QED BY <1>3, <2>1, <2>4 DEF WidthInv
<1>7. ASSUME NEW n \in 1 .. WindowSize, Acknowledge(n)
      PROVE  WidthInv' /\ ServerMove /\ ClientMove
  <2>1. ServerWidth' /\ ServerMove
    BY <1>1, <1>7, AcknowledgeMoves
  <2>2. sseq' = sseq /\ cwin' = cwin
    BY <1>7 DEF Acknowledge
  <2>3. ClientWidth'
    BY <1>1, <2>2 DEF WidthInv, ClientWidth
  <2> QED BY <1>3, <2>1, <2>2, <2>3 DEF WidthInv
<1> QED BY <1>1, <1>4, <1>5, <1>6, <1>7 DEF Next

LEMMA InitWidth == Init => WidthInv
BY DEF Init, WidthInv, ServerWidth, ClientWidth

LEMMA WidthInvariance == Spec => []WidthInv
BY InitWidth, NextMoves, PTL DEF Spec

LEMMA WidthTypes == WidthInv => TypeOK
<1> SUFFICES ASSUME WidthInv PROVE TypeOK
  OBVIOUS
<1>1. sseq \in 1 .. IntMax
  BY DEF WidthInv, ServerWidth
<1>2. Unsigned(-1) = 2 * IntMax + 1
  BY Modulo DEF Unsigned, Modulus
<1>3. win_init \in Window
  BY <1>2 DEF Window, win_init, Empty
<1>4. ASSUME NEW w, Started(w, sseq) PROVE w \in Window
  <2>1. w.lower \in 0 .. IntMax /\ w.current \in 0 .. IntMax /\ w.lower \in Int
    BY <1>1, <1>4 DEF Started
  <2>2. w.upper \in -IntMax - 1 .. IntMax
    BY <1>1, <1>4, <2>1, UpperEdge DEF Started
  <2>3. w.cells \in [Cells -> Empty .. Unsigned(-1)]
    BY <1>1, <1>2, <1>4, <2>1 DEF Started, Empty
  <2>4. w = [lower |-> w.lower, current |-> w.current, upper |-> w.upper, cells |-> w.cells]
    BY <1>4 DEF Started
  <2> QED BY <2>1, <2>2, <2>3, <2>4 DEF Window
<1>5. swin \in Window /\ swin.current < IntMax
  BY <1>1, <1>3, <1>4, InitHeld DEF WidthInv, ServerWidth
<1>6. cwin \in Window
  BY <1>3, <1>4 DEF WidthInv, ClientWidth
<1> QED BY <1>1, <1>2, <1>5, <1>6 DEF TypeOK

(***************************************************************************)
(* No number of either window leaves its type, and current + 1, the one    *)
(* sum of signed numbers, does not overflow (win_isFull).                  *)
(***************************************************************************)
THEOREM NoOverflow == Spec => []TypeOK
BY WidthInvariance, WidthTypes, PTL

(***************************************************************************)
(* The server's window is a sliding frame over plain numbers: each packet  *)
(* sent is taken up, and leaves only when the frame passes it (win_add,    *)
(* win_RR, win_isFull).                                                    *)
(***************************************************************************)
THEOREM ServerSlides == Spec => ServerFrame
<1>1. Init => Server!Init
  BY InitHeld DEF Init, Server!Init
<1>2. WidthInv /\ [Next]_vars => [Server!Next]_<<swin.lower, Held(swin)>>
  BY NextMoves DEF ServerMove
<1> QED BY <1>1, <1>2, WidthInvariance, PTL DEF Spec, ServerFrame, Server!Spec

(***************************************************************************)
(* So is the client's, in whatever order the packets come (win_add,        *)
(* win_deQueue).                                                           *)
(***************************************************************************)
THEOREM ClientSlides == Spec => ClientFrame
<1>1. Init => Client!Init
  BY InitHeld DEF Init, Client!Init
<1>2. WidthInv /\ [Next]_vars => [Client!Next]_<<cwin.lower, Held(cwin)>>
  BY NextMoves DEF ClientMove
<1> QED BY <1>1, <1>2, WidthInvariance, PTL DEF Spec, ClientFrame, Client!Spec
=============================================================================
