--------------------------- MODULE IoCommon_proofs ---------------------------
(***************************************************************************)
(* Proofs about IoCommon, for every number and size of buffers and every   *)
(* width of the byte counter.  The invariants are proved in the order      *)
(* TypeOK, QueueWaitsForWrite, QueueIsBacklog, each from those before it;  *)
(* the three together give the refinement of SendStream.                   *)
(***************************************************************************)
EXTENDS IoCommon, Arithmetic, TLAPS

\* The byte counter stays within its width whatever is added or subtracted.
LEMMA ModRange ==
    ASSUME NEW x \in Int
    PROVE  x % ByteModulus \in 0..(ByteModulus - 1)
  BY QueueAssumption

\* The front of a queue that holds something, and what is left without it.
LEMMA FrontAndRest ==
    ASSUME NEW S, NEW q \in Seq(S), q # <<>>
    PROVE  /\ Head(q) \in S
           /\ Head(q) = q[1]
           /\ Tail(q) \in Seq(S)
           /\ Len(q) \in Nat \ {0}
           /\ Len(Tail(q)) = Len(q) - 1
           /\ \A i \in 1..(Len(q) - 1) : Tail(q)[i] = q[i + 1]
  OBVIOUS

\* The two flags are Booleans whatever runs.
LEMMA FlagsTyped == Spec => [](io_started \in BOOLEAN /\ write_in_progress \in BOOLEAN)
<1> DEFINE Flags == io_started \in BOOLEAN /\ write_in_progress \in BOOLEAN
<1>1. Init => Flags
  BY DEF Init
<1>2. Flags /\ [Next]_ioVars => Flags'
  BY Zenon DEF Next, ioVars, SetIoStarted, SetIoStopped, Clear, DoClear,
     StartWrite, StartWriteStopped, StartWriteQueued, StartWriteStarted,
     WriteNextElem, WriteNextStopped, WriteNextIdle, WriteNextQueued, WriteFailed
<1> QED
  BY <1>1, <1>2, PTL DEF Spec

\* io_common and output_queue keep every field in its type, and a buffer is
\* only being written if it was handed over.
THEOREM TypeCorrect == Spec => []TypeOK
<1> USE QueueAssumption
<1> DEFINE Data == /\ outq \in Seq(1..MaxSends)
                   /\ num_bytes \in 0..(ByteModulus - 1)
                   /\ nsent \in 0..MaxSends
                   /\ handed \subseteq 1..MaxSends
                   /\ writing \subseteq handed
<1>1. Init => Data
  BY DEF Init, QueueInit
<1>2. Data /\ [Next]_ioVars => Data'
  <2> SUFFICES ASSUME Data, [Next]_ioVars PROVE Data'
    OBVIOUS
  <2>1. CASE SetIoStarted
    BY <2>1 DEF SetIoStarted
  <2>2. CASE SetIoStopped
    BY <2>2 DEF SetIoStopped
  <2>3. CASE Clear
    BY <2>3 DEF Clear, DoClear, QueueClear
  <2>4. CASE StartWriteStopped
    BY <2>4 DEF StartWriteStopped, DoClear, QueueClear
  <2>5. CASE StartWriteQueued
    <3>1. nsent + 1 \in 1..MaxSends
      BY <2>5 DEF StartWriteQueued
    <3>2. num_bytes + BufSize[nsent + 1] \in Int
      BY <3>1
    <3>3. num_bytes' \in 0..(ByteModulus - 1)
      BY <2>5, <3>2, ModRange DEF StartWriteQueued, AddElement
    <3>4. outq' \in Seq(1..MaxSends)
      BY <2>5, <3>1 DEF StartWriteQueued, AddElement
    <3> QED
      BY <2>5, <3>1, <3>3, <3>4 DEF StartWriteQueued
  <2>6. CASE StartWriteStarted
    BY <2>6 DEF StartWriteStarted, HandOver
  <2>7. ASSUME NEW w \in writing, WriteNextStopped(w) PROVE Data'
    BY <2>7 DEF WriteNextStopped, DoClear, QueueClear
  <2>8. ASSUME NEW w \in writing, WriteNextIdle(w) PROVE Data'
    BY <2>8 DEF WriteNextIdle
  <2>9. ASSUME NEW w \in writing, WriteNextQueued(w) PROVE Data'
    <3>1. /\ Head(outq) \in 1..MaxSends
          /\ outq' \in Seq(1..MaxSends)
      BY <2>9, FrontAndRest DEF WriteNextQueued, GetNextElement
    <3>2. num_bytes - BufSize[Head(outq)] \in Int
      BY <3>1
    <3>3. num_bytes' \in 0..(ByteModulus - 1)
      BY <2>9, <3>2, ModRange DEF WriteNextQueued, GetNextElement
    <3> QED
      BY <2>9, <3>1, <3>3 DEF WriteNextQueued, HandOver
  <2>10. ASSUME NEW w \in writing, WriteFailed(w) PROVE Data'
    BY <2>10 DEF WriteFailed
  <2>11. CASE UNCHANGED ioVars
    BY <2>11 DEF ioVars
  <2> QED
    BY <2>1, <2>2, <2>3, <2>4, <2>5, <2>6, <2>7, <2>8, <2>9, <2>10, <2>11
       DEF Next, StartWrite, WriteNextElem
<1>3. Data /\ io_started \in BOOLEAN /\ write_in_progress \in BOOLEAN => TypeOK
  BY DEF TypeOK
<1> QED
  BY <1>1, <1>2, <1>3, FlagsTyped, PTL DEF Spec

-----------------------------------------------------------------------------
\* No send can overtake a queued buffer: the queue is empty whenever
\* m_write_in_progress is false.
THEOREM NothingOvertakes == Spec => []QueueWaitsForWrite
<1>1. Init => QueueWaitsForWrite
  BY DEF Init, QueueInit, QueueWaitsForWrite
<1>2. QueueWaitsForWrite /\ [Next]_ioVars => QueueWaitsForWrite'
  BY DEF QueueWaitsForWrite, Next, ioVars, SetIoStarted, SetIoStopped, Clear,
         DoClear, QueueClear, StartWrite, StartWriteStopped, StartWriteQueued,
         StartWriteStarted, WriteNextElem, WriteNextStopped, WriteNextIdle,
         WriteNextQueued, WriteFailed
<1> QED
  BY <1>1, <1>2, PTL DEF Spec

-----------------------------------------------------------------------------
\* The step of QueueIsBacklog: appending or removing one buffer shifts the
\* backlog by one place, clearing empties it, nothing else touches it.
LEMMA BacklogStep ==
    ASSUME TypeOK, QueueWaitsForWrite, QueueIsBacklog, [Next]_ioVars
    PROVE  QueueIsBacklog'
<1> DEFINE Same == UNCHANGED <<outq, nsent, handed>>
           Empty == outq' = <<>> /\ UNCHANGED <<nsent, handed>>
<1>1. outq \in Seq(1..MaxSends) /\ nsent \in Nat /\ handed \subseteq 1..MaxSends
  BY QueueAssumption DEF TypeOK
<1>2. ASSUME Same PROVE QueueIsBacklog'
  BY <1>2 DEF QueueIsBacklog
<1>3. ASSUME Empty PROVE QueueIsBacklog'
  BY <1>1, <1>3 DEF QueueIsBacklog
<1>4. CASE StartWriteQueued
  <2>1. /\ outq' = Append(outq, nsent + 1)
        /\ nsent' = nsent + 1
        /\ handed' = handed
    BY <1>4 DEF StartWriteQueued, AddElement
  <2>2. /\ Len(outq') = Len(outq) + 1
        /\ \A i \in 1..Len(outq) : outq'[i] = outq[i]
        /\ outq'[Len(outq) + 1] = nsent + 1
    BY <1>1, <2>1
  <2> QED
    BY <1>1, <2>1, <2>2 DEF QueueIsBacklog
<1>5. CASE StartWriteStarted
  <2>1. /\ outq = <<>>
        /\ UNCHANGED outq
        /\ nsent' = nsent + 1
        /\ handed' = handed \cup {nsent + 1}
    BY <1>5 DEF StartWriteStarted, HandOver, QueueWaitsForWrite
  <2> QED
    BY <1>1, <2>1 DEF QueueIsBacklog
<1>6. ASSUME NEW w \in writing, WriteNextQueued(w) PROVE QueueIsBacklog'
  <2>1. /\ outq # <<>>
        /\ outq' = Tail(outq)
        /\ UNCHANGED nsent
        /\ handed' = handed \cup {Head(outq)}
    BY <1>6 DEF WriteNextQueued, GetNextElement, HandOver
  <2>2. /\ Head(outq) = outq[1]
        /\ Len(outq) \in Nat \ {0}
        /\ Len(outq') = Len(outq) - 1
        /\ \A i \in 1..(Len(outq) - 1) : outq'[i] = outq[i + 1]
    BY <1>1, <2>1, FrontAndRest
  <2>3. Head(outq) = nsent - Len(outq) + 1
    BY <2>2 DEF QueueIsBacklog
  <2>4. Len(outq') <= nsent'
    BY <1>1, <2>1, <2>2 DEF QueueIsBacklog
  <2>5. \A i \in 1..Len(outq') : outq'[i] = nsent' - Len(outq') + i
    <3> SUFFICES ASSUME NEW i \in 1..Len(outq')
                 PROVE  outq'[i] = nsent' - Len(outq') + i
      OBVIOUS
    <3>1. outq'[i] = outq[i + 1] /\ i + 1 \in 1..Len(outq)
      BY <2>2
    <3> QED
      BY <1>1, <2>1, <2>2, <3>1 DEF QueueIsBacklog
  <2>6. \A e \in handed' : e <= nsent' - Len(outq')
    BY <1>1, <2>1, <2>2, <2>3 DEF QueueIsBacklog
  <2> QED
    BY <2>4, <2>5, <2>6 DEF QueueIsBacklog
<1>7. CASE SetIoStarted \/ SetIoStopped \/ UNCHANGED ioVars
  BY <1>2, <1>7 DEF SetIoStarted, SetIoStopped, ioVars
<1>8. CASE Clear \/ StartWriteStopped
  BY <1>3, <1>8 DEF Clear, StartWriteStopped, DoClear, QueueClear
<1>9. ASSUME NEW w \in writing, WriteNextStopped(w) PROVE QueueIsBacklog'
  BY <1>3, <1>9 DEF WriteNextStopped, DoClear, QueueClear
<1>10. ASSUME NEW w \in writing, WriteNextIdle(w) \/ WriteFailed(w)
       PROVE  QueueIsBacklog'
  BY <1>2, <1>10 DEF WriteNextIdle, WriteFailed
<1> QED
  BY <1>4, <1>5, <1>6, <1>7, <1>8, <1>9, <1>10 DEF Next, StartWrite, WriteNextElem

\* Nothing is reordered, lost from the middle of the queue or written twice:
\* the queue is always the tail of what send accepted.
THEOREM BacklogKept == Spec => []QueueIsBacklog
<1>1. Init => QueueIsBacklog
  BY DEF Init, QueueInit, QueueIsBacklog
<1>2. TypeOK /\ QueueWaitsForWrite /\ QueueIsBacklog /\ [Next]_ioVars => QueueIsBacklog'
  BY BacklogStep
<1> QED
  BY <1>1, <1>2, TypeCorrect, NothingOvertakes, PTL DEF Spec

-----------------------------------------------------------------------------
(* The bytes of a queue.  FoldLeft computes them by a recursive function   *)
(* on sets of indices, so its values are first those of a running sum.     *)

Bytes(q) == FoldLeft(LAMBDA sum, e : sum + BufSize[e], 0, q)

\* the function FoldLeft uses: s |-> the bytes at the places in s
SumOver(f, k, q) ==
    f = [s \in SUBSET (1..k) |->
           IF s = {} THEN 0 ELSE f[s \ {Max(s)}] + BufSize[q[Max(s)]]]

\* j |-> the bytes of the first j elements
Running(g, q) ==
    /\ g \in [0..Len(q) -> Nat]
    /\ g[0] = 0
    /\ \A j \in 1..Len(q) : g[j] = g[j - 1] + BufSize[q[j]]

LEMMA ElementInRange ==
    ASSUME NEW S, NEW q \in Seq(S), NEW i \in 1..Len(q)
    PROVE  q[i] \in S
  OBVIOUS

\* Max of a set of indices is its largest element.
LEMMA Largest ==
    ASSUME NEW n \in Nat, NEW S \in SUBSET (1..n), S # {}
    PROVE  Max(S) \in S /\ \A x \in S : x <= Max(S)
<1> DEFINE Bounds == {b \in Nat : \A x \in S : x <= b}
<1>1. n \in Bounds
  OBVIOUS
<1>2. PICK m \in Bounds : \A b \in Bounds : m <= b
  <2> HIDE DEF Bounds
  <2>1. Bounds \in SUBSET Nat
    BY DEF Bounds
  <2> QED
    BY <1>1, <2>1, Least
<1>3. m \in S
  <2> SUFFICES ASSUME m \notin S PROVE FALSE
    OBVIOUS
  <2>1. PICK x \in S : TRUE
    OBVIOUS
  <2>2. x \in 1..n /\ m \in Nat /\ x <= m
    BY <1>2
  <2>3. m - 1 \in Nat
    BY <2>2
  <2>4. \A y \in S : y <= m - 1
    BY <1>2
  <2>5. m - 1 \in Bounds
    BY <2>3, <2>4
  <2> QED
    BY <1>2, <2>2, <2>5
<1>4. \E x \in S : \A y \in S : x >= y
  BY <1>2, <1>3
<1> QED
  BY <1>4 DEF Max

\* The recursion defines a function.
LEMMA SumExists == ASSUME NEW q, NEW n \in Nat PROVE \E f : SumOver(f, n, q)
<1> DEFINE Bad == {k \in Nat : ~ \E f : SumOver(f, k, q)}
<1> SUFFICES ASSUME Bad # {} PROVE FALSE
  OBVIOUS
<1>1. PICK m \in Bad : \A k \in Bad : m <= k
  <2> HIDE DEF Bad
  <2>1. Bad \in SUBSET Nat
    BY DEF Bad
  <2> QED
    BY <2>1, Least
<1>2. m \in Nat /\ ~ \E f : SumOver(f, m, q)
  BY <1>1
<1>3. m # 0
  <2> SUFFICES ASSUME m = 0 PROVE FALSE
    OBVIOUS
  <2>0. SUBSET (1..0) = {{}}
    OBVIOUS
  <2>1. SumOver([s \in {{}} |-> 0], 0, q)
    BY <2>0 DEF SumOver
  <2> QED
    BY <1>2, <2>1
<1>4. m - 1 \in Nat /\ m - 1 \notin Bad
  BY <1>1, <1>2, <1>3
<1>5. PICK f : SumOver(f, m - 1, q)
  BY <1>4
<1> DEFINE g == [s \in SUBSET (1..m) |-> IF m \in s THEN f[s \ {m}] + BufSize[q[m]] ELSE f[s]]
<1>6. ASSUME NEW s \in SUBSET (1..m), s # {}
      PROVE  g[s] = g[s \ {Max(s)}] + BufSize[q[Max(s)]]
  <2>1. Max(s) \in s /\ \A x \in s : x <= Max(s)
    BY <1>2, <1>6, Largest
  <2>2. CASE m \in s
    <3>1. Max(s) = m
      <4> DEFINE x == Max(s)
      <4>1. x \in 1..m /\ m <= x
        BY <2>1, <2>2
      <4> HIDE DEF x
      <4>2. x = m
        BY <1>2, <4>1
      <4> QED
        BY <4>2 DEF x
    <3> QED
      BY <2>2, <3>1
  <2>3. CASE m \notin s
    <3>1. s \in SUBSET (1..(m - 1))
      BY <1>2, <2>3
    <3>2. f[s] = f[s \ {Max(s)}] + BufSize[q[Max(s)]]
      BY <1>5, <1>6, <3>1 DEF SumOver
    <3>3. g[s] = f[s] /\ g[s \ {Max(s)}] = f[s \ {Max(s)}]
      BY <2>3
    <3> QED
      BY <3>2, <3>3
  <2> QED
    BY <2>2, <2>3
<1>7. g[{}] = 0
  <2>1. {} \in SUBSET (1..(m-1)) /\ {} \in SUBSET (1..m)
    OBVIOUS
  <2>2. f[{}] = 0
    BY <1>5, <2>1 DEF SumOver
  <2> QED
    BY <2>1, <2>2
<1>8. SumOver(g, m, q)
  <2> DEFINE h == [s \in SUBSET (1..m) |-> IF s = {} THEN 0 ELSE g[s \ {Max(s)}] + BufSize[q[Max(s)]]]
  <2>1. \A s \in SUBSET (1..m) : g[s] = h[s]
    <3> HIDE DEF g
    <3> QED
      BY <1>6, <1>7
  <2>2. g = h
    <3>1. g = [s \in SUBSET (1..m) |-> g[s]]
      OBVIOUS
    <3>2. h = [s \in SUBSET (1..m) |-> h[s]]
      OBVIOUS
    <3> HIDE DEF g, h
    <3> QED
      BY <2>1, <3>1, <3>2
  <2> QED
    BY <2>2 DEF SumOver
<1> QED
  BY <1>2, <1>8

\* FoldLeft's result is the end of the running sum.
LEMMA BytesAreSum ==
    ASSUME NEW q \in Seq(1..MaxSends)
    PROVE  \E g : Running(g, q) /\ Bytes(q) = g[Len(q)]
<1> DEFINE n == Len(q)
           f == CHOOSE f : SumOver(f, n, q)
           g == [j \in 0..n |-> f[1..j]]
<1>1. n \in Nat /\ DOMAIN q = 1..n
  OBVIOUS
<1>2. SumOver(f, n, q)
  <2> HIDE DEF n
  <2>1. \E e : SumOver(e, n, q)
    BY <1>1, SumExists
  <2> QED
    BY <2>1, Zenon
<1>3. Bytes(q) = f[1..n]
  <2>1. Bytes(q) = (CHOOSE e : SumOver(e, n, q))[DOMAIN q]
    <3> HIDE DEF n
    <3> QED
      BY <1>1 DEF Bytes, FoldLeft, MapThenFoldSet, SumOver
  <2> QED
    BY <1>1, <2>1
<1> HIDE DEF f
<1>4. f[{}] = 0
  <2>1. {} \in SUBSET (1..n)
    OBVIOUS
  <2> QED
    BY <1>2, <2>1 DEF SumOver
<1>5. ASSUME NEW j \in 1..n PROVE f[1..j] = f[1..(j - 1)] + BufSize[q[j]]
  <2> HIDE DEF n
  <2>1. 1..j \in SUBSET (1..n) /\ 1..j # {} /\ j \in 1..j /\ j \in Nat
    <3>1. j \in 1..j /\ j \in Nat /\ j <= n
      BY <1>1
    <3>2. 1..j \in SUBSET (1..n)
      BY <1>1, <3>1
    <3> QED
      BY <3>1, <3>2
  <2>2. Max(1..j) \in 1..j /\ \A x \in 1..j : x <= Max(1..j)
    BY <2>1, Largest
  <2>3. Max(1..j) = j
    <3> DEFINE x == Max(1..j)
    <3>1. x \in 1..j /\ j <= x
      BY <2>1, <2>2
    <3> HIDE DEF x
    <3>2. x = j
      BY <2>1, <3>1
    <3> QED
      BY <3>2 DEF x
  <2>4. (1..j) \ {j} = 1..(j - 1)
    BY <2>1
  <2>5. f[1..j] = f[(1..j) \ {Max(1..j)}] + BufSize[q[Max(1..j)]]
    BY <1>2, <2>1 DEF SumOver
  <2> QED
    BY <2>3, <2>4, <2>5
<1>6. g[0] = 0
  <2>1. 1..0 = {} /\ 0 \in 0..n
    BY <1>1
  <2> QED
    BY <1>4, <2>1
<1>7. \A j \in 1..n : g[j] = g[j - 1] + BufSize[q[j]]
  BY <1>1, <1>5
<1>8. \A j \in 0..n : g[j] \in Nat
  <2> DEFINE Bad == {j \in 0..n : g[j] \notin Nat}
  <2> HIDE DEF n, g
  <2> SUFFICES ASSUME Bad # {} PROVE FALSE
    OBVIOUS
  <2>1. Bad \in SUBSET Nat
    BY <1>1
  <2>2. PICK m \in Bad : \A k \in Bad : m <= k
    <3> HIDE DEF Bad
    <3> QED
      BY <2>1, Least
  <2>3. m \in 1..n /\ g[m] \notin Nat
    BY <1>1, <1>6
  <2>4. m - 1 \in 0..n /\ m - 1 \notin Bad
    BY <1>1, <2>2, <2>3
  <2>5. BufSize[q[m]] \in Nat
    BY <1>1, <2>3, QueueAssumption DEF n
  <2> QED
    BY <1>7, <2>3, <2>4, <2>5
<1>9. g \in [0..n -> Nat]
  BY <1>8
<1>10. Bytes(q) = g[n]
  BY <1>1, <1>3
<1> HIDE DEF g
<1> QED
  BY <1>6, <1>7, <1>9, <1>10 DEF Running

\* What a clear leaves.
LEMMA BytesOfEmpty == Bytes(<<>>) = 0
<1>1. PICK g : Running(g, <<>>) /\ Bytes(<<>>) = g[Len(<<>>)]
  <2>1. <<>> \in Seq(1..MaxSends)
    OBVIOUS
  <2> QED
    BY <2>1, BytesAreSum
<1> QED
  BY <1>1 DEF Running

\* What add_element does to the bytes of the queue.
LEMMA BytesOfLonger ==
    ASSUME NEW q \in Seq(1..MaxSends), NEW e \in 1..MaxSends
    PROVE  Bytes(q) \in Nat /\ Bytes(Append(q, e)) = Bytes(q) + BufSize[e]
<1> DEFINE n == Len(q)
           p == Append(q, e)
<1>1. /\ n \in Nat /\ p \in Seq(1..MaxSends) /\ Len(p) = n + 1 /\ p[n + 1] = e
      /\ \A j \in 1..n : p[j] = q[j]
  OBVIOUS
<1>2. PICK g : Running(g, q) /\ Bytes(q) = g[n]
  BY BytesAreSum
<1>3. PICK h : Running(h, p) /\ Bytes(p) = h[n + 1]
  <2> HIDE DEF p, n
  <2> QED
    BY <1>1, BytesAreSum
<1> HIDE DEF p, n
<1> DEFINE k == [j \in 0..n |-> h[j]]
<1>4. /\ g \in [0..n -> Int] /\ k \in [0..n -> Int] /\ g[n] \in Nat /\ g[0] = 0 /\ k[0] = 0
      /\ k[n] = h[n]
  BY <1>1, <1>2, <1>3 DEF Running, n
<1>5. \A j \in 1..n : g[j] - g[j - 1] = k[j] - k[j - 1]
  <2> SUFFICES ASSUME NEW j \in 1..n PROVE g[j] - g[j - 1] = k[j] - k[j - 1]
    OBVIOUS
  <2>1. g[j] = g[j - 1] + BufSize[q[j]] /\ h[j] = h[j - 1] + BufSize[q[j]]
    BY <1>1, <1>2, <1>3 DEF Running, n
  <2>2. k[j] = h[j] /\ k[j - 1] = h[j - 1] /\ BufSize[q[j]] \in Int
    <3>1. q[j] \in 1..MaxSends
      BY ElementInRange DEF n
    <3>2. BufSize[q[j]] \in Int
      BY <3>1, QueueAssumption
    <3>3. j \in 0..n /\ j - 1 \in 0..n
      BY <1>1
    <3> QED
      BY <3>2, <3>3
  <2>3. g[j - 1] \in Int /\ k[j - 1] \in Int
    BY <1>1, <1>4
  <2> HIDE DEF k
  <2> QED
    BY <2>1, <2>2, <2>3
<1> HIDE DEF k
<1>6. g[n] - g[0] = k[n] - k[0]
  BY <1>1, <1>4, <1>5, SameDifferences
<1>7. k[n] = g[n]
  <2>1. k[n] \in Int
    BY <1>1, <1>4
  <2> QED
    BY <1>4, <1>6, <2>1
<1>8. h[n + 1] = h[n] + BufSize[e]
  <2>1. n + 1 \in 1..Len(p) /\ (n + 1) - 1 = n
    BY <1>1
  <2> QED
    BY <1>1, <1>3, <2>1 DEF Running
<1> QED
  BY <1>2, <1>3, <1>4, <1>7, <1>8 DEF p

\* What get_next_element does to them.
LEMMA BytesOfRest ==
    ASSUME NEW q \in Seq(1..MaxSends), q # <<>>
    PROVE  Bytes(q) \in Nat /\ Bytes(Tail(q)) = Bytes(q) - BufSize[Head(q)]
<1> DEFINE n == Len(q) - 1
           p == Tail(q)
<1>1. /\ n \in Nat /\ Len(q) = n + 1 /\ p \in Seq(1..MaxSends) /\ Len(p) = n
      /\ \A j \in 1..n : p[j] = q[j + 1]
      /\ Head(q) = q[1] /\ q[1] \in 1..MaxSends
  <2>1. Len(q) \in Nat \ {0}
    BY FrontAndRest
  <2>2. /\ p \in Seq(1..MaxSends) /\ Len(p) = n /\ \A j \in 1..n : p[j] = q[j + 1]
        /\ Head(q) = q[1] /\ q[1] \in 1..MaxSends
    BY FrontAndRest
  <2> QED
    BY <2>1, <2>2
<1>2. PICK g : Running(g, q) /\ Bytes(q) = g[n + 1]
  <2> HIDE DEF n
  <2> QED
    BY <1>1, BytesAreSum
<1>3. PICK h : Running(h, p) /\ Bytes(p) = h[n]
  <2> HIDE DEF p, n
  <2> QED
    BY <1>1, BytesAreSum
<1> HIDE DEF p, n
<1> DEFINE k == [j \in 0..n |-> g[j + 1]]
<1>4. \A j \in 0..n : k[j] = g[j + 1] /\ g[j + 1] \in Nat
  BY <1>1, <1>2 DEF Running
<1>5. /\ h \in [0..n -> Int] /\ k \in [0..n -> Int] /\ h[0] = 0 /\ k[n] = g[n + 1]
  BY <1>1, <1>3, <1>4 DEF Running
<1>6. k[0] = BufSize[q[1]] /\ BufSize[q[1]] \in Nat
  <2>1. 1 \in 1..Len(q) /\ 1 - 1 = 0 /\ BufSize[q[1]] \in Nat
    BY <1>1, QueueAssumption
  <2>2. g[1] = 0 + BufSize[q[1]]
    BY <1>2, <2>1 DEF Running
  <2> QED
    BY <1>1, <1>4, <2>1, <2>2
<1>7. \A j \in 1..n : h[j] - h[j - 1] = k[j] - k[j - 1]
  <2> SUFFICES ASSUME NEW j \in 1..n PROVE h[j] - h[j - 1] = k[j] - k[j - 1]
    OBVIOUS
  <2>1. j + 1 \in 1..Len(q) /\ (j + 1) - 1 = j /\ p[j] = q[j + 1] /\ j \in 1..Len(p)
    BY <1>1
  <2>2. h[j] = h[j - 1] + BufSize[p[j]] /\ g[j + 1] = g[j] + BufSize[q[j + 1]]
    BY <1>2, <1>3, <2>1 DEF Running
  <2>3. k[j] = g[j + 1] /\ k[j - 1] = g[j]
    <3>1. j \in 0..n /\ j - 1 \in 0..n /\ (j - 1) + 1 = j
      BY <1>1
    <3> HIDE DEF k
    <3> QED
      BY <1>4, <3>1
  <2>4. BufSize[q[j + 1]] \in Int /\ h[j - 1] \in Int /\ g[j] \in Int
    <3>1. q[j + 1] \in 1..MaxSends
      BY <2>1, ElementInRange
    <3> QED
      BY <1>1, <1>2, <1>5, <3>1, QueueAssumption DEF Running
  <2> HIDE DEF k
  <2> QED
    BY <2>1, <2>2, <2>3, <2>4
<1> HIDE DEF k
<1>8. h[n] - h[0] = k[n] - k[0]
  BY <1>1, <1>5, <1>7, SameDifferences
<1>9. h[n] \in Int /\ g[n + 1] \in Nat
  BY <1>1, <1>4, <1>5
<1> QED
  BY <1>1, <1>2, <1>3, <1>5, <1>6, <1>8, <1>9 DEF p

\* Whatever m_current_num_bytes goes through, also when it wraps, it is the
\* bytes of the buffers in the queue, modulo the width of std::size_t: add_element
\* and get_next_element count by the same modular arithmetic, clear resets it.
THEOREM BytesCounted == Spec => []BytesMatchQueue
<1> USE QueueAssumption
<1> DEFINE Counted == num_bytes = Bytes(outq) % ByteModulus
<1>1. Counted => BytesMatchQueue
  BY DEF BytesMatchQueue, Bytes
<1>2. Init => Counted
  <2>1. 0 % ByteModulus = 0
    OBVIOUS
  <2> QED
    BY <2>1, BytesOfEmpty DEF Init, QueueInit
<1>3. TypeOK /\ TypeOK' /\ Counted /\ [Next]_ioVars => Counted'
  <2> SUFFICES ASSUME TypeOK, TypeOK', Counted, [Next]_ioVars PROVE Counted'
    OBVIOUS
  <2>1. outq \in Seq(1..MaxSends) /\ num_bytes = Bytes(outq) % ByteModulus /\ nsent \in Nat
    BY DEF TypeOK
  <2>2. CASE UNCHANGED <<outq, num_bytes>>
    BY <2>1, <2>2
  <2>3. CASE QueueClear
    BY <2>3, BytesOfEmpty DEF QueueClear
  <2>4. CASE StartWriteQueued
    <3>1. /\ nsent + 1 \in 1..MaxSends
          /\ outq' = Append(outq, nsent + 1)
          /\ num_bytes' = (num_bytes + BufSize[nsent + 1]) % ByteModulus
      BY <2>1, <2>4 DEF StartWriteQueued, AddElement
    <3>2. Bytes(outq) \in Nat /\ Bytes(outq') = Bytes(outq) + BufSize[nsent + 1]
      BY <2>1, <3>1, BytesOfLonger
    <3>3. BufSize[nsent + 1] \in Int
      BY <3>1
    <3>4. ((Bytes(outq) % ByteModulus) + BufSize[nsent + 1]) % ByteModulus
            = (Bytes(outq) + BufSize[nsent + 1]) % ByteModulus
      <4>1. Bytes(outq) \in Int /\ ByteModulus \in Nat \ {0}
        BY <3>2
      <4> QED
        BY <3>3, <4>1, AddAfterMod, Zenon
    <3> QED
      BY <2>1, <3>1, <3>2, <3>4
  <2>5. CASE GetNextElement
    <3>1. /\ outq # <<>> /\ outq' = Tail(outq) /\ Head(outq) \in 1..MaxSends
          /\ num_bytes' = (num_bytes - BufSize[Head(outq)]) % ByteModulus
      BY <2>1, <2>5, FrontAndRest DEF GetNextElement
    <3>2. Bytes(outq) \in Nat /\ Bytes(outq') = Bytes(outq) - BufSize[Head(outq)]
      BY <2>1, <3>1, BytesOfRest
    <3> DEFINE m == -BufSize[Head(outq)]
    <3>3. /\ m \in Int /\ num_bytes' = (num_bytes + m) % ByteModulus
          /\ Bytes(outq') = Bytes(outq) + m
      <4>1. BufSize[Head(outq)] \in Nat /\ num_bytes \in Int
        BY <3>1 DEF TypeOK
      <4>2. num_bytes - BufSize[Head(outq)] = num_bytes + m
        BY <4>1
      <4>3. Bytes(outq) - BufSize[Head(outq)] = Bytes(outq) + m
        BY <3>2, <4>1
      <4>4. m \in Int
        BY <4>1
      <4> HIDE DEF m
      <4> QED
        BY <3>1, <3>2, <4>2, <4>3, <4>4
    <3> HIDE DEF m
    <3>4. ((Bytes(outq) % ByteModulus) + m) % ByteModulus = (Bytes(outq) + m) % ByteModulus
      <4>1. Bytes(outq) \in Int /\ ByteModulus \in Nat \ {0}
        BY <3>2
      <4> QED
        BY <3>3, <4>1, AddAfterMod, Zenon
    <3> QED
      BY <2>1, <3>3, <3>4
  <2> QED
    BY <2>2, <2>3, <2>4, <2>5 DEF Next, ioVars, SetIoStarted, SetIoStopped, Clear, DoClear,
       StartWrite, StartWriteStopped, StartWriteStarted, WriteNextElem, WriteNextStopped,
       WriteNextIdle, WriteNextQueued, WriteFailed
<1> QED
  BY <1>1, <1>2, <1>3, TypeCorrect, PTL DEF Spec

-----------------------------------------------------------------------------
\* What is pending in the abstract stream is what the queue holds.
LEMMA PendingIsQueue ==
    ASSUME TypeOK, QueueIsBacklog
    PROVE  Stream!Pending = (nsent - Len(outq) + 1)..nsent
<1>1. outq \in Seq(1..MaxSends) /\ nsent \in Nat /\ handed \subseteq 1..MaxSends
  BY QueueAssumption DEF TypeOK
<1> QED
  BY <1>1 DEF QueueIsBacklog, Stream!Pending

\* Steps that leave queue, count and history alone are not visible.
LEMMA InvisibleStep ==
    ASSUME UNCHANGED <<outq, nsent, handed>>
    PROVE  UNCHANGED Stream!streamVars
  BY DEF Stream!streamVars

\* do_clear gives up what is pending.
LEMMA ClearGivesUp ==
    ASSUME TypeOK, QueueIsBacklog, DoClear, UNCHANGED <<nsent, handed>>
    PROVE  Stream!GiveUp
<1>1. outq \in Seq(1..MaxSends) /\ nsent \in Nat /\ handed \subseteq 1..MaxSends
  BY QueueAssumption DEF TypeOK
<1>2. outq' = <<>> /\ Len(outq') = 0
  BY DEF DoClear, QueueClear
<1>3. Len(outq) \in 0..nsent /\ \A e \in handed : e <= nsent - Len(outq)
  BY <1>1 DEF QueueIsBacklog
<1>4. ((1..(nsent - Len(outq))) \ handed) \cup Stream!Pending = (1..nsent) \ handed
  BY <1>1, <1>3, PendingIsQueue
<1> QED
  BY <1>1, <1>2, <1>4 DEF Stream!GiveUp

\* Every step of io_common is a step of the abstract stream or invisible.
LEMMA StreamStep ==
    ASSUME TypeOK, QueueWaitsForWrite, QueueIsBacklog, QueueIsBacklog',
           [Next]_ioVars
    PROVE  [Stream!Next]_(Stream!streamVars)
<1>1. /\ outq \in Seq(1..MaxSends)
      /\ Len(outq) \in 0..nsent
      /\ nsent \in Nat
      /\ handed \subseteq 1..(nsent - Len(outq))
  BY QueueAssumption DEF TypeOK, QueueIsBacklog
<1>2. CASE StartWriteQueued
  <2>1. /\ nsent' = nsent + 1
        /\ Len(outq') = Len(outq) + 1
        /\ handed' = handed
    BY <1>1, <1>2 DEF StartWriteQueued, AddElement
  <2> QED
    BY <1>1, <2>1 DEF Stream!Next, Stream!Accept
<1>3. CASE StartWriteStarted
  <2>1. /\ outq = <<>> /\ outq' = <<>>
        /\ nsent' = nsent + 1
        /\ handed' = handed \cup {nsent + 1}
    BY <1>3 DEF StartWriteStarted, HandOver, QueueWaitsForWrite
  <2>2. Stream!Pending = {}
    BY <1>1, <2>1, PendingIsQueue
  <2>3. (1..nsent') \ handed' = (1..nsent) \ handed
    BY <1>1, <2>1
  <2> QED
    BY <1>1, <2>1, <2>2, <2>3 DEF Stream!Next, Stream!AcceptAndHand
<1>4. ASSUME NEW w \in writing, WriteNextQueued(w)
      PROVE  Stream!HandNext
  <2>1. /\ outq # <<>>
        /\ Len(outq') = Len(outq) - 1
        /\ Head(outq) = outq[1]
        /\ Len(outq) \in Nat \ {0}
        /\ UNCHANGED nsent
        /\ handed' = handed \cup {Head(outq)}
    BY <1>1, <1>4, FrontAndRest DEF WriteNextQueued, GetNextElement, HandOver
  <2>2. Head(outq) = nsent - Len(outq) + 1
    BY <2>1 DEF QueueIsBacklog
  <2>3. /\ Head(outq) \in Stream!Pending
        /\ \A j \in Stream!Pending : Head(outq) <= j
    BY <1>1, <2>1, <2>2, PendingIsQueue
  <2>4. (1..(nsent' - Len(outq'))) \ handed' = (1..(nsent - Len(outq))) \ handed
    BY <1>1, <2>1, <2>2
  <2> QED
    BY <2>1, <2>3, <2>4 DEF Stream!HandNext
<1>5. CASE Clear \/ StartWriteStopped
  BY <1>5, ClearGivesUp DEF Clear, StartWriteStopped, Stream!Next
<1>6. ASSUME NEW w \in writing, WriteNextStopped(w) PROVE Stream!GiveUp
  BY <1>6, ClearGivesUp DEF WriteNextStopped
<1>7. CASE SetIoStarted \/ SetIoStopped \/ UNCHANGED ioVars
  BY <1>7, InvisibleStep DEF SetIoStarted, SetIoStopped, ioVars
<1>8. ASSUME NEW w \in writing, WriteNextIdle(w) \/ WriteFailed(w)
      PROVE  UNCHANGED Stream!streamVars
  BY <1>8, InvisibleStep DEF WriteNextIdle, WriteFailed
<1> QED
  BY <1>2, <1>3, <1>4, <1>5, <1>6, <1>7, <1>8
     DEF Next, StartWrite, WriteNextElem, Stream!Next

\* io_common implements the send order basic_io_output promises, for every
\* interleaving of senders, stops and write completions.
THEOREM ImplementsSendOrder == Spec => SendOrder
<1>1. Init => Stream!Init
  BY DEF Init, QueueInit, Stream!Init
<1>2. /\ TypeOK /\ QueueWaitsForWrite /\ QueueIsBacklog /\ QueueIsBacklog'
      /\ [Next]_ioVars
      => [Stream!Next]_(Stream!streamVars)
  BY StreamStep
<1> QED
  BY <1>1, <1>2, TypeCorrect, NothingOvertakes, BacklogKept, PTL
     DEF Spec, SendOrder, Stream!Spec

=============================================================================
