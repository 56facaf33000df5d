-------------------------- MODULE ReadFraming_proofs --------------------------
(***************************************************************************)
(* Proof that tcp_io's read handlers cut what arrives into messages, for   *)
(* every set of streams, every way of starting IO, every header decoder    *)
(* and every segmentation of the stream.                                   *)
(***************************************************************************)
EXTENDS ReadFraming, Arithmetic, SequenceTheorems, TLAPS

Types ==
    /\ stream \in Streams /\ stream \in Seq(Nat)
    /\ io_state_chg \in StateChanges
    /\ received \in 0..Len(stream)
    /\ m_byte_vec \in Seq(Nat)
    /\ mbuf \in [first : Nat \ {0}, size : Nat]
    /\ filled \in 0..mbuf.size
    /\ delivered \in Seq(Seq(Nat))

\* start_io has not been called
Fresh ==
    socket = "open" /\ ~io_started =>
      /\ received = 0 /\ delivered = <<>> /\ m_byte_vec = <<>>
      /\ ~m_hdr_processed /\ ~reading

\* what has been delivered is what the peer sent first
InOrder ==
    /\ Len(Delivered) <= received
    /\ \A i \in 1..Len(Delivered) : Delivered[i] = stream[i]

\* how much of m_byte_vec has been read
Filled == IF ByDelimiter THEN Len(m_byte_vec) ELSE mbuf.first - 1 + filled

\* what has been read of the next message is what the peer sent next
Filling ==
    reading =>
      /\ Len(Delivered) + Filled = received
      /\ \A i \in 1..Filled : m_byte_vec[i] = stream[Len(Delivered) + i]
      /\ ~ByDelimiter => mbuf.size > 0 /\ mbuf.first + mbuf.size = Len(m_byte_vec) + 1

\* B is where the chunks of v end that follow from one another, from the first
\* one of n bytes to the one being read
Chunks(B, v, n) ==
    /\ B \subseteq 1..Len(v) /\ n \in B /\ Len(v) \in B
    /\ \A b \in B : b = Len(v) \/ (b < mbuf.first /\ v[b] > 0 /\ b + v[b] \in B)

\* which part of a message is being read
Part ==
    reading =>
      LET n == io_state_chg.size
      IN  /\ io_state_chg.frame = "null_msg_frame" => mbuf.first = 1 /\ mbuf.size = n
          /\ io_state_chg.frame = "simple_variable_len_msg_frame" =>
               IF m_hdr_processed
                 THEN mbuf.first = n + 1 /\ mbuf.size = HeaderValue(SubSeq(m_byte_vec, 1, n))
                 ELSE mbuf.first = 1 /\ mbuf.size = n
          /\ io_state_chg.frame = "chained" =>
               \E B \in SUBSET (1..Len(m_byte_vec)) : Chunks(B, m_byte_vec, n)

Whole == \A i \in 1..Len(delivered) : IsMessage(delivered[i], io_state_chg)

Inv == Types /\ Fresh /\ InOrder /\ Filling /\ Part /\ Whole
-----------------------------------------------------------------------------
(* What the message handler was given, one message after the other.        *)

\* the function FlattenSeq uses: i |-> the first i messages
Flattens(f, n, s) == f = [i \in 1..n |-> IF i = 1 THEN s[i] ELSE f[i - 1] \o s[i]]

\* The recursion defines a function.
LEMMA FlattenExists ==
    ASSUME NEW s, NEW n \in Nat
    PROVE  \E f : Flattens(f, n, s)
<1> DEFINE Bad == {k \in Nat : ~ \E f : Flattens(f, k, s)}
<1> SUFFICES ASSUME Bad # {} PROVE FALSE
  OBVIOUS
<1>1. PICK m \in Bad : \A k \in Bad : m <= k
  <2> HIDE DEF Bad
  <2>1. Bad \in SUBSET Nat
    BY DEF Bad
  <2> QED
    BY <2>1, Least
<1>2. m \in Nat /\ ~ \E f : Flattens(f, m, s)
  BY <1>1
<1>3. m # 0
  <2>1. Flattens([i \in 1..0 |-> 0], 0, s)
    BY DEF Flattens
  <2> QED
    BY <1>2, <2>1
<1>4. m - 1 \in Nat /\ m - 1 \notin Bad
  BY <1>1, <1>2, <1>3
<1>5. PICK f : Flattens(f, m - 1, s)
  BY <1>4
<1> DEFINE last == IF m = 1 THEN s[m] ELSE f[m - 1] \o s[m]
           g == [i \in 1..m |-> IF i = m THEN last ELSE f[i]]
           h == [i \in 1..m |-> IF i = 1 THEN s[i] ELSE g[i - 1] \o s[i]]
<1>6. \A i \in 1..m : g[i] = h[i]
  <2> SUFFICES ASSUME NEW i \in 1..m PROVE g[i] = h[i]
    OBVIOUS
  <2>1. CASE i = m
    <3>1. i # 1 => g[i - 1] = f[m - 1]
      BY <1>2, <2>1
    <3> HIDE DEF g
    <3>2. g[i] = last
      BY <2>1 DEF g
    <3> QED
      BY <2>1, <3>1, <3>2
  <2>2. CASE i # m
    <3>1. i \in 1..(m - 1) /\ (i # 1 => i - 1 \in 1..m /\ i - 1 # m)
      BY <1>2, <2>2
    <3>2. f[i] = IF i = 1 THEN s[i] ELSE f[i - 1] \o s[i]
      BY <1>5, <3>1 DEF Flattens
    <3>3. g[i] = f[i] /\ (i # 1 => g[i - 1] = f[i - 1])
      BY <2>2, <3>1
    <3> HIDE DEF g
    <3> QED
      BY <3>2, <3>3
  <2> QED
    BY <2>1, <2>2
<1>7. g = h
  <2>1. g = [i \in 1..m |-> g[i]] /\ h = [i \in 1..m |-> h[i]]
    OBVIOUS
  <2> HIDE DEF g, h
  <2> QED
    BY <1>6, <2>1
<1>8. Flattens(g, m, s)
  BY <1>7 DEF Flattens
<1> QED
  BY <1>2, <1>8

\* FlattenSeq's result is the end of the messages put together one by one.
Joined(f, s) ==
    /\ f \in [1..Len(s) -> Seq(Nat)]
    /\ s # <<>> => f[1] = s[1]
    /\ \A i \in 2..Len(s) : f[i] = f[i - 1] \o s[i]

LEMMA FlattenIsJoined ==
    ASSUME NEW s \in Seq(Seq(Nat)), s # <<>>
    PROVE  \E f : Joined(f, s) /\ FlattenSeq(s) = f[Len(s)]
<1> DEFINE n == Len(s)
           f == CHOOSE f : Flattens(f, n, s)
<1>1. n \in Nat /\ n > 0
  OBVIOUS
<1>2. Flattens(f, n, s)
  <2> HIDE DEF n
  <2>1. \E e : Flattens(e, n, s)
    BY <1>1, FlattenExists
  <2> QED
    BY <2>1, Zenon
<1>3. FlattenSeq(s) = f[n]
  BY <1>1 DEF FlattenSeq, Flattens
<1> HIDE DEF f
<1>4. f = [i \in 1..n |-> IF i = 1 THEN s[i] ELSE f[i - 1] \o s[i]]
  BY <1>2 DEF Flattens
<1>5. s # <<>> => f[1] = s[1]
  <2>1. 1 \in 1..n
    BY <1>1
  <2> HIDE DEF n
  <2> QED
    BY <1>4, <2>1
<1>6. \A i \in 2..n : f[i] = f[i - 1] \o s[i]
  <2>1. \A i \in 2..n : i \in 1..n /\ i # 1
    BY <1>1
  <2> HIDE DEF n
  <2> QED
    BY <1>4, <2>1
<1>7. \A i \in 1..n : s[i] \in Seq(Nat)
  OBVIOUS
<1>8. \A i \in 1..n : f[i] \in Seq(Nat)
  <2> DEFINE Bad == {i \in 1..n : f[i] \notin Seq(Nat)}
  <2> HIDE DEF n
  <2> SUFFICES ASSUME Bad # {} PROVE FALSE
    OBVIOUS
  <2>1. Bad \in SUBSET Nat
    BY <1>1
  <2>2. PICK m \in Bad : \A k \in Bad : m <= k
    <3> HIDE DEF Bad
    <3> QED
      BY <2>1, Least
  <2>3. m \in 1..n /\ f[m] \notin Seq(Nat)
    OBVIOUS
  <2>4. m # 1
    BY <1>1, <1>5, <1>7, <2>3 DEF n
  <2>5. m \in 2..n /\ m - 1 \in 1..n /\ m - 1 \notin Bad
    BY <1>1, <2>2, <2>3, <2>4
  <2>6. f[m - 1] \in Seq(Nat) /\ s[m] \in Seq(Nat) /\ f[m] = f[m - 1] \o s[m]
    BY <1>6, <1>7, <2>3, <2>5
  <2>7. f[m - 1] \o s[m] \in Seq(Nat)
    BY <2>6
  <2> QED
    BY <2>3, <2>6, <2>7
<1>9. f \in [1..n -> Seq(Nat)]
  <2> HIDE DEF n
  <2> QED
    BY <1>4, <1>8
<1> QED
  BY <1>3, <1>5, <1>6, <1>9 DEF Joined

\* A message more is its bytes more.
LEMMA FlattenLonger ==
    ASSUME NEW s \in Seq(Seq(Nat)), NEW e \in Seq(Nat)
    PROVE  /\ FlattenSeq(s) \in Seq(Nat)
           /\ FlattenSeq(Append(s, e)) = FlattenSeq(s) \o e
<1> DEFINE t == Append(s, e)
           n == Len(s)
<1>1. /\ t \in Seq(Seq(Nat)) /\ t # <<>> /\ n \in Nat /\ Len(t) = n + 1
      /\ \A i \in 1..n : t[i] = s[i]
      /\ t[n + 1] = e
  <2>1. t \in Seq(Seq(Nat)) /\ n \in Nat /\ Len(t) = n + 1
    OBVIOUS
  <2>2. t # <<>>
    <3> HIDE DEF t, n
    <3> QED
      BY <2>1
  <2> QED
    BY <2>1, <2>2
<1>2. PICK g : Joined(g, t) /\ FlattenSeq(t) = g[n + 1]
  <2> HIDE DEF t, n
  <2> QED
    BY <1>1, FlattenIsJoined
<1>3. CASE s = <<>>
  <2>1. FlattenSeq(s) = <<>>
    BY <1>3 DEF FlattenSeq
  <2>2. n = 0
    BY <1>3
  <2>3. FlattenSeq(t) = e
    <3> HIDE DEF t, n
    <3> QED
      BY <1>1, <1>2, <2>2 DEF Joined
  <2> QED
    BY <2>1, <2>3
<1>4. CASE s # <<>>
  <2>1. PICK f : Joined(f, s) /\ FlattenSeq(s) = f[n]
    BY <1>4, FlattenIsJoined
  <2>2. n > 0
    BY <1>4
  <2> HIDE DEF t
  <2> DEFINE Bad == {i \in 1..n : f[i] # g[i]}
  <2>3. Bad = {}
    <3> SUFFICES ASSUME Bad # {} PROVE FALSE
      OBVIOUS
    <3>1. PICK m \in Bad : \A k \in Bad : m <= k
      <4>1. Bad \in SUBSET Nat
        BY <1>1
      <4> HIDE DEF Bad
      <4> QED
        BY <4>1, Least
    <3>2. m \in 1..n /\ f[m] # g[m]
      OBVIOUS
    <3>3. m # 1
      BY <1>1, <1>2, <1>4, <2>1, <2>2, <3>2 DEF Joined
    <3>4. m \in 2..n /\ m \in 2..Len(t) /\ m - 1 \in 1..n /\ m - 1 \notin Bad
      BY <1>1, <3>1, <3>2, <3>3
    <3>5. f[m - 1] = g[m - 1] /\ t[m] = s[m]
      BY <1>1, <3>2, <3>4
    <3>6. f[m] = f[m - 1] \o s[m] /\ g[m] = g[m - 1] \o t[m]
      BY <1>2, <2>1, <3>4 DEF Joined
    <3> QED
      BY <3>2, <3>5, <3>6
  <2>4. f[n] = g[n] /\ f[n] \in Seq(Nat)
    <3>1. n \in 1..n
      BY <1>1, <2>2
    <3> QED
      BY <2>1, <2>3, <3>1 DEF Joined
  <2>5. g[n + 1] = g[n] \o e
    <3>1. n + 1 \in 2..Len(t) /\ (n + 1) - 1 = n
      BY <1>1, <2>2
    <3> HIDE DEF n
    <3> QED
      BY <1>1, <1>2, <3>1 DEF Joined
  <2> QED
    BY <1>2, <2>1, <2>4, <2>5 DEF t
<1> QED
  BY <1>3, <1>4
-----------------------------------------------------------------------------
(* The sequences that Receive, Resize and the handlers make.               *)

\* A part of a sequence, byte by byte.
LEMMA PartOf ==
    ASSUME NEW v \in Seq(Nat), NEW i \in Nat \ {0}, NEW j \in 0..Len(v), i <= j + 1
    PROVE  /\ SubSeq(v, i, j) \in Seq(Nat) /\ Len(SubSeq(v, i, j)) = j - i + 1
           /\ \A k \in 1..(j - i + 1) : SubSeq(v, i, j)[k] = v[i - 1 + k]
<1>1. \A k \in i..j : v[k] \in Nat
  OBVIOUS
<1>2. SubSeq(v, i, j) \in Seq(Nat)
  BY <1>1, SubSeqProperties
<1>3. Len(SubSeq(v, i, j)) = IF i <= j THEN j - i + 1 ELSE 0
  BY <1>1, SubSeqProperties
<1>4. \A k \in 1..(j - i + 1) : SubSeq(v, i, j)[k] = v[i + k - 1] /\ i + k - 1 = i - 1 + k
  BY <1>1, SubSeqProperties
<1> QED
  BY <1>2, <1>3, <1>4

\* Sequences with the same bytes have the same parts.
LEMMA SamePart ==
    ASSUME NEW v \in Seq(Nat), NEW i \in Nat \ {0}, NEW j \in 0..Len(v), i <= j + 1,
           NEW w \in Seq(Nat), NEW c \in Nat, c + j <= Len(w),
           \A k \in i..j : v[k] = w[c + k]
    PROVE  SubSeq(v, i, j) = SubSeq(w, c + i, c + j)
<1> DEFINE a == SubSeq(v, i, j)
           b == SubSeq(w, c + i, c + j)
           n == j - i + 1
<1>1. a \in Seq(Nat) /\ Len(a) = n /\ \A k \in 1..n : a[k] = v[i - 1 + k]
  BY PartOf
<1>2. b \in Seq(Nat) /\ Len(b) = n /\ \A k \in 1..n : b[k] = w[c + i - 1 + k]
  <2> DEFINE x == c + i
             y == c + j
  <2>1. x \in Nat \ {0} /\ y \in 0..Len(w) /\ x <= y + 1 /\ y - x + 1 = n /\ x - 1 = c + i - 1
    OBVIOUS
  <2>2. y - x + 1 = n
    OBVIOUS
  <2> HIDE DEF x, y
  <2>3. LET s == SubSeq(w, x, y)
        IN  s \in Seq(Nat) /\ Len(s) = y - x + 1 /\ \A k \in 1..(y - x + 1) : s[k] = w[x - 1 + k]
    BY <2>1, PartOf
  <2> QED
    BY <2>1, <2>3 DEF x, y
<1>3. \A k \in 1..n : a[k] = b[k]
  <2> SUFFICES ASSUME NEW k \in 1..n PROVE a[k] = b[k]
    OBVIOUS
  <2>1. i - 1 + k \in i..j /\ c + (i - 1 + k) = c + i - 1 + k
    OBVIOUS
  <2> HIDE DEF a, b
  <2> QED
    BY <1>1, <1>2, <2>1
<1>4. n \in Nat
  OBVIOUS
<1> HIDE DEF a, b, n
<1>5. a = b
  BY <1>1, <1>2, <1>3, <1>4, SeqEqual
<1> QED
  BY <1>5 DEF a, b

\* One sequence after another.
LEMMA Concatenated ==
    ASSUME NEW x \in Seq(Nat), NEW y \in Seq(Nat)
    PROVE  /\ x \o y \in Seq(Nat) /\ Len(x \o y) = Len(x) + Len(y)
           /\ \A i \in 1..Len(x) : (x \o y)[i] = x[i]
           /\ \A i \in 1..Len(y) : (x \o y)[Len(x) + i] = y[i]
<1>1. x \o y \in Seq(Nat)
  BY ConcatProperties
<1>2. Len(x \o y) = Len(x) + Len(y)
  BY ConcatProperties
<1>3. \A i \in 1..(Len(x) + Len(y)) : (x \o y)[i] = IF i <= Len(x) THEN x[i] ELSE y[i - Len(x)]
  BY ConcatProperties
<1> DEFINE w == x \o y
           m == Len(x)
           n == Len(y)
<1>4. m \in Nat /\ n \in Nat
  OBVIOUS
<1>5. \A i \in 1..(m + n) : w[i] = IF i <= m THEN x[i] ELSE y[i - m]
  BY <1>3
<1> HIDE DEF w, m, n
<1>6. \A i \in 1..m : w[i] = x[i]
  BY <1>4, <1>5
<1>7. \A i \in 1..n : w[m + i] = y[i]
  <2> TAKE i \in 1..n
  <2> DEFINE k == m + i
  <2>1. k \in 1..(m + n) /\ ~(k <= m) /\ k - m = i
    BY <1>4
  <2> HIDE DEF k
  <2>2. w[k] = y[k - m]
    BY <1>5, <2>1
  <2> QED
    BY <2>1, <2>2 DEF k
<1> QED
  BY <1>1, <1>2, <1>6, <1>7 DEF w, m, n

\* asio::async_read: the bytes that arrive replace the next ones of the buffer.
Splice(v, a, y) == SubSeq(v, 1, a - 1) \o y \o SubSeq(v, a + Len(y), Len(v))

LEMMA Spliced ==
    ASSUME NEW v \in Seq(Nat), NEW y \in Seq(Nat), NEW a \in Nat \ {0},
           a + Len(y) <= Len(v) + 1
    PROVE  /\ Splice(v, a, y) \in Seq(Nat) /\ Len(Splice(v, a, y)) = Len(v)
           /\ \A i \in 1..(a - 1) : Splice(v, a, y)[i] = v[i]
           /\ \A i \in 1..Len(y) : Splice(v, a, y)[a - 1 + i] = y[i]
<1> DEFINE n == Len(y)
           x == SubSeq(v, 1, a - 1)
           z == SubSeq(v, a + n, Len(v))
           u == x \o y
           w == u \o z
<1>1. x \in Seq(Nat) /\ Len(x) = a - 1 /\ \A k \in 1..(a - 1) : x[k] = v[k]
  BY PartOf
<1>2. z \in Seq(Nat) /\ Len(z) = Len(v) - (a + n) + 1
  BY PartOf
<1>3. n \in Nat /\ Len(y) = n
  OBVIOUS
<1>4. Splice(v, a, y) = w
  BY DEF Splice
<1> HIDE DEF x, z, n
<1>5. /\ u \in Seq(Nat) /\ Len(u) = Len(x) + Len(y)
      /\ \A i \in 1..Len(x) : u[i] = x[i]
      /\ \A i \in 1..Len(y) : u[Len(x) + i] = y[i]
  BY <1>1, Concatenated
<1> HIDE DEF u
<1>6. /\ w \in Seq(Nat) /\ Len(w) = Len(u) + Len(z)
      /\ \A i \in 1..Len(u) : w[i] = u[i]
  BY <1>2, <1>5, Concatenated
<1> HIDE DEF w
<1>7. Len(w) = Len(v)
  BY <1>1, <1>2, <1>3, <1>5, <1>6
<1>8. \A i \in 1..(a - 1) : w[i] = v[i]
  BY <1>1, <1>3, <1>5, <1>6
<1>9. \A i \in 1..n : w[a - 1 + i] = y[i]
  <2> TAKE i \in 1..n
  <2>1. a - 1 + i \in 1..Len(u) /\ a - 1 + i = Len(x) + i
    BY <1>1, <1>3, <1>5
  <2> QED
    BY <1>3, <1>5, <1>6, <2>1
<1> QED
  BY <1>3, <1>4, <1>6, <1>7, <1>8, <1>9

\* std::vector's resize keeps what fits and fills up with zeros.
LEMMA Resized ==
    ASSUME NEW v \in Seq(Nat), NEW n \in Nat
    PROVE  /\ Resize(v, n) \in Seq(Nat) /\ Len(Resize(v, n)) = n
           /\ \A i \in 1..Len(v) : i <= n => Resize(v, n)[i] = v[i]
<1>1. \A i \in 1..n : (IF i <= Len(v) THEN v[i] ELSE 0) \in Nat
  OBVIOUS
<1> QED
  BY <1>1 DEF Resize

-----------------------------------------------------------------------------
(* Where messages end.                                                     *)

Ends(v, d) == {i \in Len(d)..Len(v) : SubSeq(v, i - Len(d) + 1, i) = d}

\* asio::async_read_until stops at the first delimiter, which is also the first
\* one of the message that ends there.
LEMMA FirstDelimiter ==
    ASSUME NEW d \in Seq(Nat) \ {<<>>}, NEW v \in Seq(Nat), DelimiterEnd(v, d) > 0
    PROVE  /\ DelimiterEnd(v, d) \in 1..Len(v)
           /\ DelimiterEnd(SubSeq(v, 1, DelimiterEnd(v, d)), d) = DelimiterEnd(v, d)
<1> DEFINE e == DelimiterEnd(v, d)
           m == SubSeq(v, 1, e)
<1>1. \A x : DelimiterEnd(x, d) = IF Ends(x, d) = {} THEN 0
                                   ELSE CHOOSE i \in Ends(x, d) : \A j \in Ends(x, d) : i <= j
  BY DEF DelimiterEnd, Ends
<1>2. d \in Seq(Nat) /\ Len(d) \in Nat \ {0}
  OBVIOUS
<1>3. \A x \in Seq(Nat) : Ends(x, d) \in SUBSET Nat
  BY <1>2 DEF Ends
<1>4. \A x \in Seq(Nat) : Ends(x, d) # {} =>
        /\ DelimiterEnd(x, d) \in Ends(x, d)
        /\ \A j \in Ends(x, d) : DelimiterEnd(x, d) <= j
  <2> TAKE x \in Seq(Nat)
  <2> HAVE Ends(x, d) # {}
  <2>1. \E i \in Ends(x, d) : \A j \in Ends(x, d) : i <= j
    BY <1>3, Least
  <2>2. DelimiterEnd(x, d) = CHOOSE i \in Ends(x, d) : \A j \in Ends(x, d) : i <= j
    BY <1>1
  <2> QED
    BY <2>1, <2>2
<1>5. Ends(v, d) # {}
  BY <1>1
<1>6. e \in Ends(v, d) /\ \A j \in Ends(v, d) : e <= j
  BY <1>4, <1>5
<1> HIDE DEF e
<1>7. e \in Len(d)..Len(v) /\ SubSeq(v, e - Len(d) + 1, e) = d
  BY <1>6 DEF Ends
<1>8. e \in 1..Len(v)
  BY <1>2, <1>7
<1>9. m \in Seq(Nat) /\ Len(m) = e /\ \A k \in 1..e : m[k] = v[k]
  BY <1>8, PartOf
<1> HIDE DEF m
<1>10. \A i \in Len(d)..e : SubSeq(m, i - Len(d) + 1, i) = SubSeq(v, i - Len(d) + 1, i)
  <2> TAKE i \in Len(d)..e
  <2> DEFINE f == i - Len(d) + 1
  <2>1. f \in Nat \ {0} /\ i \in 0..Len(m) /\ f <= i + 1 /\ i <= Len(v) /\ i \in Nat
    BY <1>2, <1>7, <1>9
  <2>2. \A k \in f..i : m[k] = v[0 + k]
    <3>1. f \in Nat \ {0} /\ i \in Nat /\ e \in Nat /\ i <= e
      BY <1>8, <2>1
    <3> HIDE DEF f
    <3>2. \A k \in f..i : k \in 1..e /\ 0 + k = k
      BY <3>1
    <3> QED
      BY <1>9, <3>2
  <2>3. 0 + f = f /\ 0 + i = i
    BY <2>1
  <2> HIDE DEF f
  <2>4. SubSeq(m, f, i) = SubSeq(v, 0 + f, 0 + i)
    BY <1>9, <2>1, <2>2, <2>3, SamePart
  <2>5. SubSeq(m, f, i) = SubSeq(v, f, i)
    BY <2>3, <2>4
  <2> QED
    BY <2>5 DEF f
<1>11. Ends(m, d) \subseteq Ends(v, d) /\ e \in Ends(m, d)
  <2>1. Ends(m, d) = {i \in Len(d)..e : SubSeq(m, i - Len(d) + 1, i) = d}
    BY <1>9 DEF Ends
  <2>2. Ends(m, d) = {i \in Len(d)..e : SubSeq(v, i - Len(d) + 1, i) = d}
    BY <1>10, <2>1
  <2>3. Len(d)..e \subseteq Len(d)..Len(v)
    BY <1>2, <1>7
  <2>4. e \in Len(d)..e
    BY <1>2, <1>7
  <2> QED
    BY <1>7, <2>2, <2>3, <2>4 DEF Ends
<1>12. DelimiterEnd(m, d) = e
  <2>1. DelimiterEnd(m, d) \in Ends(m, d) /\ \A j \in Ends(m, d) : DelimiterEnd(m, d) <= j
    BY <1>4, <1>9, <1>11
  <2>2. /\ DelimiterEnd(m, d) <= e /\ e <= DelimiterEnd(m, d)
        /\ DelimiterEnd(m, d) \in Nat /\ e \in Nat
    BY <1>3, <1>6, <1>8, <1>9, <1>11, <2>1
  <2> QED
    BY <2>2
<1> QED
  BY <1>8, <1>12 DEF e, m

\* the function ChainEnds uses, of the last k bytes of m
Follows(f, m, k) ==
    f = [i \in (Len(m) - k + 1)..Len(m) |-> IF m[i] = 0 THEN i
                                  ELSE IF i + m[i] > Len(m) THEN 0 ELSE f[i + m[i]]]

\* The recursion defines a function.
LEMMA FollowsExists ==
    ASSUME NEW m \in Seq(Nat), NEW n \in 0..Len(m)
    PROVE  \E f : Follows(f, m, n)
<1> DEFINE L == Len(m)
           Bad == {k \in 0..L : ~ \E f : Follows(f, m, k)}
<1> SUFFICES ASSUME Bad # {} PROVE FALSE
  OBVIOUS
<1>1. PICK k \in Bad : \A j \in Bad : k <= j
  <2> HIDE DEF Bad
  <2>1. Bad \in SUBSET Nat
    BY DEF Bad
  <2> QED
    BY <2>1, Least
<1>2. k \in 0..L /\ L \in Nat /\ ~ \E f : Follows(f, m, k)
  BY <1>1
<1>3. k # 0
  <2>1. Follows([i \in (Len(m) - 0 + 1)..Len(m) |-> 0], m, 0)
    <3>1. (Len(m) - 0 + 1)..Len(m) = {}
      OBVIOUS
    <3> QED
      BY <3>1 DEF Follows
  <2> QED
    BY <1>2, <2>1
<1>4. k - 1 \in 0..L /\ k - 1 \notin Bad
  BY <1>1, <1>2, <1>3
<1>5. PICK f : Follows(f, m, k - 1)
  BY <1>4
<1> DEFINE a == L - k + 1
           D == a..L
           first == IF m[a] = 0 THEN a ELSE IF a + m[a] > L THEN 0 ELSE f[a + m[a]]
           g == [i \in D |-> IF i = a THEN first ELSE f[i]]
           h == [i \in D |-> IF m[i] = 0 THEN i ELSE IF i + m[i] > L THEN 0 ELSE g[i + m[i]]]
<1>6. \A i \in D : i \in 1..L /\ m[i] \in Nat /\ i \in Nat
  BY <1>2, <1>3
<1>7. a \in Nat /\ L \in Nat /\ L - (k - 1) + 1 = a + 1
  BY <1>2
<1>8. f = [i \in (a + 1)..L |-> IF m[i] = 0 THEN i
                                 ELSE IF i + m[i] > L THEN 0 ELSE f[i + m[i]]]
  BY <1>5, <1>7 DEF Follows
<1>9. Follows(g, m, k) <=> g = h
  BY DEF Follows
<1> HIDE DEF L, a, Bad
<1>10. \A i \in D : g[i] = h[i]
  <2> SUFFICES ASSUME NEW i \in D PROVE g[i] = h[i]
    OBVIOUS
  <2>1. h[i] = IF m[i] = 0 THEN i ELSE IF i + m[i] > L THEN 0 ELSE g[i + m[i]]
    OBVIOUS
  <2>2. m[i] # 0 /\ ~(i + m[i] > L) => i + m[i] \in D /\ i + m[i] # a
    BY <1>6, <1>7
  <2>3. m[i] # 0 /\ ~(i + m[i] > L) => g[i + m[i]] = f[i + m[i]]
    BY <2>2
  <2>4. CASE i = a
    BY <2>1, <2>3, <2>4
  <2>5. CASE i # a
    <3>1. i \in (a + 1)..L
      BY <1>6, <1>7, <2>5
    <3>2. f[i] = IF m[i] = 0 THEN i ELSE IF i + m[i] > L THEN 0 ELSE f[i + m[i]]
      BY <1>8, <3>1
    <3> QED
      BY <2>1, <2>3, <2>5, <3>2
  <2> QED
    BY <2>4, <2>5
<1>11. g = h
  <2>1. g = [i \in D |-> g[i]] /\ h = [i \in D |-> h[i]]
    OBVIOUS
  <2> HIDE DEF g, h
  <2> QED
    BY <1>10, <2>1
<1> QED
  BY <1>2, <1>9, <1>11

\* B is where the chunks of v end, and none follows the last: v is a message.
LEMMA ChainOfChunks ==
    ASSUME NEW v \in Seq(Nat), NEW B \in SUBSET (1..Len(v)),
           NEW n \in B, Len(v) \in B, v[Len(v)] = 0,
           \A b \in B : b = Len(v) \/ (v[b] > 0 /\ b + v[b] \in B)
    PROVE  ChainEnds(v, n)
<1> DEFINE L == Len(v)
           Chain(f) == f = [i \in 1..L |-> IF v[i] = 0 THEN i
                                           ELSE IF i + v[i] > L THEN 0 ELSE f[i + v[i]]]
           end == CHOOSE f : Chain(f)
<1>1. L \in Nat /\ \A b \in B : b \in 1..L /\ v[b] \in Nat
  OBVIOUS
<1>2. Chain(end)
  <2>1. PICK f : Follows(f, v, L)
    BY <1>1, FollowsExists
  <2>2. L - L + 1 = 1
    BY <1>1
  <2>3. Chain(f)
    BY <2>1, <2>2 DEF Follows
  <2> HIDE DEF Chain
  <2> QED
    BY <2>3
<1>3. ChainEnds(v, n) <=> n <= L /\ end[n] = L
  BY DEF ChainEnds
<1> HIDE DEF end
<1>4. \A i \in 1..L : end[i] = IF v[i] = 0 THEN i ELSE IF i + v[i] > L THEN 0 ELSE end[i + v[i]]
  <2> HIDE DEF L
  <2> QED
    BY <1>2
<1>5. end[L] = L
  BY <1>1, <1>4
<1>6. n \in B /\ \A b \in B : b = L \/ (v[b] > 0 /\ b + v[b] \in B)
  OBVIOUS
<1> HIDE DEF Chain, L
<1>7. \A b \in B : end[b] = L
  <2> DEFINE Bad == {k \in 0..L : \E b \in B : k = L - b /\ end[b] # L}
  <2>1. Bad = {}
    <3> SUFFICES ASSUME Bad # {} PROVE FALSE
      OBVIOUS
    <3>1. Bad \in SUBSET Nat
      BY <1>1
    <3>2. PICK k \in Bad : \A j \in Bad : k <= j
      <4> HIDE DEF Bad
      <4> QED
        BY <3>1, Least
    <3>3. PICK b \in B : k = L - b /\ end[b] # L
      BY <3>2
    <3>4. b # L /\ b \in 1..L /\ v[b] \in Nat
      BY <1>1, <1>5, <3>3
    <3> DEFINE c == b + v[b]
    <3>5. v[b] > 0 /\ c \in B
      BY <1>6, <3>4
    <3>6. c \in 1..L /\ c > b
      <4>1. c \in 1..L
        BY <1>1, <3>5
      <4>2. c > b
        BY <3>4, <3>5
      <4> QED
        BY <4>1, <4>2
    <3>7. end[b] = end[c]
      <4>1. v[b] # 0 /\ ~(c > L)
        <5>1. v[b] # 0
          BY <3>4, <3>5
        <5> HIDE DEF c
        <5>2. ~(c > L)
          BY <1>1, <3>6
        <5> QED
          BY <5>1, <5>2
      <4> QED
        BY <1>4, <3>4, <4>1
    <3> HIDE DEF c
    <3>8. L - c \in 0..L /\ L - c < L - b
      BY <1>1, <3>4, <3>6
    <3>9. L - c \in Bad
      BY <3>3, <3>5, <3>7, <3>8
    <3>10. L - b <= L - c
      BY <3>2, <3>3, <3>9
    <3> QED
      BY <1>1, <3>4, <3>6, <3>8, <3>10
  <2> SUFFICES ASSUME NEW b \in B, end[b] # L PROVE FALSE
    OBVIOUS
  <2>2. L - b \in 0..L
    BY <1>1
  <2>3. L - b \in Bad
    BY <2>2
  <2> QED
    BY <2>1, <2>3
<1>8. n <= L
  BY <1>1, <1>6
<1> QED
  BY <1>3, <1>6, <1>7, <1>8

-----------------------------------------------------------------------------
(* The steps.                                                              *)

LEMMA InitIsRight == Init => Inv
<1> SUFFICES ASSUME Init PROVE Inv
  OBVIOUS
<1> USE DEF Init
<1>1. stream \in Seq(Nat) /\ Len(stream) \in Nat
  BY ReadFramingAssumption
<1>2. Types
  <2>1. 1 \in Nat \ {0} /\ 0 \in Nat /\ 0 \in 0..0
    OBVIOUS
  <2> QED
    BY <1>1, <2>1 DEF Types
<1>3. Fresh
  BY DEF Fresh
<1>4. Delivered = <<>>
  BY DEF Delivered, FlattenSeq
<1>5. InOrder
  BY <1>4 DEF InOrder
<1>6. Filling /\ Part
  BY DEF Filling, Part
<1>7. Whole
  BY DEF Whole
<1> QED
  BY <1>2, <1>3, <1>5, <1>6, <1>7 DEF Inv

\* Nothing is read or delivered, and reading may end.
LEMMA NothingRead ==
    ASSUME Inv, Fresh', reading' => reading,
           UNCHANGED <<stream, received, io_state_chg, m_byte_vec, mbuf, filled,
                       m_hdr_processed, delivered>>
    PROVE  Inv'
<1>1. Types'
  BY DEF Inv, Types
<1>2. Delivered' = Delivered
  BY DEF Delivered
<1>3. InOrder'
  BY <1>2 DEF Inv, InOrder
<1>4. ByDelimiter' = ByDelimiter /\ Filled' = Filled
  BY DEF ByDelimiter, Filled
<1>5. Filling'
  BY <1>2, <1>4 DEF Inv, Filling
<1>6. Part'
  <2>1. \A B, n : Chunks(B, m_byte_vec, n)' <=> Chunks(B, m_byte_vec, n)
    BY DEF Chunks
  <2> QED
    BY <2>1 DEF Inv, Part
<1>7. Whole'
  BY DEF Inv, Whole
<1> QED
  BY <1>1, <1>3, <1>5, <1>6, <1>7 DEF Inv

\* The message handler is called with the bytes that come next.
LEMMA Delivers ==
    ASSUME Types, InOrder, Whole, UNCHANGED <<stream, received, io_state_chg>>,
           NEW m \in Seq(Nat), delivered' = Append(delivered, m),
           Len(Delivered) + Len(m) <= received,
           \A i \in 1..Len(m) : m[i] = stream[Len(Delivered) + i],
           IsMessage(m, io_state_chg)
    PROVE  /\ delivered' \in Seq(Seq(Nat)) /\ InOrder' /\ Whole'
           /\ Len(Delivered') = Len(Delivered) + Len(m)
<1> DEFINE d == Delivered
<1>1. delivered \in Seq(Seq(Nat)) /\ delivered' \in Seq(Seq(Nat))
  BY DEF Types
<1>2. d \in Seq(Nat) /\ Delivered' = d \o m
  BY <1>1, FlattenLonger DEF Delivered
<1>3. /\ \A i \in 1..Len(d) : d[i] = stream[i]
      /\ received' = received /\ stream' = stream
  BY DEF InOrder
<1> HIDE DEF d
<1>4. /\ Len(Delivered') = Len(d) + Len(m)
      /\ \A i \in 1..Len(d) : Delivered'[i] = d[i]
      /\ \A i \in 1..Len(m) : Delivered'[Len(d) + i] = m[i]
  BY <1>2, Concatenated
<1>5. Len(d) \in Nat /\ Len(m) \in Nat
  BY <1>2
<1>6. Len(d) + Len(m) <= received /\ \A i \in 1..Len(m) : m[i] = stream[Len(d) + i]
  BY DEF d
<1>7. \A i \in 1..Len(Delivered') : Delivered'[i] = stream'[i]
  <2> SUFFICES ASSUME NEW i \in 1..(Len(d) + Len(m)) PROVE Delivered'[i] = stream[i]
    BY <1>3, <1>4
  <2>1. CASE i <= Len(d)
    BY <1>3, <1>4, <1>5, <2>1
  <2>2. CASE ~(i <= Len(d))
    <3> DEFINE j == i - Len(d)
    <3>1. j \in 1..Len(m) /\ i = Len(d) + j
      BY <1>5, <2>2
    <3> HIDE DEF j
    <3> QED
      BY <1>4, <1>6, <3>1
  <2> QED
    BY <2>1, <2>2
<1>8. InOrder'
  BY <1>3, <1>4, <1>6, <1>7 DEF InOrder
<1>9. Whole'
  <2> SUFFICES ASSUME NEW i \in 1..Len(delivered') PROVE IsMessage(delivered'[i], io_state_chg)
    BY DEF Whole
  <2>1. Len(delivered') = Len(delivered) + 1 /\ delivered'[Len(delivered) + 1] = m
    BY <1>1
  <2>2. CASE i \in 1..Len(delivered)
    <3>1. delivered'[i] = delivered[i]
      BY <1>1, <2>2
    <3> QED
      BY <2>2, <3>1 DEF Whole
  <2>3. CASE i = Len(delivered) + 1
    BY <2>1, <2>3
  <2> QED
    BY <1>1, <2>1, <2>2, <2>3
<1> QED
  BY <1>1, <1>4, <1>8, <1>9 DEF d

\* A read is started of as many bytes as start_io asked for.
LEMMA NewMessage ==
    ASSUME Types, UNCHANGED <<received, io_state_chg>>, ~ByDelimiter,
           StartRead(Resize(m_byte_vec, io_state_chg.size), io_state_chg.size),
           ~m_hdr_processed', Len(Delivered') = received'
    PROVE  /\ m_byte_vec' \in Seq(Nat) /\ mbuf' \in [first : Nat \ {0}, size : Nat]
           /\ filled' \in 0..mbuf'.size
           /\ Filling' /\ Part'
<1>1. PICK n : n = io_state_chg.size
  OBVIOUS
<1>2. n \in Nat \ {0} /\ m_byte_vec \in Seq(Nat)
  BY <1>1, ReadFramingAssumption DEF Types
<1> DEFINE v == Resize(m_byte_vec, n)
<1>3. v \in Seq(Nat) /\ Len(v) = n
  BY <1>2, Resized
<1>4. m_byte_vec' = v /\ filled' = 0 /\ mbuf' = [first |-> Len(v) - n + 1, size |-> n]
  BY <1>1 DEF StartRead
<1>5. io_state_chg'.size = n /\ ~ByDelimiter'
  BY <1>1 DEF ByDelimiter
<1> HIDE DEF v
<1>6. mbuf' = [first |-> 1, size |-> n]
  <2>1. Len(v) - n + 1 = 1
    BY <1>2, <1>3
  <2> QED
    BY <1>4, <2>1
<1>7. mbuf'.first = 1 /\ mbuf'.size = n /\ mbuf' \in [first : Nat \ {0}, size : Nat]
  BY <1>2, <1>6
<1>8. filled' \in 0..mbuf'.size
  BY <1>2, <1>4, <1>7
<1>9. Filling'
  <2>1. Filled' = 0
    BY <1>4, <1>5, <1>7 DEF Filled
  <2>2. Len(Delivered') = received' /\ received' \in Nat
    BY DEF Types
  <2>3. Len(Delivered') + Filled' = received'
    BY <2>1, <2>2
  <2>4. \A i \in 1..Filled' : m_byte_vec'[i] = stream'[Len(Delivered') + i]
    BY <2>1
  <2>5. mbuf'.size > 0 /\ mbuf'.first + mbuf'.size = Len(m_byte_vec') + 1
    BY <1>2, <1>3, <1>4, <1>7
  <2> QED
    BY <2>3, <2>4, <2>5 DEF Filling
<1>10. Part'
  <2>1. /\ {n} \subseteq 1..Len(m_byte_vec') /\ n \in {n} /\ Len(m_byte_vec') \in {n}
        /\ \A b \in {n} : b = Len(m_byte_vec')
    BY <1>2, <1>3, <1>4
  <2>2. \E B \in SUBSET (1..Len(m_byte_vec')) : Chunks(B, m_byte_vec, n)'
    <3>1. Chunks({n}, m_byte_vec, n)'
      BY <2>1 DEF Chunks
    <3> QED
      BY <2>1, <3>1
  <2>3. \E B \in SUBSET (1..Len(m_byte_vec')) : Chunks(B, m_byte_vec, io_state_chg.size)'
    BY <1>5, <2>2 DEF Chunks
  <2> QED
    BY <1>5, <1>7, <2>3 DEF Part
<1> QED
  BY <1>3, <1>4, <1>7, <1>8, <1>9, <1>10

LEMMA StartIoIsRight ==
    ASSUME Inv, StartIo
    PROVE  Inv'
<1> USE DEF StartIo
<1>1. /\ received = 0 /\ delivered = <<>> /\ m_byte_vec = <<>> /\ ~m_hdr_processed
      /\ UNCHANGED <<stream, received, io_state_chg, delivered, m_hdr_processed>>
  BY DEF Inv, Fresh
<1>2. Types /\ Whole /\ InOrder /\ io_started'
  BY DEF Inv
<1>3. Delivered' = <<>> /\ Delivered = <<>>
  BY <1>1 DEF Delivered, FlattenSeq
<1>4. InOrder'
  BY <1>1, <1>2, <1>3 DEF InOrder
<1>5. Whole'
  BY <1>1, <1>2 DEF Whole
<1>6. Fresh'
  BY <1>2 DEF Fresh
<1>7. /\ m_byte_vec' \in Seq(Nat) /\ mbuf' \in [first : Nat \ {0}, size : Nat]
      /\ filled' \in 0..mbuf'.size
      /\ Filling' /\ Part'
  <2>1. CASE ByDelimiter
    <3>1. UNCHANGED <<m_byte_vec, mbuf, filled>> /\ ByDelimiter'
      BY <1>1, <2>1 DEF ByDelimiter
    <3>2. m_byte_vec' \in Seq(Nat) /\ mbuf' \in [first : Nat \ {0}, size : Nat]
          /\ filled' \in 0..mbuf'.size
      BY <1>2, <3>1 DEF Types
    <3>3. Filled' = 0
      BY <1>1, <3>1 DEF Filled
    <3>4. Filling'
      BY <1>1, <1>3, <3>1, <3>3 DEF Filling
    <3>5. Part'
      BY <3>1 DEF Part, ByDelimiter
    <3> QED
      BY <3>2, <3>4, <3>5
  <2>2. CASE ~ByDelimiter
    <3>1. StartRead(Resize(m_byte_vec, io_state_chg.size), io_state_chg.size)
      BY <2>2
    <3>2. Len(Delivered') = received'
      BY <1>1, <1>3
    <3> QED
      BY <1>1, <1>2, <2>2, <3>1, <3>2, NewMessage
  <2> QED
    BY <2>1, <2>2
<1>8. Types'
  BY <1>1, <1>2, <1>7 DEF Types
<1> QED
  BY <1>4, <1>5, <1>6, <1>7, <1>8 DEF Inv

\* What ReadComplete and the invariant say of a read into the buffer.
LEMMA Buffered ==
    ASSUME Inv, reading, ~ByDelimiter
    PROVE  /\ mbuf.first \in Nat \ {0} /\ mbuf.size \in Nat \ {0} /\ filled \in 0..mbuf.size
           /\ Len(m_byte_vec) \in Nat /\ Len(m_byte_vec) = mbuf.first - 1 + mbuf.size
           /\ Len(Delivered) \in Nat
           /\ Len(Delivered) + (mbuf.first - 1 + filled) = received
           /\ \A i \in 1..(mbuf.first - 1 + filled) : m_byte_vec[i] = stream[Len(Delivered) + i]
<1>1. mbuf.first \in Nat \ {0} /\ mbuf.size \in Nat /\ filled \in 0..mbuf.size
  BY DEF Inv, Types
<1>2. Len(m_byte_vec) \in Nat
  BY DEF Inv, Types
<1>3. mbuf.size > 0 /\ mbuf.first + mbuf.size = Len(m_byte_vec) + 1
  BY DEF Inv, Filling
<1>4. Filled = mbuf.first - 1 + filled
  BY DEF Filled
<1>5. Len(Delivered) \in Nat
  <2>1. Delivered \in Seq(Nat)
    BY FlattenLonger DEF Inv, Types, Delivered
  <2> QED
    BY <2>1
<1>6. /\ Len(Delivered) + Filled = received
      /\ \A i \in 1..Filled : m_byte_vec[i] = stream[Len(Delivered) + i]
  BY DEF Inv, Filling
<1> QED
  BY <1>1, <1>2, <1>3, <1>4, <1>5, <1>6

\* the k bytes of w after the first a are those of s after the first c
SameBytes(w, a, k, s, c) == \A i \in 1..k : w[a + i] = s[c + i]

\* n bytes more, after the k that were read already.
LEMMA ReadOn ==
    ASSUME NEW k \in Nat, NEW n \in Nat, NEW c \in Nat, NEW s, NEW w,
           SameBytes(w, 0, k, s, c), SameBytes(w, k, n, s, c + k)
    PROVE  SameBytes(w, 0, k + n, s, c)
<1> SUFFICES ASSUME NEW i \in 1..(k + n) PROVE w[0 + i] = s[c + i]
  BY DEF SameBytes
<1>1. CASE i <= k
  BY <1>1 DEF SameBytes
<1>2. CASE ~(i <= k)
  <2> DEFINE j == i - k
  <2>1. j \in 1..n /\ 0 + i = k + j /\ (c + k) + j = c + i
    BY <1>2
  <2> HIDE DEF j
  <2>2. w[k + j] = s[(c + k) + j]
    BY <2>1 DEF SameBytes
  <2> QED
    BY <2>1, <2>2
<1> QED
  BY <1>1, <1>2

LEMMA ReceiveIsRight ==
    ASSUME Inv, NEW n \in 1..(Len(stream) - received), Receive(n)
    PROVE  Inv'
<1> DEFINE y == SubSeq(stream, received + 1, received + n)
<1>1. Types /\ Fresh /\ InOrder /\ Whole /\ Part /\ reading
  BY DEF Inv, Receive
<1>2. /\ UNCHANGED <<stream, io_state_chg, socket, io_started, mbuf, m_hdr_processed, reading,
                     delivered>>
      /\ received' = received + n
  BY DEF Receive
<1>3. /\ stream \in Seq(Nat) /\ Len(stream) \in Nat /\ received \in Nat /\ n \in Nat
      /\ received + n <= Len(stream)
  BY <1>1 DEF Types
<1>4. y \in Seq(Nat) /\ Len(y) = n /\ \A i \in 1..n : y[i] = stream[received + i]
  <2> DEFINE a == received + 1
             b == received + n
  <2>1. a \in Nat \ {0} /\ b \in 0..Len(stream) /\ a <= b + 1 /\ b - a + 1 = n /\ a - 1 = received
    BY <1>3
  <2> HIDE DEF a, b
  <2>2. LET s == SubSeq(stream, a, b)
        IN  /\ s \in Seq(Nat) /\ Len(s) = b - a + 1
            /\ \A i \in 1..(b - a + 1) : s[i] = stream[a - 1 + i]
    BY <1>3, <2>1, PartOf
  <2> QED
    BY <2>1, <2>2 DEF a, b
<1>5. Delivered' = Delivered /\ ByDelimiter' = ByDelimiter
  BY <1>2 DEF Delivered, ByDelimiter
<1>6. InOrder'
  <2>1. Len(Delivered) <= received /\ Len(Delivered) \in Nat
    <3>1. Delivered \in Seq(Nat)
      BY <1>1, FlattenLonger DEF Types, Delivered
    <3> QED
      BY <1>1, <3>1 DEF InOrder
  <2> QED
    BY <1>1, <1>2, <1>3, <1>5, <2>1 DEF InOrder
<1>7. Whole'
  BY <1>1, <1>2 DEF Whole
<1>8. Fresh'
  BY <1>1, <1>2 DEF Fresh
<1>9. m_byte_vec' \in Seq(Nat) /\ filled' \in 0..mbuf.size /\ Filling' /\ Part'
  <2>1. CASE ByDelimiter
    <3>1. m_byte_vec' = m_byte_vec \o y /\ filled' = filled
      BY <2>1 DEF Receive
    <3>2. m_byte_vec \in Seq(Nat) /\ filled \in 0..mbuf.size
      BY <1>1 DEF Types
    <3> HIDE DEF y
    <3>3. /\ m_byte_vec' \in Seq(Nat) /\ Len(m_byte_vec') = Len(m_byte_vec) + Len(y)
          /\ \A i \in 1..Len(m_byte_vec) : m_byte_vec'[i] = m_byte_vec[i]
          /\ \A i \in 1..Len(y) : m_byte_vec'[Len(m_byte_vec) + i] = y[i]
      BY <1>4, <3>1, <3>2, Concatenated
    <3>4. Filled = Len(m_byte_vec) /\ Filled' = Len(m_byte_vec')
      BY <1>5, <2>1 DEF Filled
    <3> DEFINE c == Len(Delivered)
               k == Len(m_byte_vec)
    <3>5. /\ c + k = received /\ c \in Nat /\ k \in Nat
          /\ \A i \in 1..k : m_byte_vec[i] = stream[c + i]
      <4>1. Delivered \in Seq(Nat)
        BY <1>1, FlattenLonger DEF Types, Delivered
      <4> QED
        BY <1>1, <3>2, <3>4, <4>1 DEF Inv, Filling
    <3>6. /\ k + n = Len(m_byte_vec') /\ \A i \in 1..k : m_byte_vec'[i] = m_byte_vec[i]
          /\ \A i \in 1..n : m_byte_vec'[k + i] = y[i]
      BY <1>4, <3>3
    <3>7. Len(Delivered') = c
      BY <1>5
    <3> HIDE DEF c, k
    <3>8. \A i \in 1..(k + n) : m_byte_vec'[i] = stream[c + i]
      <4> DEFINE w == m_byte_vec'
      <4>1. SameBytes(w, 0, k, stream, c)
        <5>1. \A i \in 1..k : 0 + i = i
          BY <3>5
        <5> QED
          BY <3>5, <3>6, <5>1 DEF SameBytes
      <4>2. SameBytes(w, k, n, stream, c + k)
        BY <1>4, <3>5, <3>6 DEF SameBytes
      <4>3. k \in Nat /\ c \in Nat /\ n \in Nat
        BY <1>3, <3>5
      <4> HIDE DEF w
      <4>4. SameBytes(w, 0, k + n, stream, c)
        BY <4>1, <4>2, <4>3, ReadOn
      <4>5. \A i \in 1..(k + n) : 0 + i = i
        BY <4>3
      <4> QED
        BY <4>4, <4>5 DEF w, SameBytes
    <3>9. Filled' = k + n /\ c + (k + n) = received'
      BY <1>2, <1>3, <3>4, <3>5, <3>6
    <3>10. Filling'
      BY <1>2, <1>5, <2>1, <3>7, <3>8, <3>9 DEF Filling
    <3>11. Part'
      BY <1>2, <2>1 DEF Part, ByDelimiter
    <3> QED
      BY <3>1, <3>2, <3>3, <3>10, <3>11
  <2>2. CASE ~ByDelimiter
    <3> DEFINE a == mbuf.first + filled
               v == m_byte_vec
    <3>1. /\ filled + n <= mbuf.size /\ filled' = filled + n
          /\ m_byte_vec' = SubSeq(v, 1, a - 1) \o y \o SubSeq(v, a + n, Len(v))
      BY <2>2 DEF Receive
    <3> HIDE DEF y
    <3>2. /\ mbuf.first \in Nat \ {0} /\ mbuf.size \in Nat \ {0} /\ filled \in 0..mbuf.size
          /\ Len(v) \in Nat /\ Len(v) = mbuf.first - 1 + mbuf.size
          /\ Len(Delivered) \in Nat
          /\ Len(Delivered) + (mbuf.first - 1 + filled) = received
          /\ \A i \in 1..(mbuf.first - 1 + filled) : v[i] = stream[Len(Delivered) + i]
      BY <1>1, <2>2, Buffered
    <3>3. v \in Seq(Nat)
      BY <1>1 DEF Types
    <3>4. m_byte_vec' = Splice(v, a, y) /\ a \in Nat \ {0} /\ a + Len(y) <= Len(v) + 1
      <4>1. Len(y) = n /\ n \in Nat
        BY <1>3, <1>4
      <4>2. m_byte_vec' = Splice(v, a, y)
        BY <3>1, <4>1 DEF Splice
      <4>3. a \in Nat \ {0}
        BY <3>2
      <4>4. a + n <= Len(v) + 1
        <5> DEFINE f == filled
                   z == mbuf.size
                   g == mbuf.first
        <5>1. /\ f \in Nat /\ z \in Nat /\ g \in Nat /\ f + n <= z /\ Len(v) = g - 1 + z
              /\ a = g + f
          BY <3>1, <3>2
        <5> HIDE DEF f, z, g, a
        <5> QED
          BY <4>1, <5>1
      <4> QED
        BY <4>1, <4>2, <4>3, <4>4
    <3>5. /\ m_byte_vec' \in Seq(Nat) /\ Len(m_byte_vec') = Len(v)
          /\ \A i \in 1..(a - 1) : m_byte_vec'[i] = v[i]
          /\ \A i \in 1..n : m_byte_vec'[a - 1 + i] = y[i]
      <4>1. Len(y) = n
        BY <1>4
      <4>2. y \in Seq(Nat)
        BY <1>4
      <4> DEFINE w == Splice(v, a, y)
      <4> HIDE DEF a, v
      <4>3. /\ w \in Seq(Nat) /\ Len(w) = Len(v)
            /\ \A i \in 1..(a - 1) : w[i] = v[i]
            /\ \A i \in 1..Len(y) : w[a - 1 + i] = y[i]
        BY <3>3, <3>4, <4>2, Spliced
      <4> HIDE DEF w
      <4>4. m_byte_vec' = w
        BY <3>4 DEF w
      <4> QED
        BY <4>1, <4>3, <4>4
    <3>6. filled' \in 0..mbuf.size
      <4> DEFINE f == filled
                 z == mbuf.size
      <4>1. f + n <= z /\ f \in Nat /\ z \in Nat /\ n \in Nat
        BY <1>3, <3>1, <3>2
      <4> HIDE DEF f, z
      <4>2. f + n \in 0..z
        BY <4>1
      <4> QED
        BY <3>1, <4>2 DEF f, z
    <3> DEFINE c == Len(Delivered)
               k == mbuf.first - 1 + filled
    <3>7. /\ c \in Nat /\ k \in Nat /\ c + k = received /\ a - 1 = k
          /\ \A i \in 1..k : v[i] = stream[c + i]
      BY <3>2
    <3>8. Filled' = k + n
      <4>1. Filled' = mbuf.first - 1 + (filled + n)
        BY <1>2, <1>5, <2>2, <3>1 DEF Filled
      <4> DEFINE f == filled
                 g == mbuf.first
      <4>2. f \in Nat /\ g \in Nat /\ n \in Nat /\ Filled' = g - 1 + (f + n) /\ k = g - 1 + f
        BY <1>3, <3>2, <4>1
      <4> HIDE DEF f, g, k
      <4> QED
        BY <4>2
    <3>9. /\ Len(Delivered') = c /\ mbuf' = mbuf /\ mbuf.size > 0
          /\ mbuf.first + mbuf.size = Len(m_byte_vec') + 1
      <4>1. Len(Delivered') = c /\ mbuf' = mbuf
        BY <1>2, <1>5
      <4> DEFINE z == mbuf.size
                 g == mbuf.first
                 l == Len(v)
      <4>2. z \in Nat \ {0} /\ g \in Nat /\ l = g - 1 + z
        BY <3>2
      <4>3. Len(m_byte_vec') = l
        BY <3>5
      <4> HIDE DEF z, g, l
      <4>4. z > 0 /\ g + z = l + 1
        BY <4>2
      <4> QED
        BY <4>1, <4>3, <4>4 DEF z, g
    <3>10. /\ \A i \in 1..k : m_byte_vec'[i] = v[i]
           /\ \A i \in 1..n : m_byte_vec'[k + i] = y[i]
      BY <3>5, <3>7
    <3> HIDE DEF c, k, a
    <3>11. \A i \in 1..(k + n) : m_byte_vec'[i] = stream[c + i]
      <4> DEFINE w == m_byte_vec'
      <4>1. SameBytes(w, 0, k, stream, c)
        <5>1. \A i \in 1..k : 0 + i = i
          BY <3>7
        <5> QED
          BY <3>7, <3>10, <5>1 DEF SameBytes
      <4>2. SameBytes(w, k, n, stream, c + k)
        BY <1>4, <3>7, <3>10 DEF SameBytes
      <4>3. k \in Nat /\ c \in Nat /\ n \in Nat
        BY <1>3, <3>7
      <4> HIDE DEF w
      <4>4. SameBytes(w, 0, k + n, stream, c)
        BY <4>1, <4>2, <4>3, ReadOn
      <4>5. \A i \in 1..(k + n) : 0 + i = i
        BY <4>3
      <4> QED
        BY <4>4, <4>5 DEF w, SameBytes
    <3>12. c + (k + n) = received'
      BY <1>2, <1>3, <3>7
    <3>13. Filling'
      BY <1>2, <3>8, <3>9, <3>11, <3>12 DEF Filling
    <3>14. \A i \in 1..(mbuf.first - 1) : m_byte_vec'[i] = v[i]
      <4>1. mbuf.first \in Nat /\ filled \in Nat
        BY <3>2
      <4>2. \A i \in 1..(mbuf.first - 1) : i \in 1..k
        BY <4>1 DEF k
      <4> QED
        BY <3>10, <4>2
    <3>15. Part'
      <4>1. PICK m : m = io_state_chg.size
        OBVIOUS
      <4>2. m \in Nat \ {0} /\ m_byte_vec' \in Seq(Nat)
        BY <1>1, <3>5, <4>1, ReadFramingAssumption DEF Types
      <4>3. io_state_chg.frame = "null_msg_frame" => mbuf.first = 1 /\ mbuf.size = m
        BY <1>1, <4>1 DEF Part
      <4>4. io_state_chg.frame = "simple_variable_len_msg_frame" =>
              IF m_hdr_processed
                THEN mbuf.first = m + 1 /\ mbuf.size = HeaderValue(SubSeq(m_byte_vec', 1, m))
                ELSE mbuf.first = 1 /\ mbuf.size = m
        <5> SUFFICES ASSUME io_state_chg.frame = "simple_variable_len_msg_frame", m_hdr_processed
                     PROVE  SubSeq(m_byte_vec', 1, m) = SubSeq(v, 1, m)
          BY <1>1, <4>1 DEF Part
        <5>1. mbuf.first = m + 1
          BY <1>1, <4>1 DEF Part
        <5> DEFINE w == m_byte_vec'
        <5>2. w \in Seq(Nat) /\ Len(w) = Len(v) /\ Len(v) \in Nat /\ m <= Len(v)
          BY <3>2, <3>5, <4>2, <5>1
        <5>3. \A i \in 1..m : w[i] = v[0 + i]
          BY <3>14, <4>2, <5>1
        <5>4. 0 + 1 = 1 /\ 0 + m = m /\ 1 \in Nat \ {0} /\ m \in 0..Len(w) /\ 1 <= m + 1
              /\ 0 \in Nat /\ 0 + m <= Len(v)
          BY <4>2, <5>2
        <5> HIDE DEF w, v
        <5>5. SubSeq(w, 1, m) = SubSeq(v, 0 + 1, 0 + m)
          BY <3>3, <5>2, <5>3, <5>4, SamePart
        <5> QED
          BY <5>4, <5>5 DEF w
      <4>5. io_state_chg.frame = "chained" =>
              \E B \in SUBSET (1..Len(m_byte_vec')) : Chunks(B, m_byte_vec, m)'
        <5> SUFFICES ASSUME io_state_chg.frame = "chained"
                     PROVE  \E B \in SUBSET (1..Len(m_byte_vec')) : Chunks(B, m_byte_vec, m)'
          OBVIOUS
        <5>1. PICK B \in SUBSET (1..Len(v)) : Chunks(B, v, m)
          BY <1>1, <4>1 DEF Part
        <5>2. \A b \in B : b < mbuf.first => m_byte_vec'[b] = v[b]
          BY <3>2, <3>14
        <5>3. Chunks(B, m_byte_vec, m)'
          BY <1>2, <3>5, <5>1, <5>2 DEF Chunks
        <5> QED
          BY <3>5, <5>3
      <4>6. io_state_chg' = io_state_chg /\ mbuf' = mbuf /\ m_hdr_processed' = m_hdr_processed
        BY <1>2
      <4>7. io_state_chg.frame = "chained" =>
              \E B \in SUBSET (1..Len(m_byte_vec')) : Chunks(B, m_byte_vec, io_state_chg.size)'
        BY <4>1, <4>5, <4>6 DEF Chunks
      <4> QED
        BY <4>1, <4>3, <4>4, <4>6, <4>7 DEF Part
    <3> QED
      BY <3>5, <3>6, <3>13, <3>15
  <2> QED
    BY <2>1, <2>2
<1>10. Types'
  <2>1. received' \in 0..Len(stream)
    BY <1>2, <1>3
  <2> QED
    BY <1>1, <1>2, <1>9, <2>1 DEF Types
<1> QED
  BY <1>6, <1>7, <1>8, <1>9, <1>10 DEF Inv

\* What the message frame says of a buffer that is full: it holds a message, or
\* it is the beginning of one and so many bytes follow.
LEMMA FrameIsRight ==
    ASSUME Inv, reading, ~ByDelimiter, filled = mbuf.size,
           NEW frame, frame = MsgFrame(SubSeq(m_byte_vec, mbuf.first, Len(m_byte_vec)))
    PROVE  /\ frame.next \in Nat
           /\ frame.next = 0 => ~frame.hdr /\ IsMessage(m_byte_vec, io_state_chg)
           /\ frame.next # 0 =>
                /\ io_state_chg.frame # "null_msg_frame"
                /\ io_state_chg.frame = "simple_variable_len_msg_frame" =>
                     /\ frame.hdr /\ Len(m_byte_vec) = io_state_chg.size
                     /\ frame.next = HeaderValue(SubSeq(m_byte_vec, 1, io_state_chg.size))
                /\ io_state_chg.frame = "chained" => frame.next = m_byte_vec[Len(m_byte_vec)]
<1> DEFINE v == m_byte_vec
           L == Len(v)
           first == mbuf.first
           c == Len(Delivered)
           n == io_state_chg.size
           chunk == SubSeq(v, first, L)
<1>1. /\ first \in Nat \ {0} /\ mbuf.size \in Nat \ {0}
      /\ L \in Nat /\ L = first - 1 + mbuf.size
      /\ c \in Nat /\ c + L = received
      /\ \A i \in 1..L : v[i] = stream[c + i]
  BY Buffered
<1>2. /\ v \in Seq(Nat) /\ stream \in Streams /\ stream \in Seq(Nat)
      /\ received <= Len(stream) /\ Len(stream) \in Nat
      /\ n \in Nat \ {0} /\ io_state_chg.frame \in Frames
  BY ReadFramingAssumption DEF Inv, Types
<1>3. io_state_chg.frame \in {"null_msg_frame", "simple_variable_len_msg_frame", "chained"}
  BY <1>2 DEF ByDelimiter, Frames
<1>4. first \in 1..L /\ L \in 1..L /\ L > 0
  BY <1>1
<1>5. frame = MsgFrame(chunk)
  OBVIOUS
<1>6. /\ io_state_chg.frame = "null_msg_frame" => first = 1 /\ mbuf.size = n
      /\ io_state_chg.frame = "simple_variable_len_msg_frame" =>
           IF m_hdr_processed
             THEN first = n + 1 /\ mbuf.size = HeaderValue(SubSeq(v, 1, n))
             ELSE first = 1 /\ mbuf.size = n
      /\ io_state_chg.frame = "chained" => \E B \in SUBSET (1..L) : Chunks(B, v, n)
  BY DEF Inv, Part
<1> HIDE DEF v, L, first, c, n, chunk
<1>7. chunk = SubSeq(stream, c + first, c + L)
  <2>1. \A k \in first..L : v[k] = stream[c + k]
    BY <1>1
  <2>2. L \in 0..Len(v) /\ first <= L + 1
    BY <1>1, <1>4 DEF L
  <2>3. c + L <= Len(stream)
    BY <1>1, <1>2
  <2>4. first \in Nat \ {0} /\ c \in Nat
    BY <1>1
  <2>5. SubSeq(v, first, L) = SubSeq(stream, c + first, c + L)
    BY <1>2, <2>1, <2>2, <2>3, <2>4, SamePart
  <2> QED
    BY <2>5 DEF chunk
<1>8. HeaderValue(chunk) \in Nat
  <2> DEFINE i == c + first
             j == c + L
  <2>1. i \in 1..Len(stream) /\ j \in i..Len(stream)
    <3>1. first \in Nat /\ first > 0 /\ first <= L /\ c \in Nat /\ L \in Nat
      BY <1>1, <1>4
    <3>2. j <= Len(stream) /\ Len(stream) \in Nat
      BY <1>1, <1>2
    <3>3. i > 0 /\ i <= j /\ i \in Nat /\ j \in Nat
      BY <3>1
    <3> HIDE DEF i, j
    <3> QED
      BY <3>2, <3>3
  <2> HIDE DEF i, j
  <2>2. HeaderValue(SubSeq(stream, i, j)) \in Nat
    BY <1>2, <2>1, ReadFramingAssumption
  <2> QED
    BY <1>7, <2>2 DEF i, j
<1>9. Last(chunk) = v[L] /\ v[L] \in Nat
  <2>1. L \in 0..Len(v) /\ first <= L + 1
    <3>1. L = Len(v)
      BY DEF L
    <3>2. L \in 0..L /\ first <= L + 1
      BY <1>1, <1>4
    <3> QED
      BY <3>1, <3>2
  <2>2. Len(chunk) = L - first + 1 /\ \A k \in 1..(L - first + 1) : chunk[k] = v[first - 1 + k]
    BY <1>1, <1>2, <2>1, PartOf DEF chunk
  <2>3. L - first + 1 \in 1..(L - first + 1) /\ first - 1 + (L - first + 1) = L
    <3>1. first \in Nat /\ L \in Nat /\ first <= L
      BY <1>1, <1>4
    <3> QED
      BY <3>1
  <2>4. v[L] \in Nat
    BY <1>2, <1>4 DEF L
  <2> QED
    BY <2>2, <2>3, <2>4 DEF Last
<1>10. CASE io_state_chg.frame = "null_msg_frame"
  <2>1. frame = [next |-> 0, hdr |-> FALSE]
    BY <1>5, <1>10 DEF MsgFrame
  <2>2. Len(v) = n
    BY <1>1, <1>2, <1>6, <1>10 DEF L
  <2>3. IsMessage(v, io_state_chg)
    BY <1>10, <2>2 DEF IsMessage, n
  <2> QED
    BY <2>1, <2>3 DEF v
<1>11. CASE io_state_chg.frame = "simple_variable_len_msg_frame"
  <2>1. frame = IF m_hdr_processed THEN [next |-> 0, hdr |-> FALSE]
                ELSE [next |-> HeaderValue(chunk), hdr |-> HeaderValue(chunk) # 0]
    BY <1>5, <1>11 DEF MsgFrame
  <2>2. IsMessage(v, io_state_chg) <=> Len(v) >= n /\ Len(v) = n + HeaderValue(SubSeq(v, 1, n))
    BY <1>11 DEF IsMessage, n
  <2>3. ASSUME m_hdr_processed
        PROVE  frame.next = 0 /\ ~frame.hdr /\ IsMessage(v, io_state_chg)
    <3>1. frame = [next |-> 0, hdr |-> FALSE]
      BY <2>1, <2>3
    <3>2. first = n + 1 /\ mbuf.size = HeaderValue(SubSeq(v, 1, n))
      BY <1>6, <1>11, <2>3
    <3>3. Len(v) >= n /\ Len(v) = n + HeaderValue(SubSeq(v, 1, n))
      BY <1>1, <1>2, <3>2 DEF L
    <3> QED
      BY <2>2, <3>1, <3>3
  <2>4. ASSUME ~m_hdr_processed
        PROVE  /\ frame.next = HeaderValue(SubSeq(v, 1, n)) /\ frame.next \in Nat
               /\ frame.hdr <=> frame.next # 0
               /\ Len(v) = n
               /\ frame.next = 0 => IsMessage(v, io_state_chg)
    <3>1. frame = [next |-> HeaderValue(chunk), hdr |-> HeaderValue(chunk) # 0]
      BY <2>1, <2>4
    <3>2. first = 1 /\ L = n
      BY <1>1, <1>2, <1>6, <1>11, <2>4
    <3>3. chunk = SubSeq(v, 1, n) /\ Len(v) = n
      BY <3>2 DEF chunk, L
    <3>4. frame.next = HeaderValue(chunk) /\ (frame.hdr <=> frame.next # 0)
      <4>1. frame.next = HeaderValue(chunk) /\ frame.hdr = (HeaderValue(chunk) # 0)
        BY <3>1
      <4> QED
        BY <4>1, Zenon
    <3>5. frame.next = 0 => IsMessage(v, io_state_chg)
      BY <1>2, <2>2, <3>3, <3>4
    <3> QED
      BY <1>8, <3>3, <3>4, <3>5
  <2> QED
    BY <1>11, <2>3, <2>4 DEF v, n
<1>12. CASE io_state_chg.frame = "chained"
  <2>1. frame = [next |-> v[L], hdr |-> FALSE]
    BY <1>5, <1>9, <1>12 DEF MsgFrame
  <2>2. frame.next = v[L] /\ ~frame.hdr
    BY <2>1
  <2>3. ASSUME v[L] = 0
        PROVE  IsMessage(v, io_state_chg)
    <3>1. PICK B \in SUBSET (1..L) : Chunks(B, v, n)
      BY <1>6, <1>12
    <3>2. /\ n \in B /\ Len(v) \in B /\ v[Len(v)] = 0
          /\ \A b \in B : b = Len(v) \/ (v[b] > 0 /\ b + v[b] \in B)
      BY <2>3, <3>1 DEF Chunks, L
    <3>3. B \in SUBSET (1..Len(v))
      BY <3>1 DEF L
    <3>4. ChainEnds(v, n)
      BY <1>2, <3>2, <3>3, ChainOfChunks
    <3> QED
      BY <1>12, <3>4 DEF IsMessage, n
  <2> QED
    BY <1>9, <1>12, <2>2, <2>3 DEF v, L
<1> QED
  BY <1>3, <1>10, <1>11, <1>12

LEMMA HandleReadIsRight ==
    ASSUME Inv, NEW ok \in BOOLEAN, HandleRead(ok)
    PROVE  Inv'
<1> DEFINE v == m_byte_vec
           c == Len(Delivered)
           L == Len(v)
<1>1. PICK frame : frame = MsgFrame(SubSeq(m_byte_vec, mbuf.first, Len(m_byte_vec)))
  OBVIOUS
<1>2. /\ reading /\ ~ByDelimiter /\ filled = mbuf.size
      /\ UNCHANGED <<stream, received, io_state_chg, socket, io_started>>
  BY DEF HandleRead, ReadComplete
<1>3. m_hdr_processed' = frame.hdr
  BY <1>1 DEF HandleRead
<1>4. Types /\ Fresh /\ InOrder /\ Part /\ Whole
  BY DEF Inv
<1>5. /\ v \in Seq(Nat) /\ L \in Nat /\ L > 0 /\ c \in Nat /\ c + L = received
      /\ \A i \in 1..L : v[i] = stream[c + i]
      /\ mbuf.first - 1 < L
  <2>1. /\ mbuf.first \in Nat \ {0} /\ mbuf.size \in Nat \ {0}
        /\ L \in Nat /\ L = mbuf.first - 1 + mbuf.size
        /\ c \in Nat /\ c + (mbuf.first - 1 + mbuf.size) = received
        /\ \A i \in 1..(mbuf.first - 1 + mbuf.size) : v[i] = stream[c + i]
    BY <1>2, Buffered
  <2>2. v \in Seq(Nat)
    BY <1>4 DEF Types
  <2> HIDE DEF v, L, c
  <2>3. L > 0 /\ mbuf.first - 1 < L
    BY <2>1
  <2> QED
    BY <2>1, <2>2, <2>3
<1> HIDE DEF L
<1>6. /\ frame.next \in Nat
      /\ frame.next = 0 => ~frame.hdr /\ IsMessage(m_byte_vec, io_state_chg)
      /\ frame.next # 0 =>
           /\ io_state_chg.frame # "null_msg_frame"
           /\ io_state_chg.frame = "simple_variable_len_msg_frame" =>
                /\ frame.hdr /\ Len(m_byte_vec) = io_state_chg.size
                /\ frame.next = HeaderValue(SubSeq(m_byte_vec, 1, io_state_chg.size))
           /\ io_state_chg.frame = "chained" => frame.next = m_byte_vec[Len(m_byte_vec)]
  BY <1>1, <1>2, FrameIsRight
<1>7. Fresh'
  <2>1. ~(socket = "open" /\ ~io_started)
    BY <1>2, <1>4 DEF Fresh
  <2> QED
    BY <1>2, <2>1 DEF Fresh
<1>8. CASE frame.next = 0
  <2>1. delivered' = Append(delivered, v)
    BY <1>1, <1>8 DEF HandleRead, Handle
  <2>2. \/ StartRead(Resize(m_byte_vec, io_state_chg.size), io_state_chg.size)
        \/ ~reading' /\ UNCHANGED <<m_byte_vec, mbuf, filled>>
    BY <1>1, <1>8 DEF HandleRead
  <2>3. delivered' \in Seq(Seq(Nat)) /\ InOrder' /\ Whole' /\ Len(Delivered') = c + L
    <3>1. v \in Seq(Nat) /\ Len(Delivered) + Len(v) <= received
          /\ \A i \in 1..Len(v) : v[i] = stream[Len(Delivered) + i]
      BY <1>4, <1>5 DEF Types, L
    <3>2. IsMessage(v, io_state_chg)
      BY <1>6, <1>8
    <3>3. Types /\ InOrder /\ Whole /\ UNCHANGED <<stream, received, io_state_chg>>
      BY <1>2, <1>4
    <3> HIDE DEF v
    <3>4. /\ delivered' \in Seq(Seq(Nat)) /\ InOrder' /\ Whole'
          /\ Len(Delivered') = Len(Delivered) + Len(v)
      BY <2>1, <3>1, <3>2, <3>3, Delivers
    <3> QED
      BY <3>4 DEF L
  <2>4. /\ m_byte_vec' \in Seq(Nat) /\ mbuf' \in [first : Nat \ {0}, size : Nat]
        /\ filled' \in 0..mbuf'.size
        /\ Filling' /\ Part'
    <3>1. CASE StartRead(Resize(m_byte_vec, io_state_chg.size), io_state_chg.size)
      <4>1. ~m_hdr_processed'
        BY <1>3, <1>6, <1>8, Zenon
      <4>2. Len(Delivered') = received' /\ UNCHANGED <<received, io_state_chg>>
        BY <1>2, <1>5, <2>3
      <4> QED
        BY <1>2, <1>4, <3>1, <4>1, <4>2, NewMessage
    <3>2. CASE ~reading' /\ UNCHANGED <<m_byte_vec, mbuf, filled>>
      BY <1>4, <3>2 DEF Types, Filling, Part
    <3> QED
      BY <2>2, <3>1, <3>2
  <2>5. Types'
    BY <1>2, <1>4, <2>3, <2>4 DEF Types
  <2> QED
    BY <1>7, <2>3, <2>4, <2>5 DEF Inv
<1>9. CASE frame.next # 0
  <2>1. PICK k : k = frame.next
    OBVIOUS
  <2>2. k \in Nat \ {0}
    BY <1>6, <1>9, <2>1
  <2> DEFINE w == Resize(v, L + k)
  <2>3. w \in Seq(Nat) /\ Len(w) = L + k /\ \A i \in 1..L : w[i] = v[i]
    <3> HIDE DEF v
    <3>1. L + k \in Nat
      BY <1>5, <2>2
    <3>2. \A i \in 1..L : i <= L + k
      BY <1>5, <2>2
    <3> QED
      BY <1>5, <3>1, <3>2, Resized DEF L
  <2>4. StartRead(w, k) /\ delivered' = delivered
    BY <1>1, <1>9, <2>1 DEF HandleRead, L
  <2>5. m_byte_vec' = w /\ filled' = 0 /\ mbuf' = [first |-> L + 1, size |-> k]
    <3>1. Len(w) - k + 1 = L + 1
      <4> HIDE DEF w
      <4> QED
        BY <1>5, <2>2, <2>3
    <3> QED
      BY <2>4, <3>1 DEF StartRead
  <2> HIDE DEF w
  <2>6. /\ Delivered' = Delivered /\ ~ByDelimiter'
    BY <1>2, <2>4 DEF Delivered, ByDelimiter
  <2>7. mbuf'.first = L + 1 /\ mbuf'.size = k
    BY <2>5
  <2>8. mbuf' \in [first : Nat \ {0}, size : Nat] /\ filled' \in 0..mbuf'.size
    BY <1>5, <2>2, <2>5
  <2>9. InOrder' /\ Whole'
    BY <1>2, <1>4, <2>4, <2>6 DEF InOrder, Whole
  <2>10. Types'
    BY <1>2, <1>4, <2>3, <2>4, <2>5, <2>8 DEF Types
  <2>11. Filling'
    <3>1. Filled' = L
      BY <1>5, <2>5, <2>6, <2>7 DEF Filled
    <3>2. Len(Delivered') = c /\ stream' = stream /\ received' = received
      BY <1>2, <2>6
    <3>3. c + Filled' = received
      BY <1>5, <3>1
    <3>4. \A i \in 1..Filled' : m_byte_vec'[i] = stream[c + i]
      BY <1>5, <2>3, <2>5, <3>1
    <3>5. mbuf'.size > 0 /\ mbuf'.first + mbuf'.size = Len(m_byte_vec') + 1
      <4>1. Len(m_byte_vec') = L + k
        BY <2>3, <2>5
      <4> QED
        BY <1>5, <2>2, <2>7, <4>1
    <3> QED
      BY <3>2, <3>3, <3>4, <3>5 DEF Filling
  <2>12. Part'
    <3>1. PICK n : n = io_state_chg.size
      OBVIOUS
    <3>2. io_state_chg' = io_state_chg
      BY <1>2
    <3>3. n \in Nat \ {0}
      BY <1>4, <3>1, ReadFramingAssumption DEF Types
    <3>4. io_state_chg.frame = "simple_variable_len_msg_frame" =>
            m_hdr_processed' /\ mbuf'.first = n + 1
              /\ mbuf'.size = HeaderValue(SubSeq(m_byte_vec', 1, n))
      <4> SUFFICES ASSUME io_state_chg.frame = "simple_variable_len_msg_frame"
                   PROVE  m_hdr_processed' /\ mbuf'.first = n + 1
                            /\ mbuf'.size = HeaderValue(SubSeq(m_byte_vec', 1, n))
        OBVIOUS
      <4>1. frame.hdr /\ L = n /\ k = HeaderValue(SubSeq(v, 1, n))
        BY <1>6, <1>9, <2>1, <3>1 DEF L
      <4>2. m_hdr_processed'
        BY <1>3, <4>1, Zenon
      <4>3. SubSeq(v, 1, n) = SubSeq(w, 1, n)
        <5>1. \A i \in 1..n : v[i] = w[0 + i]
          BY <2>3, <3>3, <4>1
        <5>2. 0 + 1 = 1 /\ 0 + n = n /\ n \in 0..Len(v) /\ 1 <= n + 1 /\ 0 + n <= Len(w)
          BY <2>2, <2>3, <3>3, <4>1 DEF L
        <5>3. v \in Seq(Nat) /\ 1 \in Nat \ {0} /\ 0 \in Nat
          BY <1>5
        <5> HIDE DEF v
        <5>4. SubSeq(v, 1, n) = SubSeq(w, 0 + 1, 0 + n)
          BY <2>3, <5>1, <5>2, <5>3, SamePart
        <5> QED
          BY <5>2, <5>4
      <4> QED
        BY <2>5, <2>7, <4>1, <4>2, <4>3
    <3>5. io_state_chg.frame = "chained" =>
            \E B \in SUBSET (1..Len(m_byte_vec')) : Chunks(B, m_byte_vec, n)'
      <4> SUFFICES ASSUME io_state_chg.frame = "chained"
                   PROVE  \E B \in SUBSET (1..Len(m_byte_vec')) : Chunks(B, m_byte_vec, n)'
        OBVIOUS
      <4>1. PICK A \in SUBSET (1..L) : Chunks(A, v, n)
        BY <1>2, <1>4, <3>1 DEF Part, L
      <4>2. k = v[L]
        BY <1>6, <1>9, <2>1 DEF L
      <4>0. PICK B : B = A \cup {L + k}
        OBVIOUS
      <4>3. /\ n \in A /\ L \in A
            /\ \A b \in A : b = L \/ (b < L /\ v[b] > 0 /\ b + v[b] \in A)
        <5>1. /\ n \in A /\ L \in A
              /\ \A b \in A : b = L \/ (b < mbuf.first /\ v[b] > 0 /\ b + v[b] \in A)
          BY <4>1 DEF Chunks, L
        <5>2. \A b \in A : b \in 1..L
          BY <4>1
        <5>3. \A b \in A : b < mbuf.first => b < L
          <6>1. mbuf.first \in Nat
            BY <1>4 DEF Types
          <6> QED
            BY <1>5, <5>2, <6>1
        <5> QED
          BY <5>1, <5>3
      <4>4. \A b \in A : b \in 1..L /\ w[b] = v[b] /\ b < L + 1
        <5>1. \A b \in 1..L : b < L + 1
          BY <1>5
        <5>2. \A b \in 1..L : w[b] = v[b]
          BY <2>3
        <5> QED
          BY <4>1, <5>1, <5>2
      <4>5. B \in SUBSET (1..(L + k)) /\ n \in B /\ L + k \in B
        <5>1. \A b \in 1..L : b \in 1..(L + k)
          BY <1>5, <2>2
        <5>2. L + k \in 1..(L + k)
          BY <1>5, <2>2
        <5> QED
          BY <4>0, <4>3, <4>4, <5>1, <5>2
      <4>6. \A b \in B : b = L + k \/ (b < L + 1 /\ w[b] > 0 /\ b + w[b] \in B)
        <5> SUFFICES ASSUME NEW b \in A PROVE b < L + 1 /\ w[b] > 0 /\ b + w[b] \in B
          BY <4>0
        <5>1. CASE b = L
          <6>1. w[b] = k /\ b < L + 1
            BY <4>2, <4>4, <5>1
          <6> QED
            BY <2>2, <4>0, <5>1, <6>1
        <5>2. CASE b # L
          BY <4>0, <4>3, <4>4, <5>2
        <5> QED
          BY <5>1, <5>2
      <4>7. m_byte_vec' = w /\ Len(w) = L + k /\ mbuf'.first = L + 1
        BY <2>3, <2>5, <2>7
      <4>8. Chunks(B, m_byte_vec, n)'
        <5>1. /\ B \subseteq 1..Len(w) /\ n \in B /\ Len(w) \in B
              /\ \A b \in B : b = Len(w) \/ (b < mbuf'.first /\ w[b] > 0 /\ b + w[b] \in B)
          BY <4>5, <4>6, <4>7
        <5> QED
          BY <4>7, <5>1 DEF Chunks
      <4> QED
        BY <4>5, <4>7, <4>8
    <3>6. io_state_chg.frame = "chained" =>
            \E B \in SUBSET (1..Len(m_byte_vec')) : Chunks(B, m_byte_vec, io_state_chg.size)'
      BY <3>1, <3>2, <3>5 DEF Chunks
    <3>7. io_state_chg.frame # "null_msg_frame"
      BY <1>6, <1>9
    <3> QED
      BY <3>1, <3>2, <3>4, <3>6, <3>7 DEF Part
  <2> QED
    BY <1>7, <2>9, <2>10, <2>11, <2>12 DEF Inv
<1> QED
  BY <1>8, <1>9

LEMMA HandleReadUntilIsRight ==
    ASSUME Inv, NEW ok \in BOOLEAN, HandleReadUntil(ok)
    PROVE  Inv'
<1>1. PICK d : d = io_state_chg.delim
  OBVIOUS
<1>2. PICK v : v = m_byte_vec
  OBVIOUS
<1>3. PICK e : e = DelimiterEnd(v, d)
  OBVIOUS
<1>4. PICK c : c = Len(Delivered)
  OBVIOUS
<1> DEFINE m == SubSeq(v, 1, e)
           L == Len(v)
<1>5. /\ reading /\ ByDelimiter /\ e > 0
      /\ UNCHANGED <<stream, received, io_state_chg, socket, io_started, mbuf, filled,
                     m_hdr_processed>>
      /\ delivered' = Append(delivered, m)
      /\ m_byte_vec' = IF ok THEN SubSeq(v, e + 1, L) ELSE v
      /\ reading' => ok
  BY <1>1, <1>2, <1>3 DEF HandleReadUntil, ReadComplete, Handle
<1>6. Types /\ Fresh /\ InOrder /\ Whole
  BY DEF Inv
<1>7. d \in Seq(Nat) \ {<<>>} /\ v \in Seq(Nat) /\ L \in Nat
  BY <1>1, <1>2, <1>6, ReadFramingAssumption DEF Types
<1>8. e \in 1..L /\ DelimiterEnd(m, d) = e
  BY <1>3, <1>5, <1>7, FirstDelimiter
<1>9. m \in Seq(Nat) /\ Len(m) = e /\ \A i \in 1..e : m[i] = v[i]
  <2>1. e \in 0..Len(v) /\ 1 <= e + 1 /\ e - 1 + 1 = e /\ \A i \in 1..e : 1 - 1 + i = i
    BY <1>7, <1>8
  <2> QED
    BY <1>7, <2>1, PartOf
<1>10. c \in Nat /\ c + L = received /\ \A i \in 1..L : v[i] = stream[c + i]
  <2>1. Filled = L
    BY <1>2, <1>5 DEF Filled
  <2>2. Delivered \in Seq(Nat)
    BY <1>6, FlattenLonger DEF Types, Delivered
  <2> QED
    BY <1>2, <1>4, <1>5, <2>1, <2>2 DEF Inv, Filling
<1> HIDE DEF m
<1>11. IsMessage(m, io_state_chg)
  <2>1. io_state_chg.frame = "delimiter"
    BY <1>5 DEF ByDelimiter
  <2>2. Len(m) > 0 /\ DelimiterEnd(m, d) = Len(m)
    BY <1>8, <1>9
  <2> QED
    BY <1>1, <2>1, <2>2 DEF IsMessage
<1> HIDE DEF L
<1>12. delivered' \in Seq(Seq(Nat)) /\ InOrder' /\ Whole' /\ Len(Delivered') = c + e
  <2>1. Len(Delivered) + Len(m) <= received
    BY <1>4, <1>7, <1>8, <1>9, <1>10
  <2>2. \A i \in 1..Len(m) : m[i] = stream[Len(Delivered) + i]
    <3>1. \A i \in 1..e : i \in 1..L
      BY <1>7, <1>8
    <3>2. \A i \in 1..e : m[i] = stream[c + i]
      BY <1>9, <1>10, <3>1
    <3> QED
      BY <1>4, <1>9, <3>2
  <2>3. delivered' \in Seq(Seq(Nat)) /\ InOrder' /\ Whole'
        /\ Len(Delivered') = Len(Delivered) + Len(m)
    BY <1>5, <1>6, <1>9, <1>11, <2>1, <2>2, Delivers
  <2> QED
    BY <1>4, <1>9, <2>3
<1>13. ASSUME ok
       PROVE  /\ m_byte_vec' \in Seq(Nat) /\ Len(m_byte_vec') = L - e
              /\ \A i \in 1..(L - e) : m_byte_vec'[i] = v[e + i]
  <2>1. m_byte_vec' = SubSeq(v, e + 1, L)
    BY <1>5, <1>13
  <2> DEFINE a == e + 1
  <2>2. a \in Nat \ {0} /\ L \in 0..Len(v) /\ a <= L + 1 /\ L - a + 1 = L - e /\ a - 1 = e
    BY <1>7, <1>8 DEF L
  <2>3. m_byte_vec' = SubSeq(v, a, L)
    BY <2>1
  <2> HIDE DEF a
  <2> QED
    BY <1>7, <2>2, <2>3, PartOf
<1>14. Types'
  <2>1. m_byte_vec' \in Seq(Nat)
    BY <1>5, <1>7, <1>13
  <2> QED
    BY <1>5, <1>6, <1>12, <2>1 DEF Types
<1>15. Fresh'
  BY <1>5, <1>6 DEF Fresh
<1>16. ByDelimiter'
  BY <1>5 DEF ByDelimiter
<1>17. Filling'
  <2> SUFFICES ASSUME ok PROVE Filling'
    BY <1>5 DEF Filling
  <2>1. Filled' = L - e
    BY <1>13, <1>16 DEF Filled
  <2>2. (c + e) + (L - e) = received
    BY <1>7, <1>8, <1>10
  <2>3. \A i \in 1..(L - e) : e + i \in 1..L /\ c + (e + i) = (c + e) + i
    BY <1>7, <1>8, <1>10
  <2>4. \A i \in 1..(L - e) : m_byte_vec'[i] = stream[(c + e) + i]
    BY <1>10, <1>13, <2>3
  <2> QED
    BY <1>5, <1>12, <1>16, <2>1, <2>2, <2>4 DEF Filling
<1>18. Part'
  BY <1>16 DEF Part, ByDelimiter
<1> QED
  BY <1>12, <1>14, <1>15, <1>17, <1>18 DEF Inv

LEMMA NextIsRight == Inv /\ [Next]_vars => Inv'
<1> SUFFICES ASSUME Inv, [Next]_vars PROVE Inv'
  OBVIOUS
<1>1. CASE StartIo
  BY <1>1, StartIoIsRight
<1>2. CASE StopIo
  BY <1>2, NothingRead DEF StopIo, Close, Fresh
<1>3. CASE PostedClose
  BY <1>3, NothingRead DEF PostedClose, Close, Fresh
<1>4. CASE ReadFails
  BY <1>4, NothingRead DEF ReadFails, Close, Fresh
<1>5. CASE Arrives
  BY <1>5, ReceiveIsRight DEF Arrives
<1>6. CASE \E ok \in BOOLEAN : HandleRead(ok) \/ HandleReadUntil(ok)
  BY <1>6, HandleReadIsRight, HandleReadUntilIsRight
<1>7. CASE UNCHANGED vars
  <2>1. UNCHANGED <<stream, received, io_state_chg, socket, io_started, m_byte_vec, mbuf, filled,
                    m_hdr_processed, reading, delivered>>
    BY <1>7 DEF vars
  <2>2. Fresh'
    BY <2>1 DEF Inv, Fresh
  <2> QED
    BY <2>1, <2>2, NothingRead
<1> QED
  BY <1>1, <1>2, <1>3, <1>4, <1>5, <1>6, <1>7 DEF Next, RunStep

\* Whatever the peer sends, in whatever pieces it arrives, and however start_io
\* asked for it: handle_read and handle_read_until (tcp_io.hpp:236, :269) give
\* the message handler whole messages only, one after the other as they were
\* sent, with no byte lost, repeated or left between them
\* (basic_io_interface.hpp:198).  Bytes of the next message that async_read_until
\* has read too are kept, and what m_byte_vec still holds of the message before
\* is never given again.
THEOREM FramingIsRight == Spec => []CutsStream
<1>1. Inv => CutsStream
  <2> SUFFICES ASSUME Inv PROVE CutsStream
    OBVIOUS
  <2>1. PICK d : d = Delivered
    OBVIOUS
  <2>2. PICK s : s = SubSeq(stream, 1, received)
    OBVIOUS
  <2>3. d \in Seq(Nat)
    BY <2>1, FlattenLonger DEF Inv, Types, Delivered
  <2>4. stream \in Seq(Nat) /\ Len(stream) \in Nat /\ received \in 0..Len(stream)
    BY DEF Inv, Types
  <2>5. s \in Seq(Nat) /\ Len(s) = received /\ \A i \in 1..received : s[i] = stream[i]
    <3>1. 1 <= received + 1 /\ received - 1 + 1 = received
          /\ \A i \in 1..received : 1 - 1 + i = i
      BY <2>4
    <3> QED
      BY <2>2, <2>4, <3>1, PartOf
  <2>6. Len(d) <= received /\ \A i \in 1..Len(d) : d[i] = stream[i]
    BY <2>1 DEF Inv, InOrder
  <2>7. d = SubSeq(s, 1, Len(d))
    <3> DEFINE t == SubSeq(s, 1, Len(d))
    <3>1. Len(d) \in 0..Len(s) /\ 1 <= Len(d) + 1 /\ Len(d) - 1 + 1 = Len(d)
          /\ \A i \in 1..Len(d) : 1 - 1 + i = i /\ i \in 1..received
      BY <2>3, <2>4, <2>5, <2>6
    <3>2. t \in Seq(Nat) /\ Len(t) = Len(d) /\ \A i \in 1..Len(d) : t[i] = s[i]
      BY <2>5, <3>1, PartOf
    <3>3. \A i \in 1..Len(d) : t[i] = d[i]
      BY <2>5, <2>6, <3>1, <3>2
    <3> HIDE DEF t
    <3>4. t = d
      BY <2>3, <3>2, <3>3, SeqEqual
    <3> QED
      BY <3>4 DEF t
  <2>8. IsPrefix(Delivered, SubSeq(stream, 1, received))
    BY <2>1, <2>2, <2>5, <2>6, <2>7 DEF IsPrefix
  <2> QED
    BY <2>8 DEF CutsStream, Inv, Whole
<1> QED
  BY <1>1, InitIsRight, NextIsRight, PTL DEF Spec

=============================================================================
